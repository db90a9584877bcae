---------------------------- MODULE CmrPreview_proofs ----------------------------
(***************************************************************************)
(* Proofs about CmrPreview, for any lengths of the queues and any number   *)
(* of recoveries, and with device errors, face detection, messages that    *)
(* cannot be sent and a late main thread in the same session (Scopes),     *)
(* which is out of TLC's reach.                                            *)
(*                                                                         *)
(* Each property depends on where the messages are: a call of the HAL, the *)
(* frames and the request of the preview thread are passed from queue to   *)
(* thread to semaphore.  The invariant says that each is in one place.     *)
(***************************************************************************)
EXTENDS CmrPreview, TLAPS

-----------------------------------------------------------------------------
(* The queues of the three threads                                         *)

\* The calls of the HAL that the main thread executes.
Calls == {"start", "stop", "exit"}

\* A message m waits in the queue q.
Has(q, m) == \E i \in DOMAIN q : q[i] = m

\* At most one message of the set M waits in q.
Once(q, M) == \A i, j \in DOMAIN q : q[i] \in M /\ q[j] \in M => i = j


\* An empty queue.
LEMMA QueueEmpty ==
    ASSUME NEW M
    PROVE  /\ << >> \in Seq(M) /\ Len(<< >>) = 0
           /\ \A x : ~Has(<< >>, x)
           /\ \A S : Once(<< >>, S)
  BY DEF Has, Once

\* cmr_msg_post: the last message is the new one, the others are still there.
LEMMA QueueAppend ==
    ASSUME NEW M, NEW q \in Seq(M), NEW m \in M
    PROVE  /\ Append(q, m) \in Seq(M)
           /\ Append(q, m) # << >>
           /\ Len(Append(q, m)) = Len(q) + 1
           /\ Append(q, m)[Len(Append(q, m))] = m
           /\ \A x : Has(Append(q, m), x) <=> Has(q, x) \/ x = m
           /\ \A S : Once(q, S) /\ (m \in S => \A x \in S : ~Has(q, x)) => Once(Append(q, m), S)
<1> DEFINE a == Append(q, m)
<1>1. /\ a \in Seq(M) /\ Len(a) = Len(q) + 1 /\ Len(q) \in Nat
      /\ DOMAIN a = 1 .. Len(q) + 1 /\ DOMAIN q = 1 .. Len(q)
      /\ \A i \in 1 .. Len(q) : a[i] = q[i]
      /\ a[Len(q) + 1] = m
  OBVIOUS
<1> HIDE DEF a
<1>2. a # << >>
  BY <1>1
<1>3. ASSUME NEW x PROVE Has(a, x) <=> Has(q, x) \/ x = m
  <2>1. ASSUME Has(a, x) PROVE Has(q, x) \/ x = m
    BY <1>1, <2>1 DEF Has
  <2>2. ASSUME Has(q, x) PROVE Has(a, x)
    <3>1. PICK i \in 1 .. Len(q) : q[i] = x
      BY <1>1, <2>2 DEF Has
    <3>2. i \in DOMAIN a /\ a[i] = x
      BY <1>1, <3>1
    <3> QED BY <3>2 DEF Has
  <2>3. ASSUME x = m PROVE Has(a, x)
    <3>1. Len(q) + 1 \in DOMAIN a /\ a[Len(q) + 1] = x
      BY <1>1, <2>3
    <3> QED BY <3>1 DEF Has
  <2> QED BY <2>1, <2>2, <2>3
<1>4. ASSUME NEW S, Once(q, S), m \in S => \A x \in S : ~Has(q, x)
      PROVE  Once(a, S)
  <2> SUFFICES ASSUME NEW i \in DOMAIN a, NEW j \in DOMAIN a, a[i] \in S, a[j] \in S
               PROVE  i = j
    BY DEF Once
  <2>1. CASE i \in 1 .. Len(q) /\ j \in 1 .. Len(q)
    BY <1>1, <1>4, <2>1 DEF Once
  <2>2. CASE i = Len(q) + 1 /\ j \in 1 .. Len(q)
    <3>1. m \in S /\ q[j] \in S /\ Has(q, q[j])
      BY <1>1, <2>2 DEF Has
    <3> QED BY <1>4, <3>1
  <2>3. CASE j = Len(q) + 1 /\ i \in 1 .. Len(q)
    <3>1. m \in S /\ q[i] \in S /\ Has(q, q[i])
      BY <1>1, <2>3 DEF Has
    <3> QED BY <1>4, <3>1
  <2> QED BY <1>1, <2>1, <2>2, <2>3
<1> QED BY <1>1, <1>2, <1>3, <1>4 DEF a

\* cmr_msg_get: the first message is taken, the others are still there.
LEMMA QueueTail ==
    ASSUME NEW M, NEW q \in Seq(M), q # << >>
    PROVE  /\ Tail(q) \in Seq(M) /\ Head(q) \in M
           /\ Len(Tail(q)) = Len(q) - 1
           /\ \A x : Has(q, x) <=> Has(Tail(q), x) \/ x = Head(q)
           /\ \A S : Once(q, S) =>
                 Once(Tail(q), S) /\ (Head(q) \in S => \A x \in S : ~Has(Tail(q), x))
           /\ Tail(q) # << >> => /\ Tail(q)[Len(Tail(q))] = q[Len(q)]
                                 /\ Has(Tail(q), q[Len(q)])
           /\ Tail(q) = << >> => Head(q) = q[Len(q)]
<1> DEFINE t == Tail(q)
<1>1. /\ t \in Seq(M) /\ Head(q) \in M /\ Head(q) = q[1]
      /\ Len(q) \in Nat /\ Len(q) > 0 /\ Len(t) = Len(q) - 1
      /\ DOMAIN t = 1 .. Len(q) - 1 /\ DOMAIN q = 1 .. Len(q)
      /\ \A i \in 1 .. Len(q) - 1 : t[i] = q[i + 1]
  OBVIOUS
<1>7. t # << >> => Len(t) > 0
  BY <1>1
<1> HIDE DEF t
<1>2. ASSUME NEW x PROVE Has(q, x) <=> Has(t, x) \/ x = Head(q)
  <2>1. ASSUME Has(q, x), x # Head(q) PROVE Has(t, x)
    <3>1. PICK i \in 1 .. Len(q) : q[i] = x
      BY <1>1, <2>1 DEF Has
    <3>2. i - 1 \in DOMAIN t /\ t[i - 1] = x
      BY <1>1, <2>1, <3>1
    <3> QED BY <3>2 DEF Has
  <2>2. ASSUME Has(t, x) PROVE Has(q, x)
    <3>1. PICK i \in 1 .. Len(q) - 1 : t[i] = x
      BY <1>1, <2>2 DEF Has
    <3>2. i + 1 \in DOMAIN q /\ q[i + 1] = x
      BY <1>1, <3>1
    <3> QED BY <3>2 DEF Has
  <2>3. ASSUME x = Head(q) PROVE Has(q, x)
    <3>1. 1 \in DOMAIN q /\ q[1] = x
      BY <1>1, <2>3
    <3> QED BY <3>1 DEF Has
  <2> QED BY <2>1, <2>2, <2>3
<1>3. ASSUME NEW S, Once(q, S) PROVE Once(t, S)
  <2> SUFFICES ASSUME NEW i \in DOMAIN t, NEW j \in DOMAIN t, t[i] \in S, t[j] \in S
               PROVE  i = j
    BY DEF Once
  <2>1. i + 1 \in DOMAIN q /\ j + 1 \in DOMAIN q /\ q[i + 1] \in S /\ q[j + 1] \in S
    BY <1>1
  <2>2. i + 1 = j + 1
    BY <1>3, <2>1 DEF Once
  <2> QED BY <1>1, <2>2
<1>4. ASSUME NEW S, Once(q, S), Head(q) \in S, NEW x \in S, Has(t, x) PROVE FALSE
  <2>1. PICK i \in 1 .. Len(q) - 1 : t[i] = x
    BY <1>1, <1>4 DEF Has
  <2>2. 1 \in DOMAIN q /\ i + 1 \in DOMAIN q /\ q[1] \in S /\ q[i + 1] \in S
    BY <1>1, <1>4, <2>1
  <2>3. 1 = i + 1
    BY <1>4, <2>2 DEF Once
  <2> QED BY <2>1, <2>3
<1>5. ASSUME t # << >> PROVE t[Len(t)] = q[Len(q)] /\ Has(t, q[Len(q)])
  <2>1. Len(t) \in DOMAIN t /\ t[Len(t)] = q[Len(q)]
    BY <1>1, <1>7, <1>5
  <2> QED BY <2>1 DEF Has
<1>6. t = << >> => Head(q) = q[Len(q)]
  BY <1>1
<1> QED BY <1>1, <1>2, <1>3, <1>4, <1>5, <1>6 DEF t

-----------------------------------------------------------------------------
(* The inductive invariant                                                 *)

\* The messages of the face detection thread.
FdMessages == {"init", "mem0", "mem1", "start", "exit"}

\* What each thread may be sent.
Messages ==
    /\ msg_queue \in Seq(Calls \cup {"frame", "error", "timeout"})
    /\ prev_msg_que \in Seq({"frame", "stop", "exit"})
    /\ fd_msg_que \in Seq(FdMessages)

\* The fields of the contexts.
Fields ==
    /\ {is_working, fd_is_inited, is_support_fd, fd_busy, err_code} \subseteq {0, 1}
    /\ {chn_1_status} \subseteq {"idle", "busy"}
    /\ {preview_status, v4l2_state} \subseteq {"idle", "on"}
    /\ fd_sync_sem \in Nat
    /\ recover_status = "recovering" => recover_cnt > 0

\* The steps of the main thread for each message.
Stopping == {"stop", "capstop", "v4l2idle"}
Deinit   == {"fddeinit", "fdwait", "fdfree"}
Starting == {"fdinit", "fdstuck", "setup", "capstart", "v4l2on", "preview"} \cup Deinit
Closed   == main \in {"exited", "test", "done"}

Job ==
    \/ job = "none" /\ (main \in {"loop", "gone"} \/ Closed)
    \/ job = "start" /\ main \in Starting
    \/ job = "stop" /\ main \in Stopping \cup {"stopdone"}
    \/ job = "exit" /\ main \in Stopping \cup Deinit \cup {"prevwait"}
    \/ job = "recover" /\ main \in Stopping \cup Starting

\* A call of the HAL is in one place at a time: in the queue of the main thread,
\* in execution, in the queue of the preview thread or answered.
CallOnce ==
    /\ Once(msg_queue, Calls) /\ Once(prev_msg_que, {"stop"})
    /\ Has(msg_queue, "start") => app = "starting" /\ start_sem = 0 /\ job # "start"
    /\ job = "start" => app = "starting" /\ start_sem = 0
    /\ start_sem = 1 => app = "starting"
    /\ Has(msg_queue, "stop") => app = "stopping" /\ stop_sem = 0 /\ job # "stop"
    /\ job = "stop" => app = "stopping" /\ stop_sem = 0
    /\ Has(prev_msg_que, "stop") => app = "draining" /\ stop_sem = 0
    /\ stop_sem = 1 => app \in {"stopping", "draining"}
    /\ Has(msg_queue, "exit") => app = "closing" /\ job # "exit" /\ ~Closed
    /\ job = "exit" \/ Closed => app = "closing"

\* Nothing is set up, for the HAL and in the library.
AtRest ==
    \/ app \in Idle
    \/ app = "starting" /\ start_sem = 0
       /\ ~(job = "start" /\ main \in {"capstart", "v4l2on", "preview"})
    \/ app = "starting" /\ start_sem = 1 /\ err_code # 0
    \/ app = "closing" /\ ~Closed /\ main # "prevwait"

\* The stream is stopped, and no recovery will start it again.
Still == chn_1_status = "idle" /\ preview_status = "idle" /\ job # "recover"

\* The preview thread has handled everything.
Empty == prev = "loop" /\ prev_msg_que = << >>

\* What holds also if the HAL has left a preview running, which is forgotten when the
\* next one is stopped: a call that stops the preview answers when the stream is
\* stopped, and again when the preview thread has handled the last frame.
Quiet ==
    /\ chn_1_status = "busy" => preview_status = "on" \/ main \in {"capstart", "v4l2on", "preview"}
    /\ app = "stopping" /\ stop_sem = 1 => Still
    /\ job = "stop" /\ main # "stop" => Still
    /\ app = "draining" =>
         /\ Still
         /\ IF stop_sem = 1
              THEN Empty
              ELSE prev_msg_que # << >> /\ prev_msg_que[Len(prev_msg_que)] = "stop"

\* When the HAL frees the frames the preview thread has none.
Rest == AtRest => Still /\ Empty

\* The face detection is ended for the start of a preview, or else when no frame is
\* left, or this was recorded.
Ended == main \in Deinit /\ job # "exit" =>
           "midway" \in risk \/ (job = "start" /\ "unstopped" \notin risk)

\* fd_busy is lowered when the face detection thread is done.
Lowered == fd = "loop" /\ fd_busy = 1 => "nomem" \in risk

\* The face detection thread, once gone, has left nothing behind.
Clean ==
    /\ fd_is_inited = 1 \/ fd # "none" => is_support_fd = 1
    /\ Has(fd_msg_que, "exit") => fd_is_inited = 1
    /\ main = "prevwait" \/ Closed => fd_is_inited = 0
    /\ Closed => prev = "done"
    /\ fd_is_inited = 0 /\ fd = "none" =>
         fd_sync_sem = 0 /\ fd_busy = 0 /\ (fd_msg_que = << >> \/ prev = "fdwait")

Asked == Has(fd_msg_que, "start")
Taken == fd \in {"start", "copy"}

\* The preview thread waits for exactly one answer of the face detection.
OneAnswer ==
    /\ fd # "none" \/ prev \in {"fdstart", "fdwait"} => fd_is_inited = 1
    /\ Once(fd_msg_que, {"start"})
    /\ IF prev = "fdwait"
         THEN \/ Asked /\ ~Taken /\ fd_sync_sem = 0
              \/ ~Asked /\ Taken /\ fd_sync_sem = 0
              \/ ~Asked /\ ~Taken /\ fd_sync_sem = 1
         ELSE /\ ~Asked /\ ~Taken
              /\ fd_sync_sem = 0 \/ (fd_sync_sem = 1 /\ main = "fdwait" /\ fd = "none")
    /\ Has(fd_msg_que, "exit") => main \in {"fdwait", "fdfree"}
    /\ main = "fdfree" => fd = "none"

\* ... unless the camera is closed with a preview that runs.
Answers == Calm /\ ("unstopped" \in risk => job # "exit" /\ ~Closed)

Inv == /\ TypeOK /\ Messages /\ Fields /\ Job
       /\ CallOnce /\ Clean /\ Ended
       /\ Calm => Quiet /\ Lowered
       /\ Orderly => Rest
       /\ Answers => OneAnswer

-----------------------------------------------------------------------------
(* The queue of the face detection thread                                  *)

\* A post adds the message, or drops it if the queue is full.
LEMMA FdPosted ==
    ASSUME fd_msg_que \in Seq(FdMessages), Len(fd_msg_que) <= FdQueue,
           NEW m \in FdMessages, FdPost(m)
    PROVE  /\ fd_msg_que' \in Seq(FdMessages)
           /\ Len(fd_msg_que') <= FdQueue
           /\ \A x : x # m => (Has(fd_msg_que', x) <=> Has(fd_msg_que, x))
           /\ FdHasRoom => Has(fd_msg_que', m)
           /\ \A x : x # m /\ Once(fd_msg_que, {x}) => Once(fd_msg_que', {x})
           /\ Once(fd_msg_que, {m}) /\ ~Has(fd_msg_que, m) => Once(fd_msg_que', {m})
<1> DEFINE a == Append(fd_msg_que, m)
<1>1. /\ a \in Seq(FdMessages) /\ Len(a) = Len(fd_msg_que) + 1
      /\ \A x : Has(a, x) <=> Has(fd_msg_que, x) \/ x = m
      /\ \A S : Once(fd_msg_que, S) /\ (m \in S => \A x \in S : ~Has(fd_msg_que, x)) => Once(a, S)
  BY QueueAppend
<1>2. CASE ~FdHasRoom
  BY <1>2 DEF FdPost
<1>3. CASE FdHasRoom
  <2>1. fd_msg_que' = a /\ Len(fd_msg_que) < FdQueue
    BY <1>3 DEF FdPost, FdHasRoom
  <2> HIDE DEF a
  <2>2. Len(fd_msg_que) \in Nat /\ FdQueue \in Nat
    BY BoundsAssumption
  <2>3. Len(fd_msg_que') <= FdQueue
    BY <1>1, <2>1, <2>2
  <2> QED BY <1>1, <2>1, <2>3
<1> QED BY <1>2, <1>3

\* arithmetic_mem_handle leaves requests for a search and for the end alone, and does
\* not touch the queue if there is none.
LEMMA MemHandled ==
    ASSUME fd_msg_que \in Seq(FdMessages), Len(fd_msg_que) <= FdQueue,
           NEW n \in {0, 1}, MemHandle(n)
    PROVE  /\ fd_msg_que' \in Seq(FdMessages)
           /\ Len(fd_msg_que') <= FdQueue
           /\ \A x \in {"start", "exit"} : Has(fd_msg_que', x) <=> Has(fd_msg_que, x)
           /\ Once(fd_msg_que, {"start"}) => Once(fd_msg_que', {"start"})
           /\ fd_is_inited # 1 => fd_msg_que' = fd_msg_que
<1>1. CASE fd_is_inited = 1
  <2>1. PICK m \in {"mem0", "mem1"} : FdPost(m) \/ UNCHANGED fd_msg_que
    BY <1>1 DEF MemHandle
  <2>2. m \in FdMessages /\ m # "start" /\ m # "exit"
    BY DEF FdMessages
  <2>3. CASE FdPost(m)
    BY <1>1, <2>3, <2>2, FdPosted
  <2>4. CASE UNCHANGED fd_msg_que
    BY <1>1, <2>4
  <2> QED BY <2>1, <2>3, <2>4
<1>2. CASE fd_is_inited # 1
  BY <1>2 DEF MemHandle
<1> QED BY <1>1, <1>2

\* A post to the main thread that succeeds if r: what is found in the queue was there, or is
\* the new message.
LEMMA MainPosted ==
    ASSUME Messages, NEW m \in Calls \cup {"frame", "error", "timeout"}, NEW r \in BOOLEAN,
           MainPost(m, r)
    PROVE  /\ msg_queue' \in Seq(Calls \cup {"frame", "error", "timeout"})
           /\ \A x : Has(msg_queue', x) => Has(msg_queue, x) \/ (r /\ x = m)
           /\ \A S : Once(msg_queue, S) /\ (m \in S => \A x \in S : ~Has(msg_queue, x))
                => Once(msg_queue', S)
<1> DEFINE M == Calls \cup {"frame", "error", "timeout"}
<1>1. msg_queue \in Seq(M) /\ m \in M
  BY DEF Messages
<1>2. msg_queue' = IF r THEN Append(msg_queue, m) ELSE msg_queue
  BY DEF MainPost
<1> HIDE DEF M
<1>3. CASE r
  <2>1. msg_queue' = Append(msg_queue, m)
    BY <1>2, <1>3
  <2> QED BY <1>1, <1>3, <2>1, QueueAppend DEF M
<1>4. CASE ~r
  <2>1. msg_queue' = msg_queue
    BY <1>2, <1>4
  <2> QED BY <1>1, <1>4, <2>1 DEF M
<1> QED BY <1>3, <1>4

\* The same for the preview thread; the last message is the new one.
LEMMA PrevPosted ==
    ASSUME Messages, NEW m \in {"frame", "stop", "exit"}, NEW r \in BOOLEAN, PrevPost(m, r)
    PROVE  /\ prev_msg_que' \in Seq({"frame", "stop", "exit"})
           /\ \A x : Has(prev_msg_que', x) => Has(prev_msg_que, x) \/ (r /\ x = m)
           /\ \A S : Once(prev_msg_que, S) /\ (m \in S => \A x \in S : ~Has(prev_msg_que, x))
                => Once(prev_msg_que', S)
           /\ r => prev_msg_que' # << >> /\ prev_msg_que'[Len(prev_msg_que')] = m
<1> DEFINE M == {"frame", "stop", "exit"}
<1>1. prev_msg_que \in Seq(M) /\ m \in M
  BY DEF Messages
<1>2. prev_msg_que' = IF r THEN Append(prev_msg_que, m) ELSE prev_msg_que
  BY DEF PrevPost
<1> HIDE DEF M
<1>3. CASE r
  <2>1. prev_msg_que' = Append(prev_msg_que, m)
    BY <1>2, <1>3
  <2> QED BY <1>1, <1>3, <2>1, QueueAppend DEF M
<1>4. CASE ~r
  <2>1. prev_msg_que' = prev_msg_que
    BY <1>2, <1>4
  <2> QED BY <1>1, <1>4, <2>1 DEF M
<1> QED BY <1>3, <1>4

-----------------------------------------------------------------------------
(* Preservation, one lemma for each part of the invariant.  A case is one  *)
(* action, or the actions of one thread that need no argument.             *)

\* The main thread stays within the steps of its message.
LEMMA JobStep == Inv /\ [Next]_vars => Job'
<1> SUFFICES ASSUME Inv, [Next]_vars PROVE Job'
  OBVIOUS
<1> USE DEF appVars, mainVars, prevVars, source, stream, recovery, fdVars, fdThread, fdFlags,
            fdMemory, Starting, Stopping, Deinit, Closed, Calm
<1>1. CASE Reopen
  BY <1>1 DEF Reopen, Inv, Job
<1>2. CASE \/ Started \/ Stopped \/ Drained \/ StartPreview \/ StopPreview \/ Stop
           \/ (\E n \in {0, 1} : SendCommand(n))
  BY <1>2 DEF Started, Stopped, Drained, StartPreview, StopPreview, Stop, SendCommand, Inv, Job
<1>3. CASE \/ MainStart \/ MainStop \/ MainExit
           \/ (\E e \in {"error", "timeout"} : MainNoWay(e))
           \/ (\E e \in {"error", "timeout"} : MainRecover(e)) \/ NotInPreview
           \/ PreviewIdle \/ CapStop \/ V4l2Idle \/ StopDone \/ FdInit \/ SetupFails
           \/ Setup \/ CapStartFails \/ CapStart \/ V4l2On \/ PreviewOn \/ FdDeinit
           \/ FdWait \/ FdFree \/ ExitDone \/ StopWorking
  BY <1>3 DEF MainStart, MainStop, MainExit, MainNoWay, MainRecover, NotInPreview,
    PreviewIdle, CapStop, V4l2Idle, StopDone, FdInit, SetupFails, Setup, CapStartFails,
    CapStart, V4l2On, PreviewOn, FdDeinit, FdWait, FdFree, ExitDone, StopWorking, Receive,
    AfterStop, Finish, AfterStart, Inv, Job, Fields
<1>4. CASE \/ (\E e \in {"frame", "error", "timeout"} : GrabEvent(e)) \/ GrabCallback
           \/ GrabPost \/ GrabError
  BY <1>4 DEF GrabEvent, GrabCallback, GrabPost, GrabError, Inv, Job, Fields
<1>5. CASE \/ PrevGet \/ PrevDiscard \/ PrevSkip \/ PrevHandle
           \/ (\E search \in BOOLEAN : PrevFace(search)) \/ PrevFdStart \/ PrevWait
           \/ PrevDeliver
  BY <1>5 DEF PrevGet, PrevDiscard, PrevSkip, PrevHandle, PrevFace, PrevFdStart, PrevWait,
    PrevDeliver, Inv, Job, Fields
<1>6. CASE \/ FdInitMemory \/ FdMem0 \/ FdMem1 \/ FdStart \/ FdNoMemory \/ FdStopped
           \/ FdCopy \/ FdCopied \/ FdDetected \/ FdExit
  BY <1>6 DEF FdInitMemory, FdMem0, FdMem1, FdStart, FdNoMemory, FdStopped, FdCopy,
    FdCopied, FdDetected, FdExit, Inv, Job, Fields
<1>7. CASE \/ MainFrame \/ FdNoQueue \/ FdNoThread \/ FdNoMessage \/ FdNoRoom \/ MainGone
  BY <1>7 DEF MainFrame, FdNoQueue, FdNoThread, FdNoMessage, FdNoRoom, MainGone, Receive,
    FdDestroy, Inv, Job, Fields, Closed, Starting, Stopping, Deinit
<1>8. CASE \/ OldStopWorking \/ OldGone \/ OldReceive
  BY <1>8 DEF OldStopWorking, OldGone, OldReceive, Receive, FdDestroy, Inv, Job, Fields,
    Closed, Starting, Stopping, Deinit
<1>9. CASE UNCHANGED vars
  BY <1>9 DEF vars, Inv, Job, Fields
<1> QED BY <1>1, <1>2, <1>3, <1>4, <1>5, <1>6, <1>7, <1>8, <1>9 DEF Next, AppReturns, AppCalls,
  Main, Old, Grab, Prev, Fd

\* What FdNoRoom records is not forgotten, and no preview is left running while another
\* one is being started.
LEMMA EndedStep == Inv /\ [Next]_vars => Ended'
<1> SUFFICES ASSUME Inv, [Next]_vars PROVE Ended'
  OBVIOUS
<1> USE DEF appVars, mainVars, prevVars, source, stream, recovery, fdVars, fdThread, fdFlags,
            fdMemory, Starting, Stopping, Deinit, Closed, Calm
<1>1. CASE \/ Started \/ Drained \/ Reopen \/ (\E n \in {0, 1} : SendCommand(n))
  BY <1>1 DEF Started, Drained, Reopen, SendCommand, Inv, Job, Ended
<1>2. CASE \/ Stopped \/ StartPreview \/ StopPreview \/ Stop
  <2>1. main' = main /\ job' = job /\ app # "starting" /\ \A x \in risk : x \in risk'
    BY <1>2 DEF Stopped, StartPreview, StopPreview, Stop, NotPreviewing, Idle, Unstopped
  <2> QED BY <2>1 DEF Inv, CallOnce, Ended
<1>3. CASE \/ MainStart \/ MainStop \/ MainExit \/ MainFrame
           \/ (\E e \in {"error", "timeout"} : MainNoWay(e))
           \/ (\E e \in {"error", "timeout"} : MainRecover(e))
  BY <1>3 DEF MainStart, MainStop, MainExit, MainFrame, MainNoWay, MainRecover, Receive, Inv,
    Ended
<1>4. CASE \/ NotInPreview \/ V4l2Idle
  BY <1>4 DEF NotInPreview, V4l2Idle, AfterStop, Finish, Inv, Job, Ended
<1>5. CASE \/ PreviewIdle \/ CapStop \/ StopDone \/ SetupFails \/ Setup \/ CapStartFails \/ CapStart
           \/ V4l2On \/ PreviewOn \/ ExitDone \/ StopWorking \/ MainGone
  BY <1>5 DEF PreviewIdle, CapStop, StopDone, SetupFails, Setup, CapStartFails, CapStart, V4l2On,
    PreviewOn, ExitDone, StopWorking, MainGone, AfterStart, Finish, Ended
<1>6. CASE \/ FdInit \/ FdNoQueue \/ FdNoThread \/ FdNoMessage \/ FdFree
  BY <1>6 DEF FdInit, FdNoQueue, FdNoThread, FdNoMessage, FdFree, Ended
<1>7. CASE FdNoRoom
  BY <1>7 DEF FdNoRoom, Inv, Job, Ended
<1>8. CASE \/ FdDeinit \/ FdWait
  BY <1>8 DEF FdDeinit, FdWait, Inv, Ended
<1>9. CASE \/ OldStopWorking \/ OldGone \/ OldReceive
  BY <1>9 DEF OldStopWorking, OldGone, OldReceive, Inv, Ended
<1>10. CASE \/ (\E e \in {"frame", "error", "timeout"} : GrabEvent(e)) \/ GrabCallback
           \/ GrabPost \/ GrabError
  BY <1>10 DEF GrabEvent, GrabCallback, GrabPost, GrabError, Inv, Ended
<1>11. CASE \/ PrevGet \/ PrevDiscard \/ PrevSkip \/ PrevHandle
           \/ (\E search \in BOOLEAN : PrevFace(search)) \/ PrevFdStart \/ PrevWait
           \/ PrevDeliver
  BY <1>11 DEF PrevGet, PrevDiscard, PrevSkip, PrevHandle, PrevFace, PrevFdStart, PrevWait,
    PrevDeliver, Inv, Ended
<1>12. CASE \/ FdInitMemory \/ FdMem0 \/ FdMem1 \/ FdStart \/ FdNoMemory \/ FdStopped
           \/ FdCopy \/ FdCopied \/ FdDetected \/ FdExit
  BY <1>12 DEF FdInitMemory, FdMem0, FdMem1, FdStart, FdNoMemory, FdStopped, FdCopy,
    FdCopied, FdDetected, FdExit, Inv, Ended
<1>13. CASE UNCHANGED vars
  BY <1>13 DEF vars, Inv, Ended
<1> QED BY <1>1, <1>2, <1>3, <1>4, <1>5, <1>6, <1>7, <1>8, <1>9, <1>10, <1>11, <1>12, <1>13 DEF
  Next, AppReturns, AppCalls, Main, Old, Grab, Prev, Fd

\* The fields keep their types, and a recovery has attempts left.
LEMMA FieldStep == Inv /\ [Next]_vars => Fields'
<1> SUFFICES ASSUME Inv, [Next]_vars PROVE Fields'
  OBVIOUS
<1> USE DEF appVars, mainVars, prevVars, source, stream, recovery, fdVars, fdThread, fdFlags,
            fdMemory, Starting, Stopping, Deinit, Closed, Calm
<1>1. CASE Reopen
  BY <1>1, BoundsAssumption DEF Reopen, Inv, TypeOK, Fields
<1>2. CASE \E e \in {"error", "timeout"} : MainRecover(e)
  BY <1>2, BoundsAssumption DEF MainRecover, Inv, TypeOK, Fields
<1>3. CASE PrevSkip
  BY <1>3, BoundsAssumption DEF PrevSkip, Inv, TypeOK, Fields
<1>4. CASE \E search \in BOOLEAN : PrevFace(search)
  BY <1>4, BoundsAssumption DEF PrevFace, Inv, TypeOK, Fields
<1>5. CASE PrevWait
  BY <1>5, BoundsAssumption DEF PrevWait, Inv, TypeOK, Fields
<1>6. CASE \/ Started \/ Stopped \/ Drained \/ StartPreview \/ StopPreview \/ Stop
           \/ (\E n \in {0, 1} : SendCommand(n))
  BY <1>6, BoundsAssumption DEF Started, Stopped, Drained, StartPreview, StopPreview, Stop,
    SendCommand, Inv, TypeOK, Fields
<1>7. CASE \/ MainStart \/ MainStop \/ MainExit
           \/ (\E e \in {"error", "timeout"} : MainNoWay(e)) \/ NotInPreview \/ PreviewIdle
           \/ CapStop \/ V4l2Idle \/ StopDone \/ FdInit \/ SetupFails \/ Setup
           \/ CapStartFails \/ CapStart \/ V4l2On \/ PreviewOn \/ FdDeinit \/ FdWait
           \/ FdFree \/ ExitDone \/ StopWorking
  BY <1>7, BoundsAssumption DEF MainStart, MainStop, MainExit, MainNoWay, NotInPreview,
    PreviewIdle, CapStop, V4l2Idle, StopDone, FdInit, SetupFails, Setup, CapStartFails,
    CapStart, V4l2On, PreviewOn, FdDeinit, FdWait, FdFree, ExitDone, StopWorking, AfterStop,
    FdDestroy, AfterStart, Inv, TypeOK, Fields
<1>8. CASE \/ (\E e \in {"frame", "error", "timeout"} : GrabEvent(e)) \/ GrabCallback
           \/ GrabPost \/ GrabError
  BY <1>8, BoundsAssumption DEF GrabEvent, GrabCallback, GrabPost, GrabError, Inv, TypeOK,
    Fields
<1>9. CASE \/ PrevGet \/ PrevDiscard \/ PrevHandle \/ PrevFdStart \/ PrevDeliver
  BY <1>9, BoundsAssumption DEF PrevGet, PrevDiscard, PrevHandle, PrevFdStart, PrevDeliver, Inv,
    TypeOK, Fields
<1>10. CASE \/ FdInitMemory \/ FdMem0 \/ FdMem1 \/ FdStart \/ FdNoMemory \/ FdStopped
            \/ FdCopy \/ FdCopied \/ FdDetected \/ FdExit
  BY <1>10, BoundsAssumption DEF FdInitMemory, FdMem0, FdMem1, FdStart, FdNoMemory,
    FdStopped, FdCopy, FdCopied, FdDetected, FdExit, Inv, TypeOK, Fields
<1>11. CASE \/ MainFrame \/ FdNoQueue \/ FdNoThread \/ FdNoMessage \/ FdNoRoom \/ MainGone
  BY <1>11, BoundsAssumption DEF MainFrame, FdNoQueue, FdNoThread, FdNoMessage, FdNoRoom,
    MainGone, Receive, FdDestroy, Inv, TypeOK, Fields
<1>12. CASE \/ OldStopWorking \/ OldGone \/ OldReceive
  BY <1>12, BoundsAssumption DEF OldStopWorking, OldGone, OldReceive, Receive, FdDestroy, Inv,
    TypeOK, Fields
<1>13. CASE UNCHANGED vars
  BY <1>13 DEF vars, Inv, TypeOK, Fields
<1> QED BY <1>1, <1>2, <1>3, <1>4, <1>5, <1>6, <1>7, <1>8, <1>9, <1>10, <1>11, <1>12, <1>13 DEF
  Next, AppReturns, AppCalls, Main, Old, Grab, Prev, Fd

\* fd_busy is lowered by whoever raised it, unless there was no memory.
LEMMA BusyStep == Inv /\ [Next]_vars => (Calm => Lowered)'
<1> SUFFICES ASSUME Inv, [Next]_vars PROVE (Calm => Lowered)'
  OBVIOUS
<1> USE DEF appVars, mainVars, prevVars, source, stream, recovery, fdVars, fdThread, fdFlags,
            fdMemory, Starting, Stopping, Deinit, Closed, Calm
<1>1. CASE FdInit
  BY <1>1 DEF FdInit, Inv, Lowered, OneAnswer, Answers, Clean, Fields, TypeOK, Job
<1>2. CASE Reopen
  BY <1>2 DEF Reopen, Inv, Lowered, OneAnswer, Answers, Clean, Fields, TypeOK
<1>3. CASE \/ Started \/ Drained \/ (\E n \in {0, 1} : SendCommand(n))
  BY <1>3 DEF Started, Drained, SendCommand, Inv, Lowered
<1>4. CASE \/ Stopped \/ StartPreview \/ StopPreview \/ Stop
  <2>1. UNCHANGED <<fd, fd_busy>> /\ \A x \in risk : x \in risk'
    BY <1>4 DEF Stopped, StartPreview, StopPreview, Stop, Unstopped
  <2> QED BY <2>1 DEF Inv, Lowered
<1>5. CASE \/ MainStart \/ MainStop \/ MainExit
           \/ (\E e \in {"error", "timeout"} : MainNoWay(e))
           \/ (\E e \in {"error", "timeout"} : MainRecover(e)) \/ NotInPreview
           \/ PreviewIdle \/ CapStop \/ V4l2Idle \/ StopDone \/ SetupFails \/ Setup
           \/ CapStartFails \/ CapStart \/ V4l2On \/ PreviewOn \/ FdDeinit \/ FdWait
           \/ FdFree \/ ExitDone \/ StopWorking
  BY <1>5 DEF MainStart, MainStop, MainExit, MainNoWay, MainRecover, NotInPreview,
    PreviewIdle, CapStop, V4l2Idle, StopDone, SetupFails, Setup, CapStartFails, CapStart,
    V4l2On, PreviewOn, FdDeinit, FdWait, FdFree, ExitDone, StopWorking, FdDestroy, Inv,
    Lowered, OneAnswer, Answers, Clean, Fields, TypeOK
<1>6. CASE \/ (\E e \in {"frame", "error", "timeout"} : GrabEvent(e)) \/ GrabCallback
           \/ GrabPost \/ GrabError
  BY <1>6 DEF GrabEvent, GrabCallback, GrabPost, GrabError, Inv, Lowered, OneAnswer, Answers,
    Clean, Fields, TypeOK
<1>7. CASE \/ PrevGet \/ PrevDiscard \/ PrevSkip \/ PrevHandle
           \/ (\E search \in BOOLEAN : PrevFace(search)) \/ PrevFdStart \/ PrevWait
           \/ PrevDeliver
  BY <1>7 DEF PrevGet, PrevDiscard, PrevSkip, PrevHandle, PrevFace, PrevFdStart, PrevWait,
    PrevDeliver, Inv, Lowered, OneAnswer, Answers, Clean, Fields,
    TypeOK
<1>8. CASE \/ FdInitMemory \/ FdMem0 \/ FdMem1 \/ FdStart \/ FdNoMemory \/ FdStopped
           \/ FdCopy \/ FdCopied \/ FdDetected \/ FdExit
  BY <1>8 DEF FdInitMemory, FdMem0, FdMem1, FdStart, FdNoMemory, FdStopped, FdCopy,
    FdCopied, FdDetected, FdExit, FdReceive, Inv, Lowered, OneAnswer, Answers,
    Clean, Fields, TypeOK
<1>9. CASE \/ MainFrame \/ FdNoQueue \/ FdNoThread \/ FdNoMessage \/ FdNoRoom \/ MainGone
  BY <1>9 DEF MainFrame, FdNoQueue, FdNoThread, FdNoMessage, FdNoRoom, MainGone, FdDestroy,
    Inv, Lowered, OneAnswer, Answers, Clean, Fields, TypeOK
<1>10. CASE \/ OldStopWorking \/ OldGone \/ OldReceive
  BY <1>10 DEF OldStopWorking, OldGone, OldReceive, FdDestroy, Inv, Lowered, OneAnswer,
    Answers, Clean, Fields, TypeOK
<1>11. CASE UNCHANGED vars
  BY <1>11 DEF vars, Inv, Lowered, OneAnswer, Answers, Clean, Fields, TypeOK
<1> QED BY <1>1, <1>2, <1>3, <1>4, <1>5, <1>6, <1>7, <1>8, <1>9, <1>10, <1>11 DEF Next,
  AppReturns, AppCalls, Main, Old, Grab, Prev, Fd

\* A step adds one message to the queue of the face detection thread, takes the first
\* one, or empties the queue.
LEMMA FdQueueChange ==
    ASSUME [Next]_vars
    PROVE  \/ fd_msg_que' \in {fd_msg_que, << >>, <<"init">>}
           \/ \E n \in {0, 1} : MemHandle(n)
           \/ \E m \in FdMessages : FdPost(m)
           \/ fd_msg_que # << >> /\ fd_msg_que' = Tail(fd_msg_que)
<1> USE DEF appVars, mainVars, prevVars, source, stream, recovery, fdVars, fdThread, fdFlags,
            fdMemory, Starting, Stopping, Deinit, Closed, Calm
<1>1. CASE \E n \in {0, 1} : SendCommand(n)
  BY <1>1 DEF SendCommand
<1>2. CASE StopDone
  BY <1>2 DEF StopDone, FdMessages
<1>3. CASE FdInit
  BY <1>3 DEF FdInit, FdDestroy, FdMessages
<1>4. CASE \/ FdDeinit \/ PrevFdStart
  BY <1>4 DEF FdDeinit, PrevFdStart, FdMessages
<1>5. CASE \/ FdFree \/ Reopen
  BY <1>5 DEF FdFree, Reopen, FdDestroy
<1>6. CASE \/ FdInitMemory \/ FdMem0 \/ FdMem1 \/ FdStart \/ FdExit
  BY <1>6 DEF FdInitMemory, FdMem0, FdMem1, FdStart, FdExit, FdReceive
<1>7. CASE \/ Started \/ Stopped \/ Drained \/ StartPreview \/ StopPreview \/ Stop
  BY <1>7 DEF Started, Stopped, Drained, StartPreview, StopPreview, Stop
<1>8. CASE \/ MainStart \/ MainStop \/ MainExit
           \/ (\E e \in {"error", "timeout"} : MainNoWay(e))
           \/ (\E e \in {"error", "timeout"} : MainRecover(e)) \/ NotInPreview
           \/ PreviewIdle \/ CapStop \/ V4l2Idle \/ SetupFails \/ Setup \/ CapStartFails
           \/ CapStart \/ V4l2On \/ PreviewOn \/ FdWait \/ ExitDone \/ StopWorking
  BY <1>8 DEF MainStart, MainStop, MainExit, MainNoWay, MainRecover, NotInPreview,
    PreviewIdle, CapStop, V4l2Idle, SetupFails, Setup, CapStartFails, CapStart, V4l2On,
    PreviewOn, FdWait, ExitDone, StopWorking, Receive
<1>9. CASE \/ (\E e \in {"frame", "error", "timeout"} : GrabEvent(e)) \/ GrabCallback
            \/ GrabPost \/ GrabError
  BY <1>9 DEF GrabEvent, GrabCallback, GrabPost, GrabError
<1>10. CASE \/ PrevGet \/ PrevDiscard \/ PrevSkip \/ PrevHandle
            \/ (\E search \in BOOLEAN : PrevFace(search)) \/ PrevWait \/ PrevDeliver
  BY <1>10 DEF PrevGet, PrevDiscard, PrevSkip, PrevHandle, PrevFace, PrevWait, PrevDeliver
<1>11. CASE \/ FdNoMemory \/ FdStopped \/ FdCopy \/ FdCopied \/ FdDetected
  BY <1>11 DEF FdNoMemory, FdStopped, FdCopy, FdCopied, FdDetected
<1>12. CASE \/ MainFrame \/ FdNoQueue \/ FdNoThread \/ FdNoMessage \/ FdNoRoom \/ MainGone
  BY <1>12 DEF MainFrame, FdNoQueue, FdNoThread, FdNoMessage, FdNoRoom, MainGone, Receive,
    FdDestroy
<1>13. CASE \/ OldStopWorking \/ OldGone \/ OldReceive
  BY <1>13 DEF OldStopWorking, OldGone, OldReceive, Receive, FdDestroy
<1>14. CASE UNCHANGED vars
  BY <1>14 DEF vars
<1> QED BY <1>1, <1>2, <1>3, <1>4, <1>5, <1>6, <1>7, <1>8, <1>9, <1>10, <1>11, <1>12, <1>13,
  <1>14 DEF Next, AppReturns, AppCalls, Main, Old, Grab, Prev, Fd

\* The queue of the face detection thread never holds more than it has room for.
LEMMA FdQueueStep ==
    ASSUME Inv, [Next]_vars
    PROVE  fd_msg_que' \in Seq(FdMessages) /\ Len(fd_msg_que') <= FdQueue
<1>1. fd_msg_que \in Seq(FdMessages) /\ Len(fd_msg_que) <= FdQueue
  BY DEF Inv, Messages, TypeOK
<1>2. /\ FdQueue \in Nat /\ FdQueue >= 1 /\ Len(fd_msg_que) \in Nat
      /\ <<"init">> \in Seq(FdMessages) /\ Len(<<"init">>) = 1
      /\ << >> \in Seq(FdMessages) /\ Len(<< >>) = 0
  BY <1>1, BoundsAssumption DEF FdMessages
<1>3. CASE fd_msg_que' \in {fd_msg_que, << >>, <<"init">>}
  <2>1. CASE fd_msg_que' = fd_msg_que
    BY <1>1, <2>1
  <2>2. CASE fd_msg_que' = << >>
    BY <1>2, <2>2
  <2>3. CASE fd_msg_que' = <<"init">>
    BY <1>2, <2>3
  <2> QED BY <1>3, <2>1, <2>2, <2>3
<1>4. CASE \E n \in {0, 1} : MemHandle(n)
  BY <1>1, <1>4, MemHandled
<1>5. CASE \E m \in FdMessages : FdPost(m)
  BY <1>1, <1>5, FdPosted
<1>6. CASE fd_msg_que # << >> /\ fd_msg_que' = Tail(fd_msg_que)
  BY <1>1, <1>2, <1>6, QueueTail
<1> QED BY <1>3, <1>4, <1>5, <1>6, FdQueueChange

\* Every queue only gets messages its thread knows.
LEMMA MessagesStep == Inv /\ [Next]_vars => Messages'
<1> SUFFICES ASSUME Inv, [Next]_vars PROVE Messages'
  OBVIOUS
<1> USE DEF appVars, mainVars, prevVars, source, stream, recovery, fdVars, fdThread, fdFlags,
            fdMemory, Starting, Stopping, Deinit, Closed, Calm
<1>q. fd_msg_que' \in Seq(FdMessages) /\ Len(fd_msg_que') <= FdQueue
  BY FdQueueStep
<1>1. CASE Reopen
  BY <1>1, <1>q DEF Reopen, Inv, Messages, Calls
<1>2. CASE \/ StartPreview \/ StopPreview \/ Stop \/ GrabError
  <2>1. PICK m \in Calls \cup {"error", "timeout"}, r \in BOOLEAN : MainPost(m, r)
    BY <1>2 DEF StartPreview, StopPreview, Stop, GrabError, Calls, Room
  <2>2. prev_msg_que' = prev_msg_que
    BY <1>2 DEF StartPreview, StopPreview, Stop, GrabError
  <2>3. Messages
    BY DEF Inv
  <2> QED BY <1>q, <2>1, <2>2, <2>3, MainPosted DEF Messages
<1>3. CASE \/ MainStart \/ MainStop \/ MainExit \/ MainFrame \/ OldReceive
           \/ (\E e \in {"error", "timeout"} : MainNoWay(e))
           \/ (\E e \in {"error", "timeout"} : MainRecover(e))
  <2>1. msg_queue # << >> /\ msg_queue' = Tail(msg_queue) /\ prev_msg_que' = prev_msg_que
    BY <1>3 DEF MainStart, MainStop, MainExit, MainFrame, OldReceive, MainNoWay, MainRecover,
      Receive
  <2> QED BY <1>q, <2>1, QueueTail DEF Inv, Messages
<1>4. CASE \/ Stopped \/ (FdFree /\ job = "exit")
  <2>1. PICK m \in {"frame", "stop", "exit"}, r \in BOOLEAN : PrevPost(m, r)
    BY <1>4 DEF Stopped, FdFree, Room
  <2>2. msg_queue' = msg_queue
    BY <1>4 DEF Stopped, FdFree
  <2>3. Messages
    BY DEF Inv
  <2> QED BY <1>q, <2>1, <2>2, <2>3, PrevPosted DEF Messages
<1>5. CASE FdFree /\ job # "exit"
  BY <1>5, <1>q DEF FdFree, Inv, Messages
<1>6. CASE GrabPost
  <2>1. PICK r \in BOOLEAN : IF chn_1_status = "busy"
                              THEN PrevPost("frame", r) /\ UNCHANGED msg_queue
                              ELSE MainPost("frame", r) /\ UNCHANGED prev_msg_que
    BY <1>6 DEF GrabPost, Room
  <2>2. Messages
    BY DEF Inv
  <2> QED BY <1>q, <2>1, <2>2, PrevPosted, MainPosted DEF Messages
<1>7. CASE PrevGet
  BY <1>7, <1>q, QueueTail DEF PrevGet, Inv, Messages, Calls
<1>8. CASE \/ Started \/ Drained \/ (\E n \in {0, 1} : SendCommand(n))
  BY <1>8, <1>q DEF Started, Drained, SendCommand, Inv, Messages, Calls
<1>9. CASE \/ NotInPreview \/ PreviewIdle \/ CapStop \/ V4l2Idle \/ StopDone \/ FdInit
           \/ SetupFails \/ Setup \/ CapStartFails \/ CapStart \/ V4l2On \/ PreviewOn
           \/ FdDeinit \/ FdWait \/ ExitDone \/ StopWorking
  BY <1>9, <1>q DEF NotInPreview, PreviewIdle, CapStop, V4l2Idle, StopDone, FdInit,
    SetupFails, Setup, CapStartFails, CapStart, V4l2On, PreviewOn, FdDeinit, FdWait,
    ExitDone, StopWorking, Inv, Messages, Calls
<1>10. CASE \/ (\E e \in {"frame", "error", "timeout"} : GrabEvent(e)) \/ GrabCallback
  BY <1>10, <1>q DEF GrabEvent, GrabCallback, Inv, Messages, Calls
<1>11. CASE \/ PrevDiscard \/ PrevSkip \/ PrevHandle
            \/ (\E search \in BOOLEAN : PrevFace(search)) \/ PrevFdStart \/ PrevWait
            \/ PrevDeliver
  BY <1>11, <1>q DEF PrevDiscard, PrevSkip, PrevHandle, PrevFace, PrevFdStart, PrevWait,
    PrevDeliver, Inv, Messages, Calls
<1>12. CASE \/ FdInitMemory \/ FdMem0 \/ FdMem1 \/ FdStart \/ FdNoMemory \/ FdStopped
            \/ FdCopy \/ FdCopied \/ FdDetected \/ FdExit
  BY <1>12, <1>q DEF FdInitMemory, FdMem0, FdMem1, FdStart, FdNoMemory, FdStopped, FdCopy,
    FdCopied, FdDetected, FdExit, Inv, Messages, Calls
<1>13. CASE \/ FdNoQueue \/ FdNoThread \/ FdNoMessage \/ FdNoRoom \/ MainGone
  BY <1>13, <1>q DEF FdNoQueue, FdNoThread, FdNoMessage, FdNoRoom, MainGone,
    FdDestroy, Inv, Messages, Calls
<1>14. CASE \/ OldStopWorking \/ OldGone
  BY <1>14, <1>q DEF OldStopWorking, OldGone, FdDestroy, Inv, Messages, Calls
<1>15. CASE UNCHANGED vars
  BY <1>15 DEF vars, Inv, Messages, Calls
<1> QED BY <1>1, <1>2, <1>3, <1>4, <1>5, <1>6, <1>7, <1>8, <1>9, <1>10, <1>11, <1>12, <1>13,
  <1>14, <1>15 DEF Next, AppReturns, AppCalls, Main, Old, Grab, Prev, Fd

\* The types; that a semaphore is posted at most once rests on CallOnce.
LEMMA TypeStep == Inv /\ [Next]_vars => TypeOK'
<1> SUFFICES ASSUME Inv, [Next]_vars PROVE TypeOK'
  OBVIOUS
<1> USE DEF appVars, mainVars, prevVars, source, stream, recovery, fdVars, fdThread, fdFlags,
            fdMemory, Starting, Stopping, Deinit, Closed, Calm
<1>q. fd_msg_que' \in Seq(FdMessages) /\ Len(fd_msg_que') <= FdQueue
  BY FdQueueStep
<1>1. CASE Reopen
  BY <1>1, <1>q, BoundsAssumption DEF Reopen, Inv, TypeOK, Fields, CallOnce, Job
<1>2. CASE \E e \in {"error", "timeout"} : MainRecover(e)
  BY <1>2, <1>q, BoundsAssumption DEF MainRecover, Receive, Inv, TypeOK, Fields, CallOnce,
    Job
<1>3. CASE PrevGet
  <2>1. /\ Head(prev_msg_que) \in {"frame", "stop", "exit"}
        /\ Has(prev_msg_que, Head(prev_msg_que))
    BY <1>3, QueueTail DEF PrevGet, Inv, Messages
  <2>2. Head(prev_msg_que) = "stop" => stop_sem = 0
    BY <2>1 DEF Inv, CallOnce
  <2> QED BY <1>3, <1>q, <2>1, <2>2 DEF PrevGet, Inv, TypeOK
<1>4. CASE FdInit
  BY <1>4, <1>q DEF FdInit, Inv, TypeOK, Fields, CallOnce, Job
<1>5. CASE FdExit
  BY <1>5, <1>q DEF FdExit, Inv, TypeOK, Fields, CallOnce, Job
<1>6. CASE StopDone
  BY <1>6, <1>q DEF StopDone, Inv, TypeOK, Fields, CallOnce, Job
<1>7. CASE \E search \in BOOLEAN : PrevFace(search)
  BY <1>7, <1>q DEF PrevFace, Inv, TypeOK, Fields, CallOnce, Job
<1>8. CASE PrevSkip
  BY <1>8, <1>q DEF PrevSkip, Inv, TypeOK, Fields, CallOnce, Job
<1>9. CASE \/ SetupFails \/ CapStartFails \/ PreviewOn
  BY <1>9, <1>q DEF SetupFails, CapStartFails, PreviewOn, AfterStart, Inv, TypeOK, Fields,
    CallOnce, Job
<1>10. CASE \/ FdDeinit \/ FdFree
  BY <1>10, <1>q DEF FdDeinit, FdFree, Inv, TypeOK, Fields, CallOnce, Job
<1>11. CASE Started
  <2>1. start_sem' = 0 /\ app' \in {"preview", "refused"}
    BY <1>11 DEF Started, Inv, TypeOK
  <2> QED BY <1>11, <1>q, <2>1 DEF Started, Inv, TypeOK
<1>12. CASE Drained
  <2>1. stop_sem' = 0
    BY <1>12 DEF Drained, Inv, TypeOK
  <2> QED BY <1>12, <1>q, <2>1 DEF Drained, Inv, TypeOK
<1>13. CASE \E n \in {0, 1} : SendCommand(n)
  BY <1>13, <1>q DEF SendCommand, Inv, TypeOK
<1>14. CASE \/ Stopped \/ StartPreview \/ StopPreview \/ Stop
  BY <1>14, <1>q DEF Stopped, StartPreview, StopPreview, Stop, Inv, TypeOK
<1>15. CASE \/ MainStart \/ MainStop \/ MainExit
            \/ (\E e \in {"error", "timeout"} : MainNoWay(e)) \/ NotInPreview
            \/ PreviewIdle \/ CapStop \/ V4l2Idle \/ Setup \/ CapStart \/ V4l2On \/ FdWait
            \/ ExitDone \/ StopWorking
  BY <1>15, <1>q DEF MainStart, MainStop, MainExit, MainNoWay, NotInPreview, PreviewIdle,
    CapStop, V4l2Idle, Setup, CapStart, V4l2On, FdWait, ExitDone, StopWorking, Receive,
    AfterStop, Inv, TypeOK, Fields, CallOnce, Job
<1>16. CASE \/ (\E e \in {"frame", "error", "timeout"} : GrabEvent(e)) \/ GrabCallback
            \/ GrabPost \/ GrabError
  BY <1>16, <1>q DEF GrabEvent, GrabCallback, GrabPost, GrabError, Inv, TypeOK, Fields,
    CallOnce, Job
<1>17. CASE \/ PrevDiscard \/ PrevHandle \/ PrevFdStart \/ PrevWait \/ PrevDeliver
  BY <1>17, <1>q DEF PrevDiscard, PrevHandle, PrevFdStart, PrevWait, PrevDeliver, Inv, TypeOK,
    Fields, CallOnce, Job
<1>18. CASE \/ FdInitMemory \/ FdMem0 \/ FdMem1 \/ FdStart \/ FdNoMemory \/ FdStopped
            \/ FdCopy \/ FdCopied \/ FdDetected
  BY <1>18, <1>q DEF FdInitMemory, FdMem0, FdMem1, FdStart, FdNoMemory, FdStopped, FdCopy,
    FdCopied, FdDetected, Inv, TypeOK, Fields, CallOnce, Job
<1>19. CASE \/ MainFrame \/ FdNoQueue \/ FdNoThread \/ FdNoMessage \/ FdNoRoom \/ MainGone
  BY <1>19, <1>q DEF MainFrame, FdNoQueue, FdNoThread, FdNoMessage, FdNoRoom, MainGone, Receive,
    FdDestroy, Inv, TypeOK, Fields, CallOnce, Job
<1>20. CASE \/ OldStopWorking \/ OldGone \/ OldReceive
  BY <1>20, <1>q DEF OldStopWorking, OldGone, OldReceive, Receive, FdDestroy, Inv, TypeOK,
    Fields, CallOnce, Job
<1>21. CASE UNCHANGED vars
  BY <1>21 DEF vars, Inv, TypeOK, Fields, CallOnce, Job
<1> QED BY <1>1, <1>2, <1>3, <1>4, <1>5, <1>6, <1>7, <1>8, <1>9, <1>10, <1>11, <1>12, <1>13,
  <1>14, <1>15, <1>16, <1>17, <1>18, <1>19, <1>20, <1>21 DEF Next, AppReturns, AppCalls, Main,
  Old, Grab, Prev, Fd

\* No step duplicates a call of the HAL or its answer, a recovery, a refused start and
\* a re-opening included.
LEMMA CallOnceStep == Inv /\ [Next]_vars => CallOnce'
<1> SUFFICES ASSUME Inv, [Next]_vars PROVE CallOnce'
  OBVIOUS
<1> USE DEF appVars, mainVars, prevVars, source, stream, recovery, fdVars, fdThread, fdFlags,
            fdMemory, Starting, Stopping, Deinit, Closed, Calm
<1>1. CASE StartPreview
  <2>1. \A x \in Calls : ~Has(msg_queue, x)
    BY <1>1 DEF StartPreview, NotPreviewing, Idle, Inv, CallOnce, Calls
  <2>2. PICK r \in Room : /\ MainPost("start", r)
                          /\ app' = IF r THEN "starting" ELSE "refused"
    BY <1>1 DEF StartPreview
  <2>3. /\ Once(msg_queue', Calls)
        /\ \A x : Has(msg_queue', x) => Has(msg_queue, x) \/ (r /\ x = "start")
    <3>1. Messages /\ r \in BOOLEAN /\ "start" \in Calls /\ Once(msg_queue, Calls)
      BY DEF Inv, CallOnce, Room, Calls
    <3> QED BY <2>1, <2>2, <3>1, MainPosted
  <2> QED BY <1>1, <2>1, <2>2, <2>3
          DEF StartPreview, NotPreviewing, Idle, Inv, CallOnce, Closed, Job, TypeOK, Calls
<1>2. CASE StopPreview
  <2>1. \A x \in Calls : ~Has(msg_queue, x)
    BY <1>2 DEF StopPreview, NotPreviewing, Idle, Inv, CallOnce, Calls
  <2>2. PICK r \in Room : /\ MainPost("stop", r)
                          /\ app' = IF r THEN "stopping" ELSE "refused"
    BY <1>2 DEF StopPreview
  <2>3. /\ Once(msg_queue', Calls)
        /\ \A x : Has(msg_queue', x) => Has(msg_queue, x) \/ (r /\ x = "stop")
    <3>1. Messages /\ r \in BOOLEAN /\ "stop" \in Calls /\ Once(msg_queue, Calls)
      BY DEF Inv, CallOnce, Room, Calls
    <3> QED BY <2>1, <2>2, <3>1, MainPosted
  <2> QED BY <1>2, <2>1, <2>2, <2>3
          DEF StopPreview, NotPreviewing, Idle, Inv, CallOnce, Closed, Job, TypeOK, Calls
<1>3. CASE Stop
  <2>1. \A x \in Calls : ~Has(msg_queue, x)
    BY <1>3 DEF Stop, NotPreviewing, Idle, Inv, CallOnce, Calls
  <2>2. PICK r \in Room : /\ MainPost("exit", r)
                          /\ app' = "closing"
    BY <1>3 DEF Stop
  <2>3. /\ Once(msg_queue', Calls)
        /\ \A x : Has(msg_queue', x) => Has(msg_queue, x) \/ (r /\ x = "exit")
    <3>1. Messages /\ r \in BOOLEAN /\ "exit" \in Calls /\ Once(msg_queue, Calls)
      BY DEF Inv, CallOnce, Room, Calls
    <3> QED BY <2>1, <2>2, <3>1, MainPosted
  <2> QED BY <1>3, <2>1, <2>2, <2>3
          DEF Stop, NotPreviewing, Idle, Inv, CallOnce, Closed, Job, TypeOK, Calls
<1>4. CASE Stopped
  <2>1. ~Has(prev_msg_que, "stop")
    BY <1>4 DEF Stopped, Inv, CallOnce
  <2>2. PICK r \in Room : /\ PrevPost("stop", r)
                          /\ app' = IF r THEN "draining" ELSE "refused"
    BY <1>4 DEF Stopped
  <2>3. /\ Once(prev_msg_que', {"stop"})
        /\ Has(prev_msg_que', "stop") => r
    <3>1. Messages /\ r \in BOOLEAN /\ Once(prev_msg_que, {"stop"})
      BY DEF Inv, CallOnce, Room
    <3> QED BY <2>1, <2>2, <3>1, PrevPosted
  <2> QED BY <1>4, <2>2, <2>3 DEF Stopped, Inv, CallOnce, Closed, TypeOK, Job
<1>5. CASE Reopen
  <2>1. /\ Once(msg_queue', Calls) /\ Once(prev_msg_que', {"stop"})
        /\ \A x : ~Has(msg_queue', x) /\ ~Has(prev_msg_que', x)
    BY <1>5, QueueEmpty DEF Reopen
  <2> QED BY <1>5, <2>1 DEF Reopen, Inv, CallOnce, Closed, Job
<1>6. CASE \/ MainStart \/ MainStop \/ MainExit \/ MainFrame \/ OldReceive
           \/ (\E e \in {"error", "timeout"} : MainNoWay(e))
           \/ (\E e \in {"error", "timeout"} : MainRecover(e))
  <2>1. msg_queue # << >> /\ msg_queue' = Tail(msg_queue)
    BY <1>6 DEF MainStart, MainStop, MainExit, MainFrame, OldReceive, MainNoWay, MainRecover,
      Receive
  <2>2. /\ Once(msg_queue', Calls)
        /\ Has(msg_queue, Head(msg_queue))
        /\ \A x : Has(msg_queue', x) => Has(msg_queue, x)
        /\ Head(msg_queue) \in Calls => \A x \in Calls : ~Has(msg_queue', x)
    BY <2>1, QueueTail DEF Inv, CallOnce, Messages
  <2> QED BY <1>6, <2>2
          DEF MainStart, MainStop, MainExit, MainFrame, OldReceive, MainNoWay, MainRecover, Receive,
              Inv, CallOnce, Calls, Job
<1>7. CASE FdFree
  <2>1. CASE job = "exit"
    <3>1. PICK r \in Room : PrevPost("exit", r)
      BY <1>7, <2>1 DEF FdFree
    <3>2. /\ Once(prev_msg_que', {"stop"})
          /\ Has(prev_msg_que', "stop") => Has(prev_msg_que, "stop")
      <4>1. Messages /\ r \in BOOLEAN /\ Once(prev_msg_que, {"stop"})
        BY DEF Inv, CallOnce, Room
      <4> QED BY <3>1, <4>1, PrevPosted
    <3> QED BY <1>7, <2>1, <3>2 DEF FdFree, Inv, CallOnce, Closed, Job
  <2>2. CASE job # "exit"
    BY <1>7, <2>2 DEF FdFree, Inv, CallOnce, Closed, Job
  <2> QED BY <2>1, <2>2
<1>8. CASE GrabPost
  <2>1. PICK r \in BOOLEAN : IF chn_1_status = "busy"
                              THEN PrevPost("frame", r) /\ UNCHANGED msg_queue
                              ELSE MainPost("frame", r) /\ UNCHANGED prev_msg_que
    BY <1>8 DEF GrabPost, Room
  <2>2. /\ Once(prev_msg_que', {"stop"}) /\ Once(msg_queue', Calls)
        /\ Has(prev_msg_que', "stop") => Has(prev_msg_que, "stop")
        /\ \A x \in Calls : Has(msg_queue', x) => Has(msg_queue, x)
    <3>1. Messages /\ Once(prev_msg_que, {"stop"}) /\ Once(msg_queue, Calls) /\ "frame" \notin Calls
      BY DEF Inv, CallOnce, Calls
    <3> QED BY <2>1, <3>1, PrevPosted, MainPosted
  <2> QED BY <1>8, <2>2 DEF GrabPost, Inv, CallOnce, Closed, Calls
<1>9. CASE GrabError
  <2>1. PICK r \in BOOLEAN : MainPost(grab, r)
    BY <1>9 DEF GrabError, Room
  <2>2. grab \in {"error", "timeout"} /\ grab \notin Calls
    BY <1>9 DEF GrabError, Calls
  <2>3. /\ Once(msg_queue', Calls)
        /\ \A x \in Calls : Has(msg_queue', x) => Has(msg_queue, x)
    <3>1. Messages /\ Once(msg_queue, Calls)
      BY DEF Inv, CallOnce
    <3> QED BY <2>1, <2>2, <3>1, MainPosted
  <2> QED BY <1>9, <2>3 DEF GrabError, Inv, CallOnce, Closed, Calls
<1>10. CASE PrevGet
  <2>1. /\ Once(prev_msg_que', {"stop"})
        /\ Has(prev_msg_que, Head(prev_msg_que))
        /\ Has(prev_msg_que', "stop") => Has(prev_msg_que, "stop")
        /\ Head(prev_msg_que) = "stop" => ~Has(prev_msg_que', "stop")
    BY <1>10, QueueTail DEF PrevGet, Inv, CallOnce, Messages
  <2> QED BY <1>10, <2>1 DEF PrevGet, Inv, CallOnce, Closed
<1>11. CASE StopDone
  BY <1>11 DEF StopDone, Finish, Inv, CallOnce, Closed, TypeOK, Job
<1>12. CASE \/ SetupFails \/ CapStartFails \/ PreviewOn
  BY <1>12 DEF SetupFails, CapStartFails, PreviewOn, AfterStart, Finish, Inv, CallOnce,
    Closed, TypeOK
<1>13. CASE Started
  BY <1>13 DEF Started, Inv, CallOnce, TypeOK
<1>14. CASE Drained
  BY <1>14 DEF Drained, Inv, CallOnce, TypeOK
<1>15. CASE \/ NotInPreview \/ V4l2Idle
  BY <1>15 DEF NotInPreview, V4l2Idle, AfterStop, Finish, Inv, CallOnce, Closed, TypeOK, Job
<1>16. CASE \/ (\E n \in {0, 1} : SendCommand(n))
  BY <1>16 DEF SendCommand, Inv, CallOnce, Closed, TypeOK, Job
<1>17. CASE \/ PreviewIdle \/ CapStop \/ FdInit \/ Setup \/ CapStart \/ V4l2On \/ FdDeinit
            \/ FdWait \/ ExitDone \/ StopWorking
  BY <1>17 DEF PreviewIdle, CapStop, FdInit, Setup, CapStart, V4l2On, FdDeinit, FdWait,
    ExitDone, StopWorking, Inv, CallOnce, Closed, TypeOK, Job
<1>18. CASE \/ (\E e \in {"frame", "error", "timeout"} : GrabEvent(e)) \/ GrabCallback
  BY <1>18 DEF GrabEvent, GrabCallback, Inv, CallOnce, Closed, TypeOK, Job
<1>19. CASE \/ PrevDiscard \/ PrevSkip \/ PrevHandle
            \/ (\E search \in BOOLEAN : PrevFace(search)) \/ PrevFdStart \/ PrevWait
            \/ PrevDeliver
  BY <1>19 DEF PrevDiscard, PrevSkip, PrevHandle, PrevFace, PrevFdStart, PrevWait,
    PrevDeliver, Inv, CallOnce
<1>20. CASE \/ FdInitMemory \/ FdMem0 \/ FdMem1 \/ FdStart \/ FdNoMemory \/ FdStopped
            \/ FdCopy \/ FdCopied \/ FdDetected \/ FdExit
  BY <1>20 DEF FdInitMemory, FdMem0, FdMem1, FdStart, FdNoMemory, FdStopped, FdCopy,
    FdCopied, FdDetected, FdExit, Inv, CallOnce, Closed, TypeOK, Job
<1>21. CASE \/ FdNoQueue \/ FdNoThread \/ FdNoMessage \/ FdNoRoom \/ MainGone
  BY <1>21 DEF FdNoQueue, FdNoThread, FdNoMessage, FdNoRoom, MainGone, Receive,
    FdDestroy, Inv, CallOnce, Closed, TypeOK, Job
<1>22. CASE \/ OldStopWorking \/ OldGone
  BY <1>22 DEF OldStopWorking, OldGone, Receive, FdDestroy, Inv, CallOnce, Closed,
    TypeOK, Job
<1>23. CASE UNCHANGED vars
  BY <1>23 DEF vars, Inv, CallOnce, Closed, TypeOK, Job
<1> QED BY <1>1, <1>2, <1>3, <1>4, <1>5, <1>6, <1>7, <1>8, <1>9, <1>10, <1>11, <1>12, <1>13,
  <1>14, <1>15, <1>16, <1>17, <1>18, <1>19, <1>20, <1>21, <1>22, <1>23 DEF Next, AppReturns,
  AppCalls, Main, Old, Grab, Prev, Fd

\* Whatever went wrong in a session, the next one finds no thread, message or post of the
\* face detection.
LEMMA CleanStep == Inv /\ [Next]_vars => Clean'
<1> SUFFICES ASSUME Inv, [Next]_vars PROVE Clean'
  OBVIOUS
<1> USE DEF appVars, mainVars, prevVars, source, stream, recovery, fdVars, fdThread, fdFlags,
            fdMemory, Starting, Stopping, Deinit, Closed, Calm
<1>1. CASE Reopen
  BY <1>1, QueueEmpty DEF Reopen, Inv, Clean, Closed, Fields, Job
<1>2. CASE \E n \in {0, 1} : SendCommand(n)
  <2>1. PICK n \in {0, 1} : SendCommand(n) /\ MemHandle(n)
    BY <1>2 DEF SendCommand
  <2>2. /\ Has(fd_msg_que', "exit") => Has(fd_msg_que, "exit")
        /\ fd_is_inited = 0 => fd_msg_que' = fd_msg_que
    BY <2>1, MemHandled DEF Inv, Messages, TypeOK
  <2> QED BY <2>1, <2>2 DEF SendCommand, Inv, Clean, Closed, Fields
<1>3. CASE StopDone
  <2>1. MemHandle(0) \/ fd_msg_que' = fd_msg_que
    BY <1>3 DEF StopDone
  <2>2. /\ Has(fd_msg_que', "exit") => Has(fd_msg_que, "exit")
        /\ fd_is_inited = 0 => fd_msg_que' = fd_msg_que
    BY <2>1, MemHandled DEF Inv, Messages, TypeOK
  <2> QED BY <1>3, <2>2 DEF StopDone, Finish, Inv, Clean, Closed, Fields, CallOnce, Job
<1>4. CASE FdInit
  <2>1. CASE FdPost("init") /\ fd_is_inited = 1 /\ UNCHANGED <<fd, fd_is_inited>>
    <3>1. Has(fd_msg_que', "exit") => Has(fd_msg_que, "exit")
      BY <2>1, FdPosted DEF Inv, Messages, TypeOK, FdMessages
    <3> QED BY <1>4, <2>1, <3>1 DEF FdInit, Inv, Clean, Closed, Fields
  <2>2. CASE fd_msg_que' = <<"init">> /\ fd' = "loop" /\ fd_is_inited' = 1 /\ is_support_fd = 1
    BY <1>4, <2>2 DEF FdInit, Inv, Clean, Closed, Fields
  <2>3. CASE UNCHANGED <<fdThread, fd_is_inited>>
    BY <1>4, <2>3 DEF FdInit, Inv, Clean, Closed, Fields
  <2> QED BY <1>4, <2>1, <2>2, <2>3 DEF FdInit, Inv, Fields
<1>5. CASE FdDeinit
  <2>1. CASE FdPost("exit") /\ fd_is_inited = 1
    BY <1>5, <2>1 DEF FdDeinit, Inv, Clean, Closed, Fields
  <2>2. CASE UNCHANGED fd_msg_que
    BY <1>5, <2>2 DEF FdDeinit, Inv, Clean, Closed, Fields
  <2> QED BY <1>5, <2>1, <2>2 DEF FdDeinit
<1>6. CASE FdFree
  BY <1>6, QueueEmpty DEF FdFree, FdDestroy, Inv, Clean, Closed, Fields, Job
<1>7. CASE PrevFdStart
  <2>1. CASE FdPost("start") /\ prev' = "fdwait"
    <3>1. Has(fd_msg_que', "exit") => Has(fd_msg_que, "exit")
      BY <2>1, FdPosted DEF Inv, Messages, TypeOK, FdMessages
    <3> QED BY <1>7, <2>1, <3>1 DEF PrevFdStart, Inv, Clean, Closed
  <2>2. CASE UNCHANGED fd_msg_que
    BY <1>7, <2>2 DEF PrevFdStart, Inv, Clean, Closed
  <2> QED BY <1>7, <2>1, <2>2 DEF PrevFdStart
<1>8. CASE \/ FdInitMemory \/ FdMem0 \/ FdMem1 \/ FdStart \/ FdExit
  <2>1. fd_msg_que # << >> /\ fd_msg_que' = Tail(fd_msg_que) /\ fd = "loop"
    BY <1>8 DEF FdInitMemory, FdMem0, FdMem1, FdStart, FdExit, FdReceive
  <2>2. /\ Has(fd_msg_que, Head(fd_msg_que))
        /\ Has(fd_msg_que', "exit") => Has(fd_msg_que, "exit")
    BY <2>1, QueueTail DEF Inv, Messages
  <2> QED BY <1>8, <2>1, <2>2 DEF FdInitMemory, FdMem0, FdMem1, FdStart, FdExit, FdReceive, Inv,
                               Clean
<1>9. CASE PrevGet
  BY <1>9 DEF PrevGet, Inv, Clean, Closed, Fields, Job
<1>10. CASE PrevWait
  BY <1>10 DEF PrevWait, Inv, Clean, Closed, Fields, Job
<1>11. CASE \/ Started \/ Stopped \/ Drained \/ StartPreview \/ StopPreview \/ Stop
  BY <1>11 DEF Started, Stopped, Drained, StartPreview, StopPreview, Stop, Inv, Clean
<1>12. CASE \/ MainStart \/ MainStop \/ MainExit
            \/ (\E e \in {"error", "timeout"} : MainNoWay(e))
            \/ (\E e \in {"error", "timeout"} : MainRecover(e)) \/ NotInPreview
            \/ PreviewIdle \/ CapStop \/ V4l2Idle \/ SetupFails \/ Setup \/ CapStartFails
            \/ CapStart \/ V4l2On \/ PreviewOn \/ FdWait \/ ExitDone \/ StopWorking
  BY <1>12 DEF MainStart, MainStop, MainExit, MainNoWay, MainRecover, NotInPreview,
    PreviewIdle, CapStop, V4l2Idle, SetupFails, Setup, CapStartFails, CapStart, V4l2On,
    PreviewOn, FdWait, ExitDone, StopWorking, Receive, AfterStop, Finish, AfterStart, Inv,
    Clean, Closed, Fields, Job
<1>13. CASE \/ (\E e \in {"frame", "error", "timeout"} : GrabEvent(e)) \/ GrabCallback
            \/ GrabPost \/ GrabError
  BY <1>13 DEF GrabEvent, GrabCallback, GrabPost, GrabError, Inv, Clean
<1>14. CASE \/ PrevDiscard \/ PrevSkip \/ PrevHandle
            \/ (\E search \in BOOLEAN : PrevFace(search)) \/ PrevDeliver
  BY <1>14 DEF PrevDiscard, PrevSkip, PrevHandle, PrevFace, PrevDeliver,
    InPreview, Inv, Clean
<1>15. CASE \/ FdNoMemory \/ FdStopped \/ FdCopy \/ FdCopied \/ FdDetected
  BY <1>15 DEF FdNoMemory, FdStopped, FdCopy, FdCopied, FdDetected, Inv, Clean, Closed,
    Fields, Job
<1>16. CASE \/ MainFrame \/ FdNoQueue \/ FdNoThread \/ FdNoMessage \/ FdNoRoom \/ MainGone
  BY <1>16, QueueEmpty DEF MainFrame, FdNoQueue, FdNoThread, FdNoMessage, FdNoRoom, MainGone,
    Receive, FdDestroy, Inv, Clean, Closed, Fields, Job
<1>17. CASE \/ OldStopWorking \/ OldGone \/ OldReceive
  BY <1>17, QueueEmpty DEF OldStopWorking, OldGone, OldReceive, Receive, FdDestroy, Inv, Clean,
    Closed, Fields, Job
<1>18. CASE UNCHANGED vars
  BY <1>18 DEF vars, Inv, Clean, Closed, Fields, Job
<1> QED BY <1>1, <1>2, <1>3, <1>4, <1>5, <1>6, <1>7, <1>8, <1>9, <1>10, <1>11, <1>12, <1>13,
  <1>14, <1>15, <1>16, <1>17, <1>18 DEF Next, AppReturns, AppCalls, Main, Old, Grab, Prev, Fd

\* A stop waits for the frames: none is queued behind the message that asks the preview
\* thread to answer, since chn_1_status was idle before.
LEMMA QuietStep == Inv /\ [Next]_vars => (Calm => Quiet)' /\ (Orderly => Rest)'
<1> SUFFICES ASSUME Inv, [Next]_vars PROVE (Calm => Quiet)' /\ (Orderly => Rest)'
  OBVIOUS
<1> USE DEF appVars, mainVars, prevVars, source, stream, recovery, fdVars, fdThread, fdFlags,
            fdMemory, Starting, Stopping, Deinit, Closed, Calm
<1>1. CASE Stopped
  <2>1. PICK r \in Room : /\ PrevPost("stop", r)
                          /\ app' = IF r THEN "draining" ELSE "refused"
                          /\ risk' = IF r THEN risk ELSE risk \cup {"unstopped"}
    BY <1>1 DEF Stopped
  <2>2. r => prev_msg_que' # << >> /\ prev_msg_que'[Len(prev_msg_que')] = "stop"
    BY <2>1, PrevPosted DEF Room, Inv
  <2> QED BY <1>1, <2>1, <2>2 DEF Stopped, Inv, Orderly, Quiet, Rest, AtRest, Still, Idle,
    CallOnce, TypeOK
<1>2. CASE Reopen
  BY <1>2 DEF Reopen, Inv, Orderly, Quiet, Rest, AtRest, Still, Empty, Closed, Idle, CallOnce,
    Fields, TypeOK, Job
<1>3. CASE \/ MainStart \/ MainStop \/ MainExit
  BY <1>3, QueueTail DEF MainStart, MainStop, MainExit, Receive, Inv, Orderly, Quiet, Rest,
    AtRest, Still, Empty, Closed, Idle, CallOnce, Fields, TypeOK, Job
<1>4. CASE \/ (\E e \in {"error", "timeout"} : MainNoWay(e))
           \/ (\E e \in {"error", "timeout"} : MainRecover(e))
  BY <1>4, QueueTail DEF MainNoWay, MainRecover, Receive, Inv, Orderly, Quiet, Rest, AtRest,
    Still, Empty, Closed, Idle, CallOnce, Fields, TypeOK, Job
<1>5. CASE SetupFails
  BY <1>5 DEF SetupFails, AfterStart, Finish, Inv, Orderly, Quiet, Rest, AtRest, Still, Empty,
    Closed, Idle, CallOnce, Fields, TypeOK, Job
<1>6. CASE CapStartFails
  BY <1>6 DEF CapStartFails, AfterStart, Finish, Inv, Orderly, Quiet, Rest, AtRest, Still, Empty,
    Closed, Idle, CallOnce, Fields, TypeOK, Job
<1>7. CASE PreviewOn
  BY <1>7 DEF PreviewOn, AfterStart, Finish, Inv, Orderly, Quiet, Rest, AtRest, Still, Empty,
    Closed, Idle, CallOnce, Fields, TypeOK, Job
<1>8. CASE \/ NotInPreview \/ V4l2Idle
  BY <1>8 DEF NotInPreview, V4l2Idle, AfterStop, Finish, Inv, Orderly, Quiet, Rest, AtRest,
    Still, Empty, Closed, Idle, CallOnce, Fields, TypeOK, Job
<1>9. CASE StopDone
  BY <1>9 DEF StopDone, Finish, Inv, Orderly, Quiet, Rest, AtRest, Still, Empty, Closed, Idle,
    CallOnce, Fields, TypeOK, Job
<1>10. CASE PreviewIdle
  BY <1>10 DEF PreviewIdle, Inv, Orderly, Quiet, Rest, AtRest, Still, Empty, Closed, Idle,
    CallOnce, Fields, TypeOK, Job
<1>11. CASE FdFree
  BY <1>11 DEF FdFree, PrevPost, Inv, Orderly, Quiet, Rest, AtRest, Still, Empty, Closed, Idle,
    CallOnce, Fields, TypeOK, Job
<1>12. CASE GrabPost
  BY <1>12 DEF GrabPost, PrevPost, MainPost, Inv, Orderly, Quiet, Rest, AtRest, Still, Empty,
    Closed, Idle, CallOnce, Fields, TypeOK, Job
<1>13. CASE PrevGet
  <2>1. /\ Has(prev_msg_que, Head(prev_msg_que)) /\ Head(prev_msg_que) \in {"frame", "stop", "exit"}
        /\ Head(prev_msg_que) = "stop" => ~Has(prev_msg_que', "stop")
        /\ prev_msg_que' # << >> =>
             /\ prev_msg_que'[Len(prev_msg_que')] = prev_msg_que[Len(prev_msg_que)]
             /\ Has(prev_msg_que', prev_msg_que[Len(prev_msg_que)])
        /\ prev_msg_que' = << >> => Head(prev_msg_que) = prev_msg_que[Len(prev_msg_que)]
    BY <1>13, QueueTail DEF PrevGet, Inv, Messages, CallOnce
  <2>2. CASE app = "draining"
    BY <1>13, <2>1, <2>2 DEF PrevGet, Inv, Orderly, Quiet, Rest, AtRest, Still, Empty, Closed,
      Idle, CallOnce, Fields, TypeOK, Job
  <2>3. CASE app # "draining"
    BY <1>13, <2>1, <2>3 DEF PrevGet, Inv, Orderly, Quiet, Rest, AtRest, Still, Empty, Closed,
      Idle, CallOnce, Fields, TypeOK, Job
  <2> QED BY <2>2, <2>3
<1>14. CASE PrevDiscard
  BY <1>14 DEF PrevDiscard, Inv, Orderly, Quiet, Rest, AtRest, Still, Empty, Idle
<1>15. CASE PrevSkip
  BY <1>15 DEF PrevSkip, InPreview, Inv, Orderly, Quiet, Rest, AtRest, Still, Empty, Idle
<1>16. CASE \/ PrevHandle \/ (\E search \in BOOLEAN : PrevFace(search))
  BY <1>16 DEF PrevHandle, PrevFace, InPreview, Inv, Orderly, Quiet, Rest, AtRest, Still, Empty,
    Closed, Idle, CallOnce, Fields, TypeOK, Job
<1>17. CASE Started
  BY <1>17 DEF Started, Inv, Orderly, Quiet, Rest, AtRest, Still, Empty, Idle, CallOnce, Fields,
    TypeOK, Job
<1>18. CASE Drained
  BY <1>18 DEF Drained, Inv, Orderly, Quiet, Rest, AtRest, Still, Empty, Idle, CallOnce, Fields,
    TypeOK, Job
<1>19. CASE \/ StartPreview \/ StopPreview \/ Stop
  BY <1>19 DEF StartPreview, StopPreview, Stop, NotPreviewing, Unstopped, Idle, Inv, Orderly,
    Quiet, Rest, AtRest, Still, Empty, Closed, CallOnce, Fields, TypeOK, Job
<1>20. CASE \/ (\E n \in {0, 1} : SendCommand(n))
  BY <1>20 DEF SendCommand, Inv, Orderly, Quiet, Rest, AtRest, Still, Empty, Closed, Idle,
    CallOnce, Fields, TypeOK, Job
<1>21. CASE \/ CapStop \/ FdInit \/ Setup \/ CapStart \/ V4l2On \/ FdDeinit \/ FdWait
            \/ ExitDone \/ StopWorking
  BY <1>21 DEF CapStop, FdInit, Setup, CapStart, V4l2On, FdDeinit, FdWait, ExitDone,
    StopWorking, Inv, Orderly, Quiet, Rest, AtRest, Still, Empty, Closed, Idle, CallOnce, Fields,
    TypeOK, Job
<1>22. CASE \/ (\E e \in {"frame", "error", "timeout"} : GrabEvent(e)) \/ GrabCallback
            \/ GrabError
  BY <1>22 DEF GrabEvent, GrabCallback, GrabError, Inv, Orderly, Quiet, Rest, AtRest, Still,
    Empty, Closed, Idle, CallOnce, Fields, TypeOK, Job
<1>23. CASE \/ PrevFdStart \/ PrevWait \/ PrevDeliver
  BY <1>23 DEF PrevFdStart, PrevWait, PrevDeliver, Inv, Orderly, Quiet, Rest,
    AtRest, Still, Empty, Closed, Idle, CallOnce, Fields, TypeOK, Job
<1>24. CASE \/ FdInitMemory \/ FdMem0 \/ FdMem1 \/ FdStart \/ FdNoMemory \/ FdStopped
            \/ FdCopy \/ FdCopied \/ FdDetected \/ FdExit
  BY <1>24 DEF FdInitMemory, FdMem0, FdMem1, FdStart, FdNoMemory, FdStopped, FdCopy,
    FdCopied, FdDetected, FdExit, Inv, Orderly, Quiet, Rest, AtRest, Still, Empty, Closed, Idle,
    CallOnce, Fields, TypeOK, Job
<1>25. CASE \/ MainFrame \/ FdNoQueue \/ FdNoThread \/ FdNoMessage \/ FdNoRoom \/ MainGone
  BY <1>25, QueueTail DEF MainFrame, FdNoQueue, FdNoThread, FdNoMessage, FdNoRoom, MainGone,
    Receive, Inv, Orderly, Quiet, Rest, AtRest, Still, Empty, Closed, Idle, CallOnce, Fields,
    TypeOK, Job
<1>26. CASE \/ OldStopWorking \/ OldGone \/ OldReceive
  BY <1>26, QueueTail DEF OldStopWorking, OldGone, OldReceive, Receive, Inv, Orderly, Quiet,
    Rest, AtRest, Still, Empty, Closed, Idle, CallOnce, Fields, TypeOK, Job
<1>27. CASE UNCHANGED vars
  BY <1>27 DEF vars, Inv, Orderly, Quiet, Rest, AtRest, Still, Empty, Closed, Idle, CallOnce,
    Fields, TypeOK, Job
<1> QED BY <1>1, <1>2, <1>3, <1>4, <1>5, <1>6, <1>7, <1>8, <1>9, <1>10, <1>11, <1>12, <1>13,
  <1>14, <1>15, <1>16, <1>17, <1>18, <1>19, <1>20, <1>21, <1>22, <1>23, <1>24, <1>25, <1>26,
  <1>27 DEF Next, AppReturns, AppCalls, Main, Old, Grab, Prev, Fd

\* The face detection is ended only when the preview thread has handled everything.
LEMMA DeinitAtRest ==
    ASSUME Inv, Answers, main \in Deinit
    PROVE  prev = "loop"
<1> USE DEF Starting, Stopping, Deinit, Closed, Calm
<1>1. CASE job = "exit"
  <2>1. Orderly /\ app = "closing"
    BY <1>1 DEF Answers, Orderly, Inv, CallOnce
  <2> QED BY <2>1 DEF Inv, Rest, AtRest, Empty
<1>2. CASE job # "exit"
  <2>1. job = "start" /\ Orderly
    BY <1>2 DEF Inv, Ended, Answers, Orderly
  <2>2. app = "starting" /\ start_sem = 0
    BY <2>1 DEF Inv, CallOnce
  <2> QED BY <2>1, <2>2 DEF Inv, Rest, AtRest, Empty
<1> QED BY <1>1, <1>2

\* The semaphore that two threads wait for is posted once for each wait.
LEMMA OneAnswerStep == Inv /\ [Next]_vars => (Answers => OneAnswer)'
<1> SUFFICES ASSUME Inv, [Next]_vars PROVE (Answers => OneAnswer)'
  OBVIOUS
<1> USE DEF appVars, mainVars, prevVars, source, stream, recovery, fdVars, fdThread, fdFlags,
            fdMemory, Starting, Stopping, Deinit, Closed, Calm
<1>1. CASE Reopen
  <2>1. fd_msg_que = << >> /\ fd_sync_sem = 0 /\ fd = "none" /\ fd_is_inited = 0
    BY <1>1 DEF Reopen, Inv, Clean, Closed
  <2>2. ~Has(fd_msg_que', "start") /\ ~Has(fd_msg_que', "exit") /\ Once(fd_msg_que', {"start"})
    BY <1>1, <2>1, QueueEmpty DEF Reopen
  <2> QED BY <1>1, <2>1, <2>2 DEF Reopen, OneAnswer, Asked, Taken
<1>2. CASE \E n \in {0, 1} : SendCommand(n)
  <2>1. PICK n \in {0, 1} : SendCommand(n) /\ MemHandle(n)
    BY <1>2 DEF SendCommand
  <2>2. /\ \A x \in {"start", "exit"} : Has(fd_msg_que', x) <=> Has(fd_msg_que, x)
        /\ Once(fd_msg_que, {"start"}) => Once(fd_msg_que', {"start"})
    BY <2>1, MemHandled DEF Inv, Messages, TypeOK
  <2> QED BY <2>1, <2>2 DEF SendCommand, Inv, Answers, OneAnswer, Asked, Taken
<1>3. CASE StopDone
  <2>1. MemHandle(0) \/ fd_msg_que' = fd_msg_que
    BY <1>3 DEF StopDone
  <2>2. /\ \A x \in {"start", "exit"} : Has(fd_msg_que', x) <=> Has(fd_msg_que, x)
        /\ Once(fd_msg_que, {"start"}) => Once(fd_msg_que', {"start"})
    BY <2>1, MemHandled DEF Inv, Messages, TypeOK
  <2> QED BY <1>3, <2>2 DEF StopDone, Finish, Inv, Job, Answers, OneAnswer, Asked, Taken
<1>4. CASE FdInit
  <2>1. CASE FdPost("init") /\ UNCHANGED <<fd, fd_sync_sem, fd_is_inited, risk>>
    <3>1. /\ \A x \in {"start", "exit"} : Has(fd_msg_que', x) <=> Has(fd_msg_que, x)
          /\ Once(fd_msg_que, {"start"}) => Once(fd_msg_que', {"start"})
      BY <2>1, FdPosted DEF Inv, Messages, TypeOK, FdMessages
    <3> QED BY <1>4, <2>1, <3>1 DEF FdInit, Inv, Answers, OneAnswer, Asked, Taken
  <2>2. CASE /\ fd_msg_que' = <<"init">> /\ fd' = "loop" /\ fd_sync_sem' = 0
             /\ fd_is_inited = 0 /\ fd_is_inited' = 1 /\ UNCHANGED risk
    <3>1. ~Has(fd_msg_que', "start") /\ ~Has(fd_msg_que', "exit") /\ Once(fd_msg_que', {"start"})
      BY <2>2 DEF Has, Once
    <3> QED BY <1>4, <2>2, <3>1 DEF FdInit, Inv, Answers, OneAnswer, Asked, Taken
  <2>3. CASE UNCHANGED <<fdThread, fd_is_inited, risk>>
    BY <1>4, <2>3 DEF FdInit, Inv, Answers, OneAnswer, Asked, Taken
  <2> QED BY <1>4, <2>1, <2>2, <2>3 DEF FdInit, Inv, Fields
<1>5. CASE FdDeinit
  <2>1. Answers => prev = "loop"
    BY <1>5, DeinitAtRest DEF FdDeinit
  <2>2. CASE FdPost("exit") /\ FdHasRoom /\ main' = "fdwait"
    <3>1. /\ Has(fd_msg_que', "start") <=> Has(fd_msg_que, "start")
          /\ Once(fd_msg_que, {"start"}) => Once(fd_msg_que', {"start"})
      BY <2>2, FdPosted DEF Inv, Messages, TypeOK, FdMessages
    <3> QED BY <1>5, <2>1, <2>2, <3>1 DEF FdDeinit, Inv, Answers, OneAnswer, Asked, Taken
  <2>3. CASE risk' = risk \cup {"full"}
    BY <2>3 DEF Answers
  <2>4. CASE fd_is_inited = 0 /\ UNCHANGED <<fd_msg_que, risk>>
    BY <1>5, <2>1, <2>4 DEF FdDeinit, Inv, Answers, OneAnswer, Asked, Taken
  <2> QED BY <1>5, <2>2, <2>3, <2>4 DEF FdDeinit, Inv, Clean, Fields
<1>6. CASE FdWait
  <2>1. Answers => prev = "loop"
    BY <1>6, DeinitAtRest DEF FdWait
  <2> QED BY <1>6, <2>1 DEF FdWait, Inv, Answers, OneAnswer, Asked, Taken
<1>7. CASE FdFree
  <2>1. Answers => prev = "loop"
    BY <1>7, DeinitAtRest DEF FdFree
  <2>2. Answers => fd = "none" /\ fd_is_inited' = 0 /\ ~Has(fd_msg_que', "start")
        /\ ~Has(fd_msg_que', "exit") /\ fd_sync_sem' = 0 /\ Once(fd_msg_que', {"start"})
    BY <1>7, <2>1, QueueEmpty DEF FdFree, FdDestroy, Clean, Fields, Inv, Answers, OneAnswer,
      Asked, Taken
  <2> QED BY <1>7, <2>1, <2>2 DEF FdFree, Inv, Answers, OneAnswer, Asked, Taken
<1>8. CASE PrevFdStart
  <2>1. CASE FdPost("start") /\ FdHasRoom /\ prev' = "fdwait"
    <3>1. /\ Has(fd_msg_que', "start") /\ (Has(fd_msg_que', "exit") => Has(fd_msg_que, "exit"))
          /\ Once(fd_msg_que, {"start"}) /\ ~Has(fd_msg_que, "start")
               => Once(fd_msg_que', {"start"})
      BY <2>1, FdPosted DEF Inv, Messages, TypeOK, FdMessages
    <3>2. Answers => main \notin Deinit
      BY <1>8, DeinitAtRest DEF PrevFdStart
    <3> QED BY <1>8, <2>1, <3>1, <3>2 DEF PrevFdStart, Inv, Answers, OneAnswer, Asked, Taken
  <2>2. CASE prev' = "deliver" /\ UNCHANGED fd_msg_que
    BY <1>8, <2>2 DEF PrevFdStart, Inv, Answers, OneAnswer, Asked, Taken
  <2> QED BY <1>8, <2>1, <2>2 DEF PrevFdStart
<1>9. CASE \/ NotInPreview \/ V4l2Idle
  <2>1. /\ main' \notin {"fdwait", "fdfree"} /\ main \notin {"fdwait", "fdfree"}
        /\ Answers' => Answers
    BY <1>9 DEF NotInPreview, V4l2Idle, AfterStop, Finish, Inv, Job, Answers
  <2> QED BY <1>9, <2>1 DEF NotInPreview, V4l2Idle, Inv, OneAnswer, Asked, Taken
<1>10. CASE PrevGet
  <2>1. Head(prev_msg_que) \in {"frame", "stop", "exit"}
    BY <1>10, QueueTail DEF PrevGet, Inv, Messages
  <2> QED BY <1>10, <2>1 DEF PrevGet, Inv, Answers, OneAnswer, Asked, Taken
<1>11. CASE PrevWait
  BY <1>11 DEF PrevWait, Inv, Answers, OneAnswer, Asked, Taken, Fields
<1>12. CASE \/ FdInitMemory \/ FdMem0 \/ FdMem1
  <2>1. fd_msg_que # << >> /\ Head(fd_msg_que) # "start" /\ fd_msg_que' = Tail(fd_msg_que)
    BY <1>12 DEF FdInitMemory, FdMem0, FdMem1, FdReceive
  <2>2. /\ \A x : Has(fd_msg_que', x) => Has(fd_msg_que, x)
        /\ Has(fd_msg_que', "start") <=> Has(fd_msg_que, "start")
        /\ Once(fd_msg_que, {"start"}) => Once(fd_msg_que', {"start"})
    BY <2>1, QueueTail DEF Inv, Messages
  <2> QED BY <1>12, <2>2 DEF FdInitMemory, FdMem0, FdMem1, Inv, Answers, OneAnswer, Asked, Taken
<1>13. CASE FdStart
  <2>1. /\ \A x : Has(fd_msg_que', x) => Has(fd_msg_que, x)
        /\ Has(fd_msg_que, "start")
        /\ Once(fd_msg_que, {"start"}) => Once(fd_msg_que', {"start"}) /\ ~Has(fd_msg_que', "start")
    BY <1>13, QueueTail DEF FdStart, FdReceive, Inv, Messages
  <2> QED BY <1>13, <2>1 DEF FdStart, FdReceive, Inv, Answers, OneAnswer, Asked, Taken
<1>14. CASE FdExit
  <2>1. /\ \A x : Has(fd_msg_que', x) => Has(fd_msg_que, x)
        /\ Has(fd_msg_que, "exit")
        /\ Has(fd_msg_que', "start") <=> Has(fd_msg_que, "start")
        /\ Once(fd_msg_que, {"start"}) => Once(fd_msg_que', {"start"})
    BY <1>14, QueueTail DEF FdExit, FdReceive, Inv, Messages
  <2>2. Answers => main = "fdwait" /\ prev = "loop"
    BY <1>14, <2>1, DeinitAtRest DEF FdExit, FdReceive, Inv, OneAnswer
  <2> QED BY <1>14, <2>1, <2>2 DEF FdExit, FdReceive, Inv, Answers, OneAnswer, Asked, Taken
<1>15. CASE \/ Started \/ Drained
  BY <1>15 DEF Started, Drained, Inv, CallOnce, Answers, OneAnswer, Asked, Taken
<1>16. CASE \/ Stopped \/ StartPreview \/ StopPreview \/ Stop
  <2>1. Answers' => Answers
    BY <1>16 DEF Stopped, StartPreview, StopPreview, Stop, Unstopped, Answers
  <2> QED BY <1>16, <2>1 DEF Stopped, StartPreview, StopPreview, Stop, Inv, OneAnswer, Asked, Taken
<1>17. CASE \/ MainStart \/ MainStop \/ MainExit
           \/ (\E e \in {"error", "timeout"} : MainNoWay(e))
           \/ (\E e \in {"error", "timeout"} : MainRecover(e)) \/ PreviewIdle \/ CapStop
           \/ Setup \/ CapStart \/ V4l2On \/ StopWorking
  <2>1. main' \notin Deinit /\ main \notin Deinit /\ (Answers' => Answers)
    BY <1>17 DEF MainStart, MainStop, MainExit, MainNoWay, MainRecover, PreviewIdle, CapStop,
      Setup, CapStart, V4l2On, StopWorking, Receive, Inv, Job, Answers
  <2> QED BY <1>17, <2>1 DEF MainStart, MainStop, MainExit, MainNoWay, MainRecover, PreviewIdle,
    CapStop, Setup, CapStart, V4l2On, StopWorking, Receive, Inv, OneAnswer, Asked, Taken
<1>18. CASE \/ SetupFails \/ CapStartFails \/ PreviewOn \/ ExitDone
  <2>1. main' \notin Deinit /\ main \notin Deinit /\ (Answers' => Answers)
    BY <1>18 DEF SetupFails, CapStartFails, PreviewOn, ExitDone, AfterStart, Finish, Inv, Job,
      Answers
  <2> QED BY <1>18, <2>1 DEF SetupFails, CapStartFails, PreviewOn, ExitDone, Inv, OneAnswer, Asked,
    Taken
<1>19. CASE \/ (\E e \in {"frame", "error", "timeout"} : GrabEvent(e)) \/ GrabCallback
            \/ GrabPost \/ GrabError
  BY <1>19 DEF GrabEvent, GrabCallback, GrabPost, GrabError, Inv, Answers, OneAnswer, Asked,
    Taken, Fields
<1>20. CASE \/ PrevDiscard \/ PrevSkip \/ PrevHandle
            \/ (\E search \in BOOLEAN : PrevFace(search)) \/ PrevDeliver
  BY <1>20 DEF PrevDiscard, PrevSkip, PrevHandle, PrevFace, PrevDeliver,
    InPreview, Inv, Answers, OneAnswer, Asked, Taken, Fields
<1>21. CASE \/ FdNoMemory \/ FdStopped \/ FdCopy \/ FdCopied \/ FdDetected
  BY <1>21 DEF FdNoMemory, FdStopped, FdCopy, FdCopied, FdDetected, Inv, Answers, OneAnswer,
    Asked, Taken, Fields
<1>22. CASE \/ MainFrame \/ FdNoQueue \/ FdNoThread \/ FdNoMessage \/ FdNoRoom \/ MainGone
  BY <1>22, QueueEmpty DEF MainFrame, FdNoQueue, FdNoThread, FdNoMessage, FdNoRoom, MainGone,
    Receive, FdDestroy, Inv, Answers, OneAnswer, Asked, Taken, Clean, Fields, Job
<1>23. CASE \/ OldStopWorking \/ OldGone \/ OldReceive
  BY <1>23, QueueEmpty DEF OldStopWorking, OldGone, OldReceive, Receive, FdDestroy, Inv,
    Answers, OneAnswer, Asked, Taken, Clean, Fields, Job
<1>24. CASE UNCHANGED vars
  BY <1>24 DEF vars, Inv, Answers, OneAnswer, Asked, Taken, Fields
<1> QED BY <1>1, <1>2, <1>3, <1>4, <1>5, <1>6, <1>7, <1>8, <1>9, <1>10, <1>11, <1>12, <1>13,
  <1>14, <1>15, <1>16, <1>17, <1>18, <1>19, <1>20, <1>21, <1>22, <1>23, <1>24 DEF Next,
  AppReturns, AppCalls, Main, Old, Grab, Prev, Fd

-----------------------------------------------------------------------------
(* Theorems                                                                *)

\* camera_init establishes the invariant.
LEMMA InvInitial == Init => Inv
<1> SUFFICES ASSUME Init PROVE Inv
  OBVIOUS
<1>1. /\ \A x : ~Has(msg_queue, x) /\ ~Has(prev_msg_que, x) /\ ~Has(fd_msg_que, x)
      /\ \A S : Once(msg_queue, S) /\ Once(prev_msg_que, S) /\ Once(fd_msg_que, S)
  BY QueueEmpty DEF Init
<1>2. TypeOK /\ Messages /\ Fields /\ Job /\ Ended
  BY BoundsAssumption DEF Init, TypeOK, Messages, Fields, Job, Ended, Deinit
<1>3. CallOnce /\ Clean
  BY <1>1 DEF Init, CallOnce, Clean, Closed
<1>4. Quiet /\ Rest
  BY DEF Init, Quiet, Rest, AtRest, Still, Empty, Idle, Closed
<1>5. OneAnswer
  BY <1>1 DEF Init, OneAnswer, Asked, Taken
<1>6. Lowered
  BY DEF Init, Lowered
<1> QED BY <1>2, <1>3, <1>4, <1>5, <1>6 DEF Inv

\* The invariant of every preview session.
THEOREM Invariance == Spec => []Inv
<1>1. Inv /\ [Next]_vars => Inv'
  BY TypeStep, MessagesStep, FieldStep, JobStep, EndedStep, CallOnceStep, CleanStep, QuietStep,
     OneAnswerStep, BusyStep DEF Inv
<1> QED BY InvInitial, <1>1, PTL DEF Spec

\* The positions of the threads and the counters: the semaphores the HAL waits for are
\* never posted twice, the recoveries are counted down to 0 and not further, the queue of
\* the face detection thread is never overrun; for any sizes of the queues.
THEOREM TypeCorrect == Spec => []TypeOK
<1>1. Inv => TypeOK
  BY DEF Inv
<1> QED BY Invariance, <1>1, PTL

\* Once camera_stop_preview has returned no thread holds a frame, also if device
\* errors, recoveries and face detection happen at the same time.
THEOREM NoFrameAfterStop == Spec => []QuietAfterStop
<1>1. Inv => QuietAfterStop
  <2> SUFFICES ASSUME Inv, app = "open", Orderly
               PROVE  prev \notin {"face", "fdstart", "fdwait", "deliver"} /\ fd # "copy"
    BY DEF QuietAfterStop
  <2>1. prev = "loop"
    BY DEF Inv, Rest, AtRest, Idle, Empty
  <2>2. Answers
    BY DEF Answers, Orderly
  <2> QED BY <2>1, <2>2 DEF Inv, OneAnswer, Taken
<1> QED BY Invariance, <1>1, PTL

\* The preview thread keeps the frame until it was copied.
THEOREM FrameIsHeld == Spec => []FrameHeld
<1>1. Inv => FrameHeld
  BY DEF Inv, FrameHeld, Orderly, Answers, OneAnswer, Taken
<1> QED BY Invariance, <1>1, PTL

\* arithmetic_fd_deinit destroys nothing in use.
THEOREM NothingIsDangling == Spec => []NothingDangling
<1>1. Inv => NothingDangling
  <2> SUFFICES ASSUME Inv, main = "fdfree", Orderly
               PROVE  fd = "none" /\ prev \notin {"fdstart", "fdwait"}
    BY DEF NothingDangling
  <2>1. Answers
    BY DEF Answers, Orderly
  <2>2. prev = "loop"
    BY <2>1, DeinitAtRest DEF Deinit
  <2> QED BY <2>1, <2>2 DEF Inv, OneAnswer
<1> QED BY Invariance, <1>1, PTL

\* Face detection is busy only while it works, or was once asked without memory.
THEOREM BusyIsWorking == Spec => []BusyMeansWorking
<1>1. Inv => BusyMeansWorking
  BY DEF Inv, BusyMeansWorking, Orderly, Lowered
<1> QED BY Invariance, <1>1, PTL
=============================================================================
