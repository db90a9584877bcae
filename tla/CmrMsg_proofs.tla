---------------------------- MODULE CmrMsg_proofs ----------------------------
(***************************************************************************)
(* Proofs about the message queue of the camera library, for any number of *)
(* threads, slots and messages.                                            *)
(***************************************************************************)
EXTENDS CmrMsg, FiniteSetTheorems, SequenceTheorems, TLAPS

PSteps == {"idle", "post", "wrap", "sem"}
CSteps == {"idle", "get", "peak"}

(***************************************************************************)
(* The inductive invariant: who may be where, and what the pointers are    *)
(* while a thread is between its store and the wrapping of the pointer.    *)
(***************************************************************************)
Steps == /\ \A t \in Producers : pc[t] \in PSteps
         /\ \A t \in Consumers : pc[t] \in CSteps

OneWriter == /\ mutex = "locked" <=> \E t \in Producers : pc[t] = "wrap"
             /\ \A t, u \in Producers : pc[t] = "wrap" /\ pc[u] = "wrap" => t = u

Pointers ==
    /\ mutex = "free" => msg_number < msg_count /\ msg_write = Slot(msg_number)
    /\ mutex = "locked" => msg_number + 1 < msg_count /\ msg_write = Slot(msg_number) + 1

IInv == TypeOK /\ Steps /\ OneWriter /\ Pointers /\ SemaphoreCounts

\* The state cmr_msg_queue_create leaves satisfies the invariant.
LEMMA IInitial == Init => IInv
<1> SUFFICES ASSUME Init PROVE IInv
  OBVIOUS
<1> USE CountAssumption, MsgsAssumption DEF Init
<1>1. TypeOK
  BY DEF TypeOK, Slots
<1>2. Steps /\ OneWriter
  BY DEF Steps, OneWriter, PSteps, CSteps, Threads
<1>3. Pointers
  BY DEF Pointers, Slot
<1>4. Between = {}
  BY DEF Between
<1>5. SemaphoreCounts
  BY <1>4, FS_EmptySet DEF SemaphoreCounts
<1> QED
  BY <1>1, <1>2, <1>3, <1>5 DEF IInv

\* The threads form a finite set, and so do those between semaphore and counter.
LEMMA BetweenFinite == IsFiniteSet(Between) /\ Cardinality(Between) \in Nat
<1>1. IsFiniteSet(Threads)
  BY ThreadsAssumption, FS_Union DEF Threads
<1>2. Between \in SUBSET Threads
  BY DEF Between
<1> QED
  BY <1>1, <1>2, FS_Subset, FS_CardinalityType

\* A thread that steps into the window between semaphore and counter adds one.
LEMMA Enters ==
    ASSUME TypeOK, NEW t \in Threads, NEW l \in {"sem", "get", "peak"},
           pc[t] \notin {"sem", "get", "peak"}, Goto(t, l)
    PROVE  Cardinality(Between') = Cardinality(Between) + 1
<1>1. Between' = Between \cup {t}
  BY DEF Between, Goto, TypeOK
<1>2. t \notin Between
  BY DEF Between
<1> QED
  BY <1>1, <1>2, BetweenFinite, FS_AddElement

\* A thread that leaves the window takes one away, and there was one.
LEMMA Leaves ==
    ASSUME TypeOK, NEW t \in Threads, NEW l \in {"idle", "post", "wrap"},
           pc[t] \in {"sem", "get", "peak"}, Goto(t, l)
    PROVE  /\ Cardinality(Between') = Cardinality(Between) - 1
           /\ Cardinality(Between) > 0
<1>1. Between' = Between \ {t}
  BY DEF Between, Goto, TypeOK
<1>2. t \in Between
  BY DEF Between
<1>3. Cardinality(Between) # 0
  BY <1>2, BetweenFinite, FS_EmptySet
<1> QED
  BY <1>1, <1>2, <1>3, BetweenFinite, FS_RemoveElement

\* A thread that moves outside the window changes nothing.
LEMMA StaysOut ==
    ASSUME TypeOK, NEW t \in Threads, NEW l \in {"idle", "post", "wrap"},
           pc[t] \notin {"sem", "get", "peak"}, Goto(t, l)
    PROVE  Between' = Between
  BY DEF Between, Goto, TypeOK

\* Adding one slot and wrapping is going one place further round the ring.
LEMMA WrapSlot ==
    ASSUME TypeOK, NEW n \in Nat, n + 1 < msg_count
    PROVE  /\ Wrap(Slot(n) + 1) = Slot(n + 1)
           /\ Slot(n + 1) # msg_read
           /\ Slot(n) \in Slots
  BY CountAssumption DEF TypeOK, Slots, Slot, Wrap

\* Every step of cmr_msg_post keeps the invariant.
LEMMA PostStep ==
    ASSUME IInv, NEW t \in Producers,
           (\E m \in Msgs : PostBegin(t, m)) \/ Posting(t)
    PROVE  IInv'
<1> USE CountAssumption, MsgsAssumption
<1>t. t \in Threads /\ TypeOK /\ t \notin Consumers
  BY ThreadsAssumption DEF Threads, IInv
<1>c. Cardinality(Between) \in Nat /\ msg_sem \in Nat /\ msg_number \in Nat
  BY BetweenFinite, <1>t DEF TypeOK
<1>1. ASSUME NEW m \in Msgs, PostBegin(t, m) PROVE IInv'
  <2>1. TypeOK'
    BY <1>1, <1>t DEF PostBegin, TypeOK, Goto
  <2>2. Steps' /\ OneWriter'
    BY <1>1, <1>t DEF PostBegin, IInv, Steps, OneWriter, TypeOK, Goto, PSteps, CSteps, Threads
  <2>3. Pointers'
    BY <1>1 DEF PostBegin, IInv, Pointers, Slot
  <2>4. SemaphoreCounts'
    BY <1>1, <1>t, StaysOut DEF PostBegin, IInv, SemaphoreCounts
  <2> QED
    BY <2>1, <2>2, <2>3, <2>4 DEF IInv
<1>2. CASE PostOverflow(t)
  <2>1. TypeOK'
    BY <1>2, <1>t DEF PostOverflow, TypeOK, Goto
  <2>2. Steps' /\ OneWriter'
    BY <1>2, <1>t DEF PostOverflow, IInv, Steps, OneWriter, TypeOK, Goto, PSteps, CSteps, Threads
  <2>3. Pointers'
    BY <1>2 DEF PostOverflow, IInv, Pointers, Slot
  <2>4. SemaphoreCounts'
    BY <1>2, <1>t, StaysOut DEF PostOverflow, IInv, SemaphoreCounts
  <2> QED
    BY <2>1, <2>2, <2>3, <2>4 DEF IInv
<1>3. CASE PostStore(t)
  <2>0. msg_write = Slot(msg_number) /\ msg_number + 1 < msg_count
    BY <1>3, <1>c DEF PostStore, IInv, Pointers, Full
  <2>1. Slot(msg_number) \in Slots
    BY <2>0, <1>t, <1>c, WrapSlot
  <2>2. TypeOK'
    BY <1>3, <1>t, <2>0, <2>1 DEF PostStore, TypeOK, Goto, Slots
  <2>3. Steps' /\ OneWriter'
    BY <1>3, <1>t DEF PostStore, IInv, Steps, OneWriter, TypeOK, Goto, PSteps, CSteps, Threads
  <2>4. Pointers'
    BY <1>3, <2>0 DEF PostStore, Pointers, Slot
  <2>5. SemaphoreCounts'
    BY <1>3, <1>t, StaysOut DEF PostStore, IInv, SemaphoreCounts
  <2> QED
    BY <2>2, <2>3, <2>4, <2>5 DEF IInv
<1>4. CASE PostWrap(t)
  <2>0. mutex = "locked"
    BY <1>4 DEF PostWrap, IInv, OneWriter
  <2>1. msg_number + 1 < msg_count /\ msg_write = Slot(msg_number) + 1
    BY <2>0 DEF IInv, Pointers
  <2>2. Wrap(msg_write) = Slot(msg_number + 1) /\ Wrap(msg_write) # msg_read
    BY <2>1, <1>t, <1>c, WrapSlot
  <2>3. msg_write' = Slot(msg_number + 1) /\ msg_write' \in 0 .. msg_count
    BY <1>4, <2>1, <2>2, <1>t, <1>c DEF PostWrap, Slot, TypeOK, Slots
  <2>4. TypeOK'
    BY <1>4, <1>t, <2>1, <2>3 DEF PostWrap, TypeOK, Goto
  <2>5. Steps' /\ OneWriter'
    BY <1>4, <1>t, <2>0 DEF PostWrap, IInv, Steps, OneWriter, TypeOK, Goto, PSteps, CSteps, Threads
  <2>6. Pointers'
    BY <1>4, <2>1, <2>3 DEF PostWrap, Pointers, Slot
  <2>7. Cardinality(Between') = Cardinality(Between) + 1
    BY <1>4, <1>t, Enters DEF PostWrap
  <2>8. SemaphoreCounts'
    BY <1>4, <1>c, <2>7 DEF PostWrap, IInv, SemaphoreCounts
  <2> QED
    BY <2>4, <2>5, <2>6, <2>8 DEF IInv
<1>5. CASE PostSem(t)
  <2>1. TypeOK'
    BY <1>5, <1>t DEF PostSem, TypeOK, Goto
  <2>2. Steps' /\ OneWriter'
    BY <1>5, <1>t DEF PostSem, IInv, Steps, OneWriter, TypeOK, Goto, PSteps, CSteps, Threads
  <2>3. Pointers'
    BY <1>5 DEF PostSem, IInv, Pointers, Slot
  <2>4. Cardinality(Between') = Cardinality(Between) - 1
    BY <1>5, <1>t, Leaves DEF PostSem
  <2>5. SemaphoreCounts'
    BY <1>5, <1>c, <2>4 DEF PostSem, IInv, SemaphoreCounts
  <2> QED
    BY <2>1, <2>2, <2>3, <2>5 DEF IInv
<1> QED
  BY <1>1, <1>2, <1>3, <1>4, <1>5 DEF Posting

\* A consumer that holds a count of the semaphore finds the ring not empty, and
\* the read pointer moves on by one place.
LEMMA FindsMessage ==
    ASSUME IInv, NEW t \in Consumers, pc[t] \in {"get", "peak"}, mutex = "free"
    PROVE  /\ msg_number > 0
           /\ msg_read # msg_write
           /\ Wrap(msg_read + 1) \in Slots
<1>1. t \in Between
  BY DEF Between, Threads
<1>2. Cardinality(Between) > 0
  BY <1>1, BetweenFinite, FS_EmptySet
<1>3. msg_number > 0
  BY <1>2, BetweenFinite DEF IInv, SemaphoreCounts, TypeOK
<1> QED
  BY <1>3, CountAssumption DEF IInv, Pointers, Slot, TypeOK, Slots, Wrap

\* Every step of the functions that take a message keeps the invariant.
LEMMA TakeStep ==
    ASSUME IInv, NEW t \in Consumers, Taking(t)
    PROVE  IInv'
<1> USE CountAssumption, MsgsAssumption
<1>t. t \in Threads /\ TypeOK /\ t \notin Producers
  BY ThreadsAssumption DEF Threads, IInv
<1>c. Cardinality(Between) \in Nat /\ msg_sem \in Nat /\ msg_number \in Nat
  BY BetweenFinite, <1>t DEF TypeOK
<1>1. ASSUME NEW l \in {"get", "peak"}, SemWait(t, l) PROVE IInv'
  <2>1. TypeOK'
    BY <1>1, <1>t DEF SemWait, TypeOK, Goto
  <2>2. Steps' /\ OneWriter'
    BY <1>1, <1>t DEF SemWait, IInv, Steps, OneWriter, TypeOK, Goto, PSteps, CSteps, Threads
  <2>3. Pointers'
    BY <1>1 DEF SemWait, IInv, Pointers, Slot
  <2>4. Cardinality(Between') = Cardinality(Between) + 1
    BY <1>1, <1>t, Enters DEF SemWait
  <2>5. SemaphoreCounts'
    BY <1>1, <1>c, <2>4 DEF SemWait, IInv, SemaphoreCounts
  <2> QED
    BY <2>1, <2>2, <2>3, <2>5 DEF IInv
<1>2. ASSUME pc[t] \in {"get", "peak"}, mutex = "free", mutex' = "free",
             message' = [message EXCEPT ![t] = ring[msg_read]],
             msg_read' = Wrap(msg_read + 1), msg_number' = msg_number - 1,
             ring' = [ring EXCEPT ![msg_read] = Zero] \/ ring' = ring,
             UNCHANGED <<msg_write, msg_sem, ori_node, ret>>, Goto(t, "idle")
      PROVE  IInv'
  <2>0. msg_number > 0 /\ Wrap(msg_read + 1) \in Slots
    BY <1>2, FindsMessage
  <2>1. TypeOK'
    BY <1>2, <1>t, <2>0 DEF TypeOK, Goto
  <2>2. Steps' /\ OneWriter'
    BY <1>2, <1>t DEF IInv, Steps, OneWriter, TypeOK, Goto, PSteps, CSteps, Threads
  <2>3. Pointers'
    BY <1>2, <2>0, <1>c, <1>t DEF IInv, Pointers, Slot, Wrap, TypeOK, Slots
  <2>4. Cardinality(Between') = Cardinality(Between) - 1
    BY <1>2, <1>t, Leaves
  <2>5. SemaphoreCounts'
    BY <1>2, <1>c, <2>4 DEF IInv, SemaphoreCounts
  <2> QED
    BY <2>1, <2>2, <2>3, <2>5 DEF IInv
<1>3. CASE Get(t)
  BY <1>3, <1>2, <1>c, FindsMessage DEF Get, TakeMessage
<1>4. CASE Peak(t)
  BY <1>4, <1>2, <1>c, FindsMessage DEF Peak, TakeMessage
<1> QED
  BY <1>1, <1>3, <1>4 DEF Taking

\* The invariant holds in every reachable state.
LEMMA Invariance == Spec => []IInv
<1>1. IInv /\ [Next]_vars => IInv'
  <2> SUFFICES ASSUME IInv, [Next]_vars PROVE IInv'
    OBVIOUS
  <2>1. CASE UNCHANGED vars
    BY <2>1 DEF vars, IInv, TypeOK, Steps, OneWriter, Pointers, Slot, SemaphoreCounts, Between
  <2> QED
    BY <2>1, PostStep, TakeStep DEF Next
<1> QED
  BY <1>1, IInitial, PTL DEF Spec

(***************************************************************************)
(* The ring's pointers, the counters and the threads stay in range.        *)
(***************************************************************************)
THEOREM TypeCorrect == Spec => []TypeOK
<1>1. IInv => TypeOK
  BY DEF IInv
<1> QED
  BY <1>1, Invariance, PTL

(***************************************************************************)
(* The two pointers are as far apart as msg_number says.                   *)
(***************************************************************************)
THEOREM PointersStayApart == Spec => []PointersAgree
<1>1. IInv => PointersAgree
  BY DEF IInv, Pointers, PointersAgree
<1> QED
  BY <1>1, Invariance, PTL

(***************************************************************************)
(* The semaphore and msg_number count the same messages.                   *)
(***************************************************************************)
THEOREM SemaphoreIsExact == Spec => []SemaphoreCounts
<1>1. IInv => SemaphoreCounts
  BY DEF IInv
<1> QED
  BY <1>1, Invariance, PTL

(***************************************************************************)
(* cmr_msg_get never reports an underflow.                                 *)
(***************************************************************************)
THEOREM NoUnderflow == Spec => []NeverUnderflow
<1>1. IInv => NeverUnderflow
  <2> SUFFICES ASSUME IInv, NEW t \in Consumers, pc[t] \in {"get", "peak"}
               PROVE  msg_number > 0
    BY DEF NeverUnderflow
  <2>1. t \in Between
    BY DEF Between, Threads
  <2>2. Cardinality(Between) > 0
    BY <2>1, BetweenFinite, FS_EmptySet
  <2> QED
    BY <2>2, BetweenFinite DEF IInv, SemaphoreCounts, TypeOK
<1> QED
  BY <1>1, Invariance, PTL

(***************************************************************************)
(* No function returns with the mutex locked.                              *)
(***************************************************************************)
THEOREM MutexIsReleased == Spec => []MutexReleased
<1>1. IInv => MutexReleased
  BY DEF IInv, OneWriter, MutexReleased
<1> QED
  BY <1>1, Invariance, PTL

-----------------------------------------------------------------------------
(***************************************************************************)
(* The refinement.  A message is in the queue from the moment msg_number   *)
(* counts it, so the one stored last must still be in its slot then.       *)
(***************************************************************************)
Stored == \A t \in Producers : pc[t] = "wrap" => ring[Slot(msg_number)] = message[t]

RInv == IInv /\ Stored

IsQueue == /\ Queue \in Seq(Msgs)
           /\ Len(Queue) = msg_number
           /\ \A i \in 1 .. msg_number : Queue[i] = ring[Slot(i - 1)]

\* The abstract queue is a sequence of msg_number messages.
LEMMA QueueIsSeq == IInv => IsQueue
<1> SUFFICES ASSUME IInv PROVE IsQueue
  OBVIOUS
<1>1. msg_number \in Nat /\ msg_number < msg_count
  BY CountAssumption DEF IInv, TypeOK, Pointers
<1>2. \A i \in 1 .. msg_number : ring[Slot(i - 1)] \in Msgs
  BY <1>1, CountAssumption DEF IInv, TypeOK, Slot, Slots
<1>3. Queue \in [1 .. msg_number -> Msgs]
  BY <1>2 DEF Queue
<1>4. Queue \in Seq(Msgs)
  BY <1>1, <1>3
<1>5. DOMAIN Queue = 1 .. msg_number
  BY DEF Queue
<1>6. Len(Queue) = msg_number
  BY <1>1, <1>4, <1>5, LenProperties
<1> QED
  BY <1>4, <1>6 DEF Queue, IsQueue

\* Two places that hold messages, or the next free one, are different slots.
LEMMA SlotsDiffer ==
    ASSUME TypeOK, NEW i \in Nat, NEW j \in Nat, i < j, j < msg_count
    PROVE  Slot(i) # Slot(j) /\ Slot(i) \in Slots /\ Slot(j) \in Slots
  BY CountAssumption DEF TypeOK, Slots, Slot

\* The message that was stored stays in its slot until msg_number counts it.
LEMMA StoredStep ==
    ASSUME RInv, [Next]_vars
    PROVE  Stored'
<1> USE CountAssumption
<1>t. TypeOK /\ msg_number \in Nat
  BY DEF RInv, IInv, TypeOK
<1>1. CASE UNCHANGED vars
  BY <1>1 DEF vars, RInv, Stored, Slot
<1>2. ASSUME NEW t \in Producers, NEW m \in Msgs, PostBegin(t, m) PROVE Stored'
  <2>1. \A u \in Producers : pc'[u] = "wrap" => u # t /\ pc[u] = "wrap"
    BY <1>2, <1>t DEF PostBegin, Goto, TypeOK, Threads
  <2> QED
    BY <1>2, <2>1, <1>t DEF PostBegin, RInv, Stored, Slot, TypeOK, Threads
<1>3. ASSUME NEW t \in Producers, PostOverflow(t) PROVE Stored'
  BY <1>3, <1>t DEF PostOverflow, Goto, RInv, Stored, Slot, TypeOK, Threads
<1>4. ASSUME NEW t \in Producers, PostStore(t) PROVE Stored'
  <2>1. msg_write = Slot(msg_number) /\ msg_number + 1 < msg_count
    BY <1>4, <1>t DEF PostStore, RInv, IInv, Pointers, Full
  <2>2. Slot(msg_number) \in Slots
    BY <1>t, <2>1, WrapSlot
  <2>3. \A u \in Producers : pc'[u] = "wrap" => u = t
    BY <1>4, <1>t DEF PostStore, Goto, RInv, IInv, OneWriter, TypeOK, Threads
  <2>4. ring'[Slot(msg_number)] = message[t]
    BY <1>4, <2>1, <2>2, <1>t DEF PostStore, TypeOK
  <2>5. Slot(msg_number)' = Slot(msg_number) /\ message' = message
    BY <1>4 DEF PostStore, Slot
  <2> QED
    BY <2>3, <2>4, <2>5 DEF Stored
<1>5. ASSUME NEW t \in Producers, PostWrap(t) PROVE Stored'
  <2>1. \A u \in Producers : pc'[u] # "wrap"
    BY <1>5, <1>t DEF PostWrap, Goto, RInv, IInv, OneWriter, TypeOK, Threads
  <2> QED
    BY <2>1 DEF Stored
<1>6. ASSUME NEW t \in Producers, PostSem(t) PROVE Stored'
  BY <1>6, <1>t DEF PostSem, Goto, RInv, Stored, Slot, TypeOK, Threads
<1>7. ASSUME NEW t \in Consumers, NEW l \in {"get", "peak"}, SemWait(t, l) PROVE Stored'
  BY <1>7, <1>t DEF SemWait, Goto, RInv, Stored, Slot, TypeOK, Threads
<1>8. ASSUME NEW t \in Consumers, mutex = "free", pc'[t] = "idle", Goto(t, "idle") PROVE Stored'
  <2>1. \A u \in Producers : pc'[u] # "wrap"
    BY <1>8, <1>t DEF Goto, RInv, IInv, OneWriter, TypeOK, Threads
  <2> QED
    BY <2>1 DEF Stored
<1>9. ASSUME NEW t \in Consumers, Get(t) \/ Peak(t) PROVE Stored'
  <2>1. mutex = "free" /\ Goto(t, "idle")
    BY <1>9 DEF Get, Peak
  <2>2. pc'[t] = "idle"
    BY <2>1, <1>t DEF Goto, TypeOK, Threads
  <2> QED
    BY <2>1, <2>2, <1>8
<1> QED
  BY <1>1, <1>2, <1>3, <1>4, <1>5, <1>6, <1>7, <1>9 DEF Next, Posting, Taking

\* The state cmr_msg_queue_create leaves is an empty queue.
LEMMA FifoInitial == Init => Fifo!Init /\ Stored
<1> SUFFICES ASSUME Init PROVE Fifo!Init /\ Stored
  OBVIOUS
<1>1. Queue = << >>
  <2>1. Queue \in Seq(Msgs) /\ Len(Queue) = 0
    BY IInitial, QueueIsSeq DEF Init, IsQueue
  <2> QED
    BY <2>1, EmptySeq
<1>2. /\ Got \in [Consumers -> Msgs] /\ Asked \in [Producers -> Msgs]
      /\ Answer = [t \in Producers |-> "none"]
  BY MsgsAssumption DEF Got, Asked, Answer, Init, Threads
<1>3. Stored
  BY DEF Init, Stored, Threads
<1> QED
  BY <1>1, <1>2, <1>3 DEF Fifo!Init

\* What the abstract queue sees of the threads when thread t moves.
LEMMA Answers ==
    ASSUME TypeOK, NEW t \in Producers, NEW l, Goto(t, l),
           \A u \in Producers : u # t => ret'[u] = ret[u]
    PROVE  Answer' = [Answer EXCEPT ![t] = IF l \in {"post", "wrap"} THEN "pending"
                                           ELSE IF l = "sem" THEN "success" ELSE ret'[t]]
  BY DEF TypeOK, Goto, Answer, Threads

\* A step of a producer is a call, its answer, or nothing that the queue shows.
LEMMA FifoPostStep ==
    ASSUME RInv, IInv', NEW t \in Producers,
           (\E m \in Msgs : PostBegin(t, m)) \/ Posting(t)
    PROVE  \/ \E m \in Msgs : Fifo!Call(t, m)
           \/ Fifo!Post(t) \/ Fifo!Refuse(t) \/ UNCHANGED Fifo!vars
<1> USE CountAssumption
<1>t. IInv /\ TypeOK /\ msg_number \in Nat /\ t \notin Consumers /\ t \in Threads
  BY ThreadsAssumption DEF RInv, IInv, TypeOK, Threads
<1>a. \A u \in Producers : Answer[u] = IF pc[u] \in {"post", "wrap"} THEN "pending"
                                       ELSE IF pc[u] = "sem" THEN "success" ELSE ret[u]
  BY DEF Answer
<1>1. ASSUME NEW m \in Msgs, PostBegin(t, m) PROVE Fifo!Call(t, m)
  <2>1. Queue' = Queue
    BY <1>1 DEF PostBegin, Queue, Slot
  <2>2. Got' = Got /\ Asked' = [Asked EXCEPT ![t] = m]
    BY <1>1, <1>t DEF PostBegin, Got, Asked, TypeOK, Threads
  <2>3. Answer' = [Answer EXCEPT ![t] = "pending"]
    <3>1. \A u \in Producers : u # t => ret'[u] = ret[u]
      BY <1>1, <1>t DEF PostBegin, TypeOK
    <3> QED
      BY <1>1, <1>t, <3>1, Answers DEF PostBegin
  <2>4. Answer[t] # "pending"
    BY <1>1, <1>a, <1>t DEF PostBegin, TypeOK
  <2> QED
    BY <2>1, <2>2, <2>3, <2>4 DEF Fifo!Call
<1>2. CASE PostOverflow(t)
  <2>1. Queue' = Queue /\ Got' = Got /\ Asked' = Asked
    BY <1>2 DEF PostOverflow, Queue, Got, Asked, Slot
  <2>2. Answer' = [Answer EXCEPT ![t] = "overflow"]
    <3>1. ret'[t] = "overflow" /\ \A u \in Producers : u # t => ret'[u] = ret[u]
      BY <1>2, <1>t DEF PostOverflow, TypeOK
    <3> QED
      BY <1>2, <1>t, <3>1, Answers DEF PostOverflow
  <2>3. msg_number = msg_count - 1
    BY <1>2, <1>t DEF PostOverflow, Full, IInv, Pointers
  <2>4. Len(Queue) = msg_count - 1
    BY <1>t, <2>3, QueueIsSeq DEF IsQueue
  <2>5. Answer[t] = "pending"
    BY <1>2, <1>a DEF PostOverflow
  <2> QED
    BY <2>1, <2>2, <2>4, <2>5 DEF Fifo!Refuse
<1>5. CASE PostSem(t)
  <2>1. Queue' = Queue /\ Got' = Got /\ Asked' = Asked
    BY <1>5 DEF PostSem, Queue, Got, Asked, Slot
  <2>2. Answer' = [Answer EXCEPT ![t] = "success"]
    <3>1. ret'[t] = "success" /\ \A u \in Producers : u # t => ret'[u] = ret[u]
      BY <1>5, <1>t DEF PostSem, TypeOK
    <3> QED
      BY <1>5, <1>t, <3>1, Answers DEF PostSem
  <2>3. Answer[t] = "success"
    BY <1>5, <1>a DEF PostSem
  <2>4. Answer' = Answer
    BY <2>2, <2>3 DEF Answer
  <2> QED
    BY <2>1, <2>4 DEF Fifo!vars
<1>3. CASE PostStore(t)
  <2>1. msg_write = Slot(msg_number) /\ msg_number + 1 < msg_count
    BY <1>3, <1>t DEF PostStore, RInv, IInv, Pointers, Full
  <2>2. \A i \in 1 .. msg_number : ring'[Slot(i - 1)] = ring[Slot(i - 1)]
    <3> SUFFICES ASSUME NEW i \in 1 .. msg_number
                 PROVE  ring'[Slot(i - 1)] = ring[Slot(i - 1)]
      OBVIOUS
    <3>1. Slot(i - 1) # Slot(msg_number) /\ Slot(i - 1) \in Slots
      <4>1. i - 1 \in Nat /\ i - 1 < msg_number /\ msg_number < msg_count
        BY <1>t, <2>1
      <4> QED
        BY <4>1, <1>t, SlotsDiffer
    <3> QED
      BY <1>3, <2>1, <3>1, <1>t DEF PostStore, TypeOK
  <2>3. msg_number' = msg_number /\ msg_read' = msg_read /\ message' = message
    BY <1>3 DEF PostStore
  <2>4. Queue' = Queue /\ Got' = Got /\ Asked' = Asked
    BY <2>2, <2>3 DEF Queue, Got, Asked, Slot
  <2>5. Answer' = [Answer EXCEPT ![t] = "pending"]
    BY <1>3, <1>t, Answers DEF PostStore
  <2>6. Answer[t] = "pending"
    BY <1>3, <1>a DEF PostStore
  <2>7. Answer' = Answer
    BY <2>5, <2>6 DEF Answer
  <2> QED
    BY <2>4, <2>7 DEF Fifo!vars
<1>4. CASE PostWrap(t)
  <2>1. msg_number + 1 < msg_count /\ message[t] \in Msgs
    BY <1>4, <1>t DEF PostWrap, RInv, IInv, OneWriter, Pointers, TypeOK
  <2>2. ring[Slot(msg_number)] = message[t]
    BY <1>4 DEF PostWrap, RInv, Stored
  <2>3. msg_number' = msg_number + 1 /\ ring' = ring /\ Got' = Got /\ Asked' = Asked
    BY <1>4 DEF PostWrap, Got, Asked
  <2>4. \A i : Slot(i)' = Slot(i)
    BY <1>4 DEF PostWrap, Slot
  <2>5. /\ Queue \in Seq(Msgs) /\ Len(Queue) = msg_number
        /\ \A i \in 1 .. msg_number : Queue[i] = ring[Slot(i - 1)]
    BY <1>t, QueueIsSeq DEF IsQueue
  <2>6. /\ Queue' \in Seq(Msgs) /\ Len(Queue') = msg_number + 1
        /\ \A i \in 1 .. msg_number + 1 : Queue'[i] = ring[Slot(i - 1)]
    <3>1. /\ Queue' \in Seq(Msgs) /\ Len(Queue') = msg_number'
          /\ \A i \in 1 .. msg_number' : Queue'[i] = ring'[Slot(i - 1)']
      <4>1. IsQueue'
        BY QueueIsSeq, PTL
      <4> QED
        BY <4>1 DEF IsQueue
    <3> QED
      BY <3>1, <2>3, <2>4
  <2>7. Queue' = Append(Queue, message[t])
    <3>1. /\ Append(Queue, message[t]) \in Seq(Msgs)
          /\ Len(Append(Queue, message[t])) = msg_number + 1
          /\ \A i \in 1 .. msg_number : Append(Queue, message[t])[i] = ring[Slot(i - 1)]
          /\ Append(Queue, message[t])[msg_number + 1] = message[t]
      BY <2>1, <2>5, AppendProperties
    <3>2. \A i \in 1 .. msg_number + 1 : Queue'[i] = Append(Queue, message[t])[i]
      <4> SUFFICES ASSUME NEW i \in 1 .. msg_number + 1
                   PROVE  Queue'[i] = Append(Queue, message[t])[i]
        OBVIOUS
      <4>1. CASE i = msg_number + 1
        <5>1. i - 1 = msg_number
          BY <4>1, <1>t
        <5> QED
          BY <4>1, <5>1, <2>2, <2>6, <3>1
      <4>2. CASE i # msg_number + 1
        <5>1. i \in 1 .. msg_number
          BY <4>2, <1>t
        <5> QED
          BY <5>1, <2>6, <3>1
      <4> QED
        BY <4>1, <4>2
    <3> QED
      BY <2>6, <3>1, <3>2, SeqEqual
  <2>8. Answer[t] = "pending" /\ Asked[t] = message[t]
    BY <1>4, <1>a DEF PostWrap, Asked
  <2>9. Answer' = [Answer EXCEPT ![t] = "success"]
    BY <1>4, <1>t, Answers DEF PostWrap
  <2>10. Len(Queue) < msg_count - 1
    BY <2>1, <2>5, <1>t
  <2> QED
    BY <2>3, <2>7, <2>8, <2>9, <2>10 DEF Fifo!Post
<1> QED
  BY <1>1, <1>2, <1>3, <1>4, <1>5 DEF Posting

\* Every step of a consumer is a Take, or changes nothing of the queue.
LEMMA FifoTakeStep ==
    ASSUME RInv, IInv', NEW t \in Consumers, Taking(t)
    PROVE  Fifo!Take(t) \/ UNCHANGED Fifo!vars
<1> USE CountAssumption
<1>t. IInv /\ TypeOK /\ msg_number \in Nat /\ t \in Threads
  BY DEF RInv, IInv, TypeOK, Threads
<1>p. t \notin Producers
  BY ThreadsAssumption
<1>a. ASSUME NEW l, Goto(t, l), UNCHANGED ret PROVE Answer' = Answer
  <2>1. \A u \in Producers : pc'[u] = pc[u]
    BY <1>a, <1>p, <1>t DEF Goto, TypeOK, Threads
  <2> QED
    BY <1>a, <2>1 DEF Answer
<1>1. ASSUME NEW l \in {"get", "peak"}, SemWait(t, l) PROVE UNCHANGED Fifo!vars
  <2>1. Queue' = Queue /\ Got' = Got /\ Asked' = Asked
    BY <1>1 DEF SemWait, Queue, Got, Asked, Slot
  <2>2. Answer' = Answer
    BY <1>1, <1>a DEF SemWait
  <2> QED
    BY <2>1, <2>2 DEF Fifo!vars
<1>2. ASSUME pc[t] \in {"get", "peak"}, mutex = "free",
             message' = [message EXCEPT ![t] = ring[msg_read]],
             msg_read' = Wrap(msg_read + 1), msg_number' = msg_number - 1,
             ring' = [ring EXCEPT ![msg_read] = Zero] \/ ring' = ring,
             Goto(t, "idle"), UNCHANGED ret
      PROVE  Fifo!Take(t)
  <2>0. msg_number > 0 /\ msg_number < msg_count
    BY <1>2, <1>t, FindsMessage DEF IInv, Pointers
  <2>1. /\ Queue \in Seq(Msgs) /\ Len(Queue) = msg_number
        /\ \A i \in 1 .. msg_number : Queue[i] = ring[Slot(i - 1)]
    BY <1>t, QueueIsSeq DEF IsQueue
  <2>2. Queue # << >> /\ Head(Queue) = ring[msg_read]
    <3>1. Slot(0) = msg_read
      BY <1>t DEF Slot, TypeOK, Slots
    <3>2. Queue[1] = ring[msg_read]
      BY <2>0, <2>1, <3>1, <1>t
    <3> QED
      BY <2>0, <2>1, <3>2, EmptySeq
  <2>3. \A i \in 1 .. msg_number - 1 : ring'[Slot(i - 1)'] = ring[Slot(i)]
    <3> SUFFICES ASSUME NEW i \in 1 .. msg_number - 1
                 PROVE  ring'[Slot(i - 1)'] = ring[Slot(i)]
      OBVIOUS
    <3>1. Slot(i - 1)' = Slot(i)
      BY <1>2, <1>t, <2>0 DEF Slot, Wrap, TypeOK, Slots
    <3>2. Slot(i) # msg_read /\ Slot(i) \in Slots
      BY <1>t, <2>0 DEF Slot, TypeOK, Slots
    <3> QED
      BY <1>2, <3>1, <3>2, <1>t DEF TypeOK
  <2>4. /\ Queue' \in Seq(Msgs) /\ Len(Queue') = msg_number - 1
        /\ \A i \in 1 .. msg_number - 1 : Queue'[i] = ring[Slot(i)]
    <3>1. /\ Queue' \in Seq(Msgs) /\ Len(Queue') = msg_number'
          /\ \A i \in 1 .. msg_number' : Queue'[i] = ring'[Slot(i - 1)']
      <4>1. IsQueue'
        BY QueueIsSeq, PTL
      <4> QED
        BY <4>1 DEF IsQueue
    <3> QED
      BY <3>1, <1>2, <2>3
  <2>5. Queue' = Tail(Queue)
    <3>1. /\ Tail(Queue) \in Seq(Msgs) /\ Len(Tail(Queue)) = msg_number - 1
          /\ \A i \in 1 .. msg_number - 1 : Tail(Queue)[i] = Queue[i + 1]
      BY <2>1, <2>2, HeadTailProperties
    <3>2. \A i \in 1 .. msg_number - 1 : Queue[i + 1] = ring[Slot(i)]
      <4> SUFFICES ASSUME NEW i \in 1 .. msg_number - 1 PROVE Queue[i + 1] = ring[Slot(i)]
        OBVIOUS
      <4>1. i + 1 \in 1 .. msg_number /\ (i + 1) - 1 = i
        BY <1>t
      <4> QED
        BY <2>1, <4>1
    <3> QED
      BY <2>4, <3>1, <3>2, SeqEqual
  <2>6. Got' = [Got EXCEPT ![t] = Head(Queue)]
    BY <1>2, <1>t, <2>2 DEF Got, TypeOK, Threads
  <2>7. Asked' = Asked
    BY <1>2, <1>t, <1>p DEF Asked, TypeOK, Threads
  <2>8. Answer' = Answer
    BY <1>2, <1>a
  <2> QED
    BY <2>2, <2>5, <2>6, <2>7, <2>8 DEF Fifo!Take
<1>3. CASE Get(t)
  BY <1>3, <1>2, <1>t, FindsMessage DEF Get, TakeMessage
<1>4. CASE Peak(t)
  BY <1>4, <1>2, <1>t, FindsMessage DEF Peak, TakeMessage
<1> QED
  BY <1>1, <1>3, <1>4 DEF Taking

(***************************************************************************)
(* The ring, the mutex and the semaphore implement a queue that keeps      *)
(* order, loses no message whose post was answered with success, and       *)
(* refuses a post only when it is full.                                    *)
(***************************************************************************)
THEOREM ImplementsFifo == Spec => FifoSpec
<1>1. Init => RInv /\ Fifo!Init
  BY IInitial, FifoInitial DEF RInv
<1>2. RInv /\ [Next]_vars => RInv'
  <2> SUFFICES ASSUME RInv, [Next]_vars PROVE RInv'
    OBVIOUS
  <2>1. CASE UNCHANGED vars
    BY <2>1, StoredStep
      DEF vars, RInv, IInv, TypeOK, Steps, OneWriter, Pointers, Slot, SemaphoreCounts, Between
  <2> QED
    BY <2>1, StoredStep, PostStep, TakeStep DEF Next, RInv
<1>3. RInv /\ RInv' /\ [Next]_vars => [Fifo!Next]_(Fifo!vars)
  <2> SUFFICES ASSUME RInv, IInv', [Next]_vars PROVE [Fifo!Next]_(Fifo!vars)
    BY DEF RInv
  <2>1. CASE UNCHANGED vars
    BY <2>1 DEF vars, Fifo!vars, Queue, Got, Asked, Answer, Slot
  <2>2. CASE Next
    BY <2>2, FifoPostStep, FifoTakeStep DEF Next, Fifo!Next, Fifo!TakeAny, Fifo!vars
  <2> QED
    BY <2>1, <2>2
<1> QED
  BY <1>1, <1>2, <1>3, PTL DEF Spec, FifoSpec, Fifo!Spec
=============================================================================
