------------------------------ MODULE CmrPreview ------------------------------
(***************************************************************************)
(* A preview session of the camera library: the thread of the HAL, the     *)
(* main thread, the preview thread, the thread that grabs frames and the   *)
(* face detection thread.                                                  *)
(* Sources, in src/libs/libcamera/sc8830/src: SprdOEMCamera.c, cmr_oem.c,  *)
(* cmr_v4l2.c, cmr_arith.c, SprdCameraHardwareInterface.cpp (the HAL).     *)
(*                                                                         *)
(* The threads exchange messages (the queues of CmrFifo, which CmrMsg      *)
(* implements) and semaphores, and read and write the fields of two global *)
(* contexts, mostly without a lock.  A step is what lies between two       *)
(* accesses to a field that another thread uses as well.                   *)
(*                                                                         *)
(* Modelled without rotation (prev_rot = 0), zero-shutter-lag and capture. *)
(***************************************************************************)
EXTENDS Integers, Sequences, FiniteSets

CONSTANTS
    Frames,        \* preview buffers: frames that may wait for the preview thread
    Errors,        \* bound: error events and stray frames waiting for the main thread
    FdQueue,       \* messages the queue of the face detection thread holds
    Toggles,       \* bound: messages in that queue when the HAL adds one
    RecoverCount,  \* CAMERA_RECOVER_CNT
    Scopes         \* bound: sets of what may happen in one behaviour

ASSUME BoundsAssumption ==
    /\ {Frames, Errors, FdQueue, RecoverCount} \subseteq Nat \ {0}
    /\ Toggles \in 0 .. FdQueue - 1
    /\ Scopes \subseteq SUBSET {"errors", "faces", "late", "flood"}

VARIABLES
    app,            \* where the HAL's thread is
    failed,         \* the HAL takes the preview that it started for failed
    msg_queue,      \* of the main thread
    main, job,      \* where the main thread is, and for which message
    err_code,
    start_sem, stop_sem,
    is_working,     \* the main thread goes on after this message
    old,            \* the main thread of the session before, where it is
    prev, prev_msg_que,
    grab,           \* what the grabbing thread holds
    scope,          \* bound: what may happen in this behaviour
    is_on, v4l2_state, chn_1_status, preview_status,
    recover_status, recover_cnt,
    fd, fd_msg_que, fd_sync_sem,
    fd_is_inited, arith_fd_flag, is_support_fd, fd_busy,
    addr,           \* memory for one frame: "null", "empty" (malloc(0)) or "full"
    mem_size, size, \* in the context, and the local variable of the thread (0 or 1)
    risk            \* history: what happened that the code is not prepared for

appVars   == <<app, start_sem, stop_sem>>
mainVars  == <<msg_queue, main, job, err_code, is_working, old>>
prevVars  == <<prev, prev_msg_que>>
source    == <<grab, scope>>
stream    == <<is_on, v4l2_state, chn_1_status, preview_status>>
recovery  == <<failed, recover_status, recover_cnt>>
fdMemory  == <<addr, mem_size, size>>
fdFlags   == <<fd_is_inited, arith_fd_flag, is_support_fd>>
fdThread  == <<fd, fd_msg_que, fd_sync_sem, fd_busy>>
fdVars    == <<fdThread, fdFlags, fdMemory>>
vars == <<appVars, mainVars, prevVars, source, stream, recovery, fdVars, risk>>

\* camera_init: an empty context; the arithmetic context was cleared by
\* arithmetic_fd_deinit, or never used.
Init ==
    /\ app = "open" /\ failed = FALSE
    /\ msg_queue = << >> /\ main = "loop" /\ job = "none" /\ err_code = 0
    /\ start_sem = 0 /\ stop_sem = 0
    /\ is_working = 1 /\ old = "none"
    /\ prev = "loop" /\ prev_msg_que = << >>
    /\ grab = "none" /\ scope \in Scopes
    /\ is_on = 0 /\ v4l2_state = "idle" /\ chn_1_status = "idle" /\ preview_status = "idle"
    /\ recover_status = "none" /\ recover_cnt = 0
    /\ fd = "none" /\ fd_msg_que = << >> /\ fd_sync_sem = 0
    /\ fd_is_inited = 0 /\ arith_fd_flag = 0 /\ is_support_fd = 0 /\ fd_busy = 0
    /\ addr = "null" /\ mem_size = 0 /\ size = 0
    /\ risk = {}

\* prev_mutex is held by the main thread from the change of preview_status to
\* that of v4l2_state, recover_mutex while it restarts the preview.
PrevLocked    == main \in {"capstop", "v4l2idle"}
RecoverLocked == job = "recover"

\* The main thread ends the handling of a message.
Finish == /\ main' = IF is_working = 1 THEN "loop" ELSE "gone"
          /\ job' = "none"

\* cmr_msg_post on the queues of the main and the preview thread, where it succeeds
\* or not (r): the other threads of the camera may have filled them.
Room == IF "flood" \in scope THEN BOOLEAN ELSE {TRUE}
MainPost(m, r) == msg_queue' = IF r THEN Append(msg_queue, m) ELSE msg_queue
PrevPost(m, r) == prev_msg_que' = IF r THEN Append(prev_msg_que, m) ELSE prev_msg_que

\* ... and on that of the face detection thread, where everything comes from here.
FdHasRoom == Len(fd_msg_que) < FdQueue
FdPost(m) == fd_msg_que' = IF FdHasRoom THEN Append(fd_msg_que, m) ELSE fd_msg_que

-----------------------------------------------------------------------------
(* The HAL's thread *)

\* The HAL knows of no preview: none was started since the last one was stopped, or
\* a start or a stop was refused (SPRD_ERROR), or the preview has failed.
Idle == {"open", "refused"}
NotPreviewing == app \in Idle \/ (app = "preview" /\ failed)

\* The library may still be in preview when the HAL does what it does without one.
Unstopped == IF app = "preview" THEN risk \cup {"unstopped"} ELSE risk

\* startPreviewInternal, camera_start_preview.
StartPreview ==
    /\ NotPreviewing
    /\ err_code' = 0 /\ recover_status' = "none"
    /\ \E r \in Room : MainPost("start", r) /\ app' = IF r THEN "starting" ELSE "refused"
    /\ failed' = FALSE
    /\ risk' = Unstopped
    /\ UNCHANGED <<start_sem, stop_sem, main, job, is_working, old, prevVars, source, stream,
                   recover_cnt, fdVars>>

\* camera_wait_start; then the HAL waits for the first frame, perhaps in vain.
Started ==
    /\ app = "starting"
    /\ start_sem > 0
    /\ start_sem' = start_sem - 1
    /\ app' = IF err_code = 0 THEN "preview" ELSE "refused"
    /\ \E e \in IF "errors" \in scope THEN BOOLEAN ELSE {FALSE} : failed' = (failed \/ e)
    /\ UNCHANGED <<stop_sem, mainVars, prevVars, source, stream, recover_status, recover_cnt,
                   fdVars, risk>>

\* stopPreviewInternal, camera_stop_preview.  If the message cannot be sent the HAL
\* goes on as if the preview had stopped.
StopPreview ==
    /\ app = "preview"
    /\ \E r \in Room : /\ MainPost("stop", r)
                       /\ app' = IF r THEN "stopping" ELSE "refused"
                       /\ risk' = IF r THEN risk ELSE Unstopped
    /\ UNCHANGED <<start_sem, stop_sem, main, job, err_code, is_working, old, prevVars, source,
                   stream, recovery, fdVars>>

\* Variant: the preview thread is not asked to finish.
StoppedAtOnce ==
    /\ app = "stopping"
    /\ stop_sem > 0
    /\ stop_sem' = stop_sem - 1
    /\ app' = "open"
    /\ UNCHANGED <<start_sem, mainVars, prevVars, source, stream, recovery, fdVars, risk>>

\* The main thread has stopped the stream: wait until the preview thread has
\* handled what it was sent before.  The HAL does not wait if it cannot ask.
Stopped ==
    /\ app = "stopping"
    /\ stop_sem > 0
    /\ stop_sem' = stop_sem - 1
    /\ \E r \in Room : /\ PrevPost("stop", r)
                       /\ app' = IF r THEN "draining" ELSE "refused"
                       /\ risk' = IF r THEN risk ELSE risk \cup {"unstopped"}
    /\ UNCHANGED <<start_sem, mainVars, prev, source, stream, recovery, fdVars>>

Drained ==
    /\ app = "draining"
    /\ stop_sem > 0
    /\ stop_sem' = stop_sem - 1
    /\ app' = "open"
    /\ risk' = risk \ {"unstopped"}
    /\ UNCHANGED <<start_sem, mainVars, prevVars, source, stream, recovery, fdVars>>

\* release, camera_stop: the end of the main thread is waited for, whether or not it
\* could be asked to end.
Stop ==
    /\ NotPreviewing
    /\ app' = "closing"
    /\ \E r \in Room : /\ MainPost("exit", r)
                       /\ risk' = IF r THEN Unstopped ELSE Unstopped \cup {"stuck"}
    /\ UNCHANGED <<start_sem, stop_sem, main, job, err_code, is_working, old, prevVars, source,
                   stream, recovery, fdVars>>

\* camera_wait_exit and camera_local_deinit, then camera_init: a new main thread,
\* which raises is_working.  The old one, perhaps, is still there.  Not if a thread
\* was left with what FdFree destroyed: anything may follow then.
Reopen ==
    /\ app = "closing"
    /\ main \in (IF "late" \in scope THEN {"exited", "test", "done"} ELSE {"done"})
    /\ old = "none"
    /\ fd = "none"
    /\ app' = "open" /\ failed' = FALSE
    /\ msg_queue' = << >> /\ main' = "loop" /\ err_code' = 0
    /\ old' = IF main = "done" THEN "none" ELSE main
    /\ start_sem' = 0 /\ stop_sem' = 0
    /\ is_working' = 1
    /\ risk' = {}
    /\ prev' = "loop" /\ prev_msg_que' = << >> /\ grab' = "none"
    /\ v4l2_state' = "idle" /\ chn_1_status' = "idle" /\ preview_status' = "idle"
    /\ recover_status' = "none" /\ recover_cnt' = 0
    /\ is_support_fd' = 0
    /\ UNCHANGED <<job, is_on, scope, fdThread, fd_is_inited, arith_fd_flag, fdMemory>>

\* arithmetic_mem_handle(n), for n frames; there may be no memory for the message.
MemHandle(n) ==
    IF fd_is_inited = 1
      THEN /\ FdPost(IF n = 1 THEN "mem1" ELSE "mem0") \/ UNCHANGED fd_msg_que
           /\ UNCHANGED mem_size
      ELSE mem_size' = n /\ UNCHANGED fd_msg_que

\* sendCommand, between two other calls of the HAL: face detection is wanted (1) or
\* not (0), by a device that has it.
SendCommand(n) ==
    /\ app \in Idle \cup {"preview"} /\ "faces" \in scope
    /\ Len(fd_msg_que) <= Toggles
    /\ is_support_fd' = 1 /\ arith_fd_flag' = n
    /\ MemHandle(n)
    /\ UNCHANGED <<appVars, mainVars, prevVars, source, stream, recovery, fd, fd_sync_sem,
                   fd_busy, fd_is_inited, addr, size, risk>>

-----------------------------------------------------------------------------
(* The main thread: camera_main_routine *)

\* The next message is m, and the thread goes on at step l of job j.
Receive(m, l, j) ==
    /\ main = "loop"
    /\ msg_queue # << >> /\ Head(msg_queue) = m
    /\ msg_queue' = Tail(msg_queue)
    /\ main' = l /\ job' = j

MainStart ==
    /\ Receive("start", "fdinit", "start")
    /\ UNCHANGED <<appVars, err_code, is_working, old, prevVars, source, stream, recovery,
                   fdVars, risk>>

MainStop ==
    /\ Receive("stop", "stop", "stop")
    /\ UNCHANGED <<appVars, err_code, is_working, old, prevVars, source, stream, recovery,
                   fdVars, risk>>

\* CMR_EVT_EXIT, perhaps while still in preview.
MainExit ==
    /\ Receive("exit", "stop", "exit")
    /\ UNCHANGED <<appVars, err_code, is_working, old, prevVars, source, stream, recovery,
                   fdVars, risk>>

\* camera_v4l2_handle: an error when no preview is set up is ignored; one after a
\* restart did not help is reported.
MainNoWay(e) ==
    /\ chn_1_status = "idle" \/ recover_status = "restart"
    /\ Receive(e, IF is_working = 1 THEN "loop" ELSE "gone", "none")
    /\ failed' = (failed \/ chn_1_status = "busy")
    /\ UNCHANGED <<appVars, err_code, is_working, old, prevVars, source, stream,
                   recover_status, recover_cnt, fdVars, risk>>

\* A frame that came while the channel was idle.
MainFrame ==
    /\ Receive("frame", IF is_working = 1 THEN "loop" ELSE "gone", "none")
    /\ UNCHANGED <<appVars, err_code, is_working, old, prevVars, source, stream, recovery,
                   fdVars, risk>>

\* Variant: every error starts to count anew.
MainRecoverAnew(e) ==
    /\ chn_1_status = "busy" /\ recover_status # "restart"
    /\ Receive(e, "stop", "recover")
    /\ recover_status' = "recovering" /\ recover_cnt' = RecoverCount
    /\ UNCHANGED <<appVars, err_code, is_working, old, prevVars, source, stream, failed,
                   fdVars, risk>>

\* Variant: one restart too many before the heavy one.
MainRecoverLate(e) ==
    /\ chn_1_status = "busy" /\ recover_status # "restart"
    /\ Receive(e, "stop", "recover")
    /\ IF e = "timeout"
         THEN recover_status' = "restart" /\ UNCHANGED recover_cnt
       ELSE IF recover_status = "none"
         THEN recover_status' = "recovering" /\ recover_cnt' = RecoverCount
       ELSE /\ recover_cnt' = recover_cnt - 1
            /\ recover_status' = IF recover_cnt = 0 THEN "restart" ELSE "recovering"
    /\ UNCHANGED <<appVars, err_code, is_working, old, prevVars, source, stream, failed,
                   fdVars, risk>>

\* camera_preview_err_handle: a transmission error is met by a restart, up to
\* RecoverCount times, then by a heavy one; a time-out by a heavy one.
MainRecover(e) ==
    /\ chn_1_status = "busy" /\ recover_status # "restart"
    /\ Receive(e, "stop", "recover")
    /\ IF e = "timeout"
         THEN recover_status' = "restart" /\ UNCHANGED recover_cnt
       ELSE IF recover_status = "none"
         THEN recover_status' = "recovering" /\ recover_cnt' = RecoverCount
       ELSE /\ recover_cnt' = recover_cnt - 1
            /\ recover_status' = IF recover_cnt = 1 THEN "restart" ELSE "recovering"
    /\ UNCHANGED <<appVars, err_code, is_working, old, prevVars, source, stream, failed,
                   fdVars, risk>>

\* After camera_stop_preview_internal, which returned e.
AfterStop(e) ==
    /\ err_code' = IF job = "stop" THEN e ELSE err_code
    /\ IF job = "recover" /\ e # 0
         THEN failed' = TRUE /\ Finish
         ELSE /\ main' = CASE job = "stop" -> "stopdone"
                           [] job = "exit" -> "fddeinit"
                           [] job = "recover" -> "fdinit"
              /\ UNCHANGED <<failed, job>>

\* camera_stop_preview_internal, not in preview.
NotInPreview ==
    /\ main = "stop"
    /\ preview_status = "idle"
    /\ AfterStop(0)
    /\ UNCHANGED <<appVars, msg_queue, is_working, old, prevVars, source, stream,
                   recover_status, recover_cnt, fdVars, risk>>

\* camera_stop_preview_internal, up to cmr_v4l2_cap_stop.
PreviewIdle ==
    /\ main = "stop"
    /\ preview_status = "on"
    /\ preview_status' = "idle" /\ chn_1_status' = "idle"
    /\ main' = "capstop"
    /\ UNCHANGED <<appVars, msg_queue, job, err_code, is_working, old, prevVars, source, is_on,
                   v4l2_state, recovery, fdVars, risk>>

CapStop ==
    /\ main = "capstop"
    /\ is_on' = 0
    /\ main' = "v4l2idle"
    /\ UNCHANGED <<appVars, msg_queue, job, err_code, is_working, old, prevVars, source,
                   v4l2_state, chn_1_status, preview_status, recovery, fdVars, risk>>

\* The rest of it; disabling the exposure control or stopping the ISP may fail.
V4l2Idle ==
    /\ main = "v4l2idle"
    /\ v4l2_state' = "idle"
    /\ \E e \in IF "errors" \in scope THEN {0, 1} ELSE {0} : AfterStop(e)
    /\ UNCHANGED <<appVars, msg_queue, is_working, old, prevVars, source, is_on, chn_1_status,
                   preview_status, recover_status, recover_cnt, fdVars, risk>>

\* CMR_EVT_STOP, after the preview was stopped: the face detection is switched off,
\* as by the HAL; camera_stop_done.
StopDone ==
    /\ main = "stopdone"
    /\ IF is_support_fd = 1
         THEN MemHandle(0) /\ arith_fd_flag' = 0
         ELSE UNCHANGED <<fd_msg_que, mem_size, arith_fd_flag>>
    /\ stop_sem' = stop_sem + 1
    /\ Finish
    /\ UNCHANGED <<app, start_sem, msg_queue, err_code, is_working, old, prevVars, source,
                   stream, recovery, fd, fd_sync_sem, fd_busy, fd_is_inited, is_support_fd,
                   addr, size, risk>>

\* arithmetic_fd_deinit destroys the semaphore and the queue, frees the memory and
\* clears the context.
FdDestroy ==
    /\ fd_msg_que' = << >> /\ fd_sync_sem' = 0 /\ fd_is_inited' = 0
    /\ arith_fd_flag' = 0 /\ fd_busy' = 0
    /\ addr' = "null" /\ mem_size' = 0

\* camera_start_preview_internal: arithmetic_fd_init creates the thread, or sends
\* it the size again (the context never learns the old one).
FdInit ==
    /\ main = "fdinit"
    /\ IF is_support_fd = 1 /\ fd_is_inited = 0
         THEN fd' = "loop" /\ fd_msg_que' = <<"init">> /\ fd_sync_sem' = 0 /\ fd_is_inited' = 1
              /\ size' = 0
       ELSE IF is_support_fd = 1
         THEN FdHasRoom /\ FdPost("init") /\ UNCHANGED <<fd, fd_sync_sem, fd_is_inited, size>>
         ELSE UNCHANGED <<fd, fd_msg_que, fd_sync_sem, fd_is_inited, size>>
    /\ main' = "setup"
    /\ UNCHANGED <<appVars, msg_queue, job, err_code, is_working, old, prevVars, source,
                   stream, recovery, fd_busy, arith_fd_flag, is_support_fd, addr, mem_size,
                   risk>>

\* The queue cannot be created: the preview goes on without face detection.
FdNoQueue ==
    /\ main = "fdinit" /\ is_support_fd = 1 /\ fd_is_inited = 0
    /\ main' = "setup"
    /\ UNCHANGED <<appVars, msg_queue, job, err_code, is_working, old, prevVars, source,
                   stream, recovery, fdVars, risk>>

\* The thread cannot be created, and is waited for all the same.
FdNoThread ==
    /\ main = "fdinit" /\ is_support_fd = 1 /\ fd_is_inited = 0
    /\ main' = "fdstuck"
    /\ fd_msg_que' = << >> /\ fd_sync_sem' = 0
    /\ risk' = risk \cup {"stuck"}
    /\ UNCHANGED <<appVars, msg_queue, job, err_code, is_working, old, prevVars, source,
                   stream, recovery, fd, fd_busy, fdFlags, fdMemory>>

\* The message with the size cannot be sent: a thread that is new stays behind, in a
\* queue that nobody knows any more.
FdNoMessage ==
    /\ main = "fdinit" /\ is_support_fd = 1 /\ fd_is_inited = 0
    /\ FdDestroy
    /\ main' = "setup"
    /\ UNCHANGED <<appVars, msg_queue, job, err_code, is_working, old, prevVars, source,
                   stream, recovery, fd, is_support_fd, size, risk>>

\* A thread that had been told of a size before is asked to exit, perhaps while the
\* preview thread waits for it.
FdNoRoom ==
    /\ main = "fdinit" /\ is_support_fd = 1 /\ fd_is_inited = 1
    /\ main' = "fddeinit"
    /\ risk' = IF job = "recover" \/ "unstopped" \in risk THEN risk \cup {"midway"} ELSE risk
    /\ UNCHANGED <<appVars, msg_queue, job, err_code, is_working, old, prevVars, source,
                   stream, recovery, fdVars>>

\* camera_start_preview_internal returns e to CMR_EVT_START or to the recovery.
AfterStart(e) ==
    /\ IF job = "start"
         THEN err_code' = e /\ start_sem' = start_sem + 1 /\ UNCHANGED failed
         ELSE failed' = (failed \/ e # 0) /\ UNCHANGED <<err_code, start_sem>>
    /\ Finish

\* camera_preview_start_set or camera_preview_init fails.
SetupFails ==
    /\ main = "setup"
    /\ AfterStart(1)
    /\ UNCHANGED <<app, stop_sem, msg_queue, is_working, old, prevVars, source, stream,
                   recover_status, recover_cnt, fdVars, risk>>

Setup ==
    /\ main = "setup"
    /\ chn_1_status' = "busy"
    /\ main' = "capstart"
    /\ UNCHANGED <<appVars, msg_queue, job, err_code, is_working, old, prevVars, source, is_on,
                   v4l2_state, preview_status, recovery, fdVars, risk>>

\* cmr_v4l2_cap_start fails: the channel stays busy.
CapStartFails ==
    /\ main = "capstart" /\ "errors" \in scope
    /\ AfterStart(1)
    /\ risk' = risk \cup {"halfway"}
    /\ UNCHANGED <<app, stop_sem, msg_queue, is_working, old, prevVars, source, stream,
                   recover_status, recover_cnt, fdVars>>

CapStart ==
    /\ main = "capstart"
    /\ is_on' = 1
    /\ main' = "v4l2on"
    /\ UNCHANGED <<appVars, msg_queue, job, err_code, is_working, old, prevVars, source,
                   v4l2_state, chn_1_status, preview_status, recovery, fdVars, risk>>

V4l2On ==
    /\ main = "v4l2on"
    /\ v4l2_state' = "on"
    /\ main' = "preview"
    /\ UNCHANGED <<appVars, msg_queue, job, err_code, is_working, old, prevVars, source, is_on,
                   chn_1_status, preview_status, recovery, fdVars, risk>>

PreviewOn ==
    /\ main = "preview"
    /\ preview_status' = "on"
    /\ AfterStart(0)
    /\ UNCHANGED <<app, stop_sem, msg_queue, is_working, old, prevVars, source, is_on,
                   v4l2_state, chn_1_status, recover_status, recover_cnt, fdVars, risk>>

\* arithmetic_fd_deinit: ask the thread to exit.  If its queue is full, or if it
\* has none, nobody is waited for.
FdDeinit ==
    /\ main = "fddeinit"
    /\ IF is_support_fd = 1 /\ fd_is_inited = 1
         THEN /\ FdPost("exit")
              /\ main' = IF FdHasRoom THEN "fdwait" ELSE "fdfree"
              /\ risk' = IF FdHasRoom THEN risk ELSE risk \cup {"full"}
         ELSE main' = "fdfree" /\ UNCHANGED <<fd_msg_que, risk>>
    /\ UNCHANGED <<appVars, msg_queue, job, err_code, is_working, old, prevVars, source,
                   stream, recovery, fd, fd_sync_sem, fd_busy, fdFlags, fdMemory>>

\* Variant: whoever posted the semaphore, ...
FdNoWait ==
    /\ main = "fdwait"
    /\ main' = "fdfree"
    /\ UNCHANGED <<appVars, msg_queue, job, err_code, is_working, old, prevVars, source,
                   stream, recovery, fdVars, risk>>

FdWait ==
    /\ main = "fdwait"
    /\ fd_sync_sem > 0
    /\ fd_sync_sem' = fd_sync_sem - 1
    /\ main' = "fdfree"
    /\ UNCHANGED <<appVars, msg_queue, job, err_code, is_working, old, prevVars, source,
                   stream, recovery, fd, fd_msg_que, fd_busy, fdFlags, fdMemory, risk>>

\* The rest of arithmetic_fd_deinit; then the preview thread is asked to exit, if that
\* is why, and waited for whether or not it could be asked.
FdFree ==
    /\ main = "fdfree"
    /\ IF is_support_fd = 1
         THEN FdDestroy
         ELSE UNCHANGED <<fd_msg_que, fd_sync_sem, fd_is_inited, arith_fd_flag, fd_busy, addr,
                          mem_size>>
    /\ IF job = "exit"
         THEN /\ main' = "prevwait"
              /\ \E r \in Room : /\ PrevPost("exit", r)
                                 /\ risk' = IF r THEN risk ELSE risk \cup {"stuck"}
         ELSE main' = "setup" /\ UNCHANGED <<prev_msg_que, risk>>
    /\ UNCHANGED <<appVars, msg_queue, job, err_code, is_working, old, prev, source, stream,
                   recovery, fd, is_support_fd, size>>

\* camera_prev_thread_deinit has waited for the preview thread, cmr_v4l2_deinit
\* for the grabbing thread; camera_exit_done.
ExitDone ==
    /\ main = "prevwait"
    /\ prev = "done" /\ grab = "none"
    /\ grab' = "done"
    /\ main' = "exited" /\ job' = "none"
    /\ UNCHANGED <<appVars, msg_queue, err_code, is_working, old, prevVars, scope, stream,
                   recovery, fdVars, risk>>

\* Only then is_working is cleared, and tested after that.
StopWorking ==
    /\ main = "exited"
    /\ is_working' = 0
    /\ main' = "test"
    /\ UNCHANGED <<appVars, msg_queue, job, err_code, old, prevVars, source, stream, recovery,
                   fdVars, risk>>

MainGone ==
    /\ main = "test"
    /\ main' = "done"
    /\ UNCHANGED <<appVars, msg_queue, job, err_code, is_working, old, prevVars, source,
                   stream, recovery, fdVars, risk>>

\* The same two steps after the camera was opened again: the new main thread will end
\* with its next message, ...
OldStopWorking ==
    /\ old = "exited"
    /\ is_working' = 0
    /\ old' = "test"
    /\ risk' = risk \cup {"overtaken"}
    /\ UNCHANGED <<appVars, msg_queue, main, job, err_code, prevVars, source, stream, recovery,
                   fdVars>>

\* ... or the old one goes on.
OldGone ==
    /\ old = "test"
    /\ IF is_working = 0
         THEN old' = "none" /\ UNCHANGED risk
         ELSE old' = "second" /\ risk' = risk \cup {"overtaken", "second"}
    /\ UNCHANGED <<appVars, msg_queue, main, job, err_code, is_working, prevVars, source,
                   stream, recovery, fdVars>>

\* A message taken by the second main thread.  What two threads do with the context
\* at the same time is not followed.
OldReceive ==
    /\ old = "second"
    /\ msg_queue # << >>
    /\ msg_queue' = Tail(msg_queue)
    /\ UNCHANGED <<appVars, main, job, err_code, is_working, old, prevVars, source, stream,
                   recovery, fdVars, risk>>

-----------------------------------------------------------------------------
(* The grabbing thread: cmr_v4l2_thread_proc, camera_v4l2_evt_cb *)

Count(q, M) == Cardinality({i \in DOMAIN q : q[i] \in M})

\* The driver hands out a frame or reports an error, and is_on is read.
GrabEvent(e) ==
    /\ grab = "none"
    /\ is_on = 1
    /\ e = "frame" => Count(prev_msg_que, {"frame"}) < Frames
    /\ e # "frame" => "errors" \in scope
    /\ Count(msg_queue, {"frame", "error", "timeout"}) < Errors
    /\ grab' = e
    /\ UNCHANGED <<appVars, mainVars, prevVars, scope, stream, recovery, fdVars, risk>>

\* A frame that comes while the stream is stopped goes back to the driver.
GrabCallback ==
    /\ grab = "frame"
    /\ grab' = IF v4l2_state = "idle" THEN "none" ELSE "post"
    /\ UNCHANGED <<appVars, mainVars, prevVars, scope, stream, recovery, fdVars, risk>>

\* A frame for the preview; while the channel is idle it goes to the main thread.
GrabPost ==
    /\ grab = "post"
    /\ \E r \in Room :
         IF chn_1_status = "busy"
           THEN PrevPost("frame", r) /\ UNCHANGED msg_queue
           ELSE MainPost("frame", r) /\ UNCHANGED prev_msg_que
    /\ grab' = "none"
    /\ UNCHANGED <<appVars, main, job, err_code, is_working, old, prev, scope, stream,
                   recovery, fdVars, risk>>

GrabError ==
    /\ grab \in {"error", "timeout"}
    /\ \E r \in Room : MainPost(grab, r)
    /\ grab' = "none"
    /\ UNCHANGED <<appVars, main, job, err_code, is_working, old, prevVars, scope, stream,
                   recovery, fdVars, risk>>

-----------------------------------------------------------------------------
(* The preview thread: camera_prev_thread_proc, camera_v4l2_preview_handle *)

\* Variant: camera_stop_preview is not told that its message came through.
PrevGetSilent ==
    /\ prev = "loop"
    /\ prev_msg_que # << >>
    /\ prev_msg_que' = Tail(prev_msg_que)
    /\ prev' = CASE Head(prev_msg_que) = "frame" -> "frame"
                 [] Head(prev_msg_que) = "stop" -> "loop"
                 [] Head(prev_msg_que) = "exit" -> "done"
    /\ UNCHANGED <<appVars, mainVars, source, stream, recovery, fdVars, risk>>

PrevGet ==
    /\ prev = "loop"
    /\ prev_msg_que # << >>
    /\ prev_msg_que' = Tail(prev_msg_que)
    /\ LET m == Head(prev_msg_que) IN
         /\ prev' = CASE m = "frame" -> "frame" [] m = "stop" -> "loop" [] m = "exit" -> "done"
         /\ stop_sem' = IF m = "stop" THEN stop_sem + 1 ELSE stop_sem
    /\ UNCHANGED <<app, start_sem, mainVars, source, stream, recovery, fdVars, risk>>

\* The capture is stopped, or, under the mutex, the preview.
PrevDiscard ==
    /\ prev = "frame"
    /\ v4l2_state = "idle" \/ (~PrevLocked /\ preview_status = "idle")
    /\ prev' = "loop"
    /\ UNCHANGED <<appVars, mainVars, prev_msg_que, source, stream, recovery, fdVars, risk>>

InPreview == prev = "frame" /\ v4l2_state = "on" /\ ~PrevLocked /\ preview_status = "on"

\* One of the first frames after a start or a change of a setting.  If it cannot be
\* given back the HAL is told that the preview failed.
PrevSkip ==
    /\ InPreview
    /\ prev' = "loop"
    /\ \E e \in IF "errors" \in scope THEN BOOLEAN ELSE {FALSE} : failed' = (failed \/ e)
    /\ UNCHANGED <<appVars, mainVars, prev_msg_que, source, stream, recover_status,
                   recover_cnt, fdVars, risk>>

PrevHandle ==
    /\ InPreview
    /\ prev' = "face"
    /\ UNCHANGED <<appVars, mainVars, prev_msg_que, source, stream, recovery, fdVars, risk>>

\* camera_set_frame_type: some frames are searched for faces.
PrevFace(search) ==
    /\ prev = "face"
    /\ prev' = IF search /\ is_support_fd = 1 /\ arith_fd_flag = 1 /\ fd_is_inited = 1
               THEN "fdstart" ELSE "deliver"
    /\ UNCHANGED <<appVars, mainVars, prev_msg_que, source, stream, recovery, fdVars, risk>>

\* arithmetic_fd_start: not while the last frame is still being searched.
PrevFdStart ==
    /\ prev = "fdstart"
    /\ IF fd_busy # 1 /\ FdHasRoom
         THEN FdPost("start") /\ prev' = "fdwait"
         ELSE prev' = "deliver" /\ UNCHANGED fd_msg_que
    /\ UNCHANGED <<appVars, mainVars, prev_msg_que, source, stream, recovery, fd, fd_sync_sem,
                   fd_busy, fdFlags, fdMemory, risk>>

\* Variant: the frame is not kept until it was copied.
PrevNoWait ==
    /\ prev = "fdwait"
    /\ prev' = "deliver"
    /\ UNCHANGED <<appVars, mainVars, prev_msg_que, source, stream, recovery, fdVars, risk>>

PrevWait ==
    /\ prev = "fdwait"
    /\ fd_sync_sem > 0
    /\ fd_sync_sem' = fd_sync_sem - 1
    /\ prev' = "deliver"
    /\ UNCHANGED <<appVars, mainVars, prev_msg_que, source, stream, recovery, fd, fd_msg_que,
                   fd_busy, fdFlags, fdMemory, risk>>

\* CAMERA_EVT_CB_FRAME: the HAL shows the frame.  A frame came: the recovery, if there
\* was one, has succeeded.
PrevDeliver ==
    /\ prev = "deliver"
    /\ ~RecoverLocked
    /\ recover_status' = "none"
    /\ prev' = "loop"
    /\ UNCHANGED <<appVars, mainVars, prev_msg_que, source, stream, failed, recover_cnt,
                   fdVars, risk>>

-----------------------------------------------------------------------------
(* The face detection thread: arithmetic_fd_thread_proc *)

FdReceive(m) ==
    /\ fd = "loop"
    /\ fd_msg_que # << >> /\ Head(fd_msg_que) = m
    /\ fd_msg_que' = Tail(fd_msg_que)

\* ARITHMETIC_EVT_FD_INIT: memory asked for earlier is allocated with the size of
\* the last ARITHMETIC_EVT_MEM, if malloc finds as much.
FdInitMemory ==
    /\ FdReceive("init")
    /\ IF mem_size = 0
         THEN UNCHANGED <<addr, mem_size>>
         ELSE \/ addr' = (IF size = 0 THEN "empty" ELSE "full") /\ mem_size' = size
              \/ addr' = "null" /\ size = 1 /\ UNCHANGED mem_size
    /\ UNCHANGED <<appVars, mainVars, prevVars, source, stream, recovery, fd, fd_sync_sem,
                   fd_busy, fdFlags, size, risk>>

\* ARITHMETIC_EVT_MEM, to free ...
FdMem0 ==
    /\ FdReceive("mem0")
    /\ size' = 0
    /\ addr' = "null"
    /\ mem_size' = IF addr = "null" THEN mem_size ELSE 0
    /\ UNCHANGED <<appVars, mainVars, prevVars, source, stream, recovery, fd, fd_sync_sem,
                   fd_busy, fdFlags, risk>>

\* ... or to allocate the memory, which may fail.
FdMem1 ==
    /\ FdReceive("mem1")
    /\ size' = 1
    /\ IF mem_size = 1
         THEN UNCHANGED <<addr, mem_size>>
         ELSE \/ addr' = "full" /\ mem_size' = 1
              \/ addr' = "null" /\ mem_size' = 0
    /\ UNCHANGED <<appVars, mainVars, prevVars, source, stream, recovery, fd, fd_sync_sem,
                   fd_busy, fdFlags, risk>>

\* ARITHMETIC_EVT_FD_START.
FdStart ==
    /\ FdReceive("start")
    /\ fd_busy' = 1
    /\ fd' = "start"
    /\ UNCHANGED <<appVars, mainVars, prevVars, source, stream, recovery, fd_sync_sem, fdFlags,
                   fdMemory, risk>>

\* No memory: the preview thread goes on, fd_busy stays.
FdNoMemory ==
    /\ fd = "start"
    /\ addr = "null"
    /\ fd_sync_sem' = fd_sync_sem + 1
    /\ fd' = "loop"
    /\ risk' = risk \cup {"nomem"}
    /\ UNCHANGED <<appVars, mainVars, prevVars, source, stream, recovery, fd_msg_que, fd_busy,
                   fdFlags, fdMemory>>

\* Variant: fd_busy is forgotten.
FdStoppedBusy ==
    /\ fd = "start"
    /\ addr # "null" /\ preview_status = "idle"
    /\ fd_sync_sem' = fd_sync_sem + 1
    /\ fd' = "loop"
    /\ UNCHANGED <<appVars, mainVars, prevVars, source, stream, recovery, fd_msg_que, fd_busy,
                   fdFlags, fdMemory, risk>>

\* The preview was stopped.
FdStopped ==
    /\ fd = "start"
    /\ addr # "null" /\ preview_status = "idle"
    /\ fd_busy' = 0
    /\ fd_sync_sem' = fd_sync_sem + 1
    /\ fd' = "loop"
    /\ UNCHANGED <<appVars, mainVars, prevVars, source, stream, recovery, fd_msg_que, fdFlags,
                   fdMemory, risk>>

FdCopy ==
    /\ fd = "start"
    /\ addr # "null" /\ preview_status = "on"
    /\ fd' = "copy"
    /\ UNCHANGED <<appVars, mainVars, prevVars, source, stream, recovery, fd_msg_que,
                   fd_sync_sem, fd_busy, fdFlags, fdMemory, risk>>

\* The frame was copied: the preview thread goes on.
FdCopied ==
    /\ fd = "copy"
    /\ fd_sync_sem' = fd_sync_sem + 1
    /\ fd' = "detect"
    /\ UNCHANGED <<appVars, mainVars, prevVars, source, stream, recovery, fd_msg_que, fd_busy,
                   fdFlags, fdMemory, risk>>

\* FaceSolid_Function returned, and the HAL was told of the faces.
FdDetected ==
    /\ fd = "detect"
    /\ fd_busy' = 0
    /\ fd' = "loop"
    /\ UNCHANGED <<appVars, mainVars, prevVars, source, stream, recovery, fd_msg_que,
                   fd_sync_sem, fdFlags, fdMemory, risk>>

\* ARITHMETIC_EVT_FD_EXIT.
FdExit ==
    /\ FdReceive("exit")
    /\ fd' = "none"
    /\ fd_sync_sem' = fd_sync_sem + 1
    /\ UNCHANGED <<appVars, mainVars, prevVars, source, stream, recovery, fd_busy, fdFlags,
                   fdMemory, risk>>

-----------------------------------------------------------------------------
AppReturns == Started \/ Stopped \/ Drained

AppCalls == StartPreview \/ StopPreview \/ Stop \/ Reopen \/ \E n \in {0, 1} : SendCommand(n)

Main == \/ MainStart \/ MainStop \/ MainExit \/ MainFrame
        \/ \E e \in {"error", "timeout"} : MainNoWay(e)
        \/ \E e \in {"error", "timeout"} : MainRecover(e)
        \/ NotInPreview \/ PreviewIdle \/ CapStop \/ V4l2Idle \/ StopDone
        \/ FdInit \/ FdNoQueue \/ FdNoThread \/ FdNoMessage \/ FdNoRoom
        \/ SetupFails \/ Setup \/ CapStartFails \/ CapStart \/ V4l2On \/ PreviewOn
        \/ FdDeinit \/ FdWait \/ FdFree \/ ExitDone \/ StopWorking
        \/ MainGone

Old == OldStopWorking \/ OldGone \/ OldReceive

Grab == GrabCallback \/ GrabPost \/ GrabError

Prev == \/ PrevGet \/ PrevDiscard \/ PrevSkip \/ PrevHandle
        \/ \E search \in BOOLEAN : PrevFace(search)
        \/ PrevFdStart \/ PrevWait \/ PrevDeliver

Fd == \/ FdInitMemory \/ FdMem0 \/ FdMem1 \/ FdStart \/ FdNoMemory \/ FdStopped
      \/ FdCopy \/ FdCopied \/ FdDetected \/ FdExit

Next == \/ AppReturns \/ AppCalls
        \/ Main \/ Old
        \/ (\E e \in {"frame", "error", "timeout"} : GrabEvent(e)) \/ Grab
        \/ Prev
        \/ Fd

Spec == Init /\ [][Next]_vars

\* The kernel runs every thread; nothing makes the HAL call or the driver deliver.
FairSpec == /\ Spec
            /\ WF_vars(AppReturns) /\ WF_vars(Main) /\ WF_vars(Old)
            /\ WF_vars(Grab) /\ WF_vars(Prev) /\ WF_vars(Fd)

-----------------------------------------------------------------------------
(* Properties *)

\* The positions of the threads, the semaphores and the counters in range.
TypeOK ==
    /\ app \in {"open", "refused", "starting", "preview", "stopping", "draining", "closing"}
    /\ prev \in {"loop", "frame", "face", "fdstart", "fdwait", "deliver", "done"}
    /\ grab \in {"none", "frame", "error", "timeout", "post", "done"}
    /\ fd \in {"none", "loop", "start", "copy", "detect"}
    /\ recover_status \in {"none", "recovering", "restart"}
    /\ recover_cnt \in 0 .. RecoverCount
    /\ old \in {"none", "exited", "test", "second"}
    /\ {start_sem, stop_sem} \subseteq {0, 1}
    /\ Len(fd_msg_que) <= FdQueue

\* The properties say nothing after a start that failed half-way (the channel stays
\* busy: the next error event restarts a preview that the HAL has stopped, or has
\* never had), nor if the face detection thread could not be asked to exit, or was
\* asked while frames may still come ("midway"), nor if the old main thread went on,
\* nor while the HAL takes a preview that it did not stop for stopped.
Calm == \A mishap \in {"halfway", "full", "midway", "second"} : mishap \notin risk
Orderly == Calm /\ "unstopped" \notin risk

\* Once camera_stop_preview has returned the HAL frees the frames: no thread of
\* the library then holds one, although frames were queued, being searched or
\* being delivered when it was called.
QuietAfterStop ==
    app = "open" /\ Orderly =>
        /\ prev \notin {"face", "fdstart", "fdwait", "deliver"}
        /\ fd # "copy"

\* The frame that is copied for the face detection stays with the preview thread
\* until it has been copied.
FrameHeld == fd = "copy" /\ Orderly => prev = "fdwait"

\* arithmetic_fd_deinit destroys nothing that the face detection thread or a
\* caller of it still uses.
NothingDangling ==
    main = "fdfree" /\ fd_is_inited = 1 /\ Orderly =>
        fd = "none" /\ prev \notin {"fdstart", "fdwait"}

\* Face detection is busy only while it works, unless a frame once came when there
\* was no memory: that one leaves it busy until the camera is closed.
BusyMeansWorking ==
    fd = "loop" /\ fd_busy = 1 /\ Orderly => "nomem" \in risk

\* Every call of the HAL that waits returns, although the main thread may be
\* restarting the preview when it is made, the preview thread may have to wait for
\* the face detection, the start may have failed half-way or the last preview may
\* never have been stopped.  Except for what the code does wait for in vain: a thread
\* that was not created, or the answer to a message that was not sent ("stuck"); a
\* main thread that the one before it has made to leave, or whose messages that one
\* takes ("overtaken"); and the face detection thread, if it was asked to exit while
\* the preview thread may be waiting for the same semaphore ("full").
Waiting == \/ app \in {"starting", "stopping", "draining"}
           \/ app = "closing" /\ main \notin {"exited", "test", "done"}
CallsReturn == Waiting ~> ~Waiting \/ risk \cap {"stuck", "overtaken", "full", "midway"} # {}

\* A stream that brings only errors is given up: the preview is restarted for ever
\* only if frames keep coming or the HAL keeps starting it.
GivesUp ==
    []<><<\E e \in {"error", "timeout"} : MainRecover(e)>>_vars =>
        \/ []<><<GrabEvent("frame")>>_vars
        \/ []<><<StartPreview>>_vars
=============================================================================
