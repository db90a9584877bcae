-------------------------------- MODULE CmrMsg --------------------------------
(***************************************************************************)
(* The message queue through which the threads of the camera library talk  *)
(* (src/libs/libcamera/sc8830/src/cmr_msg.c): a ring of msg_count slots,   *)
(* guarded by a mutex, with a semaphore that counts the messages.  Any     *)
(* number of threads post and take.  Pointers into the ring are slot       *)
(* numbers; msg_write is one past the last slot for an instant.            *)
(*                                                                         *)
(* A step is what a thread does under the mutex, or between two uses of    *)
(* the mutex or the semaphore; the one read of the ring outside the mutex  *)
(* (ori_node in cmr_msg_post) is a step of its own.                        *)
(***************************************************************************)
EXTENDS Naturals, FiniteSets

CONSTANTS
    Producers, Consumers,   \* threads that post, threads that take
    Msgs,                   \* what a message may be, the zeroed one included
    Zero,                   \* the message bzero() leaves
    msg_count               \* slots of the ring

\* cmr_msg_queue_create refuses a queue of 0 slots.
ASSUME CountAssumption == msg_count \in Nat \ {0}
ASSUME MsgsAssumption == Zero \in Msgs
ASSUME ThreadsAssumption ==
    /\ IsFiniteSet(Producers) /\ IsFiniteSet(Consumers)
    /\ Producers \cap Consumers = {}

Threads == Producers \cup Consumers
Slots   == 0 .. msg_count - 1

VARIABLES
    ring,       \* the slots
    msg_read, msg_write, msg_number,
    msg_sem,    \* value of the semaphore
    mutex,      \* "free" or "locked"
    pc,         \* Threads -> step
    message,    \* Threads -> *message: to be posted, or taken last
    ori_node,   \* Threads -> local variable of cmr_msg_post
    ret         \* Producers -> what cmr_msg_post returned last

vars == <<ring, msg_read, msg_write, msg_number, msg_sem, mutex, pc, message, ori_node, ret>>

Goto(t, l) == pc' = [pc EXCEPT ![t] = l]

\* A pointer that passed the last slot is set to the first.
Wrap(p) == IF p > msg_count - 1 THEN 0 ELSE p

\* cmr_msg_queue_create: malloc leaves the slots as they were.
Init ==
    /\ ring \in [Slots -> Msgs]
    /\ msg_read = 0 /\ msg_write = 0 /\ msg_number = 0
    /\ msg_sem = 0
    /\ mutex = "free"
    /\ pc = [t \in Threads |-> "idle"]
    /\ message = [t \in Threads |-> Zero]
    /\ ori_node = [t \in Threads |-> 0]
    /\ ret = [t \in Producers |-> "none"]

-----------------------------------------------------------------------------
(* cmr_msg_post *)

\* The write pointer is read before the mutex is locked.
PostBegin(t, m) ==
    /\ pc[t] = "idle"
    /\ message' = [message EXCEPT ![t] = m]
    /\ ori_node' = [ori_node EXCEPT ![t] = msg_write]
    /\ ret' = [ret EXCEPT ![t] = "none"]
    /\ Goto(t, "post")
    /\ UNCHANGED <<ring, msg_read, msg_write, msg_number, msg_sem, mutex>>

\* Variant: one slot more is kept free.
FullEarly == msg_number + 2 >= msg_count

Full == msg_number + 1 >= msg_count

\* CMR_MSG_OVERFLOW.
PostOverflow(t) ==
    /\ pc[t] = "post"
    /\ mutex = "free"
    /\ Full
    /\ ret' = [ret EXCEPT ![t] = "overflow"]
    /\ Goto(t, "idle")
    /\ UNCHANGED <<ring, msg_read, msg_write, msg_number, msg_sem, mutex, message, ori_node>>

\* *msg_write++ = *message.
PostStore(t) ==
    /\ pc[t] = "post"
    /\ mutex = "free"
    /\ ~Full
    /\ mutex' = "locked"
    /\ ring' = [ring EXCEPT ![msg_write] = message[t]]
    /\ msg_write' = msg_write + 1
    /\ Goto(t, "wrap")
    /\ UNCHANGED <<msg_read, msg_number, msg_sem, message, ori_node, ret>>

\* A ring that became full would take the write pointer back to ori_node.
PostWrap(t) ==
    /\ pc[t] = "wrap"
    /\ msg_write' = IF Wrap(msg_write) = msg_read THEN ori_node[t] ELSE Wrap(msg_write)
    /\ msg_number' = msg_number + 1
    /\ mutex' = "free"
    /\ Goto(t, "sem")
    /\ UNCHANGED <<ring, msg_read, msg_sem, message, ori_node, ret>>

\* Variant: the semaphore is not posted for a queue that was not empty.
PostSemFirst(t) ==
    /\ pc[t] = "sem"
    /\ msg_sem' = IF msg_number = 1 THEN msg_sem + 1 ELSE msg_sem
    /\ ret' = [ret EXCEPT ![t] = "success"]
    /\ Goto(t, "idle")
    /\ UNCHANGED <<ring, msg_read, msg_write, msg_number, mutex, message, ori_node>>

PostSem(t) ==
    /\ pc[t] = "sem"
    /\ msg_sem' = msg_sem + 1
    /\ ret' = [ret EXCEPT ![t] = "success"]
    /\ Goto(t, "idle")
    /\ UNCHANGED <<ring, msg_read, msg_write, msg_number, mutex, message, ori_node>>

-----------------------------------------------------------------------------
(* cmr_msg_get; cmr_msg_timedget, which may also give up waiting; and       *)
(* cmr_msg_peak, which does not wait                                       *)

\* sem_wait, sem_timedwait or sem_trywait takes the semaphore.
SemWait(t, next) ==
    /\ pc[t] = "idle"
    /\ msg_sem > 0
    /\ msg_sem' = msg_sem - 1
    /\ Goto(t, next)
    /\ UNCHANGED <<ring, msg_read, msg_write, msg_number, mutex, message, ori_node, ret>>

\* The message at msg_read, unless the ring looks empty: then *message keeps
\* what it held.
TakeMessage(t) ==
    IF msg_read # msg_write
      THEN /\ message' = [message EXCEPT ![t] = ring[msg_read]]
           /\ msg_read' = Wrap(msg_read + 1)
      ELSE UNCHANGED <<message, msg_read>>

\* cmr_msg_get: a counter of 0 is CMR_MSG_UNDERFLOW; else the slot that was read
\* is zeroed.
Get(t) ==
    /\ pc[t] = "get"
    /\ mutex = "free"
    /\ IF msg_number = 0
         THEN UNCHANGED <<ring, msg_read, msg_number, message>>
         ELSE /\ TakeMessage(t)
              /\ ring' = IF msg_read # msg_write THEN [ring EXCEPT ![msg_read] = Zero]
                                                 ELSE ring
              /\ msg_number' = msg_number - 1
    /\ Goto(t, "idle")
    /\ UNCHANGED <<msg_write, msg_sem, mutex, ori_node, ret>>

\* cmr_msg_peak takes the message without zeroing its slot; a ring that looks
\* empty makes it return with the mutex locked.
Peak(t) ==
    /\ pc[t] = "peak"
    /\ mutex = "free"
    /\ TakeMessage(t)
    /\ msg_number' = IF msg_read # msg_write THEN msg_number - 1 ELSE msg_number
    /\ mutex' = IF msg_read # msg_write THEN "free" ELSE "locked"
    /\ Goto(t, "idle")
    /\ UNCHANGED <<ring, msg_write, msg_sem, ori_node, ret>>

-----------------------------------------------------------------------------
Posting(t) == PostOverflow(t) \/ PostStore(t) \/ PostWrap(t) \/ PostSem(t)

Taking(t) == SemWait(t, "get") \/ SemWait(t, "peak") \/ Get(t) \/ Peak(t)

Next == \/ \E t \in Producers, m \in Msgs : PostBegin(t, m)
        \/ \E t \in Producers : Posting(t)
        \/ \E t \in Consumers : Taking(t)

Spec == Init /\ [][Next]_vars

\* A thread inside cmr_msg_post goes on, and the thread a queue belongs to asks
\* for the next message again and again.  Nobody has to post.
Fairness == /\ \A t \in Producers : WF_vars(Posting(t))
            /\ \A t \in Consumers : WF_vars(Taking(t))

FairSpec == Spec /\ Fairness

-----------------------------------------------------------------------------
(* Properties *)

\* The ring, its pointers, the counters and the threads' positions in range.
TypeOK ==
    /\ ring \in [Slots -> Msgs]
    /\ msg_read \in Slots
    /\ msg_write \in 0 .. msg_count
    /\ msg_number \in 0 .. msg_count
    /\ msg_sem \in Nat
    /\ mutex \in {"free", "locked"}
    /\ pc \in [Threads -> {"idle", "post", "wrap", "sem", "get", "peak"}]
    /\ message \in [Threads -> Msgs]
    /\ ori_node \in [Threads -> 0 .. msg_count]
    /\ ret \in [Producers -> {"none", "success", "overflow"}]

\* The slot i places after the read pointer.
Slot(i) == IF msg_read + i < msg_count THEN msg_read + i ELSE msg_read + i - msg_count

\* Between two calls the write pointer is msg_number slots after the read
\* pointer, and one slot stays free: the two pointers are equal exactly when the
\* queue is empty, so the stale ori_node is never used and no slot is read or
\* written out of turn.
PointersAgree ==
    mutex = "free" => /\ msg_number < msg_count
                      /\ msg_write = Slot(msg_number)

\* Threads between the semaphore and the counter of messages.
Between == {t \in Threads : pc[t] \in {"sem", "get", "peak"}}

\* The semaphore and msg_number, which are changed apart, count the same messages.
SemaphoreCounts == msg_number = msg_sem + Cardinality(Between)

\* A thread that got the semaphore finds a message: CMR_MSG_UNDERFLOW, after which
\* every thread of the camera library leaves its loop, is never returned.
NeverUnderflow == \A t \in Consumers : pc[t] \in {"get", "peak"} => msg_number > 0

\* The mutex is locked only while a thread is inside cmr_msg_post: the return of
\* cmr_msg_peak that forgets to unlock it is never taken.
MutexReleased == mutex = "locked" => \E t \in Producers : pc[t] = "wrap"

\* The messages in the ring, from the read pointer on, what each consumer took, and what
\* each producer asked for and was told: a call counts as answered once msg_number counts
\* its message.
Queue  == [i \in 1 .. msg_number |-> ring[Slot(i - 1)]]
Got    == [t \in Consumers |-> message[t]]
Asked  == [t \in Producers |-> message[t]]
Answer == [t \in Producers |-> IF pc[t] \in {"post", "wrap"} THEN "pending"
                               ELSE IF pc[t] = "sem" THEN "success" ELSE ret[t]]

Fifo == INSTANCE CmrFifo WITH Capacity <- msg_count - 1, queue <- Queue, got <- Got,
                              asked <- Asked, answer <- Answer

\* The ring, the mutex and the semaphore implement the queue of CmrFifo: order kept,
\* nothing lost or taken twice, success answered only for a message that is in the queue,
\* and a post refused only when the queue is full.
FifoSpec == Fifo!Spec

\* A message is never left waiting while a thread keeps asking: no call of sem_post and no
\* count of the semaphore is missing, in any interleaving of the calls.
FifoLive == Fifo!Live
=============================================================================
