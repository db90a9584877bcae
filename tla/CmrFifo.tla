------------------------------- MODULE CmrFifo -------------------------------
(***************************************************************************)
(* What a message queue of the camera library promises                     *)
(* (src/libs/libcamera/sc8830/src/cmr_msg.c): a post that was answered     *)
(* with success is in the queue, messages are taken in that order, each    *)
(* one once, and a post is refused only when the queue holds as many       *)
(* messages as it may.                                                     *)
(***************************************************************************)
EXTENDS Naturals, Sequences

CONSTANTS
    Msgs,                   \* messages
    Producers, Consumers,   \* threads that post, threads that take
    Capacity                \* messages the queue may hold

VARIABLES
    queue,      \* the messages posted and not yet taken
    got,        \* Consumers -> the message each of them took last
    asked,      \* Producers -> the message of the last call
    answer      \* Producers -> its answer; "none" before the first call

vars == <<queue, got, asked, answer>>

Init == /\ queue = << >>
        /\ got \in [Consumers -> Msgs]
        /\ asked \in [Producers -> Msgs]
        /\ answer = [p \in Producers |-> "none"]

\* cmr_msg_post is called.
Call(p, m) == /\ answer[p] # "pending"
              /\ asked' = [asked EXCEPT ![p] = m]
              /\ answer' = [answer EXCEPT ![p] = "pending"]
              /\ UNCHANGED <<queue, got>>

\* CMR_MSG_SUCCESS.
Post(p) == /\ answer[p] = "pending"
           /\ Len(queue) < Capacity
           /\ queue' = Append(queue, asked[p])
           /\ answer' = [answer EXCEPT ![p] = "success"]
           /\ UNCHANGED <<got, asked>>

\* CMR_MSG_OVERFLOW.
Refuse(p) == /\ answer[p] = "pending"
             /\ Len(queue) = Capacity
             /\ answer' = [answer EXCEPT ![p] = "overflow"]
             /\ UNCHANGED <<queue, got, asked>>

\* cmr_msg_get, cmr_msg_timedget or cmr_msg_peak returns CMR_MSG_SUCCESS.
Take(t) == /\ queue # << >>
           /\ got' = [got EXCEPT ![t] = Head(queue)]
           /\ queue' = Tail(queue)
           /\ UNCHANGED <<asked, answer>>

TakeAny == \E t \in Consumers : Take(t)

Next == \/ \E p \in Producers : (\E m \in Msgs : Call(p, m)) \/ Post(p) \/ Refuse(p)
        \/ TakeAny

Spec == Init /\ [][Next]_vars

\* Consumers that keep asking find the queue empty in the end.
Live == WF_vars(TakeAny)
=============================================================================
