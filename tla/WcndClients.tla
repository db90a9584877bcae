----------------------------- MODULE WcndClients -----------------------------
(***************************************************************************)
(* The client table of src/apps/wcnd/wcnd.c and the descriptors in it.     *)
(*   client_listen_thread accepts clients, reads their commands and drops  *)
(*   those that hang up; a command may notify the clients (do_cp2_reset_   *)
(*   process), so the listener also runs send_notify_to_client;            *)
(*   the detecting threads ("notifier") run send_notify_to_client at any   *)
(*   time, and close the sockets whose peer is gone;                       *)
(*   the loop check opens and closes the loop device in between.           *)
(* client_fds_lock guards the table, not the descriptors: the kernel gives *)
(* the lowest free number to whoever opens or accepts next.                *)
(***************************************************************************)
EXTENDS Integers, FiniteSets

CONSTANTS
    MaxConns,               \* bound: connections clients make
    Commanders,             \* those that send commands; the others only listen
    WCND_MAX_CLIENT_NUM,
    Fds                     \* descriptor numbers the process may use

ASSUME TableAssumption ==
    WCND_MAX_CLIENT_NUM \in Nat \ {0} /\ Fds \subseteq Nat /\ MaxConns \in Nat
ASSUME CommandersAssumption == Commanders \subseteq 1 .. MaxConns

Conns == 1 .. MaxConns      \* in the order of connect()
Slots == 1 .. WCND_MAX_CLIENT_NUM
NoFd  == -1
Free  == -1     \* in place of a connection: the descriptor is not open
Loop  == 0      \* in place of a connection: the loop device

VARIABLES
    made,       \* number of connections made
    taken,      \* number of connections accept() has returned
    gone,       \* connections whose client has hung up
    sent,       \* connections with a command the listener has not read
    file,       \* Fds -> the connection behind a descriptor, or Loop, or Free
    client_fds, \* Slots -> Fds \cup {NoFd}
    lock,       \* holder of client_fds_lock: "none", "listener" or "notifier"
    lpc,        \* step of client_listen_thread
    watch,      \* the set handed to select(), without listen_fd
    read_fds,   \* the set select() returned, without listen_fd
    c,          \* the descriptor accept() returned, or NoFd
    pending,    \* pending_fds, each client at the slot it has in client_fds
    at,         \* slot send_notify_to_client is at
    torn,       \* TRUE between close(fd) and client_fds[i] = -1
    loop_fd,    \* is_cp2_alive_ok: its descriptor of the loop device, or NoFd
    reply,      \* the loop device has an answer
    displaced,  \* history: connections overwritten in a full table
    closed,     \* history: descriptors a notification closed since watch was built
    due         \* history: clients the current notification has yet to reach

kernel   == <<made, taken, gone, sent, file>>
listener == <<lpc, watch, read_fds, c, pending>>
round    == <<at, torn>>
loopTest == <<loop_fd, reply>>
history  == <<displaced, closed, due>>
vars == <<kernel, client_fds, lock, listener, round, loopTest, history>>

Init ==
    /\ made = 0 /\ taken = 0 /\ gone = {} /\ sent = {}
    /\ file = [f \in Fds |-> Free]
    /\ client_fds = [i \in Slots |-> NoFd] /\ lock = "none"
    /\ lpc = "build" /\ watch = {} /\ read_fds = {} /\ c = NoFd
    /\ pending = [i \in Slots |-> NoFd]
    /\ at = 1 /\ torn = FALSE
    /\ loop_fd = NoFd /\ reply = FALSE
    /\ displaced = {} /\ closed = {} /\ due = {}

-----------------------------------------------------------------------------
(* External: descriptors and sockets as the kernel keeps them.             *)

Unused == {f \in Fds : file[f] = Free}
Lowest(S) == CHOOSE f \in S : \A g \in S : f <= g

\* read() would not block: a command, an end of file, or the loop answer.
Readable(f) ==
    \/ file[f] \in sent
    \/ file[f] \in gone
    \/ file[f] = Loop /\ reply

Live == (1 .. made) \ gone

Connect ==
    /\ made < MaxConns /\ made' = made + 1
    /\ UNCHANGED <<taken, gone, sent, file, client_fds, lock, listener, round, loopTest,
                   history>>

Send(k) ==
    /\ k \in Live \ sent /\ sent' = sent \cup {k}
    /\ UNCHANGED <<made, taken, gone, file, client_fds, lock, listener, round, loopTest,
                   history>>

HangUp(k) ==
    /\ k \in Live /\ gone' = gone \cup {k}
    /\ UNCHANGED <<made, taken, sent, file, client_fds, lock, listener, round, loopTest,
                   history>>

-----------------------------------------------------------------------------
(* is_cp2_alive_ok in the loop check thread.                               *)

LoopOpen ==
    /\ loop_fd = NoFd /\ Unused # {}
    /\ loop_fd' = Lowest(Unused) /\ file' = [file EXCEPT ![loop_fd'] = Loop]
    /\ UNCHANGED <<made, taken, gone, sent, client_fds, lock, listener, round, reply,
                   history>>

\* CP2 sends the test string back.
LoopAnswer ==
    /\ loop_fd # NoFd /\ ~reply /\ reply' = TRUE
    /\ UNCHANGED <<kernel, client_fds, lock, listener, round, loop_fd, history>>

\* The device is closed after the answer has been read, or without one.
LoopClose ==
    /\ loop_fd # NoFd /\ loop_fd' = NoFd /\ reply' = FALSE
    /\ file' = [file EXCEPT ![loop_fd] = Free]
    /\ UNCHANGED <<made, taken, gone, sent, client_fds, lock, listener, round, history>>

-----------------------------------------------------------------------------
(* store_client_fd                                                         *)

\* Variant: the search for an empty slot begins at the second one.
StoreFromSecond(t, f) ==
    LET usable == {i \in Slots \ {1} : t[i] \in {NoFd, f}}
    IN  [t EXCEPT ![IF usable = {} THEN WCND_MAX_CLIENT_NUM ELSE Lowest(usable)] = f]

\* Variant: a full table is written to one past its end.
StorePastEnd(t, f) ==
    LET usable == {i \in Slots : t[i] \in {NoFd, f}}
    IN  [t EXCEPT ![IF usable = {} THEN WCND_MAX_CLIENT_NUM + 1 ELSE Lowest(usable)] = f]

\* The first slot that is empty or has the descriptor, else the last one.
Store(t, f) ==
    LET usable == {i \in Slots : t[i] \in {NoFd, f}}
    IN  [t EXCEPT ![IF usable = {} THEN WCND_MAX_CLIENT_NUM ELSE Lowest(usable)] = f]

-----------------------------------------------------------------------------
(* client_listen_thread                                                    *)

BuildSet ==
    /\ lpc = "build" /\ lock = "none"
    /\ watch' = {client_fds[i] : i \in Slots} \ {NoFd} /\ lpc' = "select" /\ closed' = {}
    /\ UNCHANGED <<kernel, client_fds, lock, read_fds, c, pending, round, loopTest,
                   displaced, due>>

\* A socket of the set has been closed: EBADF, and the set is built again.
SelectFails ==
    /\ lpc = "select" /\ \E f \in watch : file[f] = Free
    /\ lpc' = "build" /\ watch' = {}
    /\ UNCHANGED <<kernel, client_fds, lock, read_fds, c, pending, round, loopTest,
                   history>>

Select ==
    /\ lpc = "select"
    /\ read_fds' = {f \in watch : Readable(f)}
    /\ read_fds' # {} \/ taken < made
    /\ lpc' = IF taken < made THEN "accept" ELSE "pend"
    /\ watch' = {}
    /\ UNCHANGED <<kernel, client_fds, lock, c, pending, round, loopTest, history>>

Accept ==
    /\ lpc = "accept" /\ Unused # {}
    /\ c' = Lowest(Unused) /\ taken' = taken + 1
    /\ file' = [file EXCEPT ![c'] = taken'] /\ lpc' = "store"
    /\ UNCHANGED <<made, gone, sent, client_fds, lock, watch, read_fds, pending, round,
                   loopTest, history>>

\* No descriptor is left: the whole round is given up after a second.
AcceptFails ==
    /\ lpc = "accept" /\ Unused = {} /\ lpc' = "build" /\ read_fds' = {}
    /\ UNCHANGED <<kernel, client_fds, lock, watch, c, pending, round,
                   loopTest, history>>

StoreClient ==
    /\ lpc = "store" /\ lock = "none"
    /\ client_fds' = Store(client_fds, c)
    /\ displaced' = displaced \cup
           {file[client_fds[i]] : i \in {j \in Slots : client_fds[j] # NoFd
                                                    /\ client_fds'[j] # client_fds[j]}}
    /\ c' = NoFd /\ lpc' = "pend"
    /\ UNCHANGED <<kernel, lock, watch, read_fds, pending, round, loopTest, closed, due>>

\* Variant: every client is read from, as in a loop without FD_ISSET.
AllActive == client_fds

\* The sockets of the table that select() reported.
Active ==
    [i \in Slots |-> IF client_fds[i] \in read_fds THEN client_fds[i] ELSE NoFd]

\* The loop over pending_fds: the slot it comes to next, and its socket.
Waiting == {i \in Slots : pending[i] # NoFd}
Turn    == Lowest(Waiting)
Current == pending[Turn]

MakePending ==
    /\ lpc = "pend" /\ lock = "none"
    /\ pending' = Active /\ lpc' = "read" /\ read_fds' = {}
    /\ UNCHANGED <<kernel, client_fds, lock, watch, c, round, loopTest, history>>

PendingDone ==
    /\ lpc = "read" /\ Waiting = {} /\ lpc' = "build"
    /\ UNCHANGED <<kernel, client_fds, lock, watch, read_fds, c, pending, round, loopTest,
                   history>>

\* process_active_client_fd: read() yields a command or a stolen loop answer,
\* which dispatch_command executes; a reset notifies the clients.
ReadCommand ==
    /\ lpc = "read" /\ Waiting # {}
    /\ LET k == file[Current] IN
         \/ k \in sent /\ sent' = sent \ {k} /\ UNCHANGED reply
            /\ lpc' \in {"read", "notify"}
         \/ k = Loop /\ reply /\ reply' = FALSE /\ lpc' = "read" /\ UNCHANGED sent
    /\ pending' = [pending EXCEPT ![Turn] = NoFd]
    /\ UNCHANGED <<made, taken, gone, file, client_fds, lock, watch, read_fds, c, round,
                   loop_fd, history>>

\* read() returns 0 or fails with EBADF.
ReadFails ==
    /\ lpc = "read" /\ Waiting # {}
    /\ LET k == file[Current]
       IN  k = Free \/ k \in gone \ sent
    /\ lpc' = "zap"
    /\ UNCHANGED <<kernel, client_fds, lock, watch, read_fds, c, pending, round, loopTest,
                   history>>

\* Variant: the descriptor is closed whether or not the table still has it.
ZapAnyway ==
    /\ lpc = "zap" /\ lock = "none"
    /\ LET f == Current
           mine == {i \in Slots : client_fds[i] = f}
       IN  /\ file' = [file EXCEPT ![f] = Free]
           /\ client_fds' = IF mine = {} THEN client_fds
                            ELSE [client_fds EXCEPT ![Lowest(mine)] = NoFd]
    /\ pending' = [pending EXCEPT ![Turn] = NoFd] /\ lpc' = "read"
    /\ UNCHANGED <<made, taken, gone, sent, lock, watch, read_fds, c, round, loopTest, history>>

\* The socket is closed and its slot cleared, if the table still has it.
Zap ==
    /\ lpc = "zap" /\ lock = "none"
    /\ LET f == Current
           mine == {i \in Slots : client_fds[i] = f}
       IN  IF mine = {} THEN UNCHANGED <<file, client_fds>>
           ELSE /\ file' = [file EXCEPT ![f] = Free]
                /\ client_fds' = [client_fds EXCEPT ![Lowest(mine)] = NoFd]
    /\ pending' = [pending EXCEPT ![Turn] = NoFd] /\ lpc' = "read"
    /\ UNCHANGED <<made, taken, gone, sent, lock, watch, read_fds, c, round, loopTest, history>>

-----------------------------------------------------------------------------
(* send_notify_to_client, run by the listener or by a detecting thread.    *)

Threads == {"listener", "notifier"}

NotifyBegin(t) ==
    /\ lock = "none"
    /\ t = "listener" => lpc = "notify"
    /\ lock' = t /\ at' = 1
    /\ due' = {k \in Live \ displaced :
                \E f \in Fds \ {c} : file[f] = k}
    /\ UNCHANGED <<kernel, client_fds, listener, torn, loopTest, displaced, closed>>

\* One slot: the message is written, or the write fails and the socket is closed.
NotifySlot(t) ==
    /\ lock = t /\ ~torn /\ at \in Slots
    /\ LET f == client_fds[at] IN
         IF f = NoFd THEN at' = at + 1 /\ UNCHANGED <<file, torn, closed, due>>
         ELSE IF file[f] # Free /\ file[f] \notin gone
         THEN at' = at + 1 /\ due' = due \ {file[f]} /\ UNCHANGED <<file, torn, closed>>
         ELSE /\ file' = [file EXCEPT ![f] = Free] /\ torn' = TRUE
              /\ closed' = closed \cup {f} /\ UNCHANGED <<at, due>>
    /\ UNCHANGED <<made, taken, gone, sent, client_fds, lock, listener, loopTest,
                   displaced>>

\* Variant: the loop ends with the first client that is gone.
NotifyClearReturns(t) ==
    /\ lock = t /\ torn /\ at' = WCND_MAX_CLIENT_NUM + 1
    /\ client_fds' = [client_fds EXCEPT ![at] = NoFd] /\ torn' = FALSE
    /\ UNCHANGED <<kernel, lock, listener, loopTest, history>>

\* Variant: the loop index is incremented twice.
NotifyClearSkips(t) ==
    /\ lock = t /\ torn /\ at' = at + 2
    /\ client_fds' = [client_fds EXCEPT ![at] = NoFd] /\ torn' = FALSE
    /\ UNCHANGED <<kernel, lock, listener, loopTest, history>>

NotifyClear(t) ==
    /\ lock = t /\ torn
    /\ client_fds' = [client_fds EXCEPT ![at] = NoFd] /\ torn' = FALSE /\ at' = at + 1
    /\ UNCHANGED <<kernel, lock, listener, loopTest, history>>

NotifyEnd(t) ==
    /\ lock = t /\ at \notin Slots
    /\ lock' = "none" /\ at' = 1 /\ due' = {}
    /\ lpc' = IF t = "listener" THEN "read" ELSE lpc
    /\ UNCHANGED <<kernel, client_fds, watch, read_fds, c, pending, torn, loopTest,
                   displaced, closed>>

Listener ==
    \/ BuildSet \/ SelectFails \/ Select \/ Accept \/ AcceptFails \/ StoreClient
    \/ MakePending \/ PendingDone \/ ReadCommand \/ ReadFails \/ Zap

Notify(t) == NotifyBegin(t) \/ NotifySlot(t) \/ NotifyClear(t) \/ NotifyEnd(t)

LoopTest == LoopOpen \/ LoopAnswer \/ LoopClose

Peer == Connect \/ (\E k \in Commanders : Send(k)) \/ (\E k \in Conns : HangUp(k))

Next == Peer \/ LoopTest \/ Listener \/ \E t \in Threads : Notify(t)

Spec == Init /\ [][Next]_vars

(***************************************************************************)
(* The listener runs, and gets client_fds_lock if it is free again and     *)
(* again; a notification, once begun, ends.  Nothing is assumed of the     *)
(* clients, of the loop test or of how often clients are notified.         *)
(***************************************************************************)
FairSpec ==
    /\ Spec
    /\ SF_vars(Listener \/ NotifyBegin("listener"))
    /\ \A t \in Threads : WF_vars(NotifySlot(t) \/ NotifyClear(t) \/ NotifyEnd(t))

-----------------------------------------------------------------------------
ClientFds == {client_fds[i] : i \in Slots} \ {NoFd}

\* Open sockets of connections, by descriptor.
Sockets == {f \in Fds : file[f] \in Conns}

\* The table, the threads and the descriptors are in range.
TypeOK ==
    /\ made \in 0..MaxConns /\ taken \in 0..made /\ gone \cup sent \subseteq 1..made
    /\ file \in [Fds -> 1..taken \cup {Loop, Free}]
    /\ client_fds \in [Slots -> Fds \cup {NoFd}]
    /\ lock \in {"none"} \cup Threads
    /\ lpc \in {"build", "select", "accept", "store", "pend", "read", "zap", "notify"}
    /\ watch \subseteq Fds /\ read_fds \subseteq Fds /\ c \in Fds \cup {NoFd}
    /\ pending \in [Slots -> Fds \cup {NoFd}]
    /\ at \in 1 .. WCND_MAX_CLIENT_NUM + 1 /\ torn \in BOOLEAN
    /\ loop_fd \in Fds \cup {NoFd} /\ reply \in BOOLEAN

(***************************************************************************)
(* Nobody closes another thread's descriptor.  An entry of client_fds is   *)
(* the socket of a connection, and of another one than every other entry,  *)
(* although notifications and client_listen_thread close sockets and the   *)
(* kernel gives their numbers away at once; the loop device stays open     *)
(* until is_cp2_alive_ok closes it.                                        *)
(***************************************************************************)
OwnDescriptors ==
    /\ \A i \in Slots : client_fds[i] # NoFd /\ ~(torn /\ i = at) =>
         /\ file[client_fds[i]] \in Conns
         /\ \A j \in Slots \ {i} : client_fds[j] # client_fds[i]
    /\ loop_fd # NoFd => file[loop_fd] = Loop

(***************************************************************************)
(* No socket leaks: an open socket is in client_fds, on its way into it    *)
(* (c), or was overwritten in a full table by store_client_fd.             *)
(***************************************************************************)
NoOrphan ==
    \A f \in Sockets : f \in ClientFds \/ f = c \/ file[f] \in displaced

(***************************************************************************)
(* store_client_fd overwrites a client only if more clients are connected, *)
(* the new one counted, than the table has slots: no slot is held by a     *)
(* client that has gone and been noticed.                                  *)
(***************************************************************************)
DisplacedOnlyIfFull ==
    [][displaced' # displaced =>
          Cardinality({f \in Sockets : file[f] \notin displaced}) > WCND_MAX_CLIENT_NUM]_vars

(***************************************************************************)
(* send_notify_to_client reaches every client that was connected when it   *)
(* began, whatever happens to the others, unless it was overwritten in a   *)
(* full table or hangs up.                                                 *)
(***************************************************************************)
NotifiedAll ==
    lock # "none" /\ at \notin Slots => due \subseteq gone

(***************************************************************************)
(* client_listen_thread is about to block in read(), on a descriptor that  *)
(* a notification closed after select() reported it and that was given     *)
(* away since: to the next client, or to the loop device.                  *)
(***************************************************************************)
BlindRead ==
    /\ lpc = "read" /\ Waiting # {}
    /\ ~Readable(Current) /\ file[Current] # Free
    /\ Current \in closed

(***************************************************************************)
(* A command is read in the end, unless its client was overwritten in a    *)
(* full table, no descriptor is left to accept it, its socket was closed   *)
(* with the command unread (after a failed write or read), or the listener *)
(* blocks in read() on a descriptor whose number was reused; it blocks on  *)
(* no other.  That write() to a client never blocks is assumed.            *)
(***************************************************************************)
CommandServed ==
    \A k \in Commanders : k \in sent ~>
        (k \notin sent \/ k \in displaced \/ Unused = {} \/ BlindRead
           \/ \A f \in Fds : file[f] # k)
=============================================================================
