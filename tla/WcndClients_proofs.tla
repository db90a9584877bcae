-------------------------- MODULE WcndClients_proofs --------------------------
(***************************************************************************)
(* WcndClients for any number of connections, table size and descriptors.  *)
(***************************************************************************)
EXTENDS WcndClients, TLAPS, FiniteSetTheorems, WellFoundedInduction

\* The entry of a slot is in use: the notification has not just closed it.
Held(i) == client_fds[i] # NoFd /\ ~(torn /\ i = at)

\* Who is where: the lock, the closed slot, the accepted and the pending socket.
Position ==
    /\ torn => lock # "none" /\ at \in Slots /\ client_fds[at] # NoFd
    /\ lock = "listener" => lpc = "notify"
    /\ c # NoFd <=> lpc = "store"
    /\ lpc = "zap" => Waiting # {}
    /\ lpc = "accept" => taken < made

\* The loop device is behind loop_fd and no other descriptor.
LoopOwned ==
    \A f \in Fds : file[f] = Loop <=> f = loop_fd

\* No two slots have the same descriptor, not even one that was just closed.
Distinct ==
    \A i, j \in Slots : client_fds[i] # NoFd /\ client_fds[i] = client_fds[j] => i = j

\* A connection is behind one descriptor only.
Unique ==
    \A f, g \in Fds : file[f] \in Conns /\ file[f] = file[g] => f = g

\* What the table and the listener hold is a socket that was never overwritten.
Owned ==
    /\ \A i \in Slots : Held(i) =>
         /\ file[client_fds[i]] \in Conns \ displaced
         /\ client_fds[i] # c
    /\ c # NoFd => file[c] \in Conns \ displaced

\* An open socket is behind a slot in use, is the accepted one, or is lost.
Kept ==
    \A f \in Sockets :
        \/ \E i \in Slots : Held(i) /\ client_fds[i] = f
        \/ f = c
        \/ file[f] \in displaced

\* A client the notification owes a message is at a slot it has yet to reach.
DueAhead ==
    lock # "none" =>
        \A k \in due \ gone :
            \E i \in Slots : i >= at /\ Held(i) /\ file[client_fds[i]] = k

Descriptors == LoopOwned /\ Distinct /\ Unique /\ Owned /\ Kept /\ DueAhead

Inv == TypeOK /\ displaced \subseteq 1 .. taken /\ Position /\ Descriptors

-----------------------------------------------------------------------------
\* No descriptor is NoFd, and no connection is Loop or Free.
LEMMA Marks == NoFd \notin Fds /\ Loop \notin Conns /\ Free \notin Conns
BY TableAssumption DEF NoFd, Loop, Free, Conns

\* A set of naturals that is not empty has a lowest member.
LEMMA LowestIsMember ==
    ASSUME NEW S \in SUBSET Nat, S # {}
    PROVE  Lowest(S) \in S
<1> DEFINE R == OpToRel(<, Nat)
<1>1. IsWellFoundedOn(R, Nat)
  BY NatLessThanWellFounded, Zenon
<1>2. ASSUME NEW x \in Nat, NEW y \in Nat, y < x
      PROVE  <<y, x>> \in R
  <2> DEFINE Less == {ss \in Nat \X Nat : ss[1] < ss[2]}
  <2>1. R = Less
    BY Zenon DEF OpToRel
  <2>2. <<y, x>> \in Less
    BY <1>2
  <2> HIDE DEF R, Less
  <2> QED
    BY <2>1, <2>2
<1> HIDE DEF R
<1>3. PICK x \in S : \A y \in S : ~(<<y, x>> \in R)
  BY <1>1, WFMin
<1>4. ASSUME NEW y \in S PROVE x <= y
  <2>1. x \in Nat /\ y \in Nat
    OBVIOUS
  <2>2. ~(y < x)
    BY <1>2, <1>3, <2>1
  <2> QED
    BY <2>1, <2>2
<1> QED
  BY <1>4 DEF Lowest

\* Steps that leave the descriptors and the table alone.
LEMMA DescriptorsSame ==
    ASSUME Inv, UNCHANGED <<file, client_fds, torn, at, c, displaced, loop_fd, lock, due>>,
           gone \subseteq gone'
    PROVE  Descriptors'
<1> USE DEF Inv, Descriptors
<1>1. LoopOwned'
  BY DEF LoopOwned
<1>2. Distinct'
  BY DEF Distinct
<1>3. Unique'
  BY DEF Unique
<1>4. Owned'
  BY DEF Owned, Held
<1>5. Kept'
  BY DEF Kept, Held, Sockets
<1>6. DueAhead'
  BY DEF DueAhead, Held
<1> QED
  BY <1>1, <1>2, <1>3, <1>4, <1>5, <1>6

\* The daemon starts with an empty table and no descriptor.
LEMMA InvInitial == Init => Inv
<1> SUFFICES ASSUME Init PROVE Inv
  OBVIOUS
<1> USE TableAssumption, Marks DEF Init
<1>1. TypeOK
  <2>1. at \in 1 .. WCND_MAX_CLIENT_NUM + 1 /\ made \in 0 .. MaxConns /\ taken \in 0 .. made
    OBVIOUS
  <2> QED
    BY <2>1 DEF TypeOK, Threads
<1>2. Position
  BY DEF Position
<1>3. Descriptors
  BY DEF Descriptors, LoopOwned, Distinct, Unique, Owned, Kept, DueAhead, Held, Sockets,
         Loop, Free, NoFd
<1> QED
  BY <1>1, <1>2, <1>3 DEF Inv

\* A client connects, sends a command or hangs up; CP2 answers the loop test.
LEMMA InvPeer == Inv /\ (Peer \/ LoopAnswer) => Inv'
<1> SUFFICES ASSUME Inv, Peer \/ LoopAnswer PROVE Inv'
  OBVIOUS
<1>1. UNCHANGED <<taken, file, client_fds, torn, at, c, displaced, loop_fd, lock, due>>
      /\ gone \subseteq gone'
  BY DEF Peer, Connect, Send, HangUp, LoopAnswer, kernel, listener, round, loopTest, history
<1>2. Descriptors'
  BY <1>1, DescriptorsSame
<1>3. TypeOK'
  <2>1. CASE Connect
    <3>1. made' \in 0 .. MaxConns /\ made \in Nat /\ made' = made + 1 /\ taken \in 0 .. made'
      BY <2>1, TableAssumption DEF Inv, TypeOK, Connect
    <3>2. (gone \cup sent)' \subseteq 1 .. made'
      BY <2>1, <3>1 DEF Inv, TypeOK, Connect
    <3> QED
      BY <2>1, <3>1, <3>2 DEF Inv, TypeOK, Connect, listener, round, loopTest
  <2>2. CASE \E k \in Commanders : Send(k)
    BY <2>2 DEF Inv, TypeOK, Send, Live, listener, round, loopTest
  <2>3. CASE \E k \in Conns : HangUp(k)
    BY <2>3 DEF Inv, TypeOK, HangUp, Live, listener, round, loopTest
  <2>4. CASE LoopAnswer
    BY <2>4 DEF Inv, TypeOK, LoopAnswer, kernel, listener, round
  <2> QED
    BY <2>1, <2>2, <2>3, <2>4 DEF Peer
<1>4. Position'
  BY DEF Inv, TypeOK, Position, Peer, Connect, Send, HangUp, LoopAnswer, Waiting,
        kernel, listener, round, loopTest, history
<1> QED
  BY <1>1, <1>2, <1>3, <1>4 DEF Inv

\* The steps of client_listen_thread that open and close nothing.
Watching ==
    BuildSet \/ SelectFails \/ Select \/ AcceptFails \/ MakePending \/ PendingDone
    \/ ReadCommand \/ ReadFails

\* The listener builds its sets and reads commands.
LEMMA InvWatching == Inv /\ Watching => Inv'
<1> SUFFICES ASSUME Inv, Watching PROVE Inv'
  OBVIOUS
<1>1. UNCHANGED <<made, taken, gone, file, client_fds, torn, at, c, displaced, loop_fd, lock, due>>
  BY DEF Watching, BuildSet, SelectFails, Select, AcceptFails, MakePending, PendingDone,
         ReadCommand, ReadFails, kernel, listener, round, loopTest, history
<1>2. Descriptors'
  BY <1>1, DescriptorsSame
<1>3. /\ watch' \subseteq Fds /\ read_fds' \subseteq Fds /\ sent' \subseteq sent
      /\ reply' \in BOOLEAN
      /\ lpc' \in {"build", "select", "accept", "pend", "read", "zap", "notify"}
      /\ pending' \in [Slots -> Fds \cup {NoFd}]
  <2> USE DEF Inv, TypeOK, kernel, listener, round, loopTest, history
  <2>1. CASE BuildSet
    BY <2>1 DEF BuildSet
  <2>2. CASE SelectFails
    BY <2>2 DEF SelectFails
  <2>3. CASE Select
    BY <2>3 DEF Select
  <2>4. CASE AcceptFails
    BY <2>4 DEF AcceptFails
  <2>5. CASE MakePending
    BY <2>5 DEF MakePending, Active
  <2>6. CASE PendingDone
    BY <2>6 DEF PendingDone
  <2>7. CASE ReadCommand
    BY <2>7 DEF ReadCommand
  <2>8. CASE ReadFails
    BY <2>8 DEF ReadFails
  <2> QED
    BY <2>1, <2>2, <2>3, <2>4, <2>5, <2>6, <2>7, <2>8 DEF Watching
<1>4. TypeOK'
  BY <1>1, <1>3 DEF Inv, TypeOK
<1>5. /\ lpc # "store" /\ lock # "listener" /\ (lpc' = "zap" => Waiting' # {})
      /\ lpc' = "accept" => taken < made
  BY DEF Inv, Position, Watching, BuildSet, SelectFails, Select, AcceptFails, MakePending,
         PendingDone, ReadCommand, ReadFails, Waiting
<1>6. Position'
  BY <1>1, <1>3, <1>5 DEF Inv, Position
<1> QED
  BY <1>1, <1>2, <1>4, <1>6 DEF Inv

-----------------------------------------------------------------------------
\* The kernel gives a free descriptor away: whoever holds one holds another.
LEMMA GivenAway ==
    ASSUME Inv, Unused # {}
    PROVE  /\ Lowest(Unused) \in Fds /\ file[Lowest(Unused)] = Free
           /\ Lowest(Unused) # loop_fd /\ Lowest(Unused) # c
           /\ \A i \in Slots : Held(i) => client_fds[i] # Lowest(Unused)
<1>1. Unused \in SUBSET Nat
  BY TableAssumption DEF Unused
<1>2. Lowest(Unused) \in Unused
  BY <1>1, LowestIsMember
<1>3. Lowest(Unused) \in Fds /\ file[Lowest(Unused)] = Free
  BY <1>2 DEF Unused
<1> QED
  BY <1>3, Marks DEF Inv, Descriptors, LoopOwned, Owned, Loop, Free

\* is_cp2_alive_ok opens the loop device.
LEMMA InvLoopOpen == Inv /\ LoopOpen => Inv'
<1> SUFFICES ASSUME Inv, LoopOpen PROVE Inv'
  OBVIOUS
<1> DEFINE n == Lowest(Unused)
<1>1. /\ n \in Fds /\ file[n] = Free /\ n # c /\ loop_fd = NoFd
      /\ loop_fd' = n /\ file' = [file EXCEPT ![n] = Loop]
      /\ \A i \in Slots : Held(i) => client_fds[i] # n
  BY GivenAway DEF LoopOpen
<1>2. UNCHANGED <<made, taken, gone, sent, client_fds, lock, lpc, watch, read_fds, c, pending, at,
                  torn, reply, displaced, due>>
  BY DEF LoopOpen, listener, round, history
<1>3. UNCHANGED Waiting /\ \A i \in Slots : Held(i)' <=> Held(i)
  BY <1>2 DEF Held, Waiting
<1> HIDE DEF n
<1> USE Marks DEF Inv
<1>4. TypeOK'
  BY <1>1, <1>2 DEF TypeOK
<1>5. Position'
  BY <1>2, <1>3 DEF Position
<1>6. \A f \in Fds : f # n => file'[f] = file[f]
  BY <1>1 DEF TypeOK
<1>7. file'[n] = Loop
  BY <1>1 DEF TypeOK
<1>8. Descriptors'
  <2> USE DEF Descriptors
  <2>1. LoopOwned'
    BY <1>1, <1>6, <1>7 DEF LoopOwned
  <2>2. Distinct'
    BY <1>2 DEF Distinct
  <2>3. Unique'
    BY <1>1, <1>6, <1>7 DEF Unique
  <2>4. Owned'
    BY <1>1, <1>2, <1>3, <1>6 DEF Owned, TypeOK, Held
  <2>5. Kept'
    BY <1>2, <1>3, <1>6, <1>7 DEF Kept, Sockets
  <2>6. DueAhead'
    BY <1>1, <1>2, <1>3, <1>6 DEF DueAhead, TypeOK, Held
  <2> QED
    BY <2>1, <2>2, <2>3, <2>4, <2>5, <2>6
<1> QED
  BY <1>2, <1>4, <1>5, <1>8

\* is_cp2_alive_ok closes the loop device.
LEMMA InvLoopClose == Inv /\ LoopClose => Inv'
<1> SUFFICES ASSUME Inv, LoopClose PROVE Inv'
  OBVIOUS
<1>1. /\ loop_fd \in Fds /\ file[loop_fd] = Loop /\ loop_fd' = NoFd /\ reply' = FALSE
      /\ file' = [file EXCEPT ![loop_fd] = Free]
  BY DEF LoopClose, Inv, TypeOK, Descriptors, LoopOwned
<1>2. UNCHANGED <<made, taken, gone, sent, client_fds, lock, lpc, watch, read_fds, c, pending, at,
                  torn, displaced, due>>
  BY DEF LoopClose, listener, round, history
<1>3. UNCHANGED Waiting /\ \A i \in Slots : Held(i)' <=> Held(i)
  BY <1>2 DEF Held, Waiting
<1> USE Marks DEF Inv
<1>4. TypeOK'
  BY <1>1, <1>2 DEF TypeOK
<1>5. Position'
  BY <1>2, <1>3 DEF Position
<1>6. \A f \in Fds : f # loop_fd => file'[f] = file[f]
  BY <1>1 DEF TypeOK
<1>7. file'[loop_fd] = Free
  BY <1>1 DEF TypeOK
<1>8. Descriptors'
  <2> USE DEF Descriptors
  <2>1. LoopOwned'
    BY <1>1, <1>6, <1>7 DEF LoopOwned, Loop, Free
  <2>2. Distinct'
    BY <1>2 DEF Distinct
  <2>3. Unique'
    BY <1>6, <1>7 DEF Unique
  <2>4. Owned'
    BY <1>1, <1>2, <1>3, <1>6 DEF Owned, TypeOK, Held
  <2>5. Kept'
    BY <1>2, <1>3, <1>6, <1>7 DEF Kept, Sockets
  <2>6. DueAhead'
    BY <1>1, <1>2, <1>3, <1>6 DEF DueAhead, TypeOK, Held, Owned
  <2> QED
    BY <2>1, <2>2, <2>3, <2>4, <2>5, <2>6
<1> QED
  BY <1>2, <1>4, <1>5, <1>8

\* client_listen_thread accepts a client.
LEMMA InvAccept == Inv /\ Accept => Inv'
<1> SUFFICES ASSUME Inv, Accept PROVE Inv'
  OBVIOUS
<1> DEFINE n == Lowest(Unused)
<1>1. /\ n \in Fds /\ file[n] = Free /\ n # loop_fd /\ c = NoFd /\ lpc' = "store"
      /\ c' = n /\ taken' = taken + 1 /\ file' = [file EXCEPT ![n] = taken']
      /\ \A i \in Slots : Held(i) => client_fds[i] # n
  BY GivenAway DEF Accept, Inv, Position
<1>2. UNCHANGED <<made, gone, sent, client_fds, lock, watch, read_fds, pending, at,
                  torn, loop_fd, reply, displaced, due>>
  BY DEF Accept, round, loopTest, history
<1>3. UNCHANGED Waiting /\ \A i \in Slots : Held(i)' <=> Held(i)
  BY <1>2 DEF Held, Waiting
<1>4. /\ taken \in 0 .. made /\ taken' \in 1 .. made /\ made \in 0 .. MaxConns
      /\ 1 .. taken \subseteq 1 .. taken' /\ taken' \in Conns /\ taken' \notin 1 .. taken
  BY <1>1, TableAssumption DEF Accept, Inv, TypeOK, Position, Conns
<1> HIDE DEF n
<1> USE Marks DEF Inv
<1>5. file' \in [Fds -> 1 .. taken' \cup {Loop, Free}]
  BY <1>1, <1>4 DEF TypeOK
<1>6. TypeOK'
  BY <1>1, <1>2, <1>4, <1>5 DEF TypeOK
<1>7. Position'
  BY <1>1, <1>2, <1>3 DEF Position, Accept
<1>8. \A f \in Fds : f # n => file'[f] = file[f] /\ file[f] # taken'
  BY <1>1, <1>4 DEF TypeOK, Loop, Free
<1>9. file'[n] = taken'
  BY <1>1 DEF TypeOK
<1>10. Descriptors'
  <2> USE DEF Descriptors
  <2>1. LoopOwned'
    BY <1>1, <1>2, <1>4, <1>8, <1>9 DEF LoopOwned
  <2>2. Distinct'
    BY <1>2 DEF Distinct
  <2>3. Unique'
    BY <1>1, <1>8, <1>9 DEF Unique
  <2>4. Owned'
    BY <1>1, <1>2, <1>3, <1>4, <1>8, <1>9 DEF Owned, TypeOK, Held
  <2>5. Kept'
    BY <1>1, <1>2, <1>3, <1>8, <1>9 DEF Kept, Sockets
  <2>6. DueAhead'
    BY <1>1, <1>2, <1>3, <1>8 DEF DueAhead, TypeOK, Held
  <2> QED
    BY <2>1, <2>2, <2>3, <2>4, <2>5, <2>6
<1> QED
  BY <1>2, <1>4, <1>6, <1>7, <1>10

\* store_client_fd writes one slot: an empty one, or the last of a full table.
LEMMA StoreWrites ==
    ASSUME Inv, StoreClient
    PROVE  \E s \in Slots :
              /\ client_fds' = [client_fds EXCEPT ![s] = c]
              /\ client_fds[s] # NoFd => \A i \in Slots : client_fds[i] # NoFd
<1>1. c \in Fds /\ ~torn
  BY DEF Inv, TypeOK, Position, StoreClient
<1>2. \A i \in Slots : client_fds[i] # c
  BY <1>1, Marks DEF Inv, Descriptors, Owned, Held
<1> DEFINE usable == {i \in Slots : client_fds[i] \in {NoFd, c}}
<1>3. usable \in SUBSET Nat
  BY TableAssumption DEF Slots
<1>4. CASE usable = {}
  <2>1. client_fds' = [client_fds EXCEPT ![WCND_MAX_CLIENT_NUM] = c]
    BY <1>4 DEF StoreClient, Store
  <2>2. WCND_MAX_CLIENT_NUM \in Slots
    BY TableAssumption DEF Slots
  <2> QED
    BY <1>4, <2>1, <2>2
<1>5. CASE usable # {}
  <2>1. client_fds' = [client_fds EXCEPT ![Lowest(usable)] = c]
    BY <1>5 DEF StoreClient, Store
  <2>2. Lowest(usable) \in usable
    BY <1>3, <1>5, LowestIsMember
  <2> QED
    BY <1>2, <2>1, <2>2
<1> QED
  BY <1>4, <1>5

\* The accepted socket enters the table.
LEMMA InvStoreClient == Inv /\ StoreClient => Inv'
<1> SUFFICES ASSUME Inv, StoreClient PROVE Inv'
  OBVIOUS
<1>1. PICK s \in Slots : client_fds' = [client_fds EXCEPT ![s] = c]
  BY StoreWrites
<1>2. c \in Fds /\ ~torn /\ lock = "none" /\ c' = NoFd /\ lpc' = "pend"
  BY DEF Inv, TypeOK, Position, StoreClient
<1>3. UNCHANGED <<made, taken, gone, sent, file, lock, watch, read_fds, pending, at, torn,
                  loop_fd, reply, due>>
  BY DEF StoreClient, kernel, round, loopTest
<1>4. client_fds \in [Slots -> Fds \cup {NoFd}] /\ client_fds' \in [Slots -> Fds \cup {NoFd}]
  BY <1>1, <1>2 DEF Inv, TypeOK
<1>5. client_fds'[s] = c /\ \A i \in Slots : i # s => client_fds'[i] = client_fds[i]
  BY <1>1, <1>4
<1>6. displaced' = displaced \cup IF client_fds[s] = NoFd THEN {} ELSE {file[client_fds[s]]}
  <2>1. \A i \in Slots : Held(i) <=> client_fds[i] # NoFd
    BY <1>2 DEF Held
  <2>2. client_fds[s] # c
    BY <1>2, <2>1, Marks DEF Inv, Descriptors, Owned
  <2>3. {j \in Slots : client_fds[j] # NoFd /\ client_fds'[j] # client_fds[j]}
        = IF client_fds[s] = NoFd THEN {} ELSE {s}
    BY <1>5, <2>2
  <2> QED
    BY <2>3 DEF StoreClient
<1> USE Marks DEF Inv
<1>7. \A i \in Slots : (Held(i) <=> client_fds[i] # NoFd) /\ (Held(i)' <=> client_fds'[i] # NoFd)
  BY <1>2, <1>3 DEF Held
<1>8. TypeOK'
  BY <1>2, <1>3, <1>4 DEF TypeOK
<1>9. Position'
  BY <1>2, <1>3 DEF Position, Waiting
<1>10. displaced' \subseteq 1 .. taken'
  <2>1. client_fds[s] # NoFd => file[client_fds[s]] \in 1 .. taken
    BY <1>4, <1>7 DEF TypeOK, Descriptors, Owned
  <2> QED
    BY <1>3, <1>6, <2>1
<1>11. Descriptors'
  <2> USE DEF Descriptors
  <2>1. LoopOwned'
    BY <1>3 DEF LoopOwned
  <2>2. Distinct'
    BY <1>2, <1>5, <1>7 DEF Distinct, Owned
  <2>3. Unique'
    BY <1>3 DEF Unique
  <2>4. Owned'
    <3>1. ASSUME NEW i \in Slots, client_fds'[i] # NoFd
          PROVE  file[client_fds'[i]] \in Conns \ displaced'
      <4>1. file[client_fds'[i]] \in Conns \ displaced
        BY <1>2, <1>5, <1>7, <3>1 DEF Owned
      <4>2. client_fds[s] # NoFd => client_fds'[i] # client_fds[s]
        BY <1>2, <1>5, <1>7, <3>1 DEF Owned, Distinct
      <4>3. client_fds[s] # NoFd => file[client_fds'[i]] # file[client_fds[s]]
        BY <1>4, <3>1, <4>1, <4>2 DEF Unique
      <4> QED
        BY <1>6, <4>1, <4>3
    <3> QED
      BY <1>2, <1>3, <1>7, <3>1 DEF Owned
  <2>5. Kept'
    <3> SUFFICES ASSUME NEW f \in Fds, file[f] \in Conns
                 PROVE  (\E i \in Slots : client_fds'[i] # NoFd /\ client_fds'[i] = f)
                        \/ file[f] \in displaced'
      BY <1>3, <1>7 DEF Kept, Sockets
    <3>1. CASE f = c
      BY <1>2, <1>5, <3>1
    <3>2. CASE f # c
      BY <1>5, <1>6, <1>7, <3>2 DEF Kept, Sockets
    <3> QED
      BY <3>1, <3>2
  <2>6. DueAhead'
    BY <1>2, <1>3 DEF DueAhead
  <2> QED
    BY <2>1, <2>2, <2>3, <2>4, <2>5, <2>6
<1> QED
  BY <1>8, <1>9, <1>10, <1>11

\* The socket of a client that hung up is closed, if the table still has it.
LEMMA InvZap == Inv /\ Zap => Inv'
<1> SUFFICES ASSUME Inv, Zap PROVE Inv'
  OBVIOUS
<1> DEFINE f == Current
           mine == {i \in Slots : client_fds[i] = f}
<1>1. Turn \in Slots /\ f \in Fds
  <2>1. Waiting \in SUBSET Nat /\ Waiting # {}
    BY TableAssumption DEF Waiting, Slots, Zap, Inv, Position
  <2>2. Turn \in Waiting
    BY <2>1, LowestIsMember DEF Turn
  <2> QED
    BY <2>2 DEF Waiting, Current, Inv, TypeOK
<1>2. ~torn /\ lock = "none" /\ c = NoFd /\ lpc' = "read"
      /\ pending' = [pending EXCEPT ![Turn] = NoFd]
  BY DEF Zap, Inv, Position
<1>3. UNCHANGED <<made, taken, gone, sent, lock, watch, read_fds, c, at, torn, loop_fd, reply,
                  displaced, due>>
  BY DEF Zap, round, loopTest, history
<1> USE Marks DEF Inv
<1>4. pending' \in [Slots -> Fds \cup {NoFd}]
  BY <1>1, <1>2 DEF TypeOK
<1>5. Position'
  BY <1>2, <1>3 DEF Position
<1>6. CASE mine = {}
  <2>1. UNCHANGED <<file, client_fds>>
    BY <1>6 DEF Zap
  <2>2. Descriptors'
    BY <1>3, <2>1, DescriptorsSame
  <2>3. TypeOK'
    BY <1>2, <1>3, <1>4, <2>1 DEF TypeOK
  <2> QED
    BY <1>3, <1>5, <2>2, <2>3
<1>7. CASE mine # {}
  <2>1. mine \in SUBSET Nat
    BY TableAssumption DEF Slots
  <2>2. PICK s \in mine : client_fds' = [client_fds EXCEPT ![s] = NoFd]
    BY <1>7, <2>1, LowestIsMember DEF Zap
  <2>3. file' = [file EXCEPT ![f] = Free]
    BY <1>7 DEF Zap
  <2>4. client_fds[s] = f /\ s \in Slots
    OBVIOUS
  <2> HIDE DEF f, mine
  <2>5. TypeOK'
    BY <1>1, <1>2, <1>3, <1>4, <2>2, <2>3, <2>4 DEF TypeOK
  <2>6. client_fds'[s] = NoFd /\ \A i \in Slots : i # s => client_fds'[i] = client_fds[i]
    BY <2>2, <2>4 DEF TypeOK
  <2>7. file'[f] = Free /\ \A g \in Fds : g # f => file'[g] = file[g]
    BY <1>1, <2>3 DEF TypeOK
  <2>8. \A i \in Slots : (Held(i) <=> client_fds[i] # NoFd)
                         /\ (Held(i)' <=> client_fds'[i] # NoFd)
    BY <1>2, <1>3 DEF Held
  <2>9. file[f] \in Conns
    BY <1>1, <2>4, <2>8 DEF Descriptors, Owned
  <2>10. \A i \in Slots : i # s => client_fds[i] # f
    BY <1>1, <2>4 DEF Descriptors, Distinct
  <2>11. Descriptors'
    <3> USE DEF Descriptors
    <3>1. LoopOwned'
      BY <1>1, <1>3, <2>7, <2>9 DEF LoopOwned, Loop, Free
    <3>2. Distinct'
      BY <2>6 DEF Distinct
    <3>3. Unique'
      BY <2>7 DEF Unique
    <3>4. Owned'
      BY <1>2, <1>3, <2>6, <2>7, <2>8, <2>10 DEF Owned, TypeOK
    <3>5. Kept'
      BY <1>3, <2>4, <2>6, <2>7, <2>8 DEF Kept, Sockets
    <3>6. DueAhead'
      BY <1>2, <1>3 DEF DueAhead
    <3> QED
      BY <3>1, <3>2, <3>3, <3>4, <3>5, <3>6
  <2> QED
    BY <1>3, <1>5, <2>5, <2>11
<1> QED
  BY <1>6, <1>7

-----------------------------------------------------------------------------
\* A notification begins: every client it owes a message is in the table.
LEMMA InvNotifyBegin == ASSUME Inv, NEW t \in Threads, NotifyBegin(t) PROVE Inv'
<1>1. /\ UNCHANGED <<made, taken, gone, sent, file, client_fds, lpc, watch, read_fds, c, pending, torn,
                     loop_fd, reply, displaced>>
      /\ lock = "none" /\ lock' = t /\ at' = 1
      /\ t = "listener" => lpc = "notify"
      /\ due' = {k \in Live \ displaced : \E f \in Fds \ {c} : file[f] = k}
  BY DEF NotifyBegin, kernel, listener, loopTest
<1>2. ~torn
  BY <1>1 DEF Inv, Position
<1>3. TypeOK'
  BY <1>1, TableAssumption DEF Inv, TypeOK
<1>4. Position'
  BY <1>1, <1>2 DEF Inv, Position, Waiting, Threads
<1>5. \A i \in Slots : (Held(i) <=> client_fds[i] # NoFd)
                       /\ (Held(i)' <=> client_fds[i] # NoFd)
  BY <1>1, <1>2 DEF Held
<1>6. Descriptors'
  <2> USE DEF Inv, Descriptors
  <2>1. LoopOwned'
    BY <1>1 DEF LoopOwned
  <2>2. Distinct'
    BY <1>1 DEF Distinct
  <2>3. Unique'
    BY <1>1 DEF Unique
  <2>4. Owned'
    BY <1>1, <1>5 DEF Owned
  <2>5. Kept'
    BY <1>1, <1>5 DEF Kept, Sockets
  <2>6. DueAhead'
    <3> SUFFICES ASSUME NEW k \in due'
                 PROVE  \E i \in Slots : i >= 1 /\ client_fds[i] # NoFd /\ file[client_fds[i]] = k
      BY <1>1, <1>5 DEF DueAhead
    <3>1. PICK f \in Fds \ {c} : file[f] = k /\ k \notin displaced /\ k \in 1 .. made
      BY <1>1 DEF Live
    <3>2. f \in Sockets
      BY <3>1, TableAssumption DEF Sockets, Conns, TypeOK
    <3>3. PICK i \in Slots : client_fds[i] # NoFd /\ client_fds[i] = f
      BY <1>5, <3>1, <3>2 DEF Kept
    <3>4. i >= 1
      BY TableAssumption DEF Slots
    <3> QED
      BY <3>1, <3>3, <3>4
  <2> QED
    BY <2>1, <2>2, <2>3, <2>4, <2>5, <2>6
<1> QED
  BY <1>1, <1>3, <1>4, <1>6 DEF Inv

\* A notification writes to a client, or closes the socket of one that is gone.
LEMMA InvNotifySlot == ASSUME Inv, NEW t \in Threads, NotifySlot(t) PROVE Inv'
<1> DEFINE f == client_fds[at]
<1>1. /\ UNCHANGED <<made, taken, gone, sent, client_fds, lock, lpc, watch, read_fds, c, pending,
                     loop_fd, reply, displaced>>
      /\ lock # "none" /\ ~torn /\ at \in Slots
  BY DEF NotifySlot, listener, loopTest, Threads
<1>2. at \in Nat /\ at \in 1 .. WCND_MAX_CLIENT_NUM
  BY <1>1, TableAssumption DEF Slots
<1>3. \A i \in Slots : Held(i) <=> client_fds[i] # NoFd
  BY <1>1 DEF Held
<1> USE Marks DEF Inv
<1>4. ASSUME at' = at + 1, UNCHANGED <<file, torn>>, due' \subseteq due,
             f # NoFd => file[f] \notin due' \ gone
      PROVE  Inv'
  <2>1. TypeOK'
    BY <1>1, <1>2, <1>4, TableAssumption DEF TypeOK
  <2>2. Position'
    BY <1>1, <1>4 DEF Position, Waiting
  <2>3. \A i \in Slots : Held(i)' <=> client_fds[i] # NoFd
    BY <1>1, <1>4 DEF Held
  <2>4. Descriptors'
    <3> USE DEF Descriptors
    <3>1. LoopOwned'
      BY <1>1, <1>4 DEF LoopOwned
    <3>2. Distinct'
      BY <1>1 DEF Distinct
    <3>3. Unique'
      BY <1>4 DEF Unique
    <3>4. Owned'
      BY <1>1, <1>3, <1>4, <2>3 DEF Owned
    <3>5. Kept'
      BY <1>1, <1>3, <1>4, <2>3 DEF Kept, Sockets
    <3>6. DueAhead'
      <4> SUFFICES ASSUME NEW k \in due' \ gone
                   PROVE  \E i \in Slots : i >= at + 1 /\ client_fds[i] # NoFd
                                           /\ file[client_fds[i]] = k
        BY <1>1, <1>4, <2>3 DEF DueAhead
      <4>1. PICK i \in Slots : i >= at /\ client_fds[i] # NoFd /\ file[client_fds[i]] = k
        BY <1>1, <1>3, <1>4 DEF DueAhead
      <4>2. i # at
        BY <1>4, <4>1
      <4>3. i >= at + 1
        BY <1>2, <4>1, <4>2, TableAssumption DEF Slots
      <4> QED
        BY <4>1, <4>3
    <3> QED
      BY <3>1, <3>2, <3>3, <3>4, <3>5, <3>6
  <2> QED
    BY <1>1, <2>1, <2>2, <2>4
<1>5. ASSUME f # NoFd, file[f] = Free \/ file[f] \in gone,
             file' = [file EXCEPT ![f] = Free], torn' = TRUE, UNCHANGED <<at, due>>
      PROVE  Inv'
  <2>1. f \in Fds /\ file[f] \in Conns /\ file[f] \in gone
    BY <1>1, <1>3, <1>5 DEF TypeOK, Descriptors, Owned
  <2>2. TypeOK'
    BY <1>1, <1>5, <2>1 DEF TypeOK
  <2>3. Position'
    BY <1>1, <1>5 DEF Position, Waiting
  <2>4. \A i \in Slots : Held(i)' <=> client_fds[i] # NoFd /\ i # at
    BY <1>1, <1>5 DEF Held
  <2>5. file'[f] = Free /\ \A g \in Fds : g # f => file'[g] = file[g]
    BY <1>5, <2>1 DEF TypeOK
  <2>6. \A i \in Slots : i # at => client_fds[i] # f
    BY <1>1, <1>5 DEF Descriptors, Distinct
  <2>7. f # c
    BY <1>1, <1>3, <1>5 DEF Descriptors, Owned
  <2> HIDE DEF f
  <2>8. Descriptors'
    <3> USE DEF Descriptors
    <3>1. LoopOwned'
      BY <1>1, <2>1, <2>5 DEF LoopOwned, Loop, Free
    <3>2. Distinct'
      BY <1>1 DEF Distinct
    <3>3. Unique'
      BY <2>5 DEF Unique
    <3>4. Owned'
      BY <1>1, <1>3, <2>4, <2>5, <2>6, <2>7 DEF Owned, TypeOK
    <3>5. Kept'
      BY <1>1, <1>3, <2>4, <2>5, <2>6 DEF Kept, Sockets, f
    <3>6. DueAhead'
      <4> SUFFICES ASSUME NEW k \in due \ gone
                   PROVE  \E i \in Slots : i >= at /\ client_fds[i] # NoFd /\ i # at
                                           /\ file'[client_fds[i]] = k
        BY <1>1, <1>5, <2>4 DEF DueAhead
      <4>1. PICK i \in Slots : i >= at /\ client_fds[i] # NoFd /\ file[client_fds[i]] = k
        BY <1>1, <1>3 DEF DueAhead
      <4>2. i # at /\ client_fds[i] \in Fds
        BY <2>1, <4>1 DEF f, TypeOK
      <4> QED
        BY <2>5, <2>6, <4>1, <4>2
    <3> QED
      BY <3>1, <3>2, <3>3, <3>4, <3>5, <3>6
  <2> QED
    BY <1>1, <2>2, <2>3, <2>8
<1>6. CASE f = NoFd
  BY <1>4, <1>6 DEF NotifySlot
<1>7. CASE f # NoFd /\ file[f] # Free /\ file[f] \notin gone
  <2>1. at' = at + 1 /\ due' = due \ {file[f]} /\ UNCHANGED <<file, torn>>
    BY <1>7 DEF NotifySlot
  <2> QED
    BY <1>4, <2>1
<1>8. CASE f # NoFd /\ ~(file[f] # Free /\ file[f] \notin gone)
  <2>1. file' = [file EXCEPT ![f] = Free] /\ torn' = TRUE /\ UNCHANGED <<at, due>>
    BY <1>8 DEF NotifySlot
  <2> QED
    BY <1>5, <1>8, <2>1
<1> QED
  BY <1>6, <1>7, <1>8

\* A notification clears the slot of the socket it closed.
LEMMA InvNotifyClear == ASSUME Inv, NEW t \in Threads, NotifyClear(t) PROVE Inv'
<1>1. /\ UNCHANGED <<made, taken, gone, sent, file, lock, lpc, watch, read_fds, c, pending,
                     loop_fd, reply, displaced, due>>
      /\ torn /\ torn' = FALSE /\ at' = at + 1 /\ client_fds' = [client_fds EXCEPT ![at] = NoFd]
  BY DEF NotifyClear, kernel, listener, loopTest, history
<1> USE Marks DEF Inv
<1>2. at \in Slots /\ at \in Nat /\ at \in 1 .. WCND_MAX_CLIENT_NUM /\ lock # "none"
  BY <1>1, TableAssumption DEF Position, Slots
<1>3. TypeOK'
  <2>1. at' \in 1 .. WCND_MAX_CLIENT_NUM + 1
    BY <1>1, <1>2, TableAssumption
  <2>2. client_fds' \in [Slots -> Fds \cup {NoFd}]
    BY <1>1, <1>2 DEF TypeOK
  <2> QED
    BY <1>1, <2>1, <2>2 DEF TypeOK
<1>4. Position'
  BY <1>1 DEF Position, Waiting
<1>5. client_fds'[at] = NoFd /\ \A i \in Slots : i # at => client_fds'[i] = client_fds[i]
  BY <1>1, <1>2 DEF TypeOK
<1>6. \A i \in Slots : /\ Held(i) <=> client_fds[i] # NoFd /\ i # at
                       /\ Held(i)' <=> client_fds[i] # NoFd /\ i # at
  BY <1>1, <1>5 DEF Held
<1>7. Descriptors'
  <2> USE DEF Descriptors
  <2>1. LoopOwned'
    BY <1>1 DEF LoopOwned
  <2>2. Distinct'
    BY <1>5 DEF Distinct
  <2>3. Unique'
    BY <1>1 DEF Unique
  <2>4. Owned'
    BY <1>1, <1>5, <1>6 DEF Owned
  <2>5. Kept'
    BY <1>1, <1>5, <1>6 DEF Kept, Sockets
  <2>6. DueAhead'
    <3> SUFFICES ASSUME NEW k \in due \ gone
                 PROVE  \E i \in Slots : i >= at + 1 /\ client_fds[i] # NoFd /\ i # at
                                         /\ file[client_fds[i]] = k
      BY <1>1, <1>5, <1>6 DEF DueAhead
    <3>1. PICK i \in Slots : i >= at /\ client_fds[i] # NoFd /\ i # at /\ file[client_fds[i]] = k
      BY <1>2, <1>6 DEF DueAhead
    <3>2. i >= at + 1
      BY <1>2, <3>1, TableAssumption DEF Slots
    <3> QED
      BY <3>1, <3>2
  <2> QED
    BY <2>1, <2>2, <2>3, <2>4, <2>5, <2>6
<1> QED
  BY <1>1, <1>3, <1>4, <1>7

\* A notification ends.
LEMMA InvNotifyEnd == ASSUME Inv, NEW t \in Threads, NotifyEnd(t) PROVE Inv'
<1>1. /\ UNCHANGED <<made, taken, gone, sent, file, client_fds, watch, read_fds, c, pending, torn,
                     loop_fd, reply, displaced>>
      /\ lock = t /\ at \notin Slots /\ lock' = "none" /\ at' = 1 /\ due' = {}
      /\ lpc' = IF t = "listener" THEN "read" ELSE lpc
  BY DEF NotifyEnd, kernel, loopTest
<1>2. ~torn
  BY <1>1 DEF Inv, Position
<1>3. TypeOK'
  BY <1>1, TableAssumption DEF Inv, TypeOK
<1>4. Position'
  BY <1>1, <1>2 DEF Inv, Position, Waiting
<1>5. \A i \in Slots : (Held(i) <=> client_fds[i] # NoFd)
                       /\ (Held(i)' <=> client_fds[i] # NoFd)
  BY <1>1, <1>2 DEF Held
<1>6. Descriptors'
  BY <1>1, <1>5 DEF Inv, Descriptors, LoopOwned, Distinct, Unique, Owned, Kept, Sockets, DueAhead
<1> QED
  BY <1>1, <1>3, <1>4, <1>6 DEF Inv

-----------------------------------------------------------------------------
\* Every step keeps the invariant.
LEMMA InvStep == Inv /\ [Next]_vars => Inv'
<1> SUFFICES ASSUME Inv, [Next]_vars PROVE Inv'
  OBVIOUS
<1>1. CASE Peer
  BY <1>1, InvPeer
<1>2. CASE LoopTest
  BY <1>2, InvPeer, InvLoopOpen, InvLoopClose DEF LoopTest
<1>3. CASE Listener
  BY <1>3, InvWatching, InvAccept, InvStoreClient, InvZap DEF Listener, Watching
<1>4. CASE \E t \in Threads : Notify(t)
  BY <1>4, InvNotifyBegin, InvNotifySlot, InvNotifyClear, InvNotifyEnd DEF Notify
<1>5. CASE UNCHANGED vars
  <2>1. UNCHANGED <<kernel, client_fds, lock, listener, round, loopTest, history>>
    BY <1>5 DEF vars
  <2>2. Descriptors'
    BY <2>1, DescriptorsSame DEF kernel, listener, round, loopTest, history
  <2>3. TypeOK'
    BY <2>1 DEF Inv, TypeOK, kernel, listener, round, loopTest, history
  <2>4. Position'
    BY <2>1 DEF Inv, Position, Waiting, kernel, listener, round, loopTest, history
  <2> QED
    BY <2>1, <2>2, <2>3, <2>4 DEF Inv, kernel, history
<1> QED
  BY <1>1, <1>2, <1>3, <1>4, <1>5 DEF Next

\* The invariant holds in every reachable state.
LEMMA Invariance == Spec => []Inv
BY InvInitial, InvStep, PTL DEF Spec

\* The type invariant, for every number of clients, slots and descriptors.
THEOREM TypeCorrect == Spec => []TypeOK
<1>1. Inv => TypeOK
  BY DEF Inv
<1> QED
  BY <1>1, Invariance, PTL

(***************************************************************************)
(* No thread of wcnd closes another one's descriptor, however numbers are  *)
(* reused between select(), accept() and the table: an entry of client_fds *)
(* that is not being torn down is the socket of a client of its own.       *)
(***************************************************************************)
THEOREM DescriptorsAreOwned == Spec => []OwnDescriptors
<1>1. Inv => OwnDescriptors
  BY Marks DEF Inv, TypeOK, Descriptors, Owned, Held, Distinct, LoopOwned, OwnDescriptors
<1> QED
  BY <1>1, Invariance, PTL

(***************************************************************************)
(* No socket leaks except where store_client_fd overwrites the last slot   *)
(* of a full table.                                                        *)
(***************************************************************************)
THEOREM NoSocketLeaks == Spec => []NoOrphan
<1>1. Inv => NoOrphan
  BY Marks DEF Inv, TypeOK, Descriptors, Kept, Held, NoOrphan, ClientFds, Sockets
<1> QED
  BY <1>1, Invariance, PTL

(***************************************************************************)
(* A notification that has gone through the table has reached every client *)
(* that was in it when send_notify_to_client took client_fds_lock.         *)
(***************************************************************************)
THEOREM EveryClientNotified == Spec => []NotifiedAll
<1>1. Inv => NotifiedAll
  <2> SUFFICES ASSUME Inv, lock # "none", at \notin Slots, NEW k \in due \ gone PROVE FALSE
    BY DEF NotifiedAll
  <2>1. PICK i \in Slots : i >= at
    BY DEF Inv, Descriptors, DueAhead
  <2> QED
    BY <2>1, TableAssumption DEF Inv, TypeOK, Slots
<1> QED
  BY <1>1, Invariance, PTL

-----------------------------------------------------------------------------
\* The sockets that were never overwritten are finitely many: one a connection.
LEMMA SocketsFinite ==
    ASSUME Inv
    PROVE  IsFiniteSet({f \in Sockets : file[f] \notin displaced})
<1> DEFINE S == {f \in Sockets : file[f] \notin displaced}
           g == [f \in S |-> file[f]]
<1>1. g \in [S -> Conns]
  BY DEF Sockets
<1>2. \A x, y \in S : g[x] = g[y] => x = y
  BY DEF Sockets, Inv, Descriptors, Unique
<1>3. g \in Injection(S, Conns)
  BY <1>1, <1>2 DEF Injection, IsInjective
<1>4. IsFiniteSet(Conns)
  BY FS_Interval, TableAssumption DEF Conns
<1> HIDE DEF S, g
<1>5. IsFiniteSet(S)
  BY <1>3, <1>4, FS_Injection
<1> QED
  BY <1>5 DEF S

\* A client is overwritten by one more than the table has room for.
LEMMA DisplacedWhenFull ==
    ASSUME Inv, StoreClient, displaced' # displaced
    PROVE  Cardinality({f \in Sockets : file[f] \notin displaced}) > WCND_MAX_CLIENT_NUM
<1> DEFINE S == {f \in Sockets : file[f] \notin displaced}
           N == WCND_MAX_CLIENT_NUM
           g == [i \in 1 .. N + 1 |-> IF i \in Slots THEN client_fds[i] ELSE c]
<1>1. c \in Fds /\ ~torn
  BY DEF Inv, TypeOK, Position, StoreClient
<1>2. \A i \in Slots : client_fds[i] # NoFd
  <2>1. PICK s \in Slots : /\ client_fds' = [client_fds EXCEPT ![s] = c]
                           /\ client_fds[s] # NoFd => \A i \in Slots : client_fds[i] # NoFd
    BY StoreWrites
  <2>2. PICK j \in Slots : client_fds[j] # NoFd /\ client_fds'[j] # client_fds[j]
    BY DEF StoreClient
  <2>3. j = s
    BY <2>1, <2>2 DEF Inv, TypeOK
  <2> QED
    BY <2>1, <2>2, <2>3
<1>3. \A i \in Slots : client_fds[i] \in S /\ client_fds[i] # c
  BY <1>1, <1>2 DEF Inv, TypeOK, Descriptors, Owned, Held, Sockets
<1>4. c \in S
  BY <1>1, Marks DEF Inv, Descriptors, Owned, Sockets
<1>5. \A i, j \in Slots : client_fds[i] = client_fds[j] => i = j
  BY <1>2 DEF Inv, Descriptors, Distinct
<1>6. N \in Nat /\ \A i \in 1 .. N + 1 : i \notin Slots => i = N + 1
  BY TableAssumption DEF Slots
<1> HIDE DEF S
<1>7. g \in [1 .. N + 1 -> S]
  BY <1>3, <1>4
<1>8. \A i, j \in 1 .. N + 1 : g[i] = g[j] => i = j
  BY <1>3, <1>5, <1>6
<1>9. g \in Injection(1 .. N + 1, S)
  BY <1>7, <1>8 DEF Injection, IsInjective
<1> HIDE DEF g
<1>10. IsFiniteSet(S)
  BY SocketsFinite DEF S
<1>11. Cardinality(1 .. N + 1) <= Cardinality(S)
  BY <1>9, <1>10, FS_Injection
<1>12. Cardinality(1 .. N + 1) = N + 1 /\ Cardinality(S) \in Nat
  BY <1>6, <1>10, FS_Interval, FS_CardinalityType
<1>13. Cardinality(S) > N
  BY <1>6, <1>11, <1>12
<1> QED
  BY <1>13 DEF S

(***************************************************************************)
(* store_client_fd overwrites a client only if more of them are connected, *)
(* the new one counted, than the table has slots.                          *)
(***************************************************************************)
THEOREM ClientsLostOnlyWhenFull == Spec => DisplacedOnlyIfFull
<1> DEFINE Full ==
        displaced' # displaced =>
            Cardinality({f \in Sockets : file[f] \notin displaced}) > WCND_MAX_CLIENT_NUM
<1>1. ASSUME Next, displaced' # displaced
      PROVE  StoreClient
  BY <1>1 DEF Next, Peer, Connect, Send, HangUp, LoopTest, LoopOpen, LoopAnswer, LoopClose,
         Listener, BuildSet, SelectFails, Select, Accept, AcceptFails, MakePending, PendingDone,
         ReadCommand, ReadFails, Zap, Notify, NotifyBegin, NotifySlot, NotifyClear, NotifyEnd,
         history
<1>2. Inv /\ [Next]_vars => [Full]_vars
  BY <1>1, DisplacedWhenFull
<1> QED
  BY <1>2, Invariance, PTL DEF Spec, DisplacedOnlyIfFull
=============================================================================
