---------------------------- MODULE Modemd_proofs ----------------------------
(***************************************************************************)
(* Modemd for any number of failures, false reports and I/O errors.        *)
(***************************************************************************)
EXTENDS Modemd, TLAPS

\* Steps of load_sipc_modem_img while the modem is stopped, and after its start.
Before == {"load", "loaded", "stopServices", "start"}
After  == LoadSteps \ (Before \cup {"stop"})

\* Steps between stop_service and the end of start_service.
Serviceless == {"start", "timer", "newTimer", "made", "epoll", "newEpoll", "register", "arm", "wait",
                "alive", "handshake"}

Steps == LoadSteps \cup {"select", "connect", "read", "waitReady", "exited"}

\* Threads at a step.
Pending(step) ==
    (IF pc["sipc"] = step THEN 1 ELSE 0) + (IF pc["phs"] = step THEN 1 ELSE 0)

\* TypeOK, without the counters and the descriptors.
Ranged ==
    /\ modem \in {"run", "dead", "stopped"} /\ image \in {"good", "bad"}
    /\ services \in BOOLEAN /\ events \subseteq Events /\ blocked \in BOOLEAN
    /\ connected \in BOOLEAN /\ enabled \in BOOLEAN
    /\ running \in BOOLEAN /\ state \in {"READY", "ASSERT", "RESET"}
    /\ rfds \subseteq {"assert", "watchdog"} /\ pc \in [Threads -> Steps]
    /\ watches \in [Objects -> SUBSET Objects] /\ armed \subseteq Objects
    /\ waitsOn \in [Threads -> {0} \cup Objects]
    /\ badTty \in BOOLEAN /\ aborted \in BOOLEAN /\ unset \in BOOLEAN

\* The timer and the epoll object are the newest ones; a thread that is about to make one
\* takes the place of a failure.
Counted ==
    /\ faults \in Nat /\ faults <= MaxFaults /\ timers \in Nat /\ epolls \in Nat
    /\ wakealarm_fd \in {0, timers} /\ epollfd \in {0, epolls}
    /\ wakealarm_fd = 0 => timers <= faults
    /\ wakealarm_fd # 0 => timers + Pending("newTimer") <= faults + 2
    /\ epollfd = 0 => epolls <= faults
    /\ epollfd # 0 => epolls + Pending("newEpoll") <= faults + 2

\* Only timers that exist are watched.
Known == \A e \in Objects : watches[e] \subseteq 1..timers

\* What a wait of thread t on epoll object e can count on if no call has failed: a timer
\* that runs, or a timer that was replaced, or one that the other thread will set, or one
\* that runs and that the other thread will register.
Served(t, e) ==
    \/ watches[e] \cap armed # {}
    \/ watches[e] # {} /\ wakealarm_fd \notin watches[e]
    \/ watches[e] # {} /\ \E u \in Threads \ {t} : pc[u] = "arm"
    \/ /\ epollfd = e /\ wakealarm_fd \in armed
       /\ \E u \in Threads \ {t} : pc[u] = "register"

\* The epoll object in use watches a timer, or is about to.
Watched ==
    ~unset =>
      /\ epollfd # 0 => watches[epollfd] # {} \/ \E u \in Threads : pc[u] = "register"
      /\ \A t \in Threads : pc[t] = "wait" /\ waitsOn[t] # 0 => Served(t, waitsOn[t])

\* exit() ends both threads.
Exited == ~running => \A t \in Threads : pc[t] = "exited"

\* Who will start a stopped modem and the services.
Restarts ==
    running =>
      /\ modem = "stopped" =>
           \/ \E t \in Threads : pc[t] \in Before
           \/ badTty /\ \A t \in Threads : pc[t] \notin After
      /\ ~services => badTty \/ aborted \/ \E t \in Threads : pc[t] \in Serviceless

Inv == Ranged /\ Counted /\ Known /\ Watched /\ Exited /\ Restarts /\ NotReadyIsHandled

-----------------------------------------------------------------------------
AlarmSteps == {"newTimer", "newEpoll", "register", "arm", "wait"}

\* modemd starts with a running modem.
LEMMA InvInitial == Init => Inv
<1> SUFFICES ASSUME Init PROVE Inv
  OBVIOUS
<1> USE FaultsAssumption DEF Init, Created, Threads
<1>1. Ranged
  <2>1. pc \in [Threads -> Steps]
    BY DEF Steps
  <2>2. watches \in [Objects -> SUBSET Objects] /\ waitsOn \in [Threads -> {0} \cup Objects]
    OBVIOUS
  <2> QED
    BY <2>1, <2>2 DEF Ranged
<1>2. Counted /\ Known /\ Watched
  BY DEF Counted, Known, Watched
<1>3. Exited /\ Restarts /\ NotReadyIsHandled
  BY DEF Exited, Restarts, NotReadyIsHandled
<1> QED
  BY <1>1, <1>2, <1>3 DEF Inv

\* A thread that is not at exit() shows that modemd runs.
LEMMA AtWork == ASSUME Inv, NEW t \in Threads, pc[t] # "exited" PROVE running
BY DEF Inv, Exited

\* The count of the threads at a step when one thread moves.
LEMMA PendingMoves ==
    ASSUME NEW t \in Threads, NEW CONSTANT step,
           \A u \in Threads : u # t => pc'[u] = pc[u]
    PROVE  /\ Pending(step) \in Nat /\ Pending(step)' \in Nat
           /\ pc'[t] # step => Pending(step)' <= Pending(step)
           /\ pc[t] = step /\ pc'[t] # step => Pending(step) = Pending(step)' + 1
           /\ Pending(step)' <= 2
           /\ pc'[t] # step => Pending(step)' <= 1
BY DEF Pending, Threads

\* Steps that do not touch the timer and the epoll object.
LEMMA AlarmSame ==
    ASSUME Inv, UNCHANGED alarm,
           faults' \in Nat, faults' <= MaxFaults, faults <= faults',
           \A u \in Threads : pc'[u] = pc[u] \/ pc'[u] \notin AlarmSteps,
           \A u \in Threads : pc[u] \in {"register", "arm"} => pc'[u] = pc[u]
    PROVE  Counted' /\ Known' /\ Watched'
<1>1. Counted'
  <2>1. \A step \in {"newTimer", "newEpoll"} :
          Pending(step)' <= Pending(step) /\ Pending(step)' \in Nat /\ Pending(step) \in Nat
    BY DEF Pending, AlarmSteps, Threads
  <2> QED
    BY <2>1, FaultsAssumption DEF Inv, alarm, Counted
<1>2. Known'
  BY DEF Inv, Known, alarm
<1>3. Watched'
  <2>1. \A t \in Threads, e \in Objects : Served(t, e) => Served(t, e)'
    BY DEF alarm, Served
  <2>2. \A t \in Threads : pc'[t] = "wait" => pc[t] = "wait"
    BY DEF AlarmSteps
  <2>3. \A t \in Threads : waitsOn[t] # 0 => waitsOn[t] \in Objects
    BY DEF Inv, Ranged
  <2>4. \A t \in Threads : pc[t] = "register" => pc'[t] = "register"
    OBVIOUS
  <2> QED
    BY <2>1, <2>2, <2>3, <2>4 DEF Inv, Watched, alarm
<1> QED
  BY <1>1, <1>2, <1>3

\* A step of the modem, the phoneserver or init.
LEMMA InvEnvironment ==
    Inv /\ (ModemFails \/ ReportBlocked \/ FalseReport \/ Restart) => Inv'
<1> SUFFICES ASSUME Inv, ModemFails \/ ReportBlocked \/ FalseReport \/ Restart PROVE Inv'
  OBVIOUS
<1>1. CASE ModemFails \/ ReportBlocked \/ FalseReport
  <2>1. UNCHANGED <<image, services, enabled, running, state, rfds, pc, alarm, badTty, aborted>>
    BY <1>1 DEF ModemFails, ReportBlocked, FalseReport
  <2>2. /\ modem' \in {"run", "dead", "stopped"}
        /\ faults' \in Nat /\ faults' <= MaxFaults /\ faults <= faults'
        /\ blocked' \in BOOLEAN /\ connected' \in BOOLEAN /\ events' \subseteq Events
        /\ modem' = "stopped" => modem = "stopped"
    <3>1. CASE ModemFails
      BY <3>1, FaultsAssumption DEF Inv, Ranged, Counted, ModemFails, Fault
    <3>2. CASE ReportBlocked
      BY <3>2 DEF Inv, Ranged, Counted, ReportBlocked
    <3>3. CASE FalseReport
      BY <3>3, FaultsAssumption DEF Inv, Ranged, Counted, FalseReport, Fault
    <3> QED
      BY <1>1, <3>1, <3>2, <3>3
  <2>3. Ranged'
    BY <2>1, <2>2, FaultsAssumption DEF Inv, Ranged, alarm
  <2>4. Counted' /\ Known' /\ Watched'
    BY <2>1, <2>2, FaultsAssumption, AlarmSame
  <2>5. Exited' /\ NotReadyIsHandled'
    BY <2>1 DEF Inv, Exited, NotReadyIsHandled, Loading
  <2>6. Restarts'
    BY <2>1, <2>2 DEF Inv, Restarts
  <2> QED
    BY <2>3, <2>4, <2>5, <2>6 DEF Inv
<1>2. CASE Restart
  <2>1. UNCHANGED <<modem, image, events, blocked, enabled, alarm>>
        /\ ~running /\ running' = TRUE /\ state' = "READY" /\ aborted' = FALSE
        /\ rfds' = {"assert", "watchdog"} /\ pc' = Created /\ connected' = FALSE
    BY <1>2 DEF Restart
  <2>2. /\ services' \in BOOLEAN /\ badTty' \in BOOLEAN
        /\ faults' \in Nat /\ faults' <= MaxFaults /\ faults <= faults'
        /\ (modem = "run" /\ services' = TRUE) \/ badTty' = TRUE
    <3>1. CASE modem = "run" /\ services' = TRUE /\ badTty' = FALSE /\ UNCHANGED faults
      <4>1. faults' \in Nat /\ faults' <= MaxFaults /\ faults <= faults'
        BY <3>1 DEF Inv, Counted
      <4> QED
        BY <3>1, <4>1
    <3>2. CASE Fault /\ badTty' = TRUE /\ UNCHANGED services
      BY <3>2, FaultsAssumption DEF Inv, Ranged, Counted, Fault
    <3> QED
      BY <1>2, <3>1, <3>2 DEF Restart
  <2>3. /\ \A t \in Threads : pc[t] = "exited"
        /\ \A t \in Threads : pc'[t] \in {"select", "connect"}
    BY <2>1 DEF Inv, Exited, Created, Threads
  <2>4. Ranged'
    <3>1. pc' \in [Threads -> Steps]
      BY <2>1 DEF Created, Steps
    <3> QED
      BY <2>1, <2>2, <3>1 DEF Inv, Ranged, alarm
  <2>5. Counted' /\ Known' /\ Watched'
    BY <2>1, <2>2, <2>3, FaultsAssumption, AlarmSame DEF AlarmSteps
  <2>6. Exited' /\ Restarts' /\ NotReadyIsHandled'
    BY <2>1, <2>2, <2>3 DEF Exited, Restarts, NotReadyIsHandled, After, LoadSteps
  <2> QED
    BY <2>4, <2>5, <2>6 DEF Inv
<1> QED
  BY <1>1, <1>2

\* A step of detect_sipc_modem or detect_modem_blocked outside a reload.
LEMMA InvDetect ==
    Inv /\ (SipcEvent \/ Connect \/ PhsReport \/ PhsEof \/ SpuriousWakeup) => Inv'
<1> SUFFICES ASSUME Inv, SipcEvent \/ Connect \/ PhsReport \/ PhsEof \/ SpuriousWakeup
             PROVE  Inv'
  OBVIOUS
<1>1. UNCHANGED <<modem, image, services, faults, enabled, running, alarm, badTty, aborted>>
  BY DEF SipcEvent, Connect, PhsReport, PhsEof, SpuriousWakeup, world
<1>2. /\ events' \subseteq Events /\ blocked' \in BOOLEAN /\ connected' \in BOOLEAN
      /\ state' \in {"READY", "ASSERT", "RESET"} /\ rfds' \subseteq {"assert", "watchdog"}
  BY DEF Inv, Ranged, SipcEvent, Handle, Connect, PhsReport, PhsEof, SpuriousWakeup, world
<1>3. PICK t \in Threads, step \in {"stop", "select", "read", "connect", "waitReady"} :
        /\ pc[t] \in {"select", "read", "connect", "waitReady"}
        /\ pc' = [pc EXCEPT ![t] = step]
        /\ state' = state \/ ~enabled \/ step = "stop"
  <2>1. CASE SipcEvent
    BY <2>1 DEF SipcEvent, Handle, Goto, Threads
  <2>2. CASE Connect
    BY <2>2 DEF Connect, Goto, Threads
  <2>3. CASE PhsReport
    <3>1. CASE state = "READY"
      BY <2>3, <3>1 DEF PhsReport, Goto, Resume, Threads
    <3>2. CASE state # "READY"
      <4>1. pc' = [pc EXCEPT !["phs"] = "read"] /\ state' = state /\ pc["phs"] = "read"
        BY <2>3, <3>2 DEF PhsReport, Inv, Ranged, Threads
      <4> QED
        BY <4>1 DEF Threads
    <3> QED
      BY <3>1, <3>2
  <2>4. CASE PhsEof
    BY <2>4 DEF PhsEof, Goto, Threads
  <2>5. CASE SpuriousWakeup
    BY <2>5 DEF SpuriousWakeup, Goto, Threads
  <2> QED
    BY <2>1, <2>2, <2>3, <2>4, <2>5
<1>4. pc'[t] = step /\ \A u \in Threads : u # t => pc'[u] = pc[u]
  BY <1>3 DEF Inv, Ranged
<1>5. Ranged'
  <2>1. pc' \in [Threads -> Steps]
    BY <1>3 DEF Inv, Ranged, Steps, LoadSteps
  <2> QED
    BY <1>1, <1>2, <2>1 DEF Inv, Ranged, alarm
<1>6. Counted' /\ Known' /\ Watched'
  <2>1. faults' \in Nat /\ faults' <= MaxFaults /\ faults <= faults'
    BY <1>1, FaultsAssumption DEF Inv, Counted
  <2> QED
    BY <1>1, <1>3, <1>4, <2>1, AlarmSame DEF AlarmSteps
<1>7. running
  BY <1>3, AtWork
<1>8. Exited' /\ Restarts'
  BY <1>1, <1>3, <1>4, <1>7 DEF Inv, Exited, Restarts, Before, After, Serviceless, LoadSteps
<1>9. NotReadyIsHandled'
  BY <1>1, <1>3, <1>4, <1>7 DEF Inv, NotReadyIsHandled, Loading, LoadSteps
<1> QED
  BY <1>5, <1>6, <1>8, <1>9 DEF Inv

-----------------------------------------------------------------------------
(* load_sipc_modem_img                                                     *)

\* The thread moves on, the other one stays.
LEMMA Moves ==
    ASSUME Ranged, NEW t \in Threads, NEW step \in Steps, Goto(t, step)
    PROVE  /\ pc' \in [Threads -> Steps] /\ pc'[t] = step
           /\ \A u \in Threads : u # t => pc'[u] = pc[u]
BY DEF Ranged, Goto, Steps

\* The modem is stopped, loaded and started.
LEMMA InvImage ==
    ASSUME Inv, NEW t \in Threads,
           StopModem(t) \/ LoadBegin(t) \/ LoadEnd(t) \/ StopServices(t) \/ StartModem(t)
    PROVE  Inv'
<1>1. UNCHANGED <<events, blocked, enabled, running, state, rfds, alarm, badTty, aborted>>
  BY DEF StopModem, LoadBegin, LoadEnd, StopServices, StartModem, world
<1>2. /\ modem' \in {"run", "dead", "stopped"} /\ image' \in {"good", "bad"}
      /\ services' \in BOOLEAN /\ connected' \in BOOLEAN
      /\ faults' \in Nat /\ faults' <= MaxFaults /\ faults <= faults'
  <2> USE DEF Inv, Ranged, Counted
  <2>1. CASE StopModem(t)
    BY <2>1 DEF StopModem
  <2>2. CASE LoadBegin(t)
    BY <2>2 DEF LoadBegin, world
  <2>3. CASE LoadEnd(t)
    BY <2>3, FaultsAssumption DEF LoadEnd, Fault
  <2>4. CASE StopServices(t)
    <3>1. faults' \in Nat /\ faults' <= MaxFaults /\ faults <= faults'
      BY <2>4 DEF StopServices
    <3> QED
      BY <2>4, <3>1 DEF StopServices
  <2>5. CASE StartModem(t)
    BY <2>5 DEF StartModem
  <2> QED
    BY <2>1, <2>2, <2>3, <2>4, <2>5
<1>3. /\ pc[t] \in Before \cup {"stop"}
      /\ \E step \in Before \cup {"timer"} : Goto(t, step)
  BY DEF StopModem, LoadBegin, LoadEnd, StopServices, StartModem, Before
<1>4. PICK step \in Before \cup {"timer"} : Goto(t, step)
  BY <1>3
<1>5. pc' \in [Threads -> Steps] /\ pc'[t] = step /\ \A u \in Threads : u # t => pc'[u] = pc[u]
  BY <1>4, Moves DEF Inv, Steps, Before, LoadSteps
<1>6. Ranged'
  BY <1>1, <1>2, <1>5, FaultsAssumption DEF Inv, Ranged, alarm, Steps
<1>7. Counted' /\ Known' /\ Watched'
  BY <1>1, <1>2, <1>3, <1>5, FaultsAssumption, AlarmSame DEF AlarmSteps, Before
<1>8. running
  BY <1>3, AtWork DEF Before
<1>9. Exited' /\ NotReadyIsHandled'
  BY <1>1, <1>5, <1>8 DEF Exited, NotReadyIsHandled, Loading, LoadSteps, Before
<1>10. modem' = "stopped" => \E u \in Threads : pc'[u] \in Before
  <2>1. CASE pc[t] = "start"
    BY <2>1 DEF StopModem, LoadBegin, LoadEnd, StopServices, StartModem
  <2>2. CASE pc[t] # "start"
    <3>1. pc'[t] \in Before
      BY <1>5, <2>2 DEF StopModem, LoadBegin, LoadEnd, StopServices, StartModem, Goto, Before,
                        Inv, Ranged
    <3> QED
      BY <3>1
  <2> QED
    BY <2>1, <2>2
<1>11. ~services' => (services' = services /\ pc[t] # "stopServices") \/ pc'[t] = "start"
  BY <1>5 DEF StopModem, LoadBegin, LoadEnd, StopServices, StartModem, Goto, world, Inv, Ranged
<1>12. pc[t] = "start" => pc'[t] = "timer"
  BY DEF StopModem, LoadBegin, LoadEnd, StopServices, StartModem, Goto, Inv, Ranged
<1>13. Restarts'
  <2>1. ~services' => badTty' \/ aborted' \/ \E u \in Threads : pc'[u] \in Serviceless
    BY <1>1, <1>3, <1>5, <1>8, <1>11, <1>12 DEF Inv, Restarts, Serviceless, Before
  <2> QED
    BY <1>10, <2>1 DEF Restarts
<1> QED
  BY <1>6, <1>7, <1>9, <1>13 DEF Inv

\* The path of the partitions is not known.
LEMMA InvRefused == ASSUME Inv, NEW t \in Threads, LoadRefused(t) PROVE Inv'
<1>1. /\ UNCHANGED <<modem, image, services, events, blocked, connected, enabled, running, state,
                     rfds, alarm, badTty>>
      /\ pc[t] = "stop" /\ aborted' = TRUE /\ Fault
  BY DEF LoadRefused, GiveUp
<1>2. PICK step \in {"select", "read"} : Goto(t, step)
  BY DEF LoadRefused, GiveUp, Resume
<1>3. pc' \in [Threads -> Steps] /\ pc'[t] = step /\ \A u \in Threads : u # t => pc'[u] = pc[u]
  BY <1>2, Moves DEF Inv, Steps
<1>4. faults' \in Nat /\ faults' <= MaxFaults /\ faults <= faults'
  BY <1>1, FaultsAssumption DEF Fault, Inv, Counted
<1>5. Ranged'
  BY <1>1, <1>3, <1>4, FaultsAssumption DEF Inv, Ranged, alarm, Steps
<1>6. Counted' /\ Known' /\ Watched'
  BY <1>1, <1>3, <1>4, FaultsAssumption, AlarmSame DEF AlarmSteps
<1>7. running
  BY <1>1, AtWork
<1>8. Exited' /\ NotReadyIsHandled'
  BY <1>1, <1>7 DEF Exited, NotReadyIsHandled
<1>9. Restarts'
  BY <1>1, <1>3, <1>7 DEF Inv, Restarts, Before, After, LoadSteps
<1> QED
  BY <1>5, <1>6, <1>8, <1>9 DEF Inv

\* Steps of a reload with the modem started and its services not.
LEMMA AlarmStepKeeps ==
    ASSUME Inv, UNCHANGED <<modem, services, enabled, running, state, badTty>>,
           aborted => aborted',
           NEW t \in Threads, pc[t] \in Serviceless \cap After,
           \/ pc'[t] \in Serviceless \cap After
           \/ aborted' /\ pc'[t] \in {"select", "read"},
           \A u \in Threads : u # t => pc'[u] = pc[u]
    PROVE  Exited' /\ Restarts' /\ NotReadyIsHandled'
<1>1. running
  BY AtWork DEF Serviceless
<1>2. Exited' /\ NotReadyIsHandled'
  BY <1>1 DEF Inv, Exited, NotReadyIsHandled, Loading, Serviceless, LoadSteps
<1>3. Restarts'
  <2>1. ASSUME modem = "stopped" PROVE \E u \in Threads : pc'[u] \in Before
    <3>1. PICK u \in Threads : pc[u] \in Before
      BY <1>1, <2>1 DEF Inv, Restarts
    <3>2. u # t
      BY <3>1 DEF Before, After
    <3> QED
      BY <3>1, <3>2
  <2>2. ASSUME ~services PROVE badTty' \/ aborted' \/ \E u \in Threads : pc'[u] \in Serviceless
    BY <1>1, <2>2 DEF Inv, Restarts
  <2> QED
    BY <1>1, <2>1, <2>2 DEF Restarts
<1> QED
  BY <1>2, <1>3

\* The timer is made if there is none.
LEMMA InvTimer ==
    ASSUME Inv, NEW t \in Threads, CheckTimer(t) \/ NewTimer(t) \/ TestTimer(t) \/ CheckEpoll(t)
    PROVE  Inv'
<1>1. UNCHANGED <<modem, image, services, events, blocked, connected, enabled, running, state,
                  rfds, epollfd, epolls, watches, armed, waitsOn, unset, badTty>>
  BY DEF CheckTimer, NewTimer, TestTimer, CheckEpoll, alarm, world
<1>2. PICK step \in {"newTimer", "made", "epoll", "newEpoll", "arm", "select", "read"} :
         Goto(t, step) /\ (step \in {"select", "read"} => aborted')
  BY DEF CheckTimer, NewTimer, TestTimer, CheckEpoll, GiveUp, Resume
<1>3. pc' \in [Threads -> Steps] /\ pc'[t] = step /\ \A u \in Threads : u # t => pc'[u] = pc[u]
  BY <1>2, Moves DEF Inv, Steps, LoadSteps
<1>4. pc[t] \in {"timer", "newTimer", "made", "epoll"} /\ (aborted => aborted')
      /\ aborted' \in BOOLEAN
  BY DEF CheckTimer, NewTimer, TestTimer, CheckEpoll, GiveUp, Inv, Ranged
<1>5. Exited' /\ Restarts' /\ NotReadyIsHandled'
  BY <1>1, <1>2, <1>3, <1>4, AlarmStepKeeps DEF Serviceless, After, Before, LoadSteps
<1>6. /\ timers' \in Nat /\ timers <= timers'
      /\ wakealarm_fd' = wakealarm_fd \/ wakealarm_fd' \in {0, timers + 1}
      /\ Counted'
  <2>1. /\ Pending("newTimer") \in Nat /\ Pending("newTimer")' \in Nat
        /\ Pending("newEpoll") \in Nat /\ Pending("newEpoll")' \in Nat
        /\ step # "newTimer" => Pending("newTimer")' <= Pending("newTimer")
        /\ step # "newEpoll" => Pending("newEpoll")' <= Pending("newEpoll")
        /\ pc[t] = "newTimer" /\ step # "newTimer" =>
             Pending("newTimer") = Pending("newTimer")' + 1 /\ Pending("newTimer")' <= 1
    BY <1>3, PendingMoves
  <2>2. CASE CheckTimer(t) \/ TestTimer(t) \/ CheckEpoll(t)
    <3>1. /\ UNCHANGED <<faults, wakealarm_fd, timers>>
          /\ step = "newTimer" => wakealarm_fd = 0
          /\ step = "newEpoll" => epollfd = 0
      BY <1>2, <1>3, <2>2 DEF CheckTimer, TestTimer, CheckEpoll, GiveUp, Resume, Goto, alarm, world
    <3> QED
      BY <1>1, <2>1, <3>1 DEF Inv, Counted
  <2>3. CASE NewTimer(t)
    <3>1. /\ pc[t] = "newTimer" /\ step = "made"
          /\ \/ timers' = timers + 1 /\ wakealarm_fd' = timers' /\ faults' = faults
             \/ /\ faults < MaxFaults /\ faults' = faults + 1
                /\ wakealarm_fd' = 0 /\ timers' = timers
      BY <1>2, <1>3, <2>3 DEF NewTimer, Fault, Goto, Inv, Ranged
    <3> QED
      BY <1>1, <2>1, <3>1, FaultsAssumption DEF Inv, Counted
  <2> QED
    BY <2>2, <2>3
<1>7. Ranged' /\ Known'
  <2>1. Ranged'
    BY <1>1, <1>3, <1>4 DEF Inv, Ranged
  <2>2. 1..timers \subseteq 1..timers'
    BY <1>6 DEF Inv, Counted
  <2> QED
    BY <1>1, <2>1, <2>2 DEF Inv, Known
<1>8. Watched'
  <2>1. ASSUME NEW u \in Threads, NEW e \in Objects, Served(u, e), u # t PROVE Served(u, e)'
    <3>1. \A v \in Threads : pc[v] \in {"register", "arm"} => pc'[v] = pc[v]
      BY <1>3, <1>4
    <3>2. CASE \E v \in Threads \ {u} : pc[v] \in {"register", "arm"}
      <4>1. t = u
        BY <1>4, <3>2 DEF Threads
      <4> QED
        BY <2>1, <4>1
    <3>3. CASE watches[e] \cap armed # {}
      BY <1>1, <3>3 DEF Served
    <3>4. CASE watches[e] # {} /\ wakealarm_fd \notin watches[e]
      <4>1. 0 \notin watches[e] /\ timers + 1 \notin watches[e]
        BY DEF Inv, Known, Counted
      <4>2. wakealarm_fd' \notin watches[e]
        BY <1>6, <3>4, <4>1
      <4> QED
        BY <1>1, <3>4, <4>2 DEF Served
    <3> QED
      BY <2>1, <3>2, <3>3, <3>4 DEF Served
  <2>2. \A u \in Threads : pc'[u] = "wait" => pc[u] = "wait" /\ u # t
    BY <1>3
  <2>3. \A u \in Threads : waitsOn[u] # 0 => waitsOn[u] \in Objects
    BY DEF Inv, Ranged
  <2>4. \A u \in Threads : pc[u] = "register" => pc'[u] = "register"
    BY <1>3, <1>4
  <2> QED
    BY <1>1, <2>1, <2>2, <2>3, <2>4 DEF Inv, Watched
<1> QED
  BY <1>5, <1>6, <1>7, <1>8 DEF Inv

\* The epoll object is made if there is none.
LEMMA InvEpoll == ASSUME Inv, NEW t \in Threads, NewEpoll(t) PROVE Inv'
<1>1. /\ UNCHANGED <<modem, image, services, events, blocked, connected, enabled, running, state,
                     rfds, wakealarm_fd, timers, watches, armed, waitsOn, unset, badTty, aborted>>
      /\ pc[t] = "newEpoll" /\ Goto(t, "register")
      /\ \/ epolls' = epolls + 1 /\ epollfd' = epolls' /\ faults' = faults
         \/ faults < MaxFaults /\ faults' = faults + 1 /\ epollfd' = 0 /\ epolls' = epolls
  BY DEF NewEpoll, Fault
<1>2. /\ pc' \in [Threads -> Steps] /\ pc'[t] = "register"
      /\ \A u \in Threads : u # t => pc'[u] = pc[u]
  BY <1>1, Moves DEF Inv, Steps, LoadSteps
<1>3. Exited' /\ Restarts' /\ NotReadyIsHandled'
  BY <1>1, <1>2, AlarmStepKeeps DEF Serviceless, After, Before, LoadSteps
<1>4. Counted'
  <2>1. /\ Pending("newTimer") \in Nat /\ Pending("newTimer")' \in Nat
        /\ Pending("newEpoll") \in Nat /\ Pending("newEpoll")' \in Nat
        /\ Pending("newTimer")' <= Pending("newTimer")
        /\ Pending("newEpoll") = Pending("newEpoll")' + 1 /\ Pending("newEpoll")' <= 1
    BY <1>1, <1>2, PendingMoves
  <2> QED
    BY <1>1, <2>1, FaultsAssumption DEF Inv, Counted
<1>5. Ranged' /\ Known'
  BY <1>1, <1>2 DEF Inv, Ranged, Known
<1>6. Watched'
  <2>1. ASSUME NEW u \in Threads, NEW e \in Objects, Served(u, e), u # t PROVE Served(u, e)'
    <3>1. \A v \in Threads \ {u} : v = t
      BY <2>1 DEF Threads
    <3> QED
      BY <1>1, <2>1, <3>1 DEF Served
  <2>2. \A u \in Threads : pc'[u] = "wait" => pc[u] = "wait" /\ u # t
    BY <1>2
  <2>3. \A u \in Threads : waitsOn[u] # 0 => waitsOn[u] \in Objects
    BY DEF Inv, Ranged
  <2> QED
    BY <1>1, <1>2, <2>1, <2>2, <2>3 DEF Inv, Watched
<1> QED
  BY <1>3, <1>4, <1>5, <1>6 DEF Inv

\* The timer is registered with the epoll object.
LEMMA InvRegister == ASSUME Inv, NEW t \in Threads, Register(t) PROVE Inv'
<1>1. /\ UNCHANGED <<modem, image, services, events, blocked, connected, enabled, running, state,
                     rfds, wakealarm_fd, epollfd, timers, epolls, armed, waitsOn, badTty>>
      /\ pc[t] = "register"
  BY DEF Register
<1>2. PICK step \in {"arm", "select", "read"} :
         Goto(t, step) /\ (step \in {"select", "read"} => aborted')
  BY DEF Register, GiveUp, Resume
<1>3. pc' \in [Threads -> Steps] /\ pc'[t] = step /\ \A u \in Threads : u # t => pc'[u] = pc[u]
  BY <1>2, Moves DEF Inv, Steps, LoadSteps
<1>4. (aborted => aborted') /\ aborted' \in BOOLEAN
  BY DEF Register, GiveUp, Inv, Ranged
<1>5. Exited' /\ Restarts' /\ NotReadyIsHandled'
  BY <1>1, <1>2, <1>3, <1>4, AlarmStepKeeps DEF Serviceless, After, Before, LoadSteps
<1>6. faults' \in Nat /\ faults' <= MaxFaults /\ faults <= faults'
  <2>1. UNCHANGED faults \/ Fault
    BY DEF Register
  <2> QED
    BY <2>1, FaultsAssumption DEF Fault, Inv, Counted
<1>7. \A u \in Threads : waitsOn[u] # 0 => waitsOn[u] \in Objects
  BY DEF Inv, Ranged
<1>10. Counted'
  <2>1. /\ Pending("newTimer") \in Nat /\ Pending("newTimer")' \in Nat
        /\ Pending("newEpoll") \in Nat /\ Pending("newEpoll")' \in Nat
        /\ Pending("newTimer")' <= Pending("newTimer")
        /\ Pending("newEpoll")' <= Pending("newEpoll")
    BY <1>3, PendingMoves
  <2> QED
    BY <1>1, <1>6, <2>1, FaultsAssumption DEF Inv, Counted
<1>8. CASE /\ epollfd # 0 /\ wakealarm_fd # 0 /\ step = "arm" /\ unset' = unset
           /\ watches' = [watches EXCEPT ![epollfd] = @ \cup {wakealarm_fd}]
  <2>1. epollfd \in Objects /\ wakealarm_fd \in Objects /\ wakealarm_fd \in 1..timers
    <3>1. Pending("newTimer") \in Nat /\ Pending("newEpoll") \in Nat
      BY DEF Pending
    <3> QED
      BY <1>8, <3>1, FaultsAssumption DEF Inv, Counted, Objects
  <2>2. /\ watches' \in [Objects -> SUBSET Objects]
        /\ watches'[epollfd] = watches[epollfd] \cup {wakealarm_fd}
        /\ \A e \in Objects : e # epollfd => watches'[e] = watches[e]
    BY <1>8, <2>1 DEF Inv, Ranged
  <2>3. Known'
    BY <1>1, <2>1, <2>2 DEF Inv, Known
  <2>4. Ranged'
    BY <1>1, <1>3, <1>4, <1>8, <2>2 DEF Inv, Ranged
  <2>5. ASSUME NEW u \in Threads, NEW e \in Objects, Served(u, e), u # t PROVE Served(u, e)'
    <3>1. \A v \in Threads \ {u} : v = t
      BY <2>5 DEF Threads
    <3>2. CASE e = epollfd
      BY <1>1, <1>3, <1>8, <2>2, <2>5, <3>1, <3>2 DEF Served
    <3>3. CASE e # epollfd
      BY <1>1, <2>2, <2>5, <3>1, <3>3 DEF Served
    <3> QED
      BY <3>2, <3>3
  <2>6. Watched'
    BY <1>1, <1>3, <1>7, <1>8, <2>1, <2>2, <2>5 DEF Inv, Watched
  <2> QED
    BY <1>5, <1>10, <2>3, <2>4, <2>6 DEF Inv
<1>9. CASE /\ watches' = watches /\ step \in {"select", "read"}
           /\ \/ unset' = TRUE
              \/ unset' = unset /\ (epollfd # 0 => wakealarm_fd \in watches[epollfd])
  <2>1. Known'
    BY <1>1, <1>9 DEF Inv, Known
  <2>2. Ranged'
    <3>1. unset' \in BOOLEAN /\ watches' = watches
      BY <1>9 DEF Inv, Ranged
    <3> QED
      BY <1>1, <1>3, <1>4, <3>1 DEF Inv, Ranged
  <2>3. ASSUME ~unset', NEW u \in Threads, NEW e \in Objects, Served(u, e), u # t
        PROVE  Served(u, e)'
    <3>1. \A v \in Threads \ {u} : v = t
      BY <2>3 DEF Threads
    <3>2. e # 0
      BY FaultsAssumption DEF Objects
    <3>3. epollfd = e => wakealarm_fd \in watches[e]
      BY <1>9, <2>3, <3>2
    <3> QED
      BY <1>1, <1>9, <2>3, <3>1, <3>3 DEF Served
  <2>4. Watched'
    BY <1>1, <1>3, <1>7, <1>9, <2>3 DEF Inv, Watched
  <2> QED
    BY <1>5, <1>10, <2>1, <2>2, <2>4 DEF Inv
<1> QED
  BY <1>2, <1>3, <1>8, <1>9 DEF Register, GiveUp, Resume, Goto, Inv, Ranged

\* The timer is set, and epoll_wait called.
LEMMA InvArm == ASSUME Inv, NEW t \in Threads, Arm(t) PROVE Inv'
<1>1. /\ UNCHANGED <<modem, image, services, events, blocked, connected, enabled, running, state,
                     rfds, wakealarm_fd, epollfd, timers, epolls, watches, badTty, aborted>>
      /\ pc[t] = "arm" /\ Goto(t, "wait") /\ waitsOn' = [waitsOn EXCEPT ![t] = epollfd]
  BY DEF Arm
<1>2. pc' \in [Threads -> Steps] /\ pc'[t] = "wait" /\ \A u \in Threads : u # t => pc'[u] = pc[u]
  BY <1>1, Moves DEF Inv, Steps, LoadSteps
<1>3. Exited' /\ Restarts' /\ NotReadyIsHandled'
  BY <1>1, <1>2, AlarmStepKeeps DEF Serviceless, After, Before, LoadSteps
<1>4. faults' \in Nat /\ faults' <= MaxFaults /\ faults <= faults'
  <2>1. UNCHANGED faults \/ Fault
    BY DEF Arm
  <2> QED
    BY <2>1, FaultsAssumption DEF Fault, Inv, Counted
<1>5. epollfd \in {0} \cup Objects /\ wakealarm_fd \in {0} \cup Objects
  <2>1. Pending("newTimer") \in Nat /\ Pending("newEpoll") \in Nat
    BY DEF Pending
  <2> QED
    BY <2>1, FaultsAssumption DEF Inv, Counted, Objects
<1>6. /\ waitsOn' \in [Threads -> {0} \cup Objects] /\ waitsOn'[t] = epollfd
      /\ \A u \in Threads : u # t => waitsOn'[u] = waitsOn[u]
  BY <1>1, <1>5 DEF Inv, Ranged
<1>7. /\ armed' \subseteq Objects /\ unset' \in BOOLEAN
      /\ ~unset' => ~unset /\ wakealarm_fd \in armed' /\ armed \subseteq armed'
  <2>1. CASE wakealarm_fd # 0 /\ armed' = armed \cup {wakealarm_fd} /\ UNCHANGED <<faults, unset>>
    <3>1. wakealarm_fd \in Objects
      BY <1>5, <2>1
    <3> QED
      BY <2>1, <3>1 DEF Inv, Ranged
  <2>2. CASE unset' = TRUE /\ UNCHANGED armed
    BY <2>2 DEF Inv, Ranged
  <2> QED
    BY <2>1, <2>2 DEF Arm
<1>8. Counted'
  <2>1. /\ Pending("newTimer") \in Nat /\ Pending("newTimer")' \in Nat
        /\ Pending("newEpoll") \in Nat /\ Pending("newEpoll")' \in Nat
        /\ Pending("newTimer")' <= Pending("newTimer")
        /\ Pending("newEpoll")' <= Pending("newEpoll")
    BY <1>2, PendingMoves
  <2> QED
    BY <1>1, <1>4, <2>1, FaultsAssumption DEF Inv, Counted
<1>9. Ranged' /\ Known'
  BY <1>1, <1>2, <1>6, <1>7 DEF Inv, Ranged, Known
<1>10. ASSUME ~unset', epollfd # 0 PROVE Served(t, epollfd)'
  <2>1. watches[epollfd] # {} \/ \E u \in Threads \ {t} : pc[u] = "register"
    BY <1>1, <1>7, <1>10 DEF Inv, Watched
  <2> QED
    BY <1>1, <1>2, <1>7, <1>10, <2>1 DEF Served
<1>11. ASSUME ~unset', NEW u \in Threads, NEW e \in Objects, Served(u, e), u # t
       PROVE  Served(u, e)'
  <2>1. \A v \in Threads \ {u} : v = t
    BY <1>11 DEF Threads
  <2> QED
    BY <1>1, <1>7, <1>11, <2>1 DEF Served
<1>12. \A u \in Threads : waitsOn[u] # 0 => waitsOn[u] \in Objects
  BY DEF Inv, Ranged
<1>13. Watched'
  <2> SUFFICES ASSUME ~unset' PROVE Watched'
    BY DEF Watched
  <2>1. epollfd' # 0 => watches'[epollfd'] # {} \/ \E u \in Threads : pc'[u] = "register"
    BY <1>1, <1>2, <1>7 DEF Inv, Watched
  <2>2. ASSUME NEW u \in Threads, pc'[u] = "wait", waitsOn'[u] # 0 PROVE Served(u, waitsOn[u])'
    <3>1. CASE u = t
      <4>1. epollfd # 0 /\ waitsOn'[u] = epollfd'
        BY <1>1, <1>6, <2>2, <3>1
      <4> QED
        BY <1>10, <3>1, <4>1 DEF Served
    <3>2. CASE u # t
      <4>1. waitsOn'[u] = waitsOn[u] /\ pc[u] = "wait"
        BY <1>2, <1>6, <2>2, <3>2
      <4>2. Served(u, waitsOn[u])
        BY <1>7, <2>2, <4>1 DEF Inv, Watched
      <4>3. Served(u, waitsOn[u])'
        BY <1>1, <1>2, <1>7, <1>12, <2>2, <3>2, <4>1, <4>2 DEF Served, Threads
      <4> QED
        BY <4>3
    <3> QED
      BY <3>1, <3>2
  <2> QED
    BY <2>1, <2>2 DEF Watched
<1> QED
  BY <1>3, <1>8, <1>9, <1>13 DEF Inv

\* The thread waits for the timer, and tells the clients.
LEMMA InvWait ==
    ASSUME Inv, NEW t \in Threads, WaitForTimer(t) \/ AnnounceAlive(t)
    PROVE  Inv'
<1>1. UNCHANGED <<world, running, state, rfds, wakealarm_fd, epollfd, timers, epolls, watches,
                  armed, unset, badTty, aborted>>
  BY DEF WaitForTimer, AnnounceAlive, alarm
<1>2. PICK step \in {"alive", "handshake"} : Goto(t, step)
  BY DEF WaitForTimer, AnnounceAlive
<1>3. pc' \in [Threads -> Steps] /\ pc'[t] = step /\ \A u \in Threads : u # t => pc'[u] = pc[u]
  BY <1>2, Moves DEF Inv, Steps, LoadSteps
<1>4. pc[t] \in {"wait", "alive"}
  BY DEF WaitForTimer, AnnounceAlive
<1>5. Exited' /\ Restarts' /\ NotReadyIsHandled'
  BY <1>1, <1>3, <1>4, AlarmStepKeeps DEF Serviceless, After, Before, LoadSteps, world
<1>6. /\ waitsOn' \in [Threads -> {0} \cup Objects]
      /\ \A u \in Threads : u # t => waitsOn'[u] = waitsOn[u]
  BY DEF WaitForTimer, AnnounceAlive, alarm, Inv, Ranged
<1>7. Ranged'
  BY <1>1, <1>3, <1>6 DEF Inv, Ranged, world, Steps
<1>8. Counted' /\ Known'
  <2>1. /\ Pending("newTimer") \in Nat /\ Pending("newTimer")' \in Nat
        /\ Pending("newEpoll") \in Nat /\ Pending("newEpoll")' \in Nat
        /\ Pending("newTimer")' <= Pending("newTimer")
        /\ Pending("newEpoll")' <= Pending("newEpoll")
    BY <1>3, PendingMoves
  <2> QED
    BY <1>1, <2>1 DEF Inv, Counted, Known, world
<1>9. Watched'
  <2>1. ASSUME NEW u \in Threads, NEW e \in Objects, Served(u, e) PROVE Served(u, e)'
    <3>1. \A v \in Threads : pc[v] \in {"register", "arm"} => pc'[v] = pc[v]
      BY <1>3, <1>4
    <3> QED
      BY <1>1, <2>1, <3>1 DEF Served
  <2>2. \A u \in Threads : pc'[u] = "wait" => pc[u] = "wait" /\ u # t
    BY <1>3
  <2>3. \A u \in Threads : waitsOn[u] # 0 => waitsOn[u] \in Objects
    BY DEF Inv, Ranged
  <2>4. \A u \in Threads : pc[u] = "register" => pc'[u] = "register"
    BY <1>3, <1>4
  <2> QED
    BY <1>1, <1>6, <2>1, <2>2, <2>3, <2>4 DEF Inv, Watched
<1> QED
  BY <1>5, <1>7, <1>8, <1>9 DEF Inv

\* The services are started, or the tty is missing.
LEMMA InvHandshake ==
    ASSUME Inv, NEW t \in Threads, StartServices(t) \/ NoTty(t)
    PROVE  Inv'
<1>1. /\ UNCHANGED <<modem, image, events, blocked, connected, enabled, running, state, rfds,
                     alarm>>
      /\ pc[t] = "handshake" /\ Goto(t, "ready")
  BY DEF StartServices, NoTty
<1>2. pc' \in [Threads -> Steps] /\ pc'[t] = "ready" /\ \A u \in Threads : u # t => pc'[u] = pc[u]
  BY <1>1, Moves DEF Inv, Steps, LoadSteps
<1>3. /\ services' \in BOOLEAN /\ badTty' \in BOOLEAN /\ aborted' \in BOOLEAN
      /\ faults' \in Nat /\ faults' <= MaxFaults /\ faults <= faults'
      /\ services' \/ badTty'
  <2>1. CASE StartServices(t)
    <3>1. faults' \in Nat /\ faults' <= MaxFaults /\ faults <= faults'
      BY <2>1 DEF StartServices, Inv, Counted
    <3> QED
      BY <2>1, <3>1 DEF StartServices
  <2>2. CASE NoTty(t)
    <3>1. badTty' = ~services /\ UNCHANGED services
      BY <2>2 DEF NoTty
    <3>2. faults' \in Nat /\ faults' <= MaxFaults /\ faults <= faults' /\ UNCHANGED aborted
      BY <2>2, FaultsAssumption DEF NoTty, Fault, Inv, Counted
    <3> QED
      BY <3>1, <3>2 DEF Inv, Ranged
  <2> QED
    BY <2>1, <2>2
<1>4. Ranged'
  BY <1>1, <1>2, <1>3, FaultsAssumption DEF Inv, Ranged, alarm, Steps
<1>5. Counted' /\ Known' /\ Watched'
  BY <1>1, <1>2, <1>3, FaultsAssumption, AlarmSame DEF AlarmSteps
<1>6. running
  BY <1>1, AtWork
<1>7. Exited' /\ NotReadyIsHandled'
  BY <1>1, <1>2, <1>6 DEF Inv, Exited, NotReadyIsHandled, Loading, LoadSteps
<1>8. ASSUME modem = "stopped" PROVE \E u \in Threads : pc'[u] \in Before
  <2>1. pc[t] \in After \ Before
    BY <1>1 DEF After, Before, LoadSteps
  <2>2. PICK u \in Threads : pc[u] \in Before
    BY <1>6, <1>8, <2>1 DEF Inv, Restarts
  <2> QED
    BY <1>2, <2>1, <2>2
<1>9. Restarts'
  BY <1>1, <1>3, <1>8 DEF Restarts
<1> QED
  BY <1>4, <1>5, <1>7, <1>9 DEF Inv

\* The modem does not answer, and modemd exits.
LEMMA InvExit == ASSUME Inv, NEW t \in Threads, HandshakeFails(t) PROVE Inv'
<1>1. /\ running' = FALSE /\ pc' = [u \in Threads |-> "exited"]
      /\ connected' = FALSE /\ blocked' = FALSE
      /\ wakealarm_fd' = 0 /\ epollfd' = 0 /\ timers' = 0 /\ epolls' = 0
      /\ watches' = [e \in Objects |-> {}] /\ armed' = {} /\ waitsOn' = [u \in Threads |-> 0]
      /\ unset' = FALSE
      /\ UNCHANGED <<modem, image, services, events, enabled, state, rfds, badTty, aborted>>
  BY DEF HandshakeFails
<1>2. faults' \in Nat /\ faults' <= MaxFaults
  <2>1. UNCHANGED faults \/ Fault
    BY DEF HandshakeFails
  <2> QED
    BY <2>1, FaultsAssumption DEF Fault, Inv, Counted
<1>3. Ranged'
  <2>1. pc' \in [Threads -> Steps]
    BY <1>1 DEF Steps
  <2>2. /\ watches' \in [Objects -> SUBSET Objects] /\ armed' \subseteq Objects
        /\ waitsOn' \in [Threads -> {0} \cup Objects] /\ unset' \in BOOLEAN
    BY <1>1
  <2> QED
    BY <1>1, <1>2, <2>1, <2>2 DEF Inv, Ranged, Steps
<1>4. Counted' /\ Known' /\ Watched'
  <2>1. Pending("newTimer")' <= 2 /\ Pending("newEpoll")' <= 2
    BY <1>1 DEF Pending, Threads
  <2> QED
    BY <1>1, <1>2, <2>1 DEF Counted, Known, Watched, Threads
<1>5. Exited' /\ Restarts' /\ NotReadyIsHandled'
  BY <1>1 DEF Exited, Restarts, NotReadyIsHandled
<1> QED
  BY <1>3, <1>4, <1>5 DEF Inv

\* A reload ends.
LEMMA InvReady == ASSUME Inv, NEW t \in Threads, Ready(t) PROVE Inv'
<1>1. UNCHANGED <<world, running, rfds, alarm, badTty, aborted>>
      /\ state' = "READY" /\ pc[t] = "ready"
  BY DEF Ready
<1>2. /\ pc' \in [Threads -> Steps] /\ pc'[t] \in {"select", "read"}
      /\ \A u \in Threads : u # t =>
            pc'[u] = pc[u] \/ (pc[u] = "waitReady" /\ pc'[u] = "connect")
  <2>1. pc' = [u \in Threads |->
                IF u = t THEN IF t = "sipc" THEN "select" ELSE "read"
                ELSE IF pc[u] = "waitReady" THEN "connect" ELSE pc[u]]
    BY DEF Ready
  <2>2. \A u \in Threads : pc[u] \in Steps
    BY DEF Inv, Ranged, Steps
  <2>3. {"select", "read", "connect"} \subseteq Steps
    BY DEF Steps
  <2>4. pc' \in [Threads -> Steps]
    BY <2>1, <2>2, <2>3
  <2>5. pc'[t] \in {"select", "read"}
    BY <2>1
  <2>6. \A u \in Threads : u # t =>
            pc'[u] = pc[u] \/ (pc[u] = "waitReady" /\ pc'[u] = "connect")
    BY <2>1
  <2> QED
    BY <2>4, <2>5, <2>6
<1>3. Ranged'
  BY <1>1, <1>2 DEF Inv, Ranged, world, alarm, Steps
<1>4. Counted' /\ Known' /\ Watched'
  <2>1. faults' \in Nat /\ faults' <= MaxFaults /\ faults <= faults'
    BY <1>1, FaultsAssumption DEF Inv, Counted, world
  <2> QED
    BY <1>1, <1>2, <2>1, AlarmSame DEF AlarmSteps
<1>5. running
  BY <1>1, AtWork
<1>6. Exited' /\ NotReadyIsHandled'
  BY <1>1, <1>5 DEF Exited, NotReadyIsHandled
<1>7. Restarts'
  <2>1. ASSUME modem = "stopped" PROVE \E u \in Threads : pc'[u] \in Before
    <3>1. pc[t] \in After \ Before
      BY <1>1 DEF After, Before, LoadSteps
    <3>2. PICK u \in Threads : pc[u] \in Before
      BY <1>5, <2>1, <3>1 DEF Inv, Restarts
    <3> QED
      BY <1>2, <3>1, <3>2 DEF Before
  <2>2. ASSUME ~services PROVE badTty \/ aborted \/ \E u \in Threads : pc'[u] \in Serviceless
    <3>1. CASE badTty \/ aborted
      BY <3>1
    <3>2. CASE \E u \in Threads : pc[u] \in Serviceless
      BY <1>1, <1>2, <3>2 DEF Serviceless
    <3> QED
      BY <1>5, <2>2, <3>1, <3>2 DEF Inv, Restarts
  <2> QED
    BY <1>1, <2>1, <2>2 DEF Restarts, world
<1> QED
  BY <1>3, <1>4, <1>6, <1>7 DEF Inv

-----------------------------------------------------------------------------
\* Every step keeps the invariant.
LEMMA InvStep == Inv /\ [Next]_vars => Inv'
<1> SUFFICES ASSUME Inv, [Next]_vars PROVE Inv'
  OBVIOUS
<1>1. CASE ModemFails \/ ReportBlocked \/ FalseReport \/ Restart
  BY <1>1, InvEnvironment
<1>2. CASE SipcEvent \/ Connect \/ PhsReport \/ PhsEof \/ SpuriousWakeup
  BY <1>2, InvDetect
<1>3. ASSUME NEW t \in Threads, Load(t) PROVE Inv'
  BY <1>3, InvImage, InvTimer, InvEpoll, InvRegister, InvArm, InvWait, InvHandshake, InvReady
     DEF Load
<1>4. ASSUME NEW t \in Threads, LoadRefused(t) \/ NoTty(t) \/ HandshakeFails(t) PROVE Inv'
  BY <1>4, InvRefused, InvHandshake, InvExit
<1>5. CASE UNCHANGED vars
  <2>1. UNCHANGED <<world, running, state, rfds, pc, alarm, badTty, aborted>>
    BY <1>5 DEF vars
  <2>2. Ranged'
    BY <2>1 DEF Inv, Ranged, world, alarm
  <2>3. Counted' /\ Known' /\ Watched'
    <3>1. faults' \in Nat /\ faults' <= MaxFaults /\ faults <= faults'
      BY <2>1, FaultsAssumption DEF Inv, Counted, world
    <3> QED
      BY <2>1, <3>1, AlarmSame
  <2>4. Exited' /\ Restarts' /\ NotReadyIsHandled'
    BY <2>1 DEF Inv, Exited, Restarts, NotReadyIsHandled, Loading, world
  <2> QED
    BY <2>2, <2>3, <2>4 DEF Inv
<1> QED
  BY <1>1, <1>2, <1>3, <1>4, <1>5 DEF Next

\* The invariant holds in every reachable state.
LEMMA Invariance == Spec => []Inv
BY InvInitial, InvStep, PTL DEF Spec

(***************************************************************************)
(* The type invariant, for any number of failures: in particular the       *)
(* unlocked tests of wakealarm_fd and epollfd in load_sipc_modem_img leak  *)
(* at most one timer and one epoll object beyond one for each failure.     *)
(***************************************************************************)
THEOREM TypeCorrect == Spec => []TypeOK
<1>1. Inv => TypeOK
  <2> SUFFICES ASSUME Inv PROVE TypeOK
    OBVIOUS
  <2>1. Pending("newTimer") \in Nat /\ Pending("newEpoll") \in Nat
    BY DEF Pending
  <2>2. /\ faults \in 0..MaxFaults /\ timers \in 0..faults + 2 /\ epolls \in 0..faults + 2
        /\ wakealarm_fd \in 0..timers /\ epollfd \in 0..epolls
    BY <2>1, FaultsAssumption DEF Inv, Counted
  <2> QED
    BY <2>2 DEF Inv, Ranged, TypeOK, Steps
<1> QED
  BY <1>1, Invariance, PTL

(***************************************************************************)
(* A modem that is READY with no reload under way has been started and its *)
(* services run, unless the tty was missing or a reload was given up.      *)
(***************************************************************************)
THEOREM ReadyMeansRunning == Spec => []ReadyIsRunning
<1>1. Inv => ReadyIsRunning
  BY DEF Inv, Restarts, Before, Serviceless, ReadyIsRunning, Loading, LoadSteps
<1> QED
  BY <1>1, Invariance, PTL

(***************************************************************************)
(* A modem that is not READY is being reloaded by one of the threads,      *)
(* unless reloads are off or one was given up.                             *)
(***************************************************************************)
THEOREM NotReadyMeansHandled == Spec => []NotReadyIsHandled
<1>1. Inv => NotReadyIsHandled
  BY DEF Inv
<1> QED
  BY <1>1, Invariance, PTL

(***************************************************************************)
(* What leaves a thread in epoll_wait for ever, whatever the number of     *)
(* failures: a failed epoll_ctl or timerfd_settime, or a timer that the    *)
(* epoll object watches and that was replaced in wakealarm_fd before it    *)
(* was set.  Nothing else does, once the other thread has registered and   *)
(* set the timer.                                                          *)
(***************************************************************************)
THEOREM WaitsAreTimed == Spec => []WaitIsTimed
<1>1. Inv => WaitIsTimed
  BY DEF Inv, Watched, Served, WaitIsTimed, Untimed
<1> QED
  BY <1>1, Invariance, PTL
===============================================================================
