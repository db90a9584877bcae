-------------------------------- MODULE Modemd --------------------------------
(***************************************************************************)
(* Detection of a failed modem and its reload by src/apps/modemd           *)
(* (modemd_sipc.c, start_service and stop_service of modemd.c), for one of *)
(* the modems.  Two threads detect failures and reload the modem           *)
(* themselves:                                                             *)
(*   "sipc"  detect_sipc_modem: the assert and the watchdog device;        *)
(*   "phs"   detect_modem_blocked: reports of the phoneserver service.     *)
(* They share the modem's state, guarded by its mutex, and the timer with  *)
(* its epoll descriptor, guarded by nothing.  The calls that make and set  *)
(* them may fail.  The reports to the clients and the loop test, whose     *)
(* result the code does not use, are left out.                             *)
(***************************************************************************)
EXTENDS Naturals

CONSTANTS
    MaxFaults       \* bound: failures, false reports and I/O errors

ASSUME FaultsAssumption == MaxFaults \in Nat

\* Timers, and epoll objects, that can be created: see TypeOK.
Objects == 1..MaxFaults + 2

Threads == {"sipc", "phs"}
Events  == {"reset", "assert", "wdt"}
Device(e) == IF e = "wdt" THEN "watchdog" ELSE "assert"

VARIABLES
    modem,      \* "run", "dead" or "stopped"
    image,      \* the loaded image is "good" or "bad"
    services,   \* phoneserver, rild and engservice of the modem run
    events,     \* events the devices hold
    blocked,    \* the phoneserver has sent "Modem Blocked"
    connected,  \* the "phs" thread is connected to the running phoneserver
    faults,
    enabled,    \* the property persist.sys.sprd.modemreset
    running,    \* the process modemd runs
    state,      \* td_modem_state or w_modem_state
    rfds,       \* detect_sipc_modem: the set handed to select()
    pc,         \* Threads -> step
    wakealarm_fd, epollfd,  \* 0 for -1, else the number of the object
    timers, epolls,         \* objects created so far
    watches,    \* epoll object -> timers registered with it
    armed,      \* timers that run
    waitsOn,    \* Threads -> the epoll object epoll_wait was called with, or 0
    badTty,     \* history: start_service failed: services are down, or the modem may be
    aborted,    \* history: a reload was given up before its end, and none succeeded since
    unset       \* history: epoll_ctl or timerfd_settime has failed

world   == <<modem, image, services, events, blocked, connected, faults, enabled>>
alarm   == <<wakealarm_fd, epollfd, timers, epolls, watches, armed, waitsOn, unset>>
vars == <<world, running, state, rfds, pc, alarm, badTty, aborted>>

LoadSteps == {"stop", "load", "loaded", "stopServices", "start", "timer", "newTimer",
              "made", "epoll", "newEpoll", "register", "arm", "wait", "alive", "handshake",
              "ready"}
Loading(t) == pc[t] \in LoadSteps

\* The threads as start_modem creates them.
Created == [t \in Threads |-> IF t = "sipc" THEN "select" ELSE "connect"]

Init ==
    /\ modem = "run" /\ image = "good" /\ services = TRUE
    /\ events = {} /\ blocked = FALSE /\ connected = FALSE /\ faults = 0
    /\ enabled \in BOOLEAN /\ running = TRUE /\ state = "READY"
    /\ rfds = {"assert", "watchdog"} /\ pc = Created
    /\ wakealarm_fd = 0 /\ epollfd = 0 /\ timers = 0 /\ epolls = 0
    /\ watches = [e \in Objects |-> {}] /\ armed = {} /\ waitsOn = [t \in Threads |-> 0]
    /\ badTty = FALSE /\ aborted = FALSE /\ unset = FALSE

Goto(t, step) == pc' = [pc EXCEPT ![t] = step]

\* Back to the loop of detect_sipc_modem or detect_modem_blocked.
Resume(t) == Goto(t, IF t = "sipc" THEN "select" ELSE "read")

-----------------------------------------------------------------------------
(* External: the modem, its phoneserver and init.                          *)

Fault == faults < MaxFaults /\ faults' = faults + 1

\* The modem fails and raises one event, or none.
ModemFails ==
    /\ modem = "run" /\ Fault /\ modem' = "dead"
    /\ \E E \in {{}} \cup {{e} : e \in Events} : events' = events \cup E
    /\ UNCHANGED <<image, services, blocked, connected, enabled, running, state, rfds, pc,
                   alarm, badTty, aborted>>

\* The phoneserver misses an answer of the modem.
ReportBlocked ==
    /\ services /\ connected /\ ~blocked /\ modem # "run" /\ blocked' = TRUE
    /\ UNCHANGED <<modem, image, services, events, connected, faults, enabled, running,
                   state, rfds, pc, alarm, badTty, aborted>>

\* The same of a modem that is only slow.
FalseReport ==
    /\ services /\ connected /\ ~blocked /\ modem = "run" /\ Fault /\ blocked' = TRUE
    /\ UNCHANGED <<modem, image, services, events, connected, enabled, running, state, rfds,
                   pc, alarm, badTty, aborted>>

\* init starts modemd again; start_service(modem, 0, 0) returns only if the modem answers,
\* or if the tty cannot be opened.
Restart ==
    /\ ~running
    /\ \/ modem = "run" /\ services' = TRUE /\ badTty' = FALSE /\ UNCHANGED faults
       \/ Fault /\ badTty' = TRUE /\ UNCHANGED services
    /\ running' = TRUE /\ state' = "READY" /\ aborted' = FALSE
    /\ rfds' = {"assert", "watchdog"} /\ pc' = Created /\ connected' = FALSE
    /\ UNCHANGED <<modem, image, events, blocked, enabled, alarm>>

-----------------------------------------------------------------------------
(* detect_sipc_modem                                                       *)

Handle(e) ==
    /\ state' = IF e = "reset" THEN "RESET" ELSE "ASSERT"
    /\ IF e = "reset" \/ enabled THEN Goto("sipc", "stop") ELSE Goto("sipc", "select")

\* select() leaves in rfds only the devices that are readable, and nobody puts the others
\* back; the assert device is read first.  A reset always leads to a reload, an assert
\* or a watchdog event only if the property says so.
SipcEvent ==
    /\ pc["sipc"] = "select"
    /\ rfds' = {Device(e) : e \in events} \cap rfds /\ rfds' # {}
    /\ \E e \in events :
         /\ Device(e) = IF "assert" \in rfds' THEN "assert" ELSE "watchdog"
         /\ events' = events \ {e} /\ Handle(e)
    /\ UNCHANGED <<modem, image, services, blocked, connected, faults, enabled, running,
                   alarm, badTty, aborted>>

-----------------------------------------------------------------------------
(* detect_modem_blocked                                                    *)

Connect ==
    /\ pc["phs"] = "connect" /\ services
    /\ connected' = TRUE /\ Goto("phs", "read")
    /\ UNCHANGED <<modem, image, services, events, blocked, faults, enabled, running, state,
                   rfds, alarm, badTty, aborted>>

\* A report counts only if the modem is READY.
PhsReport ==
    /\ pc["phs"] = "read" /\ blocked /\ blocked' = FALSE
    /\ IF state = "READY"
       THEN /\ state' = "ASSERT"
            /\ IF enabled THEN Goto("phs", "stop") ELSE Resume("phs")
       ELSE UNCHANGED <<state, pc>>
    /\ UNCHANGED <<modem, image, services, events, connected, faults, enabled, running, rfds,
                   alarm, badTty, aborted>>

\* The phoneserver is gone: reconnect, but wait first while the modem is not READY.
PhsEof ==
    /\ pc["phs"] = "read" /\ ~blocked /\ ~connected
    /\ Goto("phs", IF state = "READY" THEN "connect" ELSE "waitReady")
    /\ UNCHANGED <<world, running, state, rfds, alarm, badTty, aborted>>

-----------------------------------------------------------------------------
(* load_sipc_modem_img, run by thread t                                    *)

\* return -1, which the callers ignore: the state stays what it is.
GiveUp(t) == Resume(t) /\ aborted' = TRUE

\* The path of the partitions is not known.
LoadRefused(t) ==
    /\ pc[t] = "stop" /\ Fault /\ GiveUp(t)
    /\ UNCHANGED <<modem, image, services, events, blocked, connected, enabled, running, state,
                   rfds, alarm, badTty>>

StopModem(t) ==
    /\ pc[t] = "stop" /\ modem' = "stopped" /\ Goto(t, "load")
    /\ UNCHANGED <<image, services, events, blocked, connected, faults, enabled, running,
                   state, rfds, alarm, badTty, aborted>>

LoadBegin(t) ==
    /\ pc[t] = "load" /\ Goto(t, "loaded")
    /\ UNCHANGED <<world, running, state, rfds, alarm, badTty, aborted>>

\* load_sipc_image, twice; its result is ignored.  A modem that the other thread has
\* started meanwhile does not survive it.
LoadEnd(t) ==
    /\ pc[t] = "loaded" /\ Goto(t, "stopServices")
    /\ \/ image' = "good" /\ UNCHANGED faults
       \/ Fault /\ image' = "bad"
    /\ modem' = IF modem = "run" THEN "dead" ELSE modem
    /\ UNCHANGED <<services, events, blocked, connected, enabled, running, state, rfds, alarm,
                   badTty, aborted>>

\* stop_service: the phoneserver goes, and with it the connection.
StopServices(t) ==
    /\ pc[t] = "stopServices" /\ Goto(t, "start")
    /\ services' = FALSE /\ connected' = FALSE
    /\ UNCHANGED <<modem, image, events, blocked, faults, enabled, running, state, rfds,
                   alarm, badTty, aborted>>

\* A start of a modem that is not stopped may have no effect.
StartModem(t) ==
    /\ pc[t] = "start" /\ Goto(t, "timer")
    /\ \/ modem' = IF image = "good" THEN "run" ELSE "dead"
       \/ modem # "stopped" /\ UNCHANGED modem
    /\ UNCHANGED <<image, services, events, blocked, connected, faults, enabled, running,
                   state, rfds, alarm, badTty, aborted>>

\* Variant: every reload makes a timer of its own.
CheckNoTimer(t) ==
    /\ pc[t] = "timer" /\ Goto(t, "newTimer")
    /\ UNCHANGED <<world, running, state, rfds, alarm, badTty, aborted>>

CheckTimer(t) ==
    /\ pc[t] = "timer" /\ Goto(t, IF wakealarm_fd = 0 THEN "newTimer" ELSE "made")
    /\ UNCHANGED <<world, running, state, rfds, alarm, badTty, aborted>>

\* timerfd_create: a failure leaves -1 in wakealarm_fd, whatever the other thread put there.
NewTimer(t) ==
    /\ pc[t] = "newTimer" /\ Goto(t, "made")
    /\ \/ timers' = timers + 1 /\ wakealarm_fd' = timers' /\ UNCHANGED faults
       \/ Fault /\ wakealarm_fd' = 0 /\ UNCHANGED timers
    /\ UNCHANGED <<modem, image, services, events, blocked, connected, enabled, running, state,
                   rfds, epollfd, epolls, watches, armed, waitsOn, unset, badTty, aborted>>

TestTimer(t) ==
    /\ pc[t] = "made"
    /\ IF wakealarm_fd = 0 THEN GiveUp(t) ELSE Goto(t, "epoll") /\ UNCHANGED aborted
    /\ UNCHANGED <<world, running, state, rfds, alarm, badTty>>

CheckEpoll(t) ==
    /\ pc[t] = "epoll" /\ Goto(t, IF epollfd = 0 THEN "newEpoll" ELSE "arm")
    /\ UNCHANGED <<world, running, state, rfds, alarm, badTty, aborted>>

\* Variant: the timer is not registered with the epoll object.
NewEpollBare(t) ==
    /\ pc[t] = "newEpoll" /\ Goto(t, "arm")
    /\ epolls' = epolls + 1 /\ epollfd' = epolls'
    /\ UNCHANGED <<world, running, state, rfds, wakealarm_fd, timers, watches, armed, waitsOn,
                   unset, badTty, aborted>>

NewEpoll(t) ==
    /\ pc[t] = "newEpoll" /\ Goto(t, "register")
    /\ \/ epolls' = epolls + 1 /\ epollfd' = epolls' /\ UNCHANGED faults
       \/ Fault /\ epollfd' = 0 /\ UNCHANGED epolls
    /\ UNCHANGED <<modem, image, services, events, blocked, connected, enabled, running, state,
                   rfds, wakealarm_fd, timers, watches, armed, waitsOn, unset, badTty, aborted>>

\* The test of epollfd, and epoll_ctl: it fails for a timer registered before, for a timer
\* that is -1, and for reasons of its own.  The epoll object stays, with no timer of this
\* thread's, and the next reload uses it.  (A second timer is registered beside the first.)
Register(t) ==
    /\ pc[t] = "register"
    /\ \/ /\ epollfd # 0 /\ wakealarm_fd # 0 /\ wakealarm_fd \notin watches[epollfd]
          /\ Goto(t, "arm") /\ watches' = [watches EXCEPT ![epollfd] = @ \cup {wakealarm_fd}]
          /\ UNCHANGED <<faults, aborted, unset>>
       \/ /\ epollfd # 0 => wakealarm_fd \in watches[epollfd]
          /\ GiveUp(t) /\ UNCHANGED <<faults, watches, unset>>
       \/ /\ epollfd # 0 /\ wakealarm_fd \notin watches[epollfd]
          /\ (wakealarm_fd = 0 /\ UNCHANGED faults) \/ (wakealarm_fd # 0 /\ Fault)
          /\ GiveUp(t) /\ unset' = TRUE /\ UNCHANGED watches
    /\ UNCHANGED <<modem, image, services, events, blocked, connected, enabled, running, state,
                   rfds, wakealarm_fd, epollfd, timers, epolls, armed, waitsOn, badTty>>

\* timerfd_settime, whose failure is only logged, and the call of epoll_wait.
Arm(t) ==
    /\ pc[t] = "arm" /\ Goto(t, "wait")
    /\ \/ wakealarm_fd # 0 /\ armed' = armed \cup {wakealarm_fd} /\ UNCHANGED <<faults, unset>>
       \/ wakealarm_fd = 0 /\ unset' = TRUE /\ UNCHANGED <<faults, armed>>
       \/ wakealarm_fd # 0 /\ Fault /\ unset' = TRUE /\ UNCHANGED armed
    /\ waitsOn' = [waitsOn EXCEPT ![t] = epollfd]
    /\ UNCHANGED <<modem, image, services, events, blocked, connected, enabled, running, state,
                   rfds, wakealarm_fd, epollfd, timers, epolls, watches, badTty, aborted>>

\* A timer that runs expires every 20 s, and nobody reads it.
Untimed(t) == pc[t] = "wait" /\ waitsOn[t] # 0 /\ watches[waitsOn[t]] \cap armed = {}

\* epoll_wait returns when a timer of its epoll object has expired, or at once if it was
\* called with -1.
WaitForTimer(t) ==
    /\ pc[t] = "wait" /\ ~Untimed(t)
    /\ Goto(t, "alive") /\ waitsOn' = [waitsOn EXCEPT ![t] = 0]
    /\ UNCHANGED <<world, running, state, rfds, wakealarm_fd, epollfd, timers, epolls, watches,
                   armed, unset, badTty, aborted>>

\* Variant: start_service is left out.
AnnounceOnly(t) ==
    /\ pc[t] = "alive" /\ Goto(t, "ready")
    /\ UNCHANGED <<world, running, state, rfds, alarm, badTty, aborted>>

\* loop_info_sockclients with "Modem Alive".
AnnounceAlive(t) ==
    /\ pc[t] = "alive" /\ Goto(t, "handshake")
    /\ UNCHANGED <<world, running, state, rfds, alarm, badTty, aborted>>

\* start_service: the modem answers the AT commands, and the services are started.
StartServices(t) ==
    /\ pc[t] = "handshake" /\ modem = "run"
    /\ services' = TRUE /\ badTty' = FALSE /\ aborted' = FALSE /\ Goto(t, "ready")
    /\ UNCHANGED <<modem, image, events, blocked, connected, faults, enabled, running, state,
                   rfds, alarm>>

\* The tty cannot be opened: start_service returns -1, which nobody looks at.
NoTty(t) ==
    /\ pc[t] = "handshake" /\ Fault
    /\ badTty' = ~services /\ Goto(t, "ready")
    /\ UNCHANGED <<modem, image, services, events, blocked, connected, enabled, running, state,
                   rfds, alarm, aborted>>

\* No answer, or, from a modem that runs, ERROR or a failed write: exit(-1), which ends
\* both threads.
HandshakeFails(t) ==
    /\ pc[t] = "handshake"
    /\ (modem # "run" /\ UNCHANGED faults) \/ (modem = "run" /\ Fault)
    /\ running' = FALSE /\ pc' = [u \in Threads |-> "exited"]
    /\ connected' = FALSE /\ blocked' = FALSE
    /\ wakealarm_fd' = 0 /\ epollfd' = 0 /\ timers' = 0 /\ epolls' = 0
    /\ watches' = [e \in Objects |-> {}] /\ armed' = {} /\ waitsOn' = [u \in Threads |-> 0]
    /\ unset' = FALSE
    /\ UNCHANGED <<modem, image, services, events, enabled, state, rfds, badTty, aborted>>

\* Variant: nobody is signalled.
ReadySilently(t) ==
    /\ pc[t] = "ready" /\ state' = "READY" /\ Resume(t)
    /\ UNCHANGED <<world, running, rfds, alarm, badTty, aborted>>

\* Variant: only an assert is taken back.
ReadyAfterAssert(t) ==
    /\ pc[t] = "ready" /\ state' = IF state = "ASSERT" THEN "READY" ELSE state
    /\ pc' = [u \in Threads |->
                IF u = t THEN IF t = "sipc" THEN "select" ELSE "read"
                ELSE IF pc[u] = "waitReady" THEN "connect" ELSE pc[u]]
    /\ UNCHANGED <<world, running, rfds, alarm, badTty, aborted>>

\* pthread_cond_signal wakes the waiting detect_modem_blocked, which reconnects.
Ready(t) ==
    /\ pc[t] = "ready" /\ state' = "READY"
    /\ pc' = [u \in Threads |->
                IF u = t THEN IF t = "sipc" THEN "select" ELSE "read"
                ELSE IF pc[u] = "waitReady" THEN "connect" ELSE pc[u]]
    /\ UNCHANGED <<world, running, rfds, alarm, badTty, aborted>>

\* pthread_cond_wait returns without a signal; the state is not looked at again.
SpuriousWakeup ==
    /\ pc["phs"] = "waitReady" /\ Goto("phs", "connect")
    /\ UNCHANGED <<world, running, state, rfds, alarm, badTty, aborted>>

Load(t) ==
    \/ StopModem(t) \/ LoadBegin(t) \/ LoadEnd(t) \/ StopServices(t) \/ StartModem(t)
    \/ CheckTimer(t) \/ NewTimer(t) \/ TestTimer(t) \/ CheckEpoll(t) \/ NewEpoll(t)
    \/ Register(t) \/ Arm(t) \/ WaitForTimer(t) \/ AnnounceAlive(t) \/ StartServices(t) \/ Ready(t)

Next ==
    \/ ModemFails \/ ReportBlocked \/ FalseReport \/ Restart
    \/ SipcEvent \/ Connect \/ PhsReport \/ PhsEof \/ SpuriousWakeup
    \/ \E t \in Threads : Load(t) \/ LoadRefused(t) \/ NoTty(t) \/ HandshakeFails(t)

Spec == Init /\ [][Next]_vars

(***************************************************************************)
(* The threads run; the phoneserver reports a modem that does not answer.  *)
(* Nothing is assumed of the modem, of I/O errors or of init.              *)
(***************************************************************************)
FairSpec ==
    /\ Spec /\ WF_vars(SipcEvent) /\ WF_vars(Connect \/ PhsReport \/ PhsEof)
    /\ WF_vars(ReportBlocked) /\ \A t \in Threads : WF_vars(Load(t))

-----------------------------------------------------------------------------
\* The threads, descriptors and device states are in range; a thread that makes a timer
\* makes no more than one for each failure, beside the two of the race.
TypeOK ==
    /\ modem \in {"run", "dead", "stopped"} /\ image \in {"good", "bad"}
    /\ services \in BOOLEAN /\ events \subseteq Events /\ blocked \in BOOLEAN
    /\ connected \in BOOLEAN /\ faults \in 0..MaxFaults /\ enabled \in BOOLEAN
    /\ running \in BOOLEAN /\ state \in {"READY", "ASSERT", "RESET"}
    /\ rfds \subseteq {"assert", "watchdog"}
    /\ pc \in [Threads -> LoadSteps \cup {"select", "connect", "read", "waitReady", "exited"}]
    /\ wakealarm_fd \in 0..timers /\ epollfd \in 0..epolls
    /\ timers \in 0..faults + 2 /\ epolls \in 0..faults + 2
    /\ watches \in [Objects -> SUBSET Objects] /\ armed \subseteq Objects
    /\ waitsOn \in [Threads -> {0} \cup Objects]
    /\ badTty \in BOOLEAN /\ aborted \in BOOLEAN /\ unset \in BOOLEAN

(***************************************************************************)
(* Once no thread reloads the modem, READY means that the modem has been   *)
(* started and its services run, although two reloads may have overlapped  *)
(* in any way.  Exceptions: start_service could not open the tty, or a     *)
(* load_sipc_modem_img gave up and no reload has reached the modem since.  *)
(***************************************************************************)
ReadyIsRunning ==
    running /\ state = "READY" /\ (\A t \in Threads : ~Loading(t)) =>
        (modem # "stopped" /\ services) \/ badTty \/ aborted

(***************************************************************************)
(* A modem that is not READY, whose reports detect_modem_blocked therefore *)
(* ignores, is being reloaded, unless reloads are switched off or          *)
(* load_sipc_modem_img gave up, which leaves the state as it was.          *)
(***************************************************************************)
NotReadyIsHandled ==
    running /\ state # "READY" => (\E t \in Threads : Loading(t)) \/ ~enabled \/ aborted

(***************************************************************************)
(* A wait for 20 s that nothing ends has one of three causes.  epoll_ctl   *)
(* or timerfd_settime failed; or the other thread has still to register or *)
(* to set the timer; or both threads created a timer, and the one that the *)
(* epoll object watches was replaced in wakealarm_fd before anyone set it: *)
(* the test and the assignment of wakealarm_fd have no lock.  The same     *)
(* race for epollfd, a failing epoll_create and two reloads that only      *)
(* overlap leave no wait without a timer.                                  *)
(***************************************************************************)
WaitIsTimed ==
    \A t \in Threads : Untimed(t) =>
        \/ unset
        \/ \E u \in Threads \ {t} : pc[u] \in {"register", "arm"}
        \/ watches[waitsOn[t]] # {} /\ wakealarm_fd \notin watches[waitsOn[t]]

\* What keeps a reload from ending: see HandshakeFails, NoTty, GiveUp and WaitIsTimed.
Stuck ==
    \/ ~running \/ badTty \/ aborted
    \/ \E t \in Threads : Untimed(t) \/ (pc[t] = "handshake" /\ modem # "run")

(***************************************************************************)
(* A modem that fails is reloaded and its services run again: also if it   *)
(* raised no event, if its event came on a device that is no longer        *)
(* watched, or during a reload by the other thread.                        *)
(***************************************************************************)
Recovers ==
    (running /\ enabled /\ modem # "run") ~>
        ((modem = "run" /\ state = "READY" /\ services) \/ Stuck)
=============================================================================
