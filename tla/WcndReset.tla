------------------------------ MODULE WcndReset ------------------------------
(***************************************************************************)
(* Detection and recovery of a crashed connectivity processor (CP2) by     *)
(* src/apps/wcnd/wcnd.c.  Three threads share is_cp2_error and doing_reset *)
(* without a lock:                                                         *)
(*   "watch"  cp2_listen_thread: the assert and watchdog devices;          *)
(*   "check"  cp2_loop_check_thread: the periodic loop test;               *)
(*   client_listen_thread: runs a "wcn reset" command of a client to its   *)
(*            end, inside do_cp2_reset_process.                            *)
(* A detecting thread only notifies the clients; the reset is done when    *)
(* one of them (WcnManagerService) answers with the command.  Delays       *)
(* (usleep, sleep) are the time between two steps.                         *)
(***************************************************************************)
EXTENDS Naturals

CONSTANTS
    MaxFaults,      \* bound: crashes, unsolicited commands and client restarts
    MaxCmds,        \* bound: reset commands the client socket holds
    RESET_FAIL_RETRY_COUNT,
    MAX_LOOP_TEST_COUNT,
    SlogEnabled,    \* the property persist.sys.sprd.wcnlog
    IoFaults        \* may an access to the stop/download/start files fail?

ASSUME BoundsAssumption ==
    /\ MaxFaults \in Nat /\ MaxCmds \in Nat
    /\ RESET_FAIL_RETRY_COUNT \in Nat /\ MAX_LOOP_TEST_COUNT \in Nat
ASSUME OptionsAssumption == SlogEnabled \in BOOLEAN /\ IoFaults \in BOOLEAN

Detectors == {"watch", "check"}
Events    == {"assert", "watchdog"}

VARIABLES
    cp2,        \* "up", "down", "stopped", "loaded" or "booting"
    pending,    \* event devices with something to read
    faults,     \* environment faults so far
    enabled,    \* the property persist.sys.sprd.wcnreset
    is_cp2_error,
    doing_reset,
    result,     \* the property persist.sys.sprd.wcnlog.result is "1"
    dumping,    \* slog is dumping the memory of CP2
    connected,  \* the client is connected
    notified,   \* the client has read an exception it has not answered
    unheard,    \* history: an exception went unanswered because the client was
                \* away or died, and no reset has started since
    cmds,       \* reset commands in the client's socket
    hpc,        \* Detectors -> step of the detecting thread
    ready,      \* cp2_listen_thread: devices select() reported
    lpc,        \* step of the client_listen_thread
    resets,     \* do_cp2_reset_process: reset_count
    polls,      \* reset_cp2: loop_test_count
    is_alive_ok,
    gaveUp      \* the last reset ran out of retries

env  == <<cp2, pending, faults, enabled, dumping, connected>>
client == <<notified, unheard, cmds>>
flags  == <<is_cp2_error, doing_reset, result>>
detect == <<hpc, ready>>
listen == <<lpc, resets, polls, is_alive_ok, gaveUp>>
vars == <<env, client, flags, detect, listen>>

HandlerSteps == {"set", "check", "erase", "notify"}
ListenSteps  == {"idle", "dump", "begin", "stop", "download", "start", "poll",
                 "end", "alive", "clearDoing", "clearError"}

\* memset() of the manager in init(); CP2 is running, or was dead before wcnd started.
Init ==
    /\ cp2 \in {"up", "down"} /\ pending = {} /\ faults = 0
    /\ enabled \in BOOLEAN
    /\ is_cp2_error = FALSE /\ doing_reset = FALSE
    /\ result = FALSE /\ dumping = FALSE
    /\ connected = TRUE /\ notified = FALSE /\ unheard = FALSE /\ cmds = 0
    /\ hpc = [t \in Detectors |-> "idle"] /\ ready = {}
    /\ lpc = "idle" /\ resets = 0 /\ polls = 0
    /\ is_alive_ok = TRUE /\ gaveUp = FALSE

-----------------------------------------------------------------------------
(* External: CP2, the client and slog.                                     *)

\* CP2 dies; it may raise an assert, a watchdog interrupt, both, or nothing.
Crash ==
    /\ cp2 \in {"up", "booting"} /\ faults < MaxFaults
    /\ \E E \in SUBSET Events : pending' = pending \cup E
    /\ cp2' = "down" /\ faults' = faults + 1
    /\ UNCHANGED <<enabled, dumping, connected, client, flags, detect, listen>>

Boot ==
    /\ cp2 = "booting" /\ cp2' = "up"
    /\ UNCHANGED <<pending, faults, enabled, dumping, connected, client, flags,
                   detect, listen>>

\* The client answers an exception with "wcn reset".
ClientReset ==
    /\ notified /\ cmds < MaxCmds
    /\ notified' = FALSE /\ cmds' = cmds + 1
    /\ UNCHANGED <<env, unheard, flags, detect, listen>>

\* A tool sends "wcn reset" of its own accord.
UnsolicitedReset ==
    /\ connected /\ cmds < MaxCmds /\ faults < MaxFaults
    /\ cmds' = cmds + 1 /\ faults' = faults + 1
    /\ UNCHANGED <<cp2, pending, enabled, dumping, connected, notified, unheard,
                   flags, detect, listen>>

\* The client dies with what it had read; what it had sent can still be read.
Disconnect ==
    /\ connected /\ faults < MaxFaults
    /\ connected' = FALSE /\ notified' = FALSE /\ faults' = faults + 1
    /\ unheard' = (unheard \/ notified)
    /\ UNCHANGED <<cp2, pending, enabled, dumping, cmds, flags, detect, listen>>

Reconnect ==
    /\ ~connected /\ connected' = TRUE
    /\ UNCHANGED <<cp2, pending, faults, enabled, dumping, client, flags, detect,
                   listen>>

SlogDone ==
    /\ dumping /\ dumping' = FALSE /\ result' = TRUE
    /\ UNCHANGED <<cp2, pending, faults, enabled, connected, client, is_cp2_error,
                   doing_reset, detect, listen>>

-----------------------------------------------------------------------------
(* The detecting threads.                                                  *)

\* cp2_listen_thread: select() reports the devices that are readable now.
Select ==
    /\ hpc["watch"] = "idle" /\ ready = {} /\ pending # {}
    /\ ready' = pending /\ hpc' = [hpc EXCEPT !["watch"] = "set"]
    /\ UNCHANGED <<env, client, flags, listen>>

\* The first of the reported devices to be handled: assert before watchdog.
Current == IF "assert" \in ready THEN "assert" ELSE "watchdog"

\* cp2_loop_check_thread: no test while an exception is outstanding.
LoopCheck ==
    /\ hpc["check"] = "idle" /\ ~is_cp2_error
    /\ hpc' = [hpc EXCEPT !["check"] = "test"]
    /\ UNCHANGED <<env, client, flags, ready, listen>>

\* The verdict of the loop test is not looked at.
LoopTestIgnored ==
    /\ hpc["check"] = "test" /\ hpc' = [hpc EXCEPT !["check"] = "idle"]
    /\ UNCHANGED <<env, client, flags, ready, listen>>

\* is_cp2_alive_ok: "hi" comes back within 2.5 s, or the handler is entered.
LoopTest ==
    /\ hpc["check"] = "test"
    /\ hpc' = [hpc EXCEPT !["check"] = IF cp2 = "up" THEN "idle" ELSE "set"]
    /\ UNCHANGED <<env, client, flags, ready, listen>>

\* Every handler starts by raising the error flag.
SetError(t) ==
    /\ hpc[t] = "set"
    /\ is_cp2_error' = TRUE /\ hpc' = [hpc EXCEPT ![t] = "check"]
    /\ UNCHANGED <<env, client, doing_reset, result, ready, listen>>

\* The handler returns: the watcher goes on with the other device it was told of.
Return(t) ==
    IF t = "watch"
    THEN /\ ready' = ready \ {Current}
         /\ hpc' = [hpc EXCEPT ![t] = IF ready' = {} THEN "idle" ELSE "set"]
    ELSE /\ hpc' = [hpc EXCEPT ![t] = "idle"] /\ UNCHANGED ready

\* The event is read, then the handler returns if a reset is going on.
CheckDoing(t) ==
    /\ hpc[t] = "check"
    /\ pending' = IF t = "watch" THEN pending \ {Current} ELSE pending
    /\ IF doing_reset THEN Return(t)
       ELSE hpc' = [hpc EXCEPT ![t] = "erase"] /\ UNCHANGED ready
    /\ UNCHANGED <<cp2, faults, enabled, dumping, connected, client, flags, listen>>

\* pre_send_cp2_exception_notify
EraseResult(t) ==
    /\ hpc[t] = "erase"
    /\ result' = FALSE /\ hpc' = [hpc EXCEPT ![t] = "notify"]
    /\ UNCHANGED <<env, client, is_cp2_error, doing_reset, ready, listen>>

\* send_notify_to_client with the exception; slog is told the same way.
NotifyException(t) ==
    /\ hpc[t] = "notify" /\ Return(t)
    /\ notified' = (notified \/ connected)
    /\ unheard' = (unheard \/ ~connected)
    /\ dumping' = SlogEnabled
    /\ UNCHANGED <<cp2, pending, faults, enabled, connected, cmds, flags, listen>>

Handler(t) == SetError(t) \/ CheckDoing(t) \/ EraseResult(t) \/ NotifyException(t)
Watch == Select \/ Handler("watch")
Check == LoopCheck \/ LoopTest \/ Handler("check")

-----------------------------------------------------------------------------
(* client_listen_thread: do_cp2_reset_process.                             *)

\* wcn_runcommand "reset": nothing is done while resets are switched off.
ResetCommand ==
    /\ lpc = "idle" /\ cmds > 0 /\ cmds' = cmds - 1
    /\ IF enabled
       THEN /\ doing_reset' = TRUE /\ is_alive_ok' = TRUE /\ resets' = 0
            /\ gaveUp' = FALSE /\ unheard' = FALSE /\ lpc' = "dump"
       ELSE UNCHANGED <<doing_reset, is_alive_ok, resets, gaveUp, unheard, lpc>>
    /\ UNCHANGED <<env, notified, is_cp2_error, result, detect, polls>>

\* wait_for_dump_logs: until slog reports, or 300 s have passed.
WaitForDump ==
    /\ lpc = "dump" /\ lpc' = "begin"
    /\ UNCHANGED <<env, client, flags, detect, resets, polls, is_alive_ok, gaveUp>>

\* The head of do_cp2reset: give up, or announce the start of the next attempt.
BeginReset ==
    /\ lpc = "begin" /\ resets' = resets + 1
    /\ IF resets > RESET_FAIL_RETRY_COUNT
       THEN doing_reset' = FALSE /\ gaveUp' = TRUE /\ lpc' = "idle"
       ELSE lpc' = "stop" /\ UNCHANGED <<doing_reset, gaveUp>>
    /\ UNCHANGED <<env, client, is_cp2_error, result, detect, polls, is_alive_ok>>

\* The value reset_cp2 returns is not looked at.
ResetFailsUnnoticed == lpc' = "end" /\ UNCHANGED is_alive_ok

\* reset_cp2 returns -1: the result is noted and the attempt ends.
ResetFails == is_alive_ok' = FALSE /\ lpc' = "end"

\* One write to a control file of CP2: it takes effect, or the reset fails.
Control(at, effect, next) ==
    /\ lpc = at
    /\ \/ cp2' = effect /\ lpc' = next /\ UNCHANGED is_alive_ok
       \/ IoFaults /\ ResetFails /\ UNCHANGED cp2
    /\ UNCHANGED <<pending, faults, enabled, dumping, connected, client, flags,
                   detect, resets, gaveUp>>

StopCp2 == Control("stop", "stopped", "download") /\ UNCHANGED polls
DownloadImage == Control("download", "loaded", "start") /\ UNCHANGED polls
StartCp2 == Control("start", "booting", "poll") /\ polls' = 0

\* polling_test: at most MAX_LOOP_TEST_COUNT + 1 loop tests.
PollCp2 ==
    /\ lpc = "poll"
    /\ IF polls > MAX_LOOP_TEST_COUNT THEN ResetFails /\ UNCHANGED polls
       ELSE /\ polls' = polls + 1 /\ UNCHANGED is_alive_ok
            /\ lpc' = IF cp2 = "up" THEN "end" ELSE "poll"
    /\ UNCHANGED <<env, client, flags, detect, resets, gaveUp>>

\* The end is announced; a failed attempt is repeated after a pause.
EndReset ==
    /\ lpc = "end"
    /\ lpc' = IF is_alive_ok THEN "alive" ELSE "begin"
    /\ is_alive_ok' = TRUE
    /\ UNCHANGED <<env, client, flags, detect, resets, polls, gaveUp>>

\* The flags lowered in the other order.
AfterAliveSwapped ==
    [alive |-> "clearError", clearError |-> "clearDoing", clearDoing |-> "idle"]

\* The end of a successful reset: doing_reset is lowered before is_cp2_error.
AfterAlive ==
    [alive |-> "clearDoing", clearDoing |-> "clearError", clearError |-> "idle"]

\* The clients are told that CP2 is alive.
NotifyAlive ==
    /\ lpc = "alive" /\ lpc' = AfterAlive[lpc]
    /\ UNCHANGED <<env, client, flags, detect, resets, polls, is_alive_ok, gaveUp>>

ClearDoing ==
    /\ lpc = "clearDoing" /\ doing_reset' = FALSE /\ lpc' = AfterAlive[lpc]
    /\ UNCHANGED <<env, client, is_cp2_error, result, detect, resets, polls,
                   is_alive_ok, gaveUp>>

ClearError ==
    /\ lpc = "clearError" /\ is_cp2_error' = FALSE /\ lpc' = AfterAlive[lpc]
    /\ UNCHANGED <<env, client, doing_reset, result, detect, resets, polls,
                   is_alive_ok, gaveUp>>

Listen ==
    \/ ResetCommand \/ WaitForDump \/ BeginReset \/ StopCp2 \/ DownloadImage
    \/ StartCp2 \/ PollCp2 \/ EndReset \/ NotifyAlive \/ ClearDoing \/ ClearError

Environment ==
    \/ Crash \/ Boot \/ ClientReset \/ UnsolicitedReset \/ Disconnect \/ Reconnect
    \/ SlogDone

Next == Environment \/ Watch \/ Check \/ Listen

Spec == Init /\ [][Next]_vars

(***************************************************************************)
(* Every thread of wcnd is scheduled; CP2, once started, boots unless it   *)
(* crashes again; the client answers the exceptions it reads and init      *)
(* restarts it when it dies.                                               *)
(***************************************************************************)
FairSpec ==
    /\ Spec
    /\ WF_vars(Watch) /\ WF_vars(Check) /\ WF_vars(Listen)
    /\ WF_vars(Boot) /\ WF_vars(ClientReset) /\ WF_vars(Reconnect)

-----------------------------------------------------------------------------
CountsOK ==
    /\ cp2 \in {"up", "down", "stopped", "loaded", "booting"}
    /\ pending \subseteq Events /\ ready \subseteq Events
    /\ faults \in 0..MaxFaults /\ cmds \in 0..MaxCmds
    /\ hpc \in [Detectors -> {"idle", "test"} \cup HandlerSteps]
    /\ lpc \in ListenSteps
    /\ resets \in 0 .. RESET_FAIL_RETRY_COUNT + 2
    /\ polls \in 0 .. MAX_LOOP_TEST_COUNT + 1

FlagsOK ==
    /\ enabled \in BOOLEAN /\ is_cp2_error \in BOOLEAN /\ doing_reset \in BOOLEAN
    /\ result \in BOOLEAN /\ dumping \in BOOLEAN /\ connected \in BOOLEAN
    /\ notified \in BOOLEAN /\ unheard \in BOOLEAN /\ is_alive_ok \in BOOLEAN /\ gaveUp \in BOOLEAN

(***************************************************************************)
(* The manager's fields and the threads' positions stay in range; resets   *)
(* and polls never exceed what the retry limits of do_cp2_reset_process    *)
(* and reset_cp2 allow.                                                    *)
(***************************************************************************)
TypeOK == CountsOK /\ FlagsOK

(***************************************************************************)
(* Nobody is left waiting: while is_cp2_error is raised, which keeps the   *)
(* loop check off, some thread or the client is still going to act on it,  *)
(* unless the last reset ran out of retries, resets are switched off or    *)
(* the client was away when it was told.                                   *)
(* It rests on do_cp2_reset_process lowering doing_reset before            *)
(* is_cp2_error, and on the handlers raising one before reading the other. *)
(***************************************************************************)
NoSilentError ==
    is_cp2_error =>
        \/ lpc # "idle" \/ notified \/ cmds > 0
        \/ \E t \in Detectors : hpc[t] \in HandlerSteps
        \/ gaveUp \/ ~enabled \/ unheard

(***************************************************************************)
(* WCN-CP2-ALIVE is never announced for a CP2 that a failed or unfinished  *)
(* step of this reset left stopped, without image or still booting: it has *)
(* answered the loop test (and may have crashed since).                    *)
(***************************************************************************)
AliveMeansAnswered == lpc = "alive" => cp2 \in {"up", "down"}

(***************************************************************************)
(* A crash, reported by CP2 or silent, and whatever reset it interrupts,   *)
(* is recovered from: CP2 runs again, a reset has used up its retries, or  *)
(* the client was not there to ask for one.  An event the watcher drops    *)
(* because a reset is going on is made up for by the loop check.           *)
(***************************************************************************)
Recovers == (enabled /\ cp2 = "down") ~> (cp2 = "up" \/ gaveUp \/ unheard)

(***************************************************************************)
(* The loop check thread's "if fail, reset the cp2": a CP2 that stays down *)
(* is reset in the end, even if the exception found no client.             *)
(***************************************************************************)
LoopCheckResets == (enabled /\ cp2 = "down") ~> (cp2 = "up" \/ gaveUp)
=============================================================================
