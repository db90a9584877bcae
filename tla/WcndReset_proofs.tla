--------------------------- MODULE WcndReset_proofs ---------------------------
(***************************************************************************)
(* WcndReset for any number of faults, queued commands, retries and loop   *)
(* tests.                                                                  *)
(***************************************************************************)
EXTENDS WcndReset, TLAPS

ListenerActions ==
    ListenSteps \ {"idle", "dump", "alive", "clearDoing", "clearError"}

\* What the position of client_listen_thread says about the rest of the state.
Position ==
    /\ doing_reset => lpc \notin {"idle", "clearError"}
    /\ lpc \in ListenerActions => resets <= RESET_FAIL_RETRY_COUNT + 1
    /\ lpc = "dump" => resets = 0
    /\ (lpc = "alive" \/ (lpc = "end" /\ is_alive_ok)) => cp2 \in {"up", "down"}

Inv == TypeOK /\ Position

\* The memset() of init() establishes the invariant.
LEMMA InvInitial == Init => Inv
<1>1. Init => CountsOK
  BY BoundsAssumption DEF Init, CountsOK, Detectors, ListenSteps
<1>2. Init => FlagsOK
  BY DEF Init, FlagsOK
<1>3. Init => Position
  BY BoundsAssumption DEF Init, Position, ListenSteps, ListenerActions
<1> QED
  BY <1>1, <1>2, <1>3 DEF Inv, TypeOK

\* A step of CP2, the client or slog.
LEMMA InvEnvironment == Inv /\ Environment => Inv'
<1> SUFFICES ASSUME Inv, Environment PROVE Inv'
  OBVIOUS
<1> USE BoundsAssumption, OptionsAssumption
        DEF Inv, TypeOK, CountsOK, FlagsOK, Position, env, client, flags, detect, listen
<1>1. CASE Crash
  BY <1>1 DEF Crash
<1>2. CASE Boot
  BY <1>2 DEF Boot
<1>3. CASE ClientReset
  <2>1. CountsOK'
    BY <1>3 DEF ClientReset
  <2>2. FlagsOK'
    BY <1>3 DEF ClientReset
  <2>3. Position'
    BY <1>3 DEF ClientReset
  <2> QED
    BY <2>1, <2>2, <2>3
<1>4. CASE UnsolicitedReset
  BY <1>4 DEF UnsolicitedReset
<1>5. CASE Disconnect
  <2>1. CountsOK'
    BY <1>5 DEF Disconnect
  <2>2. FlagsOK'
    BY <1>5 DEF Disconnect
  <2>3. Position'
    BY <1>5 DEF Disconnect
  <2> QED
    BY <2>1, <2>2, <2>3
<1>6. CASE Reconnect
  BY <1>6 DEF Reconnect
<1>7. CASE SlogDone
  <2>1. CountsOK'
    BY <1>7 DEF SlogDone
  <2>2. FlagsOK'
    BY <1>7 DEF SlogDone
  <2>3. Position'
    BY <1>7 DEF SlogDone
  <2> QED
    BY <2>1, <2>2, <2>3
<1> QED
  BY <1>1, <1>2, <1>3, <1>4, <1>5, <1>6, <1>7 DEF Environment

\* A handler that returns stays in range.
LEMMA ReturnType ==
    ASSUME TypeOK, NEW t \in Detectors, Return(t)
    PROVE  /\ ready' \subseteq Events
           /\ hpc' \in [Detectors -> {"idle", "test"} \cup HandlerSteps]
  BY DEF TypeOK, CountsOK, Return, HandlerSteps

\* A step of a handler.
LEMMA InvHandler == ASSUME Inv, NEW t \in Detectors, Handler(t) PROVE Inv'
<1> USE BoundsAssumption, OptionsAssumption
        DEF Inv, TypeOK, CountsOK, FlagsOK, Position, env, client, flags, listen
<1>1. CASE SetError(t)
  BY <1>1 DEF SetError, HandlerSteps
<1>2. CASE CheckDoing(t)
  <2>1. CASE doing_reset
    BY <1>2, <2>1, ReturnType DEF CheckDoing
  <2>2. CASE ~doing_reset
    BY <1>2, <2>2 DEF CheckDoing, HandlerSteps
  <2> QED
    BY <2>1, <2>2
<1>3. CASE EraseResult(t)
  <2>1. CountsOK'
    BY <1>3 DEF EraseResult, HandlerSteps
  <2>2. FlagsOK'
    BY <1>3 DEF EraseResult, HandlerSteps
  <2>3. Position'
    BY <1>3 DEF EraseResult, HandlerSteps
  <2> QED
    BY <2>1, <2>2, <2>3
<1>4. CASE NotifyException(t)
  BY <1>4, ReturnType DEF NotifyException
<1> QED
  BY <1>1, <1>2, <1>3, <1>4 DEF Handler

\* A step of one of the detecting threads.
LEMMA InvDetect == Inv /\ (Watch \/ Check) => Inv'
<1> SUFFICES ASSUME Inv, Watch \/ Check PROVE Inv'
  OBVIOUS
<1>1. CASE Select
  BY <1>1 DEF Select, Inv, TypeOK, CountsOK, FlagsOK, Position, env, client, flags, listen, Detectors,
     HandlerSteps
<1>2. CASE LoopCheck
  BY <1>2 DEF LoopCheck, Inv, TypeOK, CountsOK, FlagsOK, Position, env, client, flags, listen, Detectors
<1>3. CASE LoopTest
  BY <1>3 DEF LoopTest, Inv, TypeOK, CountsOK, FlagsOK, Position, env, client, flags, listen, Detectors,
     HandlerSteps
<1>4. CASE \E t \in Detectors : Handler(t)
  BY <1>4, InvHandler
<1> QED
  BY <1>1, <1>2, <1>3, <1>4 DEF Watch, Check, Detectors

\* A step of the client_listen_thread.
LEMMA InvListen == Inv /\ Listen => Inv'
<1> SUFFICES ASSUME Inv, Listen PROVE Inv'
  OBVIOUS
<1> USE BoundsAssumption, OptionsAssumption
        DEF Inv, TypeOK, CountsOK, FlagsOK, Position, env, client, flags, detect, ListenSteps,
            ListenerActions
<1>1. CASE ResetCommand
  <2>1. CASE enabled
    <3>1. CountsOK'
      BY <1>1, <2>1 DEF ResetCommand
    <3>2. FlagsOK'
      BY <1>1, <2>1 DEF ResetCommand
    <3>3. Position'
      BY <1>1, <2>1 DEF ResetCommand
    <3> QED
      BY <3>1, <3>2, <3>3
  <2>2. CASE ~enabled
    BY <1>1, <2>2 DEF ResetCommand
  <2> QED
    BY <2>1, <2>2
<1>2. CASE WaitForDump
  BY <1>2 DEF WaitForDump
<1>3. CASE BeginReset
  <2>1. CountsOK'
    BY <1>3 DEF BeginReset
  <2>2. FlagsOK'
    BY <1>3 DEF BeginReset
  <2>3. Position'
    BY <1>3 DEF BeginReset
  <2> QED
    BY <2>1, <2>2, <2>3
<1>4. CASE StopCp2
  <2>1. CountsOK'
    BY <1>4 DEF StopCp2, Control, ResetFails
  <2>2. FlagsOK'
    <3>1. is_alive_ok' = is_alive_ok \/ is_alive_ok' = FALSE
      BY <1>4 DEF StopCp2, Control, ResetFails
    <3>2. UNCHANGED <<enabled, is_cp2_error, doing_reset, result, dumping, connected,
                      notified, unheard, gaveUp>>
      BY <1>4 DEF StopCp2, Control
    <3> QED
      BY <3>1, <3>2, Zenon
  <2>3. Position'
    BY <1>4 DEF StopCp2, Control, ResetFails
  <2> QED
    BY <2>1, <2>2, <2>3
<1>5. CASE DownloadImage
  <2>1. CountsOK'
    BY <1>5 DEF DownloadImage, Control, ResetFails
  <2>2. FlagsOK'
    <3>1. is_alive_ok' = is_alive_ok \/ is_alive_ok' = FALSE
      BY <1>5 DEF DownloadImage, Control, ResetFails
    <3>2. UNCHANGED <<enabled, is_cp2_error, doing_reset, result, dumping, connected,
                      notified, unheard, gaveUp>>
      BY <1>5 DEF DownloadImage, Control
    <3> QED
      BY <3>1, <3>2, Zenon
  <2>3. Position'
    BY <1>5 DEF DownloadImage, Control, ResetFails
  <2> QED
    BY <2>1, <2>2, <2>3
<1>6. CASE StartCp2
  <2>1. CountsOK'
    BY <1>6 DEF StartCp2, Control, ResetFails
  <2>2. FlagsOK'
    <3>1. is_alive_ok' = is_alive_ok \/ is_alive_ok' = FALSE
      BY <1>6 DEF StartCp2, Control, ResetFails
    <3>2. UNCHANGED <<enabled, is_cp2_error, doing_reset, result, dumping, connected,
                      notified, unheard, gaveUp>>
      BY <1>6 DEF StartCp2, Control
    <3> QED
      BY <3>1, <3>2, Zenon
  <2>3. Position'
    BY <1>6 DEF StartCp2, Control, ResetFails
  <2> QED
    BY <2>1, <2>2, <2>3
<1>7. CASE PollCp2
  <2>1. CountsOK'
    BY <1>7 DEF PollCp2, ResetFails
  <2>2. FlagsOK'
    BY <1>7 DEF PollCp2, ResetFails
  <2>3. Position'
    BY <1>7 DEF PollCp2, ResetFails
  <2> QED
    BY <2>1, <2>2, <2>3
<1>8. CASE EndReset
  <2>1. CountsOK'
    BY <1>8 DEF EndReset
  <2>2. FlagsOK'
    BY <1>8 DEF EndReset
  <2>3. Position'
    BY <1>8 DEF EndReset
  <2> QED
    BY <2>1, <2>2, <2>3
<1>9. CASE NotifyAlive
  <2>1. CountsOK'
    BY <1>9 DEF NotifyAlive, AfterAlive
  <2>2. FlagsOK'
    BY <1>9 DEF NotifyAlive, AfterAlive
  <2>3. Position'
    BY <1>9 DEF NotifyAlive, AfterAlive
  <2> QED
    BY <2>1, <2>2, <2>3
<1>10. CASE ClearDoing
  <2>1. CountsOK'
    BY <1>10 DEF ClearDoing, AfterAlive
  <2>2. FlagsOK'
    BY <1>10 DEF ClearDoing, AfterAlive
  <2>3. Position'
    BY <1>10 DEF ClearDoing, AfterAlive
  <2> QED
    BY <2>1, <2>2, <2>3
<1>11. CASE ClearError
  <2>1. CountsOK'
    BY <1>11 DEF ClearError, AfterAlive
  <2>2. FlagsOK'
    BY <1>11 DEF ClearError, AfterAlive
  <2>3. Position'
    BY <1>11 DEF ClearError, AfterAlive
  <2> QED
    BY <2>1, <2>2, <2>3
<1> QED
  BY <1>1, <1>2, <1>3, <1>4, <1>5, <1>6, <1>7, <1>8, <1>9, <1>10, <1>11 DEF Listen

\* Inv is inductive.
LEMMA InvStep == Inv /\ [Next]_vars => Inv'
<1>1. Inv /\ UNCHANGED vars => Inv'
  BY DEF Inv, TypeOK, CountsOK, FlagsOK, Position, vars, env, client, flags, detect, listen
<1> QED
  BY <1>1, InvEnvironment, InvDetect, InvListen DEF Next

(***************************************************************************)
(* The type invariant, and with it the bounds on the retry counters.       *)
(***************************************************************************)
THEOREM TypeCorrect == Spec => []TypeOK
<1>1. Inv => TypeOK
  BY DEF Inv
<1> QED
  BY <1>1, InvInitial, InvStep, PTL DEF Spec

(***************************************************************************)
(* Whatever fails during the attempts, WCN-CP2-ALIVE is only announced     *)
(* for a CP2 that has answered.                                            *)
(***************************************************************************)
THEOREM AliveIsTrue == Spec => []AliveMeansAnswered
<1>1. Inv => AliveMeansAnswered
  BY DEF Inv, Position, AliveMeansAnswered
<1> QED
  BY <1>1, InvInitial, InvStep, PTL DEF Spec

-----------------------------------------------------------------------------
\* A step of CP2, the client or slog leaves no raised error unattended.
LEMMA AnsweredEnvironment ==
    ASSUME Inv, NoSilentError, Environment PROVE NoSilentError'
<1> USE BoundsAssumption
        DEF Inv, TypeOK, CountsOK, FlagsOK, NoSilentError, env, client, flags, detect, listen
<1>1. CASE Crash
  BY <1>1 DEF Crash
<1>2. CASE Boot
  BY <1>2 DEF Boot
<1>3. CASE ClientReset
  BY <1>3 DEF ClientReset
<1>4. CASE UnsolicitedReset
  BY <1>4 DEF UnsolicitedReset
<1>5. CASE Disconnect
  BY <1>5 DEF Disconnect
<1>6. CASE Reconnect
  BY <1>6 DEF Reconnect
<1>7. CASE SlogDone
  BY <1>7 DEF SlogDone
<1> QED
  BY <1>1, <1>2, <1>3, <1>4, <1>5, <1>6, <1>7 DEF Environment

(***************************************************************************)
(* The detecting threads: a handler drops its event only while doing_reset *)
(* is set, when the listener has not yet lowered is_cp2_error (Position).  *)
(***************************************************************************)
LEMMA AnsweredDetect ==
    ASSUME Inv, NoSilentError, Watch \/ Check PROVE NoSilentError'
<1> USE DEF Inv, TypeOK, CountsOK, FlagsOK, Position, NoSilentError, env, client, flags, listen
<1>1. CASE Select
  BY <1>1 DEF Select, Detectors, HandlerSteps
<1>2. CASE LoopCheck
  BY <1>2 DEF LoopCheck, Detectors
<1>3. CASE LoopTest
  BY <1>3 DEF LoopTest, Detectors, HandlerSteps
<1>4. ASSUME NEW t \in Detectors, SetError(t) PROVE NoSilentError'
  BY <1>4 DEF SetError, HandlerSteps
<1>5. ASSUME NEW t \in Detectors, CheckDoing(t) PROVE NoSilentError'
  BY <1>5 DEF CheckDoing, HandlerSteps
<1>6. ASSUME NEW t \in Detectors, EraseResult(t) PROVE NoSilentError'
  BY <1>6 DEF EraseResult, HandlerSteps
<1>7. ASSUME NEW t \in Detectors, NotifyException(t) PROVE NoSilentError'
  BY <1>7 DEF NotifyException
<1> QED
  BY <1>1, <1>2, <1>3, <1>4, <1>5, <1>6, <1>7 DEF Watch, Check, Handler, Detectors

\* Neither does a step of the client_listen_thread.
LEMMA AnsweredListen == ASSUME Inv, NoSilentError, Listen PROVE NoSilentError'
<1> USE BoundsAssumption DEF Inv, TypeOK, CountsOK, FlagsOK, NoSilentError, env, client, flags, detect
<1>1. CASE ResetCommand
  BY <1>1 DEF ResetCommand
<1>2. CASE WaitForDump
  BY <1>2 DEF WaitForDump
<1>3. CASE BeginReset
  BY <1>3 DEF BeginReset
<1>4. CASE StopCp2
  BY <1>4 DEF StopCp2, Control, ResetFails
<1>5. CASE DownloadImage
  BY <1>5 DEF DownloadImage, Control, ResetFails
<1>6. CASE StartCp2
  BY <1>6 DEF StartCp2, Control, ResetFails
<1>7. CASE PollCp2
  BY <1>7 DEF PollCp2, ResetFails
<1>8. CASE EndReset
  BY <1>8 DEF EndReset
<1>9. CASE NotifyAlive
  BY <1>9 DEF NotifyAlive, AfterAlive
<1>10. CASE ClearDoing
  BY <1>10 DEF ClearDoing, AfterAlive
<1>11. CASE ClearError
  BY <1>11 DEF ClearError, AfterAlive
<1> QED
  BY <1>1, <1>2, <1>3, <1>4, <1>5, <1>6, <1>7, <1>8, <1>9, <1>10, <1>11 DEF Listen

(***************************************************************************)
(* A raised error flag is always being acted on, in every interleaving of  *)
(* the three threads.                                                      *)
(***************************************************************************)
THEOREM ErrorsAreAnswered == Spec => []NoSilentError
<1>1. Init => NoSilentError
  BY DEF Init, NoSilentError
<1>2. Inv /\ NoSilentError /\ UNCHANGED vars => NoSilentError'
  BY DEF NoSilentError, vars, env, client, flags, detect, listen
<1>3. Inv /\ NoSilentError /\ [Next]_vars => NoSilentError'
  BY <1>2, AnsweredEnvironment, AnsweredDetect, AnsweredListen DEF Next
<1> QED
  BY <1>1, <1>3, InvInitial, InvStep, PTL DEF Spec
=============================================================================
