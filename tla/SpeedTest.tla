------------------------------- MODULE SpeedTest -------------------------------
(* The speed test (src/lib/speedTest.ts) and the panel that starts it            *)
(* (SpeedTestPanel): streams that ask for chunk after chunk until the phase's    *)
(* clock has run out or the run is cancelled, with pauses between the phases.    *)
(*                                                                               *)
(* Rates are left out, and with them the ramp and the readings while a phase     *)
(* runs; what they are taken from, the bytes counted, is here.                   *)
EXTENDS Naturals, FiniteSets, Functions

CONSTANTS
    Streams,                    \* of STREAMS
    MaxRuns, MaxBytes           \* bounds: presses, and bytes a phase moves

VARIABLES
    panel,          \* "closed" or "open"
    current,        \* the run it started last, run.current; 0 is none
    shown,          \* the phase it shows
    phase,          \* where each run is
    aborted,        \* the runs whose signal was aborted
    over,           \* the runs whose phase's clock has run out
    asking,         \* the streams of each run with a request under way
    inFlight,       \* inFlightPerStream
    counted,        \* receivedBytes, or sentPerStream summed
    moved           \* history: the bytes the phase moved over the link

transfer == <<asking, inFlight, counted, moved>>
vars     == <<panel, current, shown, phase, aborted, over, transfer>>

SpeedAssumption == IsFiniteSet(Streams) /\ Streams # {} /\ MaxRuns \in Nat /\ MaxBytes \in Nat

Runs      == 1..MaxRuns
Measuring == {"download", "upload"}
Ended     == {"none", "done", "error", "cancelled"}
Nothing   == [s \in Streams |-> 0]

(* runSpeedTest: what comes after each wait.                                     *)
After(p) == CASE p = "download" -> "hold"       [] p = "hold"    -> "rest"
              [] p = "rest"     -> "upload"     [] p = "upload"  -> "held"
              [] p = "held"     -> "resting"    [] p = "resting" -> "done"

(* progress.phase then.                                                          *)
Told(p) == CASE p = "hold" -> "download" [] p \in {"rest", "held"} -> "upload" [] OTHER -> p

(* report: a cancelled run stops speaking.                                       *)
Report(r, p) == shown' = IF r \in aborted THEN shown ELSE Told(p)

--------------------------------------------------------------------------------
(* startPhase, measureDownload, measureUpload.                                   *)

(* [mutant] A stream goes by the clock alone.                                    *)
ClockRanOut(r, gone) == r \in over

(* shouldStop.                                                                   *)
ShouldStop(r, gone) == r \in over \cup gone

(* runStream, uploadStream: a stream whose request has ended asks again, but for *)
(* a download that was cut, which is an error.                                   *)
GoesOn(r, gone, cut) == ~ShouldStop(r, gone) /\ ~(cut /\ phase[r] = "download")

(* sendChunk: loadend.                                                           *)
Rolled(r, ss) ==
    /\ counted' = [counted EXCEPT ![r] = @ + SumFunctionOnSet(inFlight[r], ss)]
    /\ inFlight' = [inFlight EXCEPT ![r] = [s \in Streams |-> IF s \in ss THEN 0 ELSE @[s]]]

(* These requests end, cut short or by themselves.                               *)
RequestsEnd(r, ss, gone, cut) ==
    /\ Rolled(r, ss)
    /\ asking' = IF GoesOn(r, gone, cut) THEN asking ELSE [asking EXCEPT ![r] = @ \ ss]

(* A read of the body, or a progress event.                                      *)
Move(r, s) ==
    /\ s \in asking[r] /\ moved[r] < MaxBytes
    /\ moved' = [moved EXCEPT ![r] = @ + 1]
    /\ IF phase[r] = "download"
       THEN counted' = [counted EXCEPT ![r] = @ + 1] /\ UNCHANGED inFlight
       ELSE inFlight' = [inFlight EXCEPT ![r][s] = @ + 1] /\ UNCHANGED counted
    /\ UNCHANGED <<panel, current, shown, phase, aborted, over, asking>>

(* A chunk is through, or fails; a failure ends the stream of a download.        *)
RequestEnds(r, s) ==
    /\ s \in asking[r]
    /\ \E failed \in BOOLEAN : RequestsEnd(r, {s}, aborted, failed)
    /\ UNCHANGED <<panel, current, shown, phase, aborted, over, moved>>

(* PHASE_MS.                                                                     *)
ClockRunsOut(r) ==
    /\ phase[r] \in Measuring /\ r \notin over /\ over' = over \cup {r}
    /\ UNCHANGED <<panel, current, shown, phase, aborted, transfer>>

(* stopWatcher.                                                                  *)
StopWatcher(r) ==
    /\ asking[r] # {} /\ ShouldStop(r, aborted) /\ RequestsEnd(r, asking[r], aborted, TRUE)
    /\ UNCHANGED <<panel, current, shown, phase, aborted, over, moved>>

(* Promise.all, finish, and the return or the throw.                             *)
PhaseEnds(r) ==
    /\ phase[r] \in Measuring /\ asking[r] = {}
    /\ LET next == IF r \in aborted THEN "cancelled" ELSE IF counted[r] = 0 THEN "error" ELSE After(phase[r])
       IN  phase' = [phase EXCEPT ![r] = next] /\ Report(r, next)
    /\ UNCHANGED <<panel, current, aborted, over, transfer>>

(* delay, and the phase it leads to: every stream makes its first request.       *)
DelayEnds(r) ==
    /\ phase[r] \in {"hold", "rest", "held", "resting"}
    /\ phase' = [phase EXCEPT ![r] = After(@)] /\ Report(r, After(phase[r]))
    /\ IF After(phase[r]) \in Measuring
       THEN /\ over' = over \ {r} /\ asking' = [asking EXCEPT ![r] = Streams]
            /\ counted' = [counted EXCEPT ![r] = 0] /\ moved' = [moved EXCEPT ![r] = 0]
            /\ UNCHANGED inFlight
       ELSE UNCHANGED <<over, transfer>>
    /\ UNCHANGED <<panel, current, aborted>>

--------------------------------------------------------------------------------
(* SpeedTestPanel.                                                               *)

(* The run's signal: the transfers are cut, a delay is rejected.                 *)
Cancelled(r) ==
    /\ aborted' = aborted \cup {r}
    /\ RequestsEnd(r, asking[r], aborted \cup {r}, TRUE)
    /\ UNCHANGED <<over, moved>>

PhaseOnceCancelled(r) == IF phase[r] \in Measuring \cup Ended THEN phase[r] ELSE "cancelled"

OpenPanel ==
    /\ panel = "closed" /\ panel' = "open" /\ current' = 0 /\ shown' = "idle"
    /\ UNCHANGED <<phase, aborted, over, transfer>>

ClosePanel ==
    /\ panel = "open" /\ panel' = "closed"
    /\ IF current = 0 THEN UNCHANGED <<phase, aborted, over, transfer>>
       ELSE Cancelled(current) /\ phase' = [phase EXCEPT ![current] = PhaseOnceCancelled(current)]
    /\ UNCHANGED <<current, shown>>

(* The button, which stands still while a run does not.                          *)
Press ==
    /\ panel = "open" /\ shown \in {"idle", "done", "error"}
    /\ \E r \in Runs : /\ phase[r] = "none" /\ \A q \in 1..(r - 1) : phase[q] # "none"
                       /\ current' = r /\ shown' = "download"
                       /\ phase' = [phase EXCEPT ![r] = "download"]
                       /\ asking' = [asking EXCEPT ![r] = Streams]
    /\ aborted' = aborted \cup ({current} \ {0})
    /\ UNCHANGED <<panel, over, inFlight, counted, moved>>

(* What a run does of itself.                                                   *)
Proceeds(r) == ClockRunsOut(r) \/ StopWatcher(r) \/ PhaseEnds(r) \/ DelayEnds(r)

Init ==
    /\ panel = "closed" /\ current = 0 /\ shown = "idle"
    /\ phase = [r \in Runs |-> "none"] /\ aborted = {} /\ over = {}
    /\ asking = [r \in Runs |-> {}] /\ inFlight = [r \in Runs |-> Nothing]
    /\ counted = [r \in Runs |-> 0] /\ moved = [r \in Runs |-> 0]

Next ==
    \/ OpenPanel \/ ClosePanel \/ Press
    \/ \E r \in Runs : \/ \E s \in Streams : Move(r, s) \/ RequestEnds(r, s)
                       \/ Proceeds(r)

(* The page's timers fire, and a promise that has settled is gone on with.       *)
Fairness == \A r \in Runs : WF_vars(Proceeds(r))

Spec == Init /\ [][Next]_vars /\ Fairness

--------------------------------------------------------------------------------
Loading(r) == asking[r] # {}

(* Only the run of the panel that is open loads the link, and it is the one the  *)
(* panel shows (runSpeedTest, the signal).                                       *)
NothingOutlivesItsPanel ==
    /\ \A r \in Runs : Loading(r) => panel = "open" /\ current = r /\ r \notin aborted
    /\ panel = "open" => shown = IF current = 0 THEN "idle" ELSE Told(phase[current])

(* Every byte a phase moved is counted once, over chunks that end, fail or are   *)
(* cut (sentPerStream, inFlightPerStream).                                       *)
EveryByteOnce ==
    \A r \in Runs : phase[r] \in Measuring => counted[r] + SumFunction(inFlight[r]) = moved[r]

(* The panel's run comes to its end, though its requests hang (stopWatcher).     *)
Running      == current # 0 /\ phase[current] \notin Ended
EveryRunEnds == Running ~> ~Running
================================================================================
