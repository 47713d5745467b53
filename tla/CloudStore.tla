------------------------------- MODULE CloudStore ------------------------------
(* One shared answer of the account, as every surface of the dashboard reads it: *)
(* createCloudStore and its hooks, in src/hooks/useCloudAccount.ts.              *)
(*                                                                               *)
(* The host's session is known by its era, which connecting, replacing and       *)
(* disconnecting move on.  The page hears of it a while later.                   *)
EXTENDS Naturals

CONSTANTS
    Watchers,           \* components that read the store
    None,
    MaxEras,            \* bound: how often the session changes
    MaxReloads          \* bound: how often a reader asks for a fresh answer

VARIABLES
    snapshot,           \* [status, data]: data is the era it was answered in, or None
    loaded,
    flight,             \* the request `token` stands for: None, Out, or its answer
    late,               \* those an invalidate or a newer one abandoned, likewise
    retry,              \* a retry is due (retryTimer)
    watcher,            \* watcher[v]: "off", or mounted "idle" or "active"
    era, connected,     \* the host's session
    noted,              \* the era the page last heard of
    reached,            \* the era the last answer written came from
    reloads

vars == <<snapshot, loaded, flight, late, retry, watcher, era, connected, noted, reached,
          reloads>>

Answers == [kind : {"data", "missing", "fault"}, era : 0 .. MaxEras]
Out     == [kind |-> "out", era |-> 0]

StoreAssumption ==
    /\ MaxEras \in Nat /\ MaxReloads \in Nat
    /\ None \notin 0 .. MaxEras /\ None \notin Answers

Watched == \E v \in Watchers : watcher[v] # "off"

Shows(status, data) == snapshot' = [status |-> status, data |-> data]

(* load: the request before it, if one is out, is abandoned.  What was shown     *)
(* stays on screen while a refresh is out.                                       *)
Abandoned == late' = IF flight = None THEN late ELSE late \cup {flight}
Load ==
    /\ flight' = Out /\ Abandoned
    /\ IF snapshot.status = "ready" THEN UNCHANGED snapshot
       ELSE Shows("loading", snapshot.data)

(* [mutant] What is out is left to land after the session it was asked under.    *)
InvalidateKeepingFlight ==
    /\ loaded' = FALSE /\ retry' = FALSE
    /\ IF flight # None THEN UNCHANGED <<snapshot, flight, late>>
       ELSE IF Watched THEN Load
       ELSE Shows("loading", None) /\ UNCHANGED <<flight, late>>

Invalidate ==
    /\ loaded' = FALSE /\ retry' = FALSE
    /\ IF Watched THEN Load
       ELSE Shows("loading", None) /\ flight' = None /\ Abandoned

(* ensure, once its component is active.                                         *)
Ensure ==
    IF loaded \/ flight # None THEN UNCHANGED <<snapshot, flight, late>> ELSE Load

--------------------------------------------------------------------------------
(* The components (useCloudStore, useCloudRouterSubnet).                         *)

(* subscribe, over a failed read.                                                *)
Subscribed == retry \/ (snapshot.status = "error" /\ flight = None)

Mount(v) ==
    /\ watcher[v] = "off"
    /\ watcher' = [watcher EXCEPT ![v] = "idle"]
    /\ retry' = Subscribed
    /\ UNCHANGED <<snapshot, loaded, flight, late, era, connected, noted, reached, reloads>>

Activate(v) ==
    /\ watcher[v] = "idle"
    /\ watcher' = [watcher EXCEPT ![v] = "active"]
    /\ Ensure
    /\ retry' = (retry /\ (loaded \/ flight # None))
    /\ UNCHANGED <<loaded, era, connected, noted, reached, reloads>>

Unmount(v) ==
    /\ watcher[v] # "off"
    /\ watcher' = [watcher EXCEPT ![v] = "off"]
    /\ retry' = (retry /\ \E u \in Watchers \ {v} : watcher[u] # "off")
    /\ UNCHANGED <<snapshot, loaded, flight, late, era, connected, noted, reached, reloads>>

Reload(v) ==
    /\ watcher[v] = "active"
    /\ reloads < MaxReloads /\ reloads' = reloads + 1
    /\ loaded' = FALSE /\ retry' = FALSE
    /\ Load
    /\ UNCHANGED <<watcher, era, connected, noted, reached>>

--------------------------------------------------------------------------------
(* The requests.                                                                 *)

(* The host answers under the session of that moment, or the way to it fails.    *)
Said(kind) == [kind |-> kind, era |-> era]
TheAnswer  == Said(IF connected THEN "data" ELSE "missing")

Answer ==
    /\ flight = Out /\ flight' = TheAnswer
    /\ UNCHANGED <<snapshot, loaded, late, retry, watcher, era, connected, noted, reached, reloads>>

Fault ==
    /\ flight = Out /\ flight' = Said("fault")
    /\ UNCHANGED <<snapshot, loaded, late, retry, watcher, era, connected, noted, reached, reloads>>

AnswerLate ==
    /\ Out \in late
    /\ \E answer \in {TheAnswer, Said("fault")} : late' = (late \ {Out}) \cup {answer}
    /\ UNCHANGED <<snapshot, loaded, flight, retry, watcher, era, connected, noted, reached, reloads>>

(* scheduleRetry, of a transport failure alone.                                  *)
Retried(answer) == answer.kind = "fault" /\ Watched

(* then and catch of load, for the newest request.                               *)
Land ==
    /\ flight \in Answers
    /\ flight' = None
    /\ loaded' = (flight.kind # "fault")
    /\ retry' = Retried(flight)
    /\ CASE flight.kind = "data"    -> Shows("ready", flight.era)
         [] flight.kind = "missing" -> Shows("not-connected", None)
         [] OTHER                   -> Shows("error", snapshot.data)
    /\ reached' = IF flight.kind = "fault" THEN reached ELSE flight.era
    /\ UNCHANGED <<late, watcher, era, connected, noted, reloads>>

(* An abandoned one lands on nothing.                                            *)
LandLate ==
    /\ \E answer \in late \cap Answers : late' = late \ {answer}
    /\ UNCHANGED <<snapshot, loaded, flight, retry, watcher, era, connected, noted, reached, reloads>>

RetryFires ==
    /\ retry /\ retry' = FALSE
    /\ IF Watched THEN Load ELSE UNCHANGED <<snapshot, flight, late>>
    /\ UNCHANGED <<loaded, watcher, era, connected, noted, reached, reloads>>

--------------------------------------------------------------------------------
(* The session changes in the host, and is announced in the page afterwards      *)
(* (noteCloudSessionChanged).                                                    *)
SessionChanges ==
    /\ era < MaxEras /\ era' = era + 1
    /\ connected' \in BOOLEAN
    /\ UNCHANGED <<snapshot, loaded, flight, late, retry, watcher, noted, reached, reloads>>

Announced ==
    /\ noted < era /\ noted' = era
    /\ Invalidate
    /\ UNCHANGED <<watcher, era, connected, reached, reloads>>

Init ==
    /\ snapshot = [status |-> "loading", data |-> None]
    /\ loaded = FALSE /\ flight = None /\ late = {} /\ retry = FALSE
    /\ watcher = [v \in Watchers |-> "off"]
    /\ era = 0 /\ connected \in BOOLEAN /\ noted = 0 /\ reached = 0 /\ reloads = 0

Next ==
    \/ \E v \in Watchers : Mount(v) \/ Activate(v) \/ Unmount(v) \/ Reload(v)
    \/ Answer \/ Fault \/ AnswerLate \/ Land \/ LandLate \/ RetryFires
    \/ SessionChanges \/ Announced

Spec == Init /\ [][Next]_vars

(* Timers fire, answers are handled, every request ends (fetch fails in the end  *)
(* where it is not answered), and the host is reached now and then.              *)
Fairness ==
    /\ WF_vars(Land) /\ WF_vars(RetryFires) /\ WF_vars(Announced)
    /\ WF_vars(Answer \/ Fault) /\ SF_vars(Answer)

--------------------------------------------------------------------------------
TypeOK ==
    /\ snapshot.status \in {"loading", "ready", "not-connected", "error"}
    /\ snapshot.data \in (0 .. MaxEras) \cup {None}
    /\ {flight} \cup late \subseteq Answers \cup {Out, None}
    /\ watcher \in [Watchers -> {"off", "idle", "active"}]

(* An answer is written only if it was given under the session the page knows of *)
(* or a later one, whatever was out when that was announced (createCloudStore:   *)
(* an invalidate mid-flight abandons the older request).                         *)
AnswersAreOfThisSession ==
    [][reached' # reached \/ (loaded' /\ ~loaded) => reached' >= noted]_vars

(* While a component is active the store does not stay unanswered: a network     *)
(* that failed is asked again until it answers (scheduleRetry: latching strands  *)
(* the only control that undoes it).                                             *)
Unanswered == snapshot.status \in {"loading", "error"} \/ reached < noted
Waiting    == Unanswered /\ \E v \in Watchers : watcher[v] = "active"
WatchedIsAnswered == Waiting ~> ~Waiting

(* What was known of a session that has been replaced is dropped (invalidate:    *)
(* "Drop what we know").                                                         *)
DropsWhatItKnew == snapshot.data # None => snapshot.data >= noted
================================================================================
