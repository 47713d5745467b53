------------------------------ MODULE DeviceSeries -----------------------------
(* The per-second series of the network panel: useRouterNetwork seeds it from    *)
(* the recorder once and then asks, a second at a time, for what is newer        *)
(* (fetchPersistedClientHistory, tailSamples, appendClientSamples in             *)
(* src/hooks/useRouterNetwork.ts).  The panel opens and closes, and the series   *)
(* outlives it.  The recorder's samples are numbered as they come.               *)
EXTENDS Integers

CONSTANTS
    MaxSamples,         \* bound: samples recorded
    MaxMounts           \* bound: how often the panel opens

VARIABLES
    recorded,           \* samples the recorder holds
    series,             \* series[x]: how often the page holds sample x
    last,               \* lastSampleMsRef
    mounts,             \* effects begun so far
    active,             \* whether the last of them stands
    effect,             \* effect[e]: see Ask
    torn                \* a tail was read to its end after its effect was disposed

vars == <<recorded, series, last, mounts, active, effect, torn>>

SeriesAssumption == MaxSamples \in Nat /\ MaxMounts \in Nat

Samples == 1 .. MaxSamples
Effects == 1 .. MaxMounts

Disposed(e) == ~(active /\ e = mounts)
Empty       == \A x \in Samples : series[x] = 0

(* An effect's one request: what it asks past, what was recorded by then, and    *)
(* the samples whose body it is reading.                                         *)
Ask(stage, since) == [stage |-> stage, since |-> since, asked |-> recorded, upTo |-> 0]
Resting    == [stage |-> "resting", since |-> 0, asked |-> 0, upTo |-> 0]
Over       == [Resting EXCEPT !.stage = "over"]
Rested(e)  == effect' = [effect EXCEPT ![e] = IF Disposed(e) THEN Over ELSE Resting]

Larger(a, b) == IF a < b THEN b ELSE a

--------------------------------------------------------------------------------
Record ==
    /\ recorded < MaxSamples /\ recorded' = recorded + 1
    /\ UNCHANGED <<series, last, mounts, active, effect, torn>>

(* Only a page that holds nothing seeds.                                         *)
Mount ==
    /\ ~active /\ mounts < MaxMounts
    /\ active' = TRUE /\ mounts' = mounts + 1
    /\ effect' = [effect EXCEPT ![mounts + 1] = IF Empty THEN Ask("seeding", 0) ELSE Resting]
    /\ UNCHANGED <<recorded, series, last, torn>>

Unmount ==
    /\ active /\ active' = FALSE
    /\ effect' = [effect EXCEPT ![mounts] = IF @.stage = "resting" THEN Over ELSE @]
    /\ UNCHANGED <<recorded, series, last, mounts, torn>>

(* [mutant] The tail is not told where the seed ends.                            *)
SeededTo(newest) == last

MarkedTo(newest) == Larger(last, newest)

(* The seed lands, or fails and leaves all to the tail; one of a panel that has  *)
(* closed is dropped.                                                            *)
SeedLands(e) ==
    /\ effect[e].stage = "seeding"
    /\ \/ /\ Disposed(e) /\ UNCHANGED <<series, last>>
       \/ /\ ~Disposed(e)
          /\ \E newest \in effect[e].asked .. recorded \cup {0} :
              /\ series' = IF newest = 0 THEN series
                           ELSE [x \in Samples |-> IF x <= newest THEN 1 ELSE 0]
              /\ last' = MarkedTo(newest)
    /\ Rested(e)
    /\ UNCHANGED <<recorded, mounts, active, torn>>

TailAsks(e) ==
    /\ effect[e].stage = "resting" /\ ~Disposed(e)
    /\ effect' = [effect EXCEPT ![e] = Ask("asking", last)]
    /\ UNCHANGED <<recorded, series, last, mounts, active, torn>>

(* The response begins: a disposed effect looks no further.                      *)
TailAnswered(e) ==
    /\ effect[e].stage = "asking"
    /\ \/ /\ Disposed(e) /\ Rested(e)
       \/ /\ ~Disposed(e)
          /\ \E n \in effect[e].asked .. recorded :
              effect' = [effect EXCEPT ![e].stage = "reading", ![e].upTo = n]
    /\ UNCHANGED <<recorded, series, last, mounts, active, torn>>

(* It does not come, or breaks off.                                              *)
TailFails(e) ==
    /\ effect[e].stage \in {"asking", "reading"}
    /\ Rested(e)
    /\ UNCHANGED <<recorded, series, last, mounts, active, torn>>

(* The body is read: nobody looks whether the effect still stands.               *)
TailLands(e) ==
    /\ effect[e].stage = "reading"
    /\ LET fresh == (effect[e].since + 1) .. effect[e].upTo IN
       /\ series' = [x \in Samples |->
                       IF x \in fresh /\ series[x] < 2 THEN series[x] + 1 ELSE series[x]]
       /\ last' = IF fresh = {} THEN last ELSE Larger(last, effect[e].upTo)
       /\ torn' = (torn \/ (Disposed(e) /\ fresh # {}))
    /\ Rested(e)
    /\ UNCHANGED <<recorded, mounts, active>>

Init ==
    /\ recorded = 0 /\ series = [x \in Samples |-> 0] /\ last = 0
    /\ mounts = 0 /\ active = FALSE /\ torn = FALSE
    /\ effect = [e \in Effects |-> Over]

Next ==
    \/ Record \/ Mount \/ Unmount
    \/ \E e \in Effects :
        SeedLands(e) \/ TailAsks(e) \/ TailAnswered(e) \/ TailFails(e) \/ TailLands(e)

Spec == Init /\ [][Next]_vars

--------------------------------------------------------------------------------
(* Up to where the tail has got the page holds every sample, and once, whatever  *)
(* was out when the panel closed and opened again (newestSampleMs: without it    *)
(* the tail appends a second copy of every point), but for a tail read to its    *)
(* end by a panel that had closed.                                               *)
SeriesIsWhole ==
    torn \/ \A x \in Samples : series[x] = IF x <= last THEN 1 ELSE 0

(* Violated: that tail and the next panel's ask past the same sample.            *)
DrawnOnce == \A x \in Samples : series[x] <= 1
================================================================================
