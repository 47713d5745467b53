----------------------------- MODULE Stores_proofs -----------------------------
(* What Stores promises for all alerts, devices, groups and bounds: of the       *)
(* extension's tick, of the alert episodes, of the drain, of the groups and of   *)
(* the recorded minutes.                                                         *)
(* The components share no state, so each has an inductive invariant of its own  *)
(* and its own step lemmas.                                                      *)
EXTENDS Stores, SumTheorems, Integers, Sequences, TLAPS, FiniteSetTheorems, WellFoundedInduction

--------------------------------------------------------------------------------
(* The extension's tick.  One run is under way at a time; what it has in hand is *)
(* what it wrote down, and the set last remembered is the set open whenever no   *)
(* run stands between its record and its badge.                                  *)

TickStages == {"polled", "seeded", "recorded", "judged", "painting", "painted",
               "announcing", "posting"}
EpisodeStarts == [Ticks!Alerts -> Nat \cup {None}]
Crossings  == [kind : {"fired", "cleared"}, alert : Ticks!Alerts, at : Nat]
Spans      == [alert : Ticks!Alerts, start : Nat, end : Nat]
TickRuns   == [at : Nat, stage : TickStages, seen : Ticks!Sightings \cup {None},
               open : EpisodeStarts, left : SUBSET Crossings,
               active : SUBSET Ticks!Alerts, shown : SUBSET Ticks!Alerts]
Repainters == [for : Ticks!Modes, stage : {"asked", "painting", "painted"},
               active : SUBSET Ticks!Alerts, shown : SUBSET Ticks!Alerts]

TickType ==
    /\ told \in EpisodeStarts /\ ended \subseteq Spans /\ reports \subseteq Spans
    /\ lastActive \subseteq Ticks!Alerts /\ mode \in Ticks!Modes /\ badge \subseteq Ticks!Alerts
    /\ runs \subseteq TickRuns /\ repaints \subseteq Repainters
    /\ ticks \in Nat /\ muddled \in BOOLEAN

OneRun == \A r \in runs : runs = {r} /\ r.at = ticks

RunKnows ==
    \A r \in runs :
        /\ r.stage \in {"polled", "seeded"} => r.seen \in Ticks!Sightings
        /\ r.stage = "seeded" =>
              r.open = told /\ r.left = Ticks!Crossed(Ticks!OpenAlerts, r.active, r.at)
        /\ r.stage \in {"recorded", "judged"} /\ r.seen # None => r.active = Ticks!OpenAlerts
        /\ r.stage = "posting" => r.left # {}

(* Episodes of one alert start at different ticks.                               *)
StartsApart ==
    /\ \A a \in Ticks!Alerts : told[a] # None =>
          /\ told[a] <= ticks
          /\ \A r \in runs : r.stage \in {"polled", "seeded"} => told[a] < ticks
          /\ \A e \in ended : e.alert = a => e.start < told[a]
    /\ \A e \in ended : e.start < ticks

(* So putReport never finds one under the id of a report now due.                *)
DueAreNew ==
    \A r \in runs : r.stage = "recorded" =>
        \A p \in Ticks!Due(r), q \in reports : q.alert = p.alert => q.start # p.start

RunPainting == { r \in runs : r.stage \in {"painting", "painted"} }

(* What the badge will show once those painting it are done.                     *)
Painted ==
    ~muddled =>
        /\ (\A r \in runs : r.stage \notin {"recorded", "judged"}) => lastActive = Ticks!OpenAlerts
        /\ RunPainting = {} \/ repaints = {}
        /\ \A p \in repaints : repaints = {p}
        /\ RunPainting = {} /\ repaints = {} => badge = Ticks!BadgeAlerts(lastActive, mode)
        /\ \A p \in RunPainting \cup repaints :
              /\ p.stage = "painting" => p.active = lastActive
              /\ p.stage = "painted" => p.shown = Ticks!BadgeAlerts(lastActive, mode)

TickInv ==
    /\ TickType /\ OneRun /\ RunKnows /\ StartsApart /\ DueAreNew /\ Painted
    /\ Ticks!AnnouncedFromTheRecord /\ Ticks!EndedOutagesAreReported

LEMMA NoneIsNoTick == None \notin Nat
  BY InstancesSuit DEF Ticks!TickAssumption

(* What is announced and reported of a set of runs.                              *)
OwingOf(S)      == UNION { r.left : r \in { r \in S : Ticks!OnRecord(r) } }
UnreportedOf(S) == UNION { Ticks!Due(r) : r \in { r \in S : r.stage = "recorded" } }

LEMMA OwedByOne ==
    ASSUME NEW r
    PROVE  /\ OwingOf({}) = {} /\ UnreportedOf({}) = {}
           /\ OwingOf({r}) = IF Ticks!OnRecord(r) THEN r.left ELSE {}
           /\ UnreportedOf({r}) = IF r.stage = "recorded" THEN Ticks!Due(r) ELSE {}
  BY DEF OwingOf, UnreportedOf

LEMMA OwedNow == Ticks!Owing = OwingOf(runs) /\ Ticks!Unreported = UnreportedOf(runs)
  BY DEF Ticks!Owing, Ticks!Unreported, OwingOf, UnreportedOf

LEMMA OwedNext ==
    /\ (Ticks!Owing)' = OwingOf(runs') /\ (Ticks!Unreported)' = UnreportedOf(runs')
  BY DEF Ticks!Owing, Ticks!Unreported, OwingOf, UnreportedOf

LEMMA FiringIsAlerts ==
    ASSUME NEW S, S \subseteq Ticks!Alerts, NEW seen \in Ticks!Sightings
    PROVE  Ticks!Firing(S, seen) \subseteq Ticks!Alerts
  <1>1. seen.dish = None \/ seen.dish \subseteq DishReports
    BY DEF Ticks!Sightings
  <1>2. {"dish"} \X seen.dish \subseteq Ticks!Alerts \/ seen.dish = None
    BY <1>1 DEF Ticks!Alerts, Ticks!DishAlerts
  <1>3. Ticks!Silence \in Ticks!Alerts /\ Ticks!Outage \in Ticks!Alerts
    BY DEF Ticks!Alerts
  <1> QED BY <1>2, <1>3, Zenon DEF Ticks!Firing

LEMMA CrossedIsCrossings ==
    ASSUME NEW S, S \subseteq Ticks!Alerts, NEW T, T \subseteq Ticks!Alerts, NEW t \in Nat
    PROVE  Ticks!Crossed(S, T, t) \subseteq Crossings
  BY DEF Ticks!Crossed, Crossings

LEMMA ShownIsAlerts ==
    ASSUME NEW S, S \subseteq Ticks!Alerts, NEW how
    PROVE  Ticks!BadgeAlerts(S, how) \subseteq Ticks!Alerts
  BY Zenon DEF Ticks!BadgeAlerts

LEMMA TickStarts == StoresInit => TickInv
  <1> SUFFICES ASSUME StoresInit PROVE TickInv
    OBVIOUS
  <1>1. /\ told = Ticks!NoEpisodes /\ ended = {} /\ reports = {} /\ lastActive = {}
        /\ mode = "all" /\ badge = {} /\ runs = {} /\ repaints = {} /\ ticks = 0
        /\ news = {} /\ stale = {} /\ unwritten = {} /\ muddled = FALSE
    BY DEF StoresInit, Ticks!Init
  <1>2. Ticks!OpenAlerts = {}
    BY <1>1 DEF Ticks!OpenAlerts, Ticks!NoEpisodes
  <1>3. TickType
    BY <1>1 DEF TickType, EpisodeStarts, Ticks!NoEpisodes, Ticks!Modes
  <1>4. OneRun /\ RunKnows /\ DueAreNew
    BY <1>1 DEF OneRun, RunKnows, DueAreNew
  <1>5. StartsApart
    BY <1>1 DEF StartsApart, Ticks!NoEpisodes
  <1>6. Painted
    BY <1>1, <1>2 DEF Painted, RunPainting, Ticks!BadgeAlerts
  <1>7. Ticks!AnnouncedFromTheRecord /\ Ticks!EndedOutagesAreReported
    BY <1>1, OwedNow, OwedByOne
       DEF Ticks!AnnouncedFromTheRecord, Ticks!EndedOutagesAreReported
  <1> QED BY <1>3, <1>4, <1>5, <1>6, <1>7 DEF TickInv

--------------------------------------------------------------------------------
LEMMA NothingRunning ==
    ASSUME TickInv, runs = {}
    PROVE  /\ news = {} /\ stale = {}
           /\ { e \in ended : e.alert \in {Ticks!Silence, Ticks!Outage} } = reports \cup unwritten
           /\ RunPainting = {}
           /\ ~muddled => lastActive = Ticks!OpenAlerts
  BY OwedNow, OwedByOne
     DEF TickInv, Painted, RunPainting, Ticks!AnnouncedFromTheRecord, Ticks!EndedOutagesAreReported

LEMMA OneRunning ==
    ASSUME TickInv, NEW r \in runs
    PROVE  /\ runs = {r} /\ r.at = ticks /\ r \in TickRuns /\ stale = {}
           /\ news = IF Ticks!OnRecord(r) THEN r.left ELSE {}
           /\ { e \in ended : e.alert \in {Ticks!Silence, Ticks!Outage} }
                 = reports \cup unwritten \cup (IF r.stage = "recorded" THEN Ticks!Due(r) ELSE {})
           /\ RunPainting = IF r.stage \in {"painting", "painted"} THEN {r} ELSE {}
  <1>1. runs = {r} /\ r.at = ticks /\ r \in TickRuns
    BY DEF TickInv, TickType, OneRun
  <1>2. Ticks!Owing = (IF Ticks!OnRecord(r) THEN r.left ELSE {})
        /\ Ticks!Unreported = (IF r.stage = "recorded" THEN Ticks!Due(r) ELSE {})
    BY <1>1, OwedNow, OwedByOne
  <1>3. RunPainting = IF r.stage \in {"painting", "painted"} THEN {r} ELSE {}
    BY <1>1 DEF RunPainting
  <1> QED BY <1>1, <1>2, <1>3
          DEF TickInv, Ticks!AnnouncedFromTheRecord, Ticks!EndedOutagesAreReported

LEMMA TickBegins ==
    ASSUME TickInv, Ticks!Begin \/ Ticks!BeginBlind
    PROVE  TickInv'
  <1>1. PICK stage0 \in {"polled", "judged"}, seen0 \in Ticks!Sightings \cup {None} :
           /\ runs' = {Ticks!Run(stage0, seen0)}
           /\ stage0 = "polled" => seen0 \in Ticks!Sightings
           /\ stage0 = "judged" => seen0 = None /\ muddled' = TRUE
           /\ stage0 = "polled" => muddled' = muddled
    BY DEF Ticks!Begin, Ticks!BeginBlind, Ticks!MayRun, Ticks!history
  <1>2. /\ runs = {} /\ ticks' = ticks + 1 /\ repaints' = repaints /\ badge' = badge
        /\ told' = told /\ ended' = ended /\ reports' = reports /\ lastActive' = lastActive
        /\ mode' = mode /\ news' = news /\ stale' = stale /\ unwritten' = unwritten
    BY DEF Ticks!Begin, Ticks!BeginBlind, Ticks!MayRun, Ticks!history, Ticks!stores
  <1> DEFINE q == Ticks!Run(stage0, seen0)
  <1>3. /\ q.stage = stage0 /\ q.seen = seen0 /\ q.at = ticks + 1 /\ q.left = {} /\ q.active = {}
        /\ ~Ticks!OnRecord(q) \/ q.left = {}
    BY DEF Ticks!Run
  <1>4. q \in TickRuns
    <2>1. Ticks!NoEpisodes \in EpisodeStarts
      BY DEF Ticks!NoEpisodes, EpisodeStarts
    <2> QED BY <2>1 DEF Ticks!Run, TickRuns, TickStages, TickInv, TickType
  <1>5. runs' = {q} /\ q.stage # "recorded"
    BY <1>1, <1>3
  <1>6. q.stage \notin {"seeded", "recorded", "posting", "painting", "painted"}
        /\ (q.stage = "polled" => q.seen \in Ticks!Sightings /\ muddled' = muddled)
        /\ (q.stage = "judged" => q.seen = None /\ muddled' = TRUE)
    BY <1>1, <1>3
  <1> HIDE DEF q
  <1>7. TickType'
    <2>1. muddled' \in BOOLEAN
      BY <1>1 DEF TickInv, TickType
    <2> QED BY <2>1, <1>2, <1>4, <1>5 DEF TickInv, TickType
  <1>8. OneRun' /\ RunKnows'
    BY <1>2, <1>3, <1>5, <1>6 DEF OneRun, RunKnows
  <1>9. StartsApart'
    BY <1>2, <1>5, NoneIsNoTick DEF TickInv, StartsApart, TickType, EpisodeStarts, Spans
  <1>10. DueAreNew'
    BY <1>5 DEF DueAreNew
  <1>11. RunPainting' = {} /\ RunPainting = {} /\ Ticks!OpenAlerts' = Ticks!OpenAlerts
    BY <1>2, <1>5, <1>6 DEF RunPainting, Ticks!OpenAlerts
  <1>12. Painted'
    <2> SUFFICES ASSUME ~muddled' PROVE Painted'
      BY DEF Painted
    <2>1. q.stage = "polled" /\ ~muddled
      BY <1>1, <1>3, <1>6
    <2> QED BY <2>1, <1>2, <1>5, <1>11 DEF TickInv, Painted
  <1>13. Ticks!AnnouncedFromTheRecord' /\ Ticks!EndedOutagesAreReported'
    <2>1. OwingOf(runs') = {} /\ UnreportedOf(runs') = {}
      BY <1>3, <1>5, OwedByOne
    <2> QED BY <2>1, <1>2, OwedNext, NothingRunning
            DEF Ticks!AnnouncedFromTheRecord, Ticks!EndedOutagesAreReported
  <1> QED BY <1>7, <1>8, <1>9, <1>10, <1>12, <1>13 DEF TickInv

(* A step of the run that leaves the stores alone: it goes on as q.              *)
LEMMA RunGoesOn ==
    ASSUME TickInv, NEW r \in runs, NEW q \in TickRuns, Ticks!Becomes(r, q),
           q.at = r.at, q.left = r.left,
           r.stage \notin {"seeded", "recorded"}, q.stage \notin {"polled", "seeded", "recorded"},
           Ticks!OnRecord(r), UNCHANGED <<told, ended, reports, mode, repaints, ticks>>,
           UNCHANGED <<news, stale, unwritten>>
    PROVE  /\ runs' = {q} /\ OneRun' /\ StartsApart' /\ DueAreNew'
           /\ Ticks!AnnouncedFromTheRecord' /\ Ticks!EndedOutagesAreReported'
           /\ Ticks!OpenAlerts' = Ticks!OpenAlerts
           /\ RunPainting' = IF q.stage \in {"painting", "painted"} THEN {q} ELSE {}
  <1>1. runs = {r} /\ r.at = ticks /\ r \in TickRuns
    BY OneRunning
  <1>2. runs' = {q}
    BY <1>1 DEF Ticks!Becomes
  <1>3. OneRun' /\ DueAreNew'
    BY <1>1, <1>2 DEF OneRun, DueAreNew
  <1>4. StartsApart'
    BY <1>2 DEF TickInv, StartsApart
  <1>5. OwingOf(runs') = r.left /\ UnreportedOf(runs') = {}
    BY <1>2, OwedByOne DEF Ticks!OnRecord
  <1>6. Ticks!AnnouncedFromTheRecord' /\ Ticks!EndedOutagesAreReported'
    BY <1>5, OneRunning, OwedNext DEF Ticks!AnnouncedFromTheRecord, Ticks!EndedOutagesAreReported
  <1>7. Ticks!OpenAlerts' = Ticks!OpenAlerts
    BY DEF Ticks!OpenAlerts
  <1>8. RunPainting' = IF q.stage \in {"painting", "painted"} THEN {q} ELSE {}
    BY <1>2 DEF RunPainting
  <1> QED BY <1>2, <1>3, <1>4, <1>6, <1>7, <1>8

LEMMA EpisodesAreRead ==
    ASSUME TickInv, NEW r \in runs, Ticks!ReadOpen(r)
    PROVE  TickInv'
  <1> DEFINE after == Ticks!Firing(Ticks!OpenAlerts, r.seen)
             q == [r EXCEPT !.stage = "seeded", !.open = told, !.active = after,
                            !.left = Ticks!Crossed(Ticks!OpenAlerts, after, r.at)]
  <1>1. /\ r.stage = "polled" /\ Ticks!Becomes(r, q)
        /\ UNCHANGED <<told, ended, reports, lastActive, mode, badge, repaints, ticks>>
        /\ UNCHANGED <<news, stale, unwritten, muddled>>
    BY DEF Ticks!ReadOpen, Ticks!Seed, Ticks!stores, Ticks!history
  <1>2. runs = {r} /\ r.at = ticks /\ r \in TickRuns
    BY OneRunning
  <1>3. after \subseteq Ticks!Alerts /\ Ticks!OpenAlerts \subseteq Ticks!Alerts
    BY <1>1, FiringIsAlerts DEF TickInv, RunKnows, Ticks!OpenAlerts
  <1>4. Ticks!Crossed(Ticks!OpenAlerts, after, r.at) \subseteq Crossings
    BY <1>2, <1>3, CrossedIsCrossings DEF TickRuns
  <1>5. /\ q \in TickRuns /\ q.at = r.at /\ q.stage = "seeded" /\ q.seen = r.seen /\ q.open = told
        /\ q.left = Ticks!Crossed(Ticks!OpenAlerts, q.active, q.at)
    <2> HIDE DEF after
    <2> QED BY <1>2, <1>3, <1>4 DEF TickRuns, TickStages, TickInv, TickType
  <1> HIDE DEF q, after
  <1>6. runs' = {q} /\ ~Ticks!OnRecord(q) /\ ~Ticks!OnRecord(r)
    BY <1>1, <1>2, <1>5 DEF Ticks!Becomes, Ticks!OnRecord
  <1>7. Ticks!OpenAlerts' = Ticks!OpenAlerts
    BY <1>1 DEF Ticks!OpenAlerts
  <1>8. TickType'
    BY <1>1, <1>5, <1>6 DEF TickInv, TickType
  <1>9. OneRun' /\ DueAreNew'
    BY <1>1, <1>2, <1>5, <1>6 DEF OneRun, DueAreNew
  <1>10. RunKnows'
    BY <1>1, <1>5, <1>6, <1>7 DEF TickInv, RunKnows, Ticks!Crossed
  <1>11. StartsApart'
    BY <1>1, <1>2, <1>5, <1>6 DEF TickInv, StartsApart
  <1>12. RunPainting' = {} /\ RunPainting = {}
    BY <1>1, <1>2, <1>5, <1>6 DEF RunPainting
  <1>13. Painted'
    BY <1>1, <1>2, <1>5, <1>6, <1>7, <1>12 DEF TickInv, Painted
  <1>14. Ticks!AnnouncedFromTheRecord' /\ Ticks!EndedOutagesAreReported'
    <2>1. OwingOf(runs') = {} /\ UnreportedOf(runs') = {}
      BY <1>5, <1>6, OwedByOne
    <2>2. news = {} /\ r.stage # "recorded"
      BY <1>1, <1>6, OneRunning
    <2> QED BY <2>1, <2>2, <1>1, OneRunning, OwedNext
            DEF Ticks!AnnouncedFromTheRecord, Ticks!EndedOutagesAreReported
  <1> QED BY <1>8, <1>9, <1>10, <1>11, <1>13, <1>14 DEF TickInv

(* What a run that has read the episodes will change is what it crossed.         *)
LEMMA ChangesAreCrossings ==
    ASSUME TickInv, NEW r \in runs, r.stage = "seeded"
    PROVE  /\ Ticks!Changes(r) = r.left
           /\ \A a \in Ticks!Alerts :
                 /\ [kind |-> "fired", alert |-> a, at |-> r.at] \in r.left
                       <=> a \in r.active /\ told[a] = None
                 /\ [kind |-> "cleared", alert |-> a, at |-> r.at] \in r.left
                       <=> a \notin r.active /\ told[a] # None
           /\ \A t \in r.left : t \in Crossings /\ t.at = r.at
  <1>1. r.left = Ticks!Crossed(Ticks!OpenAlerts, r.active, r.at) /\ r \in TickRuns
    BY OneRunning DEF TickInv, RunKnows
  <1>2. \A a : a \in Ticks!OpenAlerts <=> a \in Ticks!Alerts /\ told[a] # None
    BY DEF Ticks!OpenAlerts
  <1>3. \A t \in r.left : /\ t \in Crossings /\ t.at = r.at
                          /\ \/ t.kind = "fired" /\ t.alert \in r.active \ Ticks!OpenAlerts
                             \/ t.kind = "cleared" /\ t.alert \in Ticks!OpenAlerts \ r.active
    BY <1>1, <1>2 DEF Ticks!Crossed, Crossings, TickRuns
  <1>4. r.active \subseteq Ticks!Alerts
    BY <1>1 DEF TickRuns
  <1>5. \A t \in r.left : (told[t.alert] = None) = (t.kind = "fired")
    BY <1>2, <1>3, <1>4
  <1>6. Ticks!Changes(r) = r.left
    BY <1>5 DEF Ticks!Changes
  <1>7. ASSUME NEW a \in Ticks!Alerts
        PROVE  /\ [kind |-> "fired", alert |-> a, at |-> r.at] \in r.left
                     <=> a \in r.active /\ told[a] = None
               /\ [kind |-> "cleared", alert |-> a, at |-> r.at] \in r.left
                     <=> a \notin r.active /\ told[a] # None
    <2>1. [kind |-> "fired", alert |-> a, at |-> r.at] \in r.left => a \in r.active \ Ticks!OpenAlerts
      BY <1>3
    <2>2. [kind |-> "cleared", alert |-> a, at |-> r.at] \in r.left => a \in Ticks!OpenAlerts \ r.active
      BY <1>3
    <2>3. a \in r.active \ Ticks!OpenAlerts => [kind |-> "fired", alert |-> a, at |-> r.at] \in r.left
      BY <1>1 DEF Ticks!Crossed
    <2>4. a \in Ticks!OpenAlerts \ r.active => [kind |-> "cleared", alert |-> a, at |-> r.at] \in r.left
      BY <1>1 DEF Ticks!Crossed
    <2> QED BY <2>1, <2>2, <2>3, <2>4, <1>2
  <1> QED BY <1>3, <1>6, <1>7

LEMMA CrossingsAreRecorded ==
    ASSUME TickInv, NEW r \in runs, Ticks!Record(r)
    PROVE  TickInv'
  <1> DEFINE q == [r EXCEPT !.stage = "recorded"]
             closing == { t \in r.left : t.kind = "cleared" }
             spans == { [alert |-> t.alert, start |-> told[t.alert], end |-> t.at] : t \in closing }
  <1>1. /\ r.stage = "seeded" /\ Ticks!Becomes(r, q)
        /\ told' = [a \in Ticks!Alerts |->
                      IF [kind |-> "fired", alert |-> a, at |-> r.at] \in r.left THEN r.at
                      ELSE IF [kind |-> "cleared", alert |-> a, at |-> r.at] \in r.left THEN None
                      ELSE told[a]]
        /\ ended' = ended \cup spans /\ news' = news \cup r.left
        /\ UNCHANGED <<reports, lastActive, mode, badge, repaints, ticks, stale, unwritten, muddled>>
    BY ChangesAreCrossings DEF Ticks!Record
  <1>2. /\ runs = {r} /\ r.at = ticks /\ r \in TickRuns /\ news = {} /\ stale = {}
        /\ { e \in ended : e.alert \in {Ticks!Silence, Ticks!Outage} } = reports \cup unwritten
        /\ RunPainting = {}
    BY <1>1, OneRunning DEF Ticks!OnRecord
  <1>3. /\ q \in TickRuns /\ q.at = r.at /\ q.stage = "recorded" /\ q.seen = r.seen
        /\ q.open = told /\ q.left = r.left /\ q.active = r.active
    BY <1>1, <1>2 DEF TickRuns, TickStages, TickInv, RunKnows
  <1>4. /\ told \in EpisodeStarts /\ ended \subseteq Spans /\ ticks \in Nat
        /\ r.active \subseteq Ticks!Alerts
        /\ \A a \in Ticks!Alerts : told[a] # None => told[a] \in Nat
    BY <1>2 DEF TickInv, TickType, EpisodeStarts, TickRuns
  <1>5. \A a \in Ticks!Alerts :
           /\ a \in r.active /\ told[a] = None => told'[a] = r.at
           /\ a \notin r.active => told'[a] = None
           /\ a \in r.active /\ told[a] # None => told'[a] = told[a]
    BY <1>1, ChangesAreCrossings
  <1> HIDE DEF q
  <1>6. runs' = {q} /\ Ticks!OnRecord(q)
    BY <1>1, <1>2, <1>3 DEF Ticks!Becomes, Ticks!OnRecord
  <1>7. Ticks!OpenAlerts' = r.active
    <2>1. Ticks!OpenAlerts' = { a \in Ticks!Alerts : told'[a] # None }
      BY DEF Ticks!OpenAlerts
    <2>2. r.at # None
      BY <1>2, <1>4, NoneIsNoTick
    <2> QED BY <2>1, <2>2, <1>4, <1>5
  <1>8. \A t \in closing : /\ t.alert \in Ticks!Alerts /\ told[t.alert] # None /\ t.at = r.at
                           /\ told'[t.alert] = None
    <2> TAKE t \in closing
    <2>1. t \in Crossings /\ t.at = r.at /\ t.kind = "cleared"
      BY <1>1, ChangesAreCrossings
    <2>2. t = [kind |-> "cleared", alert |-> t.alert, at |-> r.at] /\ t.alert \in Ticks!Alerts
      BY <2>1 DEF Crossings
    <2>3. t.alert \notin r.active /\ told[t.alert] # None
      BY <2>2, <1>1, ChangesAreCrossings
    <2> QED BY <2>1, <2>2, <2>3, <1>5
  <1>9. spans \subseteq Spans /\ \A e \in spans : e.start < ticks /\ told'[e.alert] = None
    <2> SUFFICES ASSUME NEW t \in closing
                 PROVE  /\ [alert |-> t.alert, start |-> told[t.alert], end |-> t.at] \in Spans
                        /\ told[t.alert] < ticks /\ told'[t.alert] = None
      OBVIOUS
    <2>1. t.alert \in Ticks!Alerts /\ told[t.alert] # None /\ t.at = r.at /\ told'[t.alert] = None
      BY <1>8
    <2>2. told[t.alert] \in Nat /\ told[t.alert] < ticks
      BY <2>1, <1>1, <1>4 DEF TickInv, StartsApart
    <2> QED BY <2>1, <2>2, <1>2, <1>4 DEF Spans
  <1>10. Ticks!Due(q) = { e \in spans : e.alert \in {Ticks!Silence, Ticks!Outage} }
    <2>1. Ticks!Due(q) =
            { [alert |-> t.alert, start |-> told[t.alert], end |-> t.at] :
                t \in { t \in closing : t.alert \in {Ticks!Silence, Ticks!Outage} } }
      <3>1. { t \in q.left : /\ t.kind = "cleared" /\ t.alert \in {Ticks!Silence, Ticks!Outage}
                             /\ q.open[t.alert] # None }
              = { t \in closing : t.alert \in {Ticks!Silence, Ticks!Outage} }
        BY <1>3, <1>8
      <3> QED BY <3>1, <1>3 DEF Ticks!Due, Ticks!EpisodesBefore
    <2> QED BY <2>1
  <1> HIDE DEF closing, spans
  <1>11. TickType'
    <2>1. told' \in EpisodeStarts
      BY <1>1, <1>2, <1>4 DEF EpisodeStarts
    <2> QED BY <2>1, <1>1, <1>3, <1>6, <1>9 DEF TickInv, TickType
  <1>12. OneRun' /\ RunKnows'
    BY <1>1, <1>2, <1>3, <1>6, <1>7 DEF OneRun, RunKnows
  <1>13. StartsApart'
    <2>1. \A e \in ended' : e.start < ticks
      BY <1>1, <1>9 DEF TickInv, StartsApart
    <2>2. ASSUME NEW a \in Ticks!Alerts, told'[a] # None
          PROVE  /\ told'[a] <= ticks
                 /\ \A e \in ended' : e.alert = a => e.start < told'[a]
      <3>1. a \in r.active /\ ((told'[a] = told[a] /\ told[a] # None) \/ told'[a] = ticks)
        BY <2>2, <1>2, <1>5
      <3>2. told'[a] <= ticks
        BY <3>1, <1>4 DEF TickInv, StartsApart
      <3>3. \A e \in ended : e.alert = a => e.start < told'[a]
        BY <3>1 DEF TickInv, StartsApart
      <3>4. \A e \in spans : e.alert # a
        BY <2>2, <1>9
      <3> QED BY <3>2, <3>3, <3>4, <1>1
    <2> QED BY <2>1, <2>2, <1>1, <1>3, <1>6 DEF StartsApart
  <1>14. DueAreNew'
    <2> SUFFICES ASSUME NEW p \in Ticks!Due(q), NEW e \in reports, e.alert = p.alert
                 PROVE  e.start # p.start
      BY <1>1, <1>6 DEF DueAreNew
    <2>1. e \in ended /\ p \in spans
      BY <1>2, <1>10
    <2>2. PICK t \in closing : p = [alert |-> t.alert, start |-> told[t.alert], end |-> t.at]
      BY <2>1 DEF spans
    <2>3. p.alert \in Ticks!Alerts /\ told[p.alert] # None /\ p.start = told[p.alert]
      BY <2>2, <1>8
    <2>4. e.start < p.start
      BY <2>1, <2>3 DEF TickInv, StartsApart
    <2> QED BY <2>1, <2>3, <2>4, <1>4 DEF Spans
  <1>15. RunPainting' = {}
    BY <1>3, <1>6 DEF RunPainting
  <1>16. Painted'
    BY <1>1, <1>2, <1>3, <1>6, <1>15 DEF TickInv, Painted
  <1>17. Ticks!AnnouncedFromTheRecord' /\ Ticks!EndedOutagesAreReported'
    <2>1. OwingOf(runs') = r.left /\ UnreportedOf(runs') = Ticks!Due(q)
      BY <1>3, <1>6, OwedByOne
    <2> QED BY <2>1, <1>1, <1>2, <1>10, OwedNext
            DEF Ticks!AnnouncedFromTheRecord, Ticks!EndedOutagesAreReported
  <1> QED BY <1>11, <1>12, <1>13, <1>14, <1>16, <1>17 DEF TickInv

(* Reports are written: those due and not written were cut short.                *)
LEMMA OutagesAreReported ==
    ASSUME TickInv, NEW r \in runs, Ticks!Report(r)
    PROVE  TickInv'
  <1> DEFINE q == [r EXCEPT !.stage = "judged"]
  <1>1. /\ r.stage = "recorded" /\ Ticks!Becomes(r, q)
        /\ UNCHANGED <<told, ended, lastActive, mode, badge, repaints, ticks, news, stale, muddled>>
    BY DEF Ticks!Report
  <1>2. PICK written \in SUBSET Ticks!Due(r) :
           /\ reports' = reports \cup Ticks!Kept(written)
           /\ unwritten' = unwritten \cup (Ticks!Due(r) \ written)
    BY DEF Ticks!Report
  <1>3. /\ runs = {r} /\ r.at = ticks /\ r \in TickRuns /\ stale = {} /\ news = r.left
        /\ { e \in ended : e.alert \in {Ticks!Silence, Ticks!Outage} }
              = reports \cup unwritten \cup Ticks!Due(r)
        /\ RunPainting = {}
    BY <1>1, OneRunning DEF Ticks!OnRecord
  <1>4. /\ q \in TickRuns /\ q.at = r.at /\ q.stage = "judged" /\ q.seen = r.seen
        /\ q.left = r.left /\ q.active = r.active
    BY <1>3 DEF TickRuns, TickStages
  <1> HIDE DEF q
  <1>5. runs' = {q} /\ Ticks!OnRecord(q)
    BY <1>1, <1>3, <1>4 DEF Ticks!Becomes, Ticks!OnRecord
  <1>6. Ticks!Kept(written) = written
    BY <1>1 DEF TickInv, DueAreNew, Ticks!Kept
  <1>7. { e \in ended' : e.alert \in {Ticks!Silence, Ticks!Outage} } = reports' \cup unwritten'
    BY <1>1, <1>2, <1>3, <1>6
  <1>8. reports' \subseteq ended
    BY <1>1, <1>7
  <1>9. TickType'
    BY <1>1, <1>4, <1>5, <1>8 DEF TickInv, TickType
  <1>10. Ticks!OpenAlerts' = Ticks!OpenAlerts
    BY <1>1 DEF Ticks!OpenAlerts
  <1>11. OneRun' /\ RunKnows' /\ DueAreNew'
    BY <1>1, <1>3, <1>4, <1>5, <1>10 DEF TickInv, OneRun, RunKnows, DueAreNew
  <1>12. StartsApart'
    BY <1>1, <1>4, <1>5 DEF TickInv, StartsApart
  <1>13. RunPainting' = {}
    BY <1>4, <1>5 DEF RunPainting
  <1>14. Painted'
    BY <1>1, <1>3, <1>4, <1>5, <1>10, <1>13 DEF TickInv, Painted
  <1>15. Ticks!AnnouncedFromTheRecord' /\ Ticks!EndedOutagesAreReported'
    <2>1. OwingOf(runs') = r.left /\ UnreportedOf(runs') = {}
      BY <1>4, <1>5, OwedByOne
    <2> QED BY <2>1, <1>1, <1>3, <1>7, OwedNext
            DEF Ticks!AnnouncedFromTheRecord, Ticks!EndedOutagesAreReported
  <1> QED BY <1>9, <1>11, <1>12, <1>14, <1>15 DEF TickInv

LEMMA StandingSetIsKept ==
    ASSUME TickInv, NEW r \in runs, Ticks!Remember(r)
    PROVE  TickInv'
  <1> DEFINE q == [r EXCEPT !.stage = "painting", !.active = Ticks!Paints(r)]
  <1>1. /\ r.stage = "judged" /\ Ticks!Becomes(r, q) /\ lastActive' = r.active
        /\ muddled' = (Ticks!Painters # {} \/ r.seen = None)
        /\ UNCHANGED <<told, ended, reports, mode, badge, repaints, ticks, news, stale, unwritten>>
    BY DEF Ticks!Remember
  <1>2. r \in TickRuns /\ Ticks!OnRecord(r)
    BY <1>1, OneRunning DEF Ticks!OnRecord
  <1>3. /\ q \in TickRuns /\ q.at = r.at /\ q.stage = "painting" /\ q.left = r.left
        /\ q.active = r.active
    BY <1>2 DEF TickRuns, TickStages, Ticks!Paints
  <1> HIDE DEF q
  <1>4. /\ runs' = {q} /\ OneRun' /\ StartsApart' /\ DueAreNew'
        /\ Ticks!AnnouncedFromTheRecord' /\ Ticks!EndedOutagesAreReported'
        /\ Ticks!OpenAlerts' = Ticks!OpenAlerts /\ RunPainting' = {q}
    BY <1>1, <1>2, <1>3, RunGoesOn
  <1>5. TickType'
    <2>1. muddled' \in BOOLEAN
      BY <1>1
    <2> QED BY <2>1, <1>1, <1>2, <1>3, <1>4 DEF TickInv, TickType, TickRuns
  <1>6. RunKnows'
    BY <1>3, <1>4 DEF RunKnows
  <1>7. Painted'
    <2> SUFFICES ASSUME ~muddled' PROVE Painted'
      BY DEF Painted
    <2>1. repaints = {} /\ r.seen # None
      BY <1>1 DEF Ticks!Painters
    <2>2. lastActive' = Ticks!OpenAlerts'
      BY <2>1, <1>1, <1>4 DEF TickInv, RunKnows
    <2> QED BY <2>1, <2>2, <1>1, <1>3, <1>4 DEF Painted
  <1> QED BY <1>4, <1>5, <1>6, <1>7 DEF TickInv

LEMMA BadgeIsWorkedOut ==
    ASSUME TickInv, NEW r \in runs, Ticks!ReadMode(r)
    PROVE  TickInv'
  <1> DEFINE q == [r EXCEPT !.stage = "painted", !.shown = Ticks!BadgeAlerts(r.active, mode)]
  <1>1. /\ r.stage = "painting" /\ Ticks!Becomes(r, q)
        /\ UNCHANGED <<told, ended, reports, lastActive, mode, badge, repaints, ticks, muddled>>
        /\ UNCHANGED <<news, stale, unwritten>>
    BY DEF Ticks!ReadMode, Ticks!stores, Ticks!history
  <1>2. r \in TickRuns /\ Ticks!OnRecord(r) /\ RunPainting = {r} /\ runs = {r}
    BY <1>1, OneRunning DEF Ticks!OnRecord
  <1>3. Ticks!BadgeAlerts(r.active, mode) \subseteq Ticks!Alerts
    BY <1>2, ShownIsAlerts DEF TickRuns
  <1>4. /\ q \in TickRuns /\ q.at = r.at /\ q.stage = "painted" /\ q.left = r.left
        /\ q.shown = Ticks!BadgeAlerts(r.active, mode)
    BY <1>2, <1>3 DEF TickRuns, TickStages
  <1> HIDE DEF q
  <1>5. /\ runs' = {q} /\ OneRun' /\ StartsApart' /\ DueAreNew'
        /\ Ticks!AnnouncedFromTheRecord' /\ Ticks!EndedOutagesAreReported'
        /\ Ticks!OpenAlerts' = Ticks!OpenAlerts /\ RunPainting' = {q}
    BY <1>1, <1>2, <1>4, RunGoesOn
  <1>6. TickType'
    BY <1>1, <1>4, <1>5 DEF TickInv, TickType
  <1>7. RunKnows'
    BY <1>4, <1>5 DEF RunKnows
  <1>8. Painted'
    <2> SUFFICES ASSUME ~muddled' PROVE Painted'
      BY DEF Painted
    <2>1. /\ repaints = {} /\ r.active = lastActive /\ lastActive = Ticks!OpenAlerts
      BY <1>1, <1>2 DEF TickInv, Painted
    <2> QED BY <2>1, <1>1, <1>4, <1>5 DEF Painted
  <1> QED BY <1>5, <1>6, <1>7, <1>8 DEF TickInv

LEMMA BadgeIsSet ==
    ASSUME TickInv, NEW r \in runs, Ticks!SetBadge(r)
    PROVE  TickInv'
  <1> DEFINE q == [r EXCEPT !.stage = "announcing"]
  <1>1. /\ r.stage = "painted" /\ Ticks!Becomes(r, q) /\ badge' = r.shown
        /\ UNCHANGED <<told, ended, reports, lastActive, mode, repaints, ticks, muddled>>
        /\ UNCHANGED <<news, stale, unwritten>>
    BY DEF Ticks!SetBadge, Ticks!stores, Ticks!history
  <1>2. r \in TickRuns /\ Ticks!OnRecord(r) /\ RunPainting = {r} /\ runs = {r}
    BY <1>1, OneRunning DEF Ticks!OnRecord
  <1>3. q \in TickRuns /\ q.at = r.at /\ q.stage = "announcing" /\ q.left = r.left
    BY <1>2 DEF TickRuns, TickStages
  <1> HIDE DEF q
  <1>4. /\ runs' = {q} /\ OneRun' /\ StartsApart' /\ DueAreNew'
        /\ Ticks!AnnouncedFromTheRecord' /\ Ticks!EndedOutagesAreReported'
        /\ Ticks!OpenAlerts' = Ticks!OpenAlerts /\ RunPainting' = {}
    BY <1>1, <1>2, <1>3, RunGoesOn
  <1>5. TickType'
    BY <1>1, <1>2, <1>3, <1>4 DEF TickInv, TickType, TickRuns
  <1>6. RunKnows'
    BY <1>3, <1>4 DEF RunKnows
  <1>7. Painted'
    <2> SUFFICES ASSUME ~muddled' PROVE Painted'
      BY DEF Painted
    <2>1. /\ repaints = {} /\ r.shown = Ticks!BadgeAlerts(lastActive, mode)
          /\ lastActive = Ticks!OpenAlerts
      BY <1>1, <1>2 DEF TickInv, Painted
    <2> QED BY <2>1, <1>1, <1>3, <1>4 DEF Painted
  <1> QED BY <1>4, <1>5, <1>6, <1>7 DEF TickInv

(* A run that ends, or goes on posting what is left of its news.                 *)
LEMMA RunEnds ==
    ASSUME TickInv, NEW r \in runs, runs' = {}, r.stage # "recorded",
           news' = {}, stale' = {}, repaints' = repaints, muddled' \in BOOLEAN,
           UNCHANGED <<told, ended, reports, lastActive, mode, badge, ticks, unwritten>>,
           ~muddled' => ~muddled /\ r.stage \in {"announcing", "posting"}
    PROVE  TickInv'
  <1>1. TickType' /\ OneRun' /\ RunKnows' /\ DueAreNew'
    BY DEF TickInv, TickType, OneRun, RunKnows, DueAreNew
  <1>2. StartsApart'
    BY DEF TickInv, StartsApart
  <1>3. Ticks!OpenAlerts' = Ticks!OpenAlerts /\ RunPainting' = {}
    BY DEF Ticks!OpenAlerts, RunPainting
  <1>4. Painted'
    <2> SUFFICES ASSUME ~muddled' PROVE Painted'
      BY DEF Painted
    <2>1. runs = {r} /\ RunPainting = {} /\ lastActive = Ticks!OpenAlerts
      BY OneRunning DEF TickInv, Painted
    <2> QED BY <2>1, <1>3 DEF TickInv, Painted
  <1>5. Ticks!AnnouncedFromTheRecord' /\ Ticks!EndedOutagesAreReported'
    BY OneRunning, OwedNext, OwedByOne
       DEF Ticks!AnnouncedFromTheRecord, Ticks!EndedOutagesAreReported
  <1> QED BY <1>1, <1>2, <1>4, <1>5 DEF TickInv

LEMMA NewsIsToldOrHeldBack ==
    ASSUME TickInv, NEW r \in runs, Ticks!Announce(r)
    PROVE  TickInv'
  <1> DEFINE q == [r EXCEPT !.stage = "posting"]
  <1>1. /\ r.stage = "announcing" /\ muddled' = muddled
        /\ UNCHANGED <<told, ended, reports, lastActive, mode, badge, repaints, ticks>>
        /\ UNCHANGED <<stale, unwritten>>
        /\ \/ r.left # {} /\ Ticks!Becomes(r, q) /\ news' = news
           \/ runs' = runs \ {r} /\ news' = news \ r.left
    BY DEF Ticks!Announce, Ticks!stores
  <1>2. r \in TickRuns /\ Ticks!OnRecord(r) /\ RunPainting = {} /\ runs = {r} /\ news = r.left
        /\ stale = {}
    BY <1>1, OneRunning DEF Ticks!OnRecord
  <1>3. CASE runs' = runs \ {r} /\ news' = news \ r.left
    <2>1. runs' = {} /\ news' = {} /\ stale' = {} /\ muddled' \in BOOLEAN
      BY <1>1, <1>2, <1>3 DEF TickInv, TickType
    <2> QED BY <2>1, <1>1, RunEnds
  <1>4. CASE r.left # {} /\ Ticks!Becomes(r, q) /\ news' = news
    <2>1. q \in TickRuns /\ q.at = r.at /\ q.stage = "posting" /\ q.left = r.left
      BY <1>2 DEF TickRuns, TickStages
    <2> HIDE DEF q
    <2>2. /\ runs' = {q} /\ OneRun' /\ StartsApart' /\ DueAreNew'
          /\ Ticks!AnnouncedFromTheRecord' /\ Ticks!EndedOutagesAreReported'
          /\ Ticks!OpenAlerts' = Ticks!OpenAlerts /\ RunPainting' = {}
      BY <1>1, <1>2, <1>4, <2>1, RunGoesOn
    <2>3. TickType'
      BY <1>1, <2>1, <2>2 DEF TickInv, TickType
    <2>4. RunKnows'
      BY <1>4, <2>1, <2>2 DEF RunKnows
    <2>5. Painted'
      BY <1>1, <1>2, <2>1, <2>2 DEF TickInv, Painted
    <2> QED BY <2>2, <2>3, <2>4, <2>5 DEF TickInv
  <1> QED BY <1>1, <1>3, <1>4

LEMMA NewsIsPosted ==
    ASSUME TickInv, NEW r \in runs, Ticks!Post(r)
    PROVE  TickInv'
  <1> DEFINE t == CHOOSE t \in r.left : TRUE
             q == [r EXCEPT !.left = r.left \ {t}]
  <1>1. /\ r.stage = "posting" /\ muddled' = muddled
        /\ UNCHANGED <<told, ended, reports, lastActive, mode, badge, repaints, ticks>>
        /\ UNCHANGED unwritten
        /\ news' = news \ {t} /\ stale' = stale \cup ({t} \ news)
        /\ IF r.left = {t} THEN runs' = runs \ {r} ELSE Ticks!Becomes(r, q)
    BY DEF Ticks!Post, Ticks!stores
  <1>2. r \in TickRuns /\ Ticks!OnRecord(r) /\ RunPainting = {} /\ runs = {r} /\ news = r.left
        /\ stale = {}
    BY <1>1, OneRunning DEF Ticks!OnRecord
  <1>3. t \in r.left
    BY <1>1 DEF TickInv, RunKnows
  <1>4. stale' = {} /\ news' = r.left \ {t}
    BY <1>1, <1>2, <1>3
  <1> HIDE DEF t
  <1>5. CASE r.left = {t}
    <2>1. runs' = {} /\ news' = {} /\ muddled' \in BOOLEAN
      BY <1>1, <1>2, <1>4, <1>5 DEF TickInv, TickType
    <2> QED BY <2>1, <1>1, <1>4, RunEnds
  <1>6. CASE r.left # {t}
    <2>1. /\ q \in TickRuns /\ q.at = r.at /\ q.stage = "posting" /\ q.left = r.left \ {t}
          /\ q.left # {}
      BY <1>1, <1>2, <1>3, <1>6 DEF TickRuns, TickStages
    <2> HIDE DEF q
    <2>2. runs' = {q}
      BY <1>1, <1>2, <1>6 DEF Ticks!Becomes
    <2>3. TickType' /\ OneRun' /\ RunKnows' /\ DueAreNew'
      BY <1>1, <1>2, <2>1, <2>2, OneRunning DEF TickInv, TickType, OneRun, RunKnows, DueAreNew
    <2>4. StartsApart'
      BY <1>1, <2>1, <2>2 DEF TickInv, StartsApart
    <2>5. RunPainting' = {} /\ Ticks!OpenAlerts' = Ticks!OpenAlerts
      BY <1>1, <2>1, <2>2 DEF RunPainting, Ticks!OpenAlerts
    <2>6. Painted'
      BY <1>1, <1>2, <2>1, <2>2, <2>5 DEF TickInv, Painted
    <2>7. Ticks!AnnouncedFromTheRecord' /\ Ticks!EndedOutagesAreReported'
      <3>1. OwingOf(runs') = q.left /\ UnreportedOf(runs') = {}
        BY <2>1, <2>2, OwedByOne DEF Ticks!OnRecord
      <3> QED BY <3>1, <2>1, <1>1, <1>4, OneRunning, OwedNext
              DEF Ticks!AnnouncedFromTheRecord, Ticks!EndedOutagesAreReported
    <2> QED BY <2>3, <2>4, <2>6, <2>7 DEF TickInv
  <1> QED BY <1>5, <1>6

(* Steps beside the runs: the run and the stores but the badge's stand still.    *)
LEMMA BesideTheRuns ==
    ASSUME TickInv, UNCHANGED <<told, ended, reports, lastActive, runs, ticks>>,
           UNCHANGED <<news, stale, unwritten>>
    PROVE  /\ OneRun' /\ RunKnows' /\ StartsApart' /\ DueAreNew'
           /\ Ticks!AnnouncedFromTheRecord' /\ Ticks!EndedOutagesAreReported'
           /\ Ticks!OpenAlerts' = Ticks!OpenAlerts /\ RunPainting' = RunPainting
  <1>1. Ticks!OpenAlerts' = Ticks!OpenAlerts /\ RunPainting' = RunPainting
    BY DEF Ticks!OpenAlerts, RunPainting
  <1>2. OneRun' /\ RunKnows' /\ DueAreNew'
    BY <1>1 DEF TickInv, OneRun, RunKnows, DueAreNew
  <1>3. StartsApart'
    BY DEF TickInv, StartsApart
  <1>4. Ticks!AnnouncedFromTheRecord' /\ Ticks!EndedOutagesAreReported'
    BY OwedNow, OwedNext
       DEF TickInv, Ticks!AnnouncedFromTheRecord, Ticks!EndedOutagesAreReported
  <1> QED BY <1>1, <1>2, <1>3, <1>4

LEMMA SettingChanges ==
    ASSUME TickInv, NEW how \in Ticks!Modes, Ticks!SetMode(how)
    PROVE  TickInv'
  <1> DEFINE p == [for |-> how, stage |-> "asked", active |-> {}, shown |-> {}]
  <1>1. /\ mode' = how /\ repaints' = repaints \cup {p}
        /\ muddled' = (muddled \/ Ticks!Painters # {})
        /\ UNCHANGED <<told, ended, reports, lastActive, badge, runs, ticks>>
        /\ UNCHANGED <<news, stale, unwritten>>
    BY DEF Ticks!SetMode
  <1>2. p \in Repainters /\ p.stage = "asked"
    BY DEF Repainters
  <1> HIDE DEF p
  <1>3. TickType'
    <2>1. muddled' \in BOOLEAN
      BY <1>1
    <2> QED BY <2>1, <1>1, <1>2 DEF TickInv, TickType
  <1>4. Painted'
    <2> SUFFICES ASSUME ~muddled' PROVE Painted'
      BY DEF Painted
    <2>1. ~muddled /\ RunPainting = {} /\ repaints = {}
      BY <1>1 DEF Ticks!Painters, RunPainting
    <2> QED BY <2>1, <1>1, <1>2, BesideTheRuns DEF TickInv, Painted
  <1> QED BY <1>1, <1>3, <1>4, BesideTheRuns DEF TickInv

LEMMA BadgeIsRepainted ==
    ASSUME TickInv, NEW p \in repaints, Ticks!Repaint(p)
    PROVE  TickInv'
  <1>1. /\ p \in Repainters
        /\ UNCHANGED <<told, ended, reports, lastActive, mode, runs, ticks, muddled>>
        /\ UNCHANGED <<news, stale, unwritten>>
        /\ badge' = IF p.stage = "painted" THEN p.shown ELSE badge
    BY DEF Ticks!Repaint, Ticks!stores, Ticks!history, TickInv, TickType
  <1>2. badge' \subseteq Ticks!Alerts /\ lastActive \subseteq Ticks!Alerts /\ p.active \subseteq Ticks!Alerts
    BY <1>1 DEF TickInv, TickType, Repainters
  <1>3. PICK next \in SUBSET Repainters :
           /\ repaints' = (repaints \ {p}) \cup next
           /\ p.stage = "painted" <=> next = {}
           /\ next = {} \/ \E q : next = {q}
           /\ \A q \in next : /\ q.stage = "painting" => q.active = lastActive
                              /\ q.stage = "painted" =>
                                    p.stage = "painting" /\ q.shown = Ticks!BadgeAlerts(p.active, mode)
    <2>1. CASE p.stage = "asked"
      <3> DEFINE q == [p EXCEPT !.stage = "painting", !.active = lastActive]
      <3>1. q \in Repainters /\ q.stage = "painting" /\ q.active = lastActive
        BY <1>1, <1>2 DEF Repainters
      <3>2. repaints' = (repaints \ {p}) \cup {q}
        BY <2>1 DEF Ticks!Repaint
      <3> HIDE DEF q
      <3> {q} \in SUBSET Repainters
        BY <3>1
      <3> WITNESS {q} \in SUBSET Repainters
      <3> QED BY <2>1, <3>1, <3>2
    <2>2. CASE p.stage = "painting"
      <3> DEFINE q == [p EXCEPT !.stage = "painted", !.shown = Ticks!BadgeAlerts(p.active, mode)]
      <3>1. Ticks!BadgeAlerts(p.active, mode) \subseteq Ticks!Alerts
        BY <1>2, ShownIsAlerts
      <3>2. q \in Repainters /\ q.stage = "painted" /\ q.shown = Ticks!BadgeAlerts(p.active, mode)
        BY <1>1, <3>1 DEF Repainters
      <3>3. repaints' = (repaints \ {p}) \cup {q}
        BY <2>2 DEF Ticks!Repaint
      <3> HIDE DEF q
      <3> {q} \in SUBSET Repainters
        BY <3>2
      <3> WITNESS {q} \in SUBSET Repainters
      <3> QED BY <2>2, <3>2, <3>3
    <2>3. CASE p.stage = "painted"
      <3>1. repaints' = (repaints \ {p}) \cup {}
        BY <2>3 DEF Ticks!Repaint
      <3> WITNESS {} \in SUBSET Repainters
      <3> QED BY <2>3, <3>1
    <2> QED BY <2>1, <2>2, <2>3, <1>1 DEF Repainters
  <1>4. TickType'
    BY <1>1, <1>2, <1>3 DEF TickInv, TickType
  <1>5. Painted'
    <2> SUFFICES ASSUME ~muddled PROVE Painted'
      BY <1>1 DEF Painted
    <2>1. /\ repaints = {p} /\ RunPainting = {}
          /\ p.stage = "painting" => p.active = lastActive
          /\ p.stage = "painted" => p.shown = Ticks!BadgeAlerts(lastActive, mode)
      BY DEF TickInv, Painted
    <2>2. repaints' = next /\ RunPainting' = {} /\ Ticks!OpenAlerts' = Ticks!OpenAlerts
      BY <1>1, <1>3, <2>1, BesideTheRuns
    <2>3. next = {} => badge' = Ticks!BadgeAlerts(lastActive, mode)
      BY <1>1, <1>3, <2>1
    <2> QED BY <2>1, <2>2, <2>3, <1>1, <1>3 DEF TickInv, Painted
  <1> QED BY <1>1, <1>4, <1>5, BesideTheRuns DEF TickInv

LEMMA TickIsRejected ==
    ASSUME TickInv, NEW r \in runs, Ticks!TickFails(r)
    PROVE  TickInv'
  <1>1. /\ r.stage \in {"polled", "seeded", "judged"} /\ runs' = runs \ {r} /\ muddled' = TRUE
        /\ UNCHANGED <<told, ended, reports, lastActive, mode, badge, repaints, ticks, stale>>
    BY DEF Ticks!TickFails, Ticks!stores, Ticks!Lost
  <1>2. news' = news \ OwingOf({r}) /\ unwritten' = unwritten \cup UnreportedOf({r})
    BY DEF Ticks!TickFails, Ticks!Lost, OwingOf, UnreportedOf
  <1>3. unwritten' = unwritten /\ news' = {} /\ stale' = {} /\ runs' = {}
    BY <1>1, <1>2, OneRunning, OwedByOne
  <1> QED BY <1>1, <1>3, RunEnds

LEMMA WorkerEnds ==
    ASSUME TickInv, Ticks!Teardown
    PROVE  TickInv'
  <1>1. /\ runs' = {} /\ repaints' = {} /\ muddled' = TRUE
        /\ UNCHANGED <<told, ended, reports, lastActive, mode, badge, ticks, stale>>
    BY DEF Ticks!Teardown, Ticks!stores, Ticks!Lost
  <1>2. news' = news \ OwingOf(runs) /\ unwritten' = unwritten \cup UnreportedOf(runs)
    BY DEF Ticks!Teardown, Ticks!Lost, OwingOf, UnreportedOf
  <1>3. TickType' /\ OneRun' /\ RunKnows' /\ DueAreNew'
    BY <1>1 DEF TickInv, TickType, OneRun, RunKnows, DueAreNew
  <1>4. StartsApart' /\ Painted'
    BY <1>1 DEF TickInv, StartsApart, Painted
  <1>5. Ticks!AnnouncedFromTheRecord' /\ Ticks!EndedOutagesAreReported'
    BY <1>1, <1>2, OwedNow, OwedNext, OwedByOne
       DEF TickInv, Ticks!AnnouncedFromTheRecord, Ticks!EndedOutagesAreReported
  <1> QED BY <1>3, <1>4, <1>5 DEF TickInv

LEMMA TickInvStep == TickInv /\ UNCHANGED part /\ StoresNext => TickInv'
  <1> SUFFICES ASSUME TickInv, StoresNext PROVE TickInv'
    OBVIOUS
  <1>1. CASE UNCHANGED tickVars
    <2>1. /\ UNCHANGED <<told, ended, reports, lastActive, mode, badge, runs, repaints, ticks>>
          /\ UNCHANGED <<news, stale, unwritten, muddled>>
      BY <1>1 DEF tickVars
    <2>2. TickType' /\ Painted'
      BY <2>1, BesideTheRuns DEF TickInv, TickType, Painted
    <2> QED BY <2>1, <2>2, BesideTheRuns DEF TickInv
  <1>2. CASE Ticks!Next
    <2>1. CASE \E how \in Ticks!Modes : Ticks!SetMode(how)
      BY <2>1, SettingChanges
    <2>2. CASE \E p \in repaints : Ticks!Repaint(p)
      BY <2>2, BadgeIsRepainted
    <2>3. ASSUME NEW r \in runs, Ticks!ReadOpen(r) \/ Ticks!Record(r) \/ Ticks!Report(r) \/ Ticks!TickFails(r)
          PROVE  TickInv'
      BY <2>3, EpisodesAreRead, CrossingsAreRecorded, OutagesAreReported, TickIsRejected
    <2>4. ASSUME NEW r \in runs, \/ Ticks!Remember(r) \/ Ticks!ReadMode(r) \/ Ticks!SetBadge(r)
                                 \/ Ticks!Announce(r) \/ Ticks!Post(r)
          PROVE  TickInv'
      BY <2>4, StandingSetIsKept, BadgeIsWorkedOut, BadgeIsSet, NewsIsToldOrHeldBack, NewsIsPosted
    <2> QED BY <1>2, <2>1, <2>2, <2>3, <2>4, TickBegins, WorkerEnds DEF Ticks!Next
  <1> QED BY <1>1, <1>2 DEF StoresNext

(* ExtensionTick: what a tick tells people is what it wrote down: openings and   *)
(* closings are announced once, ended outages have their report, and the badge   *)
(* at rest counts what is open (recordAlerts, recordOutageReports, updateBadge). *)
THEOREM TicksTellTheRecord == StoresSpec => []TellsWhatIsOnRecord
  <1>1. TickInv => TellsWhatIsOnRecord
    <2> SUFFICES ASSUME TickInv PROVE Ticks!BadgeCountsTheOpen
      BY DEF TickInv, TellsWhatIsOnRecord
    <2>1. runs = {} => RunPainting = {}
      BY DEF RunPainting
    <2> QED BY <2>1 DEF TickInv, Painted, Ticks!BadgeCountsTheOpen
  <1>2. TickInv /\ UNCHANGED storesVars => TickInv'
    <2> SUFFICES ASSUME TickInv, UNCHANGED storesVars PROVE TickInv'
      OBVIOUS
    <2>1. /\ UNCHANGED <<told, ended, reports, lastActive, mode, badge, runs, repaints, ticks>>
          /\ UNCHANGED <<news, stale, unwritten, muddled>>
      BY DEF storesVars, tickVars
    <2>2. TickType' /\ Painted'
      BY <2>1, BesideTheRuns DEF TickInv, TickType, Painted
    <2> QED BY <2>1, <2>2, BesideTheRuns DEF TickInv
  <1> QED BY <1>1, <1>2, TickStarts, TickInvStep, PTL DEF StoresSpec

--------------------------------------------------------------------------------
(* The recorder's alerts.  The engine's alerts are those open on record but for  *)
(* the transitions not yet written down, one an alert; and the readings of a     *)
(* poll under way are what the dish last said.                                   *)

AlertNames == Alerts!Alerts
Closings   == [start : Nat, end : Nat]
Turns      == [kind : {"fired", "cleared"}, alert : AlertNames, at : Nat]
Polls      == [reply : Alerts!DishReplies \cup {None}, at : Nat \cup {None}]

AlertType ==
    /\ firing \subseteq AlertNames
    /\ episode \in [AlertNames -> Nat \cup {None}] /\ closed \in [AlertNames -> Closings \cup {None}]
    /\ todo \subseteq Turns /\ cycle \subseteq Polls
    /\ hour \in Nat /\ heard \in BOOLEAN

OnePoll == (\A c \in cycle : cycle = {c}) /\ (cycle # {} => todo = {})

(* What is to be written down is where the engine and the record differ.         *)
Pending ==
    /\ \A t \in todo : /\ t.kind = "fired" <=> episode[t.alert] = None
                       /\ \A u \in todo : u.alert = t.alert => u = t
    /\ \A a \in AlertNames :
          (\E t \in todo : t.alert = a) <=> ~(a \in firing <=> episode[a] # None)

(* What is on record is no later than what is still to be.                       *)
NoLater(moment, a) ==
    /\ moment <= hour
    /\ \A t \in todo : t.alert = a => moment <= t.at
    /\ \A c \in cycle : c.at # None => moment <= c.at

InOrder ==
    /\ \A t \in todo : t.at <= hour
    /\ \A c \in cycle : c.at # None => c.at <= hour
    /\ \A a \in AlertNames : /\ episode[a] # None => NoLater(episode[a], a)
                             /\ closed[a] # None => NoLater(closed[a].end, a)

Asked     == \E c \in cycle : c.at # None
Answering == \E c \in cycle : c.at # None /\ c.reply # None

AsHeard ==
    /\ \A c \in cycle : c.at # None =>
          /\ "dish" \in silent <=> c.reply = None
          /\ c.reply # None =>
                /\ said = c.reply.presence
                /\ \A a \in Alerts!DishAlerts : a \in word <=> a \in Alerts!Corrected(c.reply)
    /\ "dish" \notin torn /\ ~Answering => \A a \in Alerts!DishAlerts : a \in firing <=> a \in word
    /\ "router" \notin torn => \A a \in Alerts!RouterAlerts : a \in firing <=> a \in word
    /\ "silences" \notin torn /\ ~Asked => (Alerts!DishSilence \in firing <=> "dish" \in silent)
    /\ heard /\ ~Answering => presence = said
    /\ heard /\ ~Answering /\ "silences" \notin torn =>
          (Alerts!RouterSilence \in firing <=> "router" \in silent /\ said \notin {"bypassed", "absent"})

EpisodeInv ==
    AlertType /\ OnePoll /\ Pending /\ InOrder /\ Alerts!EpisodesAreApart /\ AsHeard

LEMMA NoneIsNoHour == None \notin Nat /\ None \notin Alerts!Presences
  BY InstancesSuit DEF Alerts!AlertsAssumption

LEMMA ScopesApart ==
    /\ \A a \in Alerts!DishAlerts : a[1] = "dish" /\ a \in Alerts!DishScope /\ a # Alerts!DishSilence
    /\ \A a \in Alerts!RouterAlerts : a[1] = "router" /\ a \in Alerts!RouterScope /\ a # Alerts!RouterSilence
    /\ Alerts!DishSilence \in Alerts!DishScope /\ Alerts!RouterSilence \in Alerts!RouterScope
    /\ \A a : a \in Alerts!DishScope => a \notin Alerts!RouterScope
    /\ \A a : a \in AlertNames <=> a \in Alerts!DishScope \/ a \in Alerts!RouterScope
    /\ \A a \in Alerts!DishScope : a \in Alerts!DishAlerts \/ a = Alerts!DishSilence
    /\ \A a \in Alerts!RouterScope : a \in Alerts!RouterAlerts \/ a = Alerts!RouterSilence
  <1>1. \A a \in Alerts!DishAlerts : a[1] = "dish"
    BY DEF Alerts!DishAlerts
  <1>2. \A a \in Alerts!RouterAlerts : a[1] = "router"
    BY DEF Alerts!RouterAlerts
  <1>3. /\ Alerts!DishSilence[1] = "system" /\ Alerts!RouterSilence[1] = "system"
        /\ Alerts!DishSilence[2] = "dishUnreachable" /\ Alerts!RouterSilence[2] = "routerUnreachable"
    BY DEF Alerts!DishSilence, Alerts!RouterSilence
  <1>4. \A a : a \in Alerts!DishScope <=> a \in Alerts!DishAlerts \/ a = Alerts!DishSilence
    BY DEF Alerts!DishScope
  <1>5. \A a : a \in Alerts!RouterScope <=> a \in Alerts!RouterAlerts \/ a = Alerts!RouterSilence
    BY DEF Alerts!RouterScope
  <1>6. \A a : a \in AlertNames <=> \/ a \in Alerts!DishAlerts \/ a \in Alerts!RouterAlerts
                                    \/ a = Alerts!DishSilence \/ a = Alerts!RouterSilence
    BY DEF AlertNames, Alerts!Alerts
  <1> QED BY <1>1, <1>2, <1>3, <1>4, <1>5, <1>6, Zenon

(* The correction of the dish's leftover flag is what its reply means.           *)
LEMMA CorrectedIsMeant ==
    ASSUME NEW voice \in Alerts!DishReplies
    PROVE  /\ Alerts!Meant(voice) = Alerts!Corrected(voice)
           /\ Alerts!Corrected(voice) \subseteq Alerts!DishAlerts
  <1>1. voice.flags \subseteq DishFlags
    BY DEF Alerts!DishReplies
  <1>2. CASE voice.linked
    BY <1>1, <1>2 DEF Alerts!Meant, Alerts!Corrected, Alerts!DishAlerts
  <1>3. CASE ~voice.linked
    BY <1>1, <1>3 DEF Alerts!Meant, Alerts!Corrected, Alerts!DishAlerts
  <1> QED BY <1>2, <1>3

LEMMA EpisodesStart == StoresInit => EpisodeInv
  <1> SUFFICES ASSUME StoresInit PROVE EpisodeInv
    OBVIOUS
  <1>1. /\ firing = {} /\ presence = None /\ todo = {} /\ cycle = {} /\ hour = 0
        /\ episode = [a \in AlertNames |-> None] /\ closed = [a \in AlertNames |-> None]
        /\ word = {} /\ said = None /\ silent = {} /\ torn = {} /\ heard = FALSE
    BY DEF StoresInit, Alerts!Init, AlertNames
  <1>2. AlertType /\ OnePoll
    BY <1>1 DEF AlertType, OnePoll
  <1>3. Pending /\ InOrder
    BY <1>1 DEF Pending, InOrder
  <1>4. Alerts!EpisodesAreApart
    BY <1>1 DEF Alerts!EpisodesAreApart, AlertNames
  <1>5. AsHeard
    BY <1>1 DEF AsHeard, Asked, Answering
  <1> QED BY <1>2, <1>3, <1>4, <1>5 DEF EpisodeInv

LEMMA PollBegins ==
    ASSUME EpisodeInv, Alerts!Begin
    PROVE  EpisodeInv'
  <1> DEFINE c == [reply |-> None, at |-> None]
  <1>1. /\ todo = {} /\ cycle = {} /\ cycle' = {c}
        /\ UNCHANGED <<firing, presence, episode, closed, todo, hour, word, said, silent, torn, heard>>
    BY DEF Alerts!Begin, Alerts!MayBegin, Alerts!engine, Alerts!log, Alerts!ghosts
  <1>2. c \in Polls /\ c.at = None
    BY DEF Polls
  <1> HIDE DEF c
  <1>3. AlertType' /\ OnePoll'
    BY <1>1, <1>2 DEF EpisodeInv, AlertType, OnePoll
  <1>4. Pending' /\ InOrder'
    BY <1>1, <1>2 DEF EpisodeInv, Pending, InOrder, NoLater
  <1>5. Alerts!EpisodesAreApart'
    BY <1>1 DEF EpisodeInv, Alerts!EpisodesAreApart
  <1>6. AsHeard'
    <2>1. ~Asked' /\ ~Answering' /\ ~Asked /\ ~Answering
      BY <1>1, <1>2 DEF Asked, Answering
    <2> QED BY <2>1, <1>1, <1>2 DEF EpisodeInv, AsHeard
  <1> QED BY <1>3, <1>4, <1>5, <1>6 DEF EpisodeInv

LEMMA DishIsHeard ==
    ASSUME EpisodeInv, NEW c \in cycle, NEW voice \in Alerts!DishReplies \cup {None},
           Alerts!HearDish(c, voice)
    PROVE  EpisodeInv'
  <1> DEFINE d == [reply |-> voice, at |-> hour]
  <1>1. /\ todo = {} /\ c.at = None /\ cycle' = (cycle \ {c}) \cup {d}
        /\ UNCHANGED <<firing, presence, episode, closed, todo, hour, torn, heard>>
        /\ voice = None => /\ silent' = silent \cup {"dish"} /\ word' = word /\ said' = said
        /\ voice # None => /\ silent' = silent \ {"dish"} /\ said' = voice.presence
                           /\ word' = (word \ Alerts!DishAlerts) \cup Alerts!Meant(voice)
    BY DEF Alerts!HearDish, Alerts!engine, Alerts!log
  <1>2. cycle = {c} /\ hour \in Nat
    BY DEF EpisodeInv, OnePoll, AlertType
  <1>3. d \in Polls /\ d.at = hour /\ d.reply = voice /\ d.at # None
    BY <1>2, NoneIsNoHour DEF Polls
  <1> HIDE DEF d
  <1>4. cycle' = {d} /\ ~Asked /\ ~Answering
    BY <1>1, <1>2 DEF Asked, Answering
  <1>5. AlertType' /\ OnePoll'
    BY <1>1, <1>3, <1>4 DEF EpisodeInv, AlertType, OnePoll
  <1>6. Pending' /\ Alerts!EpisodesAreApart'
    BY <1>1 DEF EpisodeInv, Pending, Alerts!EpisodesAreApart
  <1>7. InOrder'
    BY <1>1, <1>2, <1>3, <1>4 DEF EpisodeInv, InOrder, NoLater
  <1>8. AsHeard'
    <2>1. Asked' /\ (Answering' <=> voice # None)
      BY <1>3, <1>4 DEF Asked, Answering
    <2>2. CASE voice = None
      BY <2>1, <2>2, <1>1, <1>3, <1>4 DEF EpisodeInv, AsHeard
    <2>3. CASE voice # None
      <3>1. /\ Alerts!Meant(voice) = Alerts!Corrected(voice)
            /\ Alerts!Corrected(voice) \subseteq Alerts!DishAlerts
        BY <2>3, CorrectedIsMeant
      <3>2. \A a \in Alerts!DishAlerts : a \in word' <=> a \in Alerts!Corrected(voice)
        BY <3>1, <2>3, <1>1
      <3>3. \A a \in Alerts!RouterAlerts : a \in word' <=> a \in word
        BY <3>1, <2>3, <1>1, ScopesApart
      <3> QED BY <3>2, <3>3, <2>1, <2>3, <1>1, <1>3, <1>4 DEF EpisodeInv, AsHeard
    <2> QED BY <2>2, <2>3
  <1> QED BY <1>5, <1>6, <1>7, <1>8 DEF EpisodeInv

(* What the engine makes of one poll, the dish's alerts first.                   *)
DishJudged(before, voice) ==
    Alerts!Reconcile(before, Alerts!DishScope, Alerts!DishWants(before, voice))
BothJudged(before, voice, answer, saying) ==
    Alerts!Reconcile(DishJudged(before, voice), Alerts!RouterScope,
                     Alerts!RouterWants(DishJudged(before, voice), answer, saying))

EngineMade(before, voice, answer, saying, early, second) ==
    /\ early \subseteq AlertNames /\ second \subseteq AlertNames
    /\ \A a \in Alerts!DishScope : a \in second <=> a \in early
    /\ \A a \in Alerts!RouterScope : a \in before <=> a \in early
    /\ voice = None => \A a \in Alerts!DishAlerts : a \in second <=> a \in before
    /\ voice # None => \A a \in Alerts!DishAlerts : a \in second <=> a \in Alerts!Corrected(voice)
    /\ Alerts!DishSilence \in second <=> voice = None
    /\ answer = None => \A a \in Alerts!RouterAlerts : a \in second <=> a \in before
    /\ answer # None => \A a \in Alerts!RouterAlerts : a \in second <=> a \in {"router"} \X answer
    /\ Alerts!RouterSilence \in second
          <=> answer = None /\ saying \notin {"bypassed", "absent"}

LEMMA EngineUpdates ==
    ASSUME NEW before, before \subseteq AlertNames, NEW voice \in Alerts!DishReplies \cup {None},
           NEW answer \in (SUBSET RouterFlags) \cup {None}, NEW saying
    PROVE  EngineMade(before, voice, answer, saying,
                      DishJudged(before, voice), BothJudged(before, voice, answer, saying))
  <1> DEFINE early  == DishJudged(before, voice)
             second == BothJudged(before, voice, answer, saying)
  <1> DEFINE wanted == Alerts!DishWants(before, voice)
             asked  == Alerts!RouterWants(early, answer, saying)
  <1>1. /\ wanted \subseteq Alerts!DishScope
        /\ voice = None => \A a \in Alerts!DishAlerts : a \in wanted <=> a \in before
        /\ voice # None => \A a \in Alerts!DishAlerts : a \in wanted <=> a \in Alerts!Corrected(voice)
        /\ Alerts!DishSilence \in wanted <=> voice = None
    <2>1. CASE voice = None
      BY <2>1, ScopesApart DEF Alerts!DishWants, Alerts!HeldFor, Alerts!DishScope
    <2>2. CASE voice # None
      BY <2>2, ScopesApart, CorrectedIsMeant DEF Alerts!DishWants, Alerts!DishScope
    <2> QED BY <2>1, <2>2
  <1>2. \A a : a \in early <=> \/ a \in wanted
                               \/ a \in before /\ a \notin Alerts!DishScope
    BY DEF Alerts!Reconcile, DishJudged
  <1> HIDE DEF early
  <1>3. \A a \in Alerts!RouterScope : a \in before <=> a \in early
    BY <1>1, <1>2, ScopesApart
  <1>4. /\ asked \subseteq Alerts!RouterScope
        /\ answer = None => \A a \in Alerts!RouterAlerts : a \in asked <=> a \in early
        /\ answer # None => \A a \in Alerts!RouterAlerts : a \in asked <=> a \in {"router"} \X answer
        /\ Alerts!RouterSilence \in asked <=> answer = None /\ saying \notin {"bypassed", "absent"}
    <2>1. CASE answer = None
      BY <2>1, ScopesApart
         DEF Alerts!RouterWants, Alerts!HeldFor, Alerts!RouterScope, Alerts!RouterSilenceExpected
    <2>2. CASE answer # None
      <3>1. asked = {"router"} \X answer
        BY <2>2 DEF Alerts!RouterWants
      <3>2. asked \subseteq Alerts!RouterAlerts
        BY <2>2, <3>1 DEF Alerts!RouterAlerts
      <3> HIDE DEF asked
      <3> QED BY <2>2, <3>1, <3>2, ScopesApart
    <2> QED BY <2>1, <2>2
  <1>5. \A a : a \in second <=> \/ a \in asked
                                \/ a \in early /\ a \notin Alerts!RouterScope
    BY DEF Alerts!Reconcile, BothJudged, early
  <1> HIDE DEF wanted, asked, second
  <1>6. early \subseteq AlertNames
    BY <1>1, <1>2, ScopesApart
  <1>7. second \subseteq AlertNames
    BY <1>4, <1>5, <1>6, ScopesApart
  <1>8. \A a \in Alerts!DishScope : (a \in second <=> a \in early) /\ (a \in early <=> a \in wanted)
    BY <1>1, <1>2, <1>4, <1>5, ScopesApart
  <1>9. \A a \in Alerts!RouterScope : a \in second <=> a \in asked
    BY <1>5, <1>4
  <1>10. EngineMade(before, voice, answer, saying, early, second)
    BY <1>1, <1>3, <1>4, <1>6, <1>7, <1>8, <1>9, ScopesApart DEF EngineMade
  <1> QED BY <1>10 DEF early, second

LEMMA RouterIsHeard ==
    ASSUME EpisodeInv, NEW c \in cycle, NEW answer \in (SUBSET RouterFlags) \cup {None},
           Alerts!HearRouter(c, answer)
    PROVE  EpisodeInv'
  <1> DEFINE saying == IF c.reply = None THEN presence ELSE c.reply.presence
             early    == DishJudged(firing, c.reply)
             second   == BothJudged(firing, c.reply, answer, saying)
             onDish   == Alerts!Crossed(firing, early, c.at)
             onRouter == Alerts!Crossed(early, second, hour)
  <1>1. /\ todo = {} /\ c.at # None /\ firing' = second /\ presence' = saying
        /\ todo' = onDish \cup onRouter /\ cycle' = cycle \ {c}
        /\ UNCHANGED <<episode, closed, hour, said>>
        /\ silent' = IF answer = None THEN silent \cup {"router"} ELSE silent \ {"router"}
        /\ word' = IF answer = None THEN word
                   ELSE (word \ Alerts!RouterAlerts) \cup ({"router"} \X answer)
        /\ heard' = (heard \/ c.reply # None)
        /\ torn' = torn \ ({ d \in {"dish"} : c.reply # None }
                           \cup { d \in {"router"} : answer # None } \cup {"silences"})
    BY DEF Alerts!HearRouter, Alerts!log, DishJudged, BothJudged
  <1>2. cycle = {c} /\ c \in Polls /\ c.reply \in Alerts!DishReplies \cup {None}
        /\ c.at \in Nat /\ hour \in Nat /\ c.at <= hour
    BY <1>1 DEF EpisodeInv, OnePoll, AlertType, Polls, InOrder
  <1>3. /\ early \subseteq AlertNames /\ second \subseteq AlertNames
        /\ \A a \in Alerts!DishScope : a \in second <=> a \in early
        /\ \A a \in Alerts!RouterScope : a \in firing <=> a \in early
        /\ c.reply = None => \A a \in Alerts!DishAlerts : a \in second <=> a \in firing
        /\ c.reply # None => \A a \in Alerts!DishAlerts : a \in second <=> a \in Alerts!Corrected(c.reply)
        /\ Alerts!DishSilence \in second <=> c.reply = None
        /\ answer = None => \A a \in Alerts!RouterAlerts : a \in second <=> a \in firing
        /\ answer # None => \A a \in Alerts!RouterAlerts : a \in second <=> a \in {"router"} \X answer
        /\ Alerts!RouterSilence \in second
              <=> answer = None /\ saying \notin {"bypassed", "absent"}
    <2>1. firing \subseteq AlertNames
      BY DEF EpisodeInv, AlertType
    <2>2. EngineMade(firing, c.reply, answer, saying, early, second)
      BY <2>1, <1>2, EngineUpdates
    <2> HIDE DEF saying, early, second
    <2> QED BY <2>2 DEF EngineMade
  <1> HIDE DEF early, second
  <1>4. cycle' = {} /\ ~Asked' /\ ~Answering'
    BY <1>1, <1>2 DEF Asked, Answering
  <1>5. \A t \in todo' : /\ t \in Turns /\ t.at \in {c.at, hour}
                         /\ t.kind = "fired" => t.alert \in second \ firing
                         /\ t.kind = "cleared" => t.alert \in firing \ second
    <2>1. ASSUME NEW t \in onDish
          PROVE  /\ t \in Turns /\ t.at = c.at
                 /\ t.kind = "fired" => t.alert \in early \ firing
                 /\ t.kind = "cleared" => t.alert \in firing \ early
      <3>1. \/ t.kind = "fired" /\ t.alert \in early \ firing
            \/ t.kind = "cleared" /\ t.alert \in firing \ early
        BY DEF Alerts!Crossed
      <3>2. t \in Turns /\ t.at = c.at
        <4>1. firing \subseteq AlertNames
          BY DEF EpisodeInv, AlertType
        <4> QED BY <4>1, <1>2, <1>3 DEF Alerts!Crossed, Turns
      <3> QED BY <3>1, <3>2
    <2>2. ASSUME NEW t \in onRouter
          PROVE  /\ t \in Turns /\ t.at = hour
                 /\ t.kind = "fired" => t.alert \in second \ early
                 /\ t.kind = "cleared" => t.alert \in early \ second
      <3>1. \/ t.kind = "fired" /\ t.alert \in second \ early
            \/ t.kind = "cleared" /\ t.alert \in early \ second
        BY DEF Alerts!Crossed
      <3>2. t \in Turns /\ t.at = hour
        BY <1>2, <1>3 DEF Alerts!Crossed, Turns
      <3> QED BY <3>1, <3>2
    <2>3. \A a \in AlertNames : \/ (a \in second <=> a \in early)
                                \/ (a \in firing <=> a \in early)
      BY <1>3, ScopesApart
    <2> HIDE DEF onDish, onRouter
    <2> QED BY <2>1, <2>2, <2>3, <1>1 DEF Turns
  <1>6. \A t, u \in todo' : t.alert = u.alert => t = u
    <2> SUFFICES ASSUME NEW t \in todo', NEW u \in todo', t.alert = u.alert PROVE t = u
      OBVIOUS
    <2>1. t.kind = u.kind /\ t \in Turns /\ u \in Turns /\ t.alert \in AlertNames
      BY <1>5 DEF Turns
    <2>2. t.at = u.at
      <3>1. t \in onDish => t.at = c.at /\ ~(t.alert \in firing <=> t.alert \in early)
        BY DEF Alerts!Crossed
      <3>2. u \in onDish => u.at = c.at /\ ~(u.alert \in firing <=> u.alert \in early)
        BY DEF Alerts!Crossed
      <3>3. t \in onRouter => t.at = hour /\ ~(t.alert \in second <=> t.alert \in early)
        BY DEF Alerts!Crossed
      <3>4. u \in onRouter => u.at = hour /\ ~(u.alert \in second <=> u.alert \in early)
        BY DEF Alerts!Crossed
      <3>5. t.alert \in Alerts!DishScope \/ t.alert \in Alerts!RouterScope
        BY <2>1, ScopesApart
      <3> HIDE DEF onDish, onRouter
      <3> QED BY <3>1, <3>2, <3>3, <3>4, <3>5, <1>1, <1>3
    <2> QED BY <2>1, <2>2 DEF Turns
  <1>7. \A a \in AlertNames : (\E t \in todo' : t.alert = a) <=> ~(a \in second <=> a \in firing)
    <2> SUFFICES ASSUME NEW a \in AlertNames, ~(a \in second <=> a \in firing)
                 PROVE  \E t \in todo' : t.alert = a
      BY <1>5 DEF Turns
    <2>1. ~(a \in early <=> a \in firing) => \E t \in onDish : t.alert = a
      <3>1. a \in early \ firing => [kind |-> "fired", alert |-> a, at |-> c.at] \in onDish
        BY DEF Alerts!Crossed
      <3>2. a \in firing \ early => [kind |-> "cleared", alert |-> a, at |-> c.at] \in onDish
        BY DEF Alerts!Crossed
      <3> HIDE DEF onDish
      <3> QED BY <3>1, <3>2
    <2>2. ~(a \in early <=> a \in second) => \E t \in onRouter : t.alert = a
      <3>1. a \in second \ early => [kind |-> "fired", alert |-> a, at |-> hour] \in onRouter
        BY DEF Alerts!Crossed
      <3>2. a \in early \ second => [kind |-> "cleared", alert |-> a, at |-> hour] \in onRouter
        BY DEF Alerts!Crossed
      <3> HIDE DEF onRouter
      <3> QED BY <3>1, <3>2
    <2> HIDE DEF onDish, onRouter
    <2> QED BY <2>1, <2>2, <1>1
  <1> HIDE DEF onDish, onRouter
  <1>8. AlertType' /\ OnePoll'
    BY <1>1, <1>3, <1>4, <1>5 DEF EpisodeInv, AlertType, OnePoll
  <1>9. \A a \in AlertNames : a \in firing <=> episode[a] # None
    BY <1>1 DEF EpisodeInv, Pending
  <1>10. Pending'
    <2>1. ASSUME NEW t \in todo' PROVE t.kind = "fired" <=> episode[t.alert] = None
      BY <1>5, <1>9 DEF Turns
    <2> QED BY <2>1, <1>1, <1>6, <1>7, <1>9 DEF Pending
  <1>11. InOrder'
    <2>1. \A t \in todo' : t.at <= hour
      BY <1>2, <1>5
    <2>2. ASSUME NEW a \in AlertNames, NEW m, NoLater(m, a) PROVE NoLater(m, a)'
      BY <2>2, <1>1, <1>2, <1>4, <1>5 DEF NoLater
    <2>3. \A a \in AlertNames : /\ episode[a] # None => NoLater(episode[a], a)
                                /\ closed[a] # None => NoLater(closed[a].end, a)
      BY DEF EpisodeInv, InOrder
    <2> QED BY <2>1, <2>3, <1>1, <1>2, <1>4, <1>5 DEF InOrder, NoLater
  <1>12. Alerts!EpisodesAreApart'
    BY <1>1 DEF EpisodeInv, Alerts!EpisodesAreApart
  <1>13. AsHeard'
    <2>1. /\ "dish" \in silent <=> c.reply = None
          /\ c.reply # None =>
                /\ said = c.reply.presence
                /\ \A a \in Alerts!DishAlerts : a \in word <=> a \in Alerts!Corrected(c.reply)
          /\ c.reply = None => ~Answering
          /\ heard /\ ~Answering => presence = said
      BY <1>1, <1>2 DEF EpisodeInv, AsHeard, Answering
    <2>2. /\ "dish" \in silent' <=> "dish" \in silent
          /\ "router" \in silent' <=> answer = None
          /\ \A a \in Alerts!DishAlerts : a \in word' <=> a \in word
          /\ answer = None => \A a \in Alerts!RouterAlerts : a \in word' <=> a \in word
          /\ answer # None => \A a \in Alerts!RouterAlerts : a \in word' <=> a \in {"router"} \X answer
      <3>1. answer # None => {"router"} \X answer \subseteq Alerts!RouterAlerts
        BY DEF Alerts!RouterAlerts
      <3> QED BY <3>1, <1>1, ScopesApart
    <2>3. /\ "dish" \in torn' <=> "dish" \in torn /\ c.reply = None
          /\ "router" \in torn' <=> "router" \in torn /\ answer = None
      BY <1>1
    <2>4. "dish" \notin torn' => \A a \in Alerts!DishAlerts : a \in second <=> a \in word'
      BY <2>1, <2>2, <2>3, <1>3 DEF EpisodeInv, AsHeard
    <2>5. "router" \notin torn' => \A a \in Alerts!RouterAlerts : a \in second <=> a \in word'
      BY <2>2, <2>3, <1>3 DEF EpisodeInv, AsHeard
    <2>6. Alerts!DishSilence \in second <=> "dish" \in silent'
      BY <2>1, <2>2, <1>3
    <2>7. heard' => saying = said
      BY <2>1, <1>1
    <2>8. heard' => (Alerts!RouterSilence \in second
                        <=> "router" \in silent' /\ said \notin {"bypassed", "absent"})
      BY <2>2, <2>7, <1>3
    <2> QED BY <2>4, <2>5, <2>6, <2>7, <2>8, <1>1, <1>4 DEF AsHeard
  <1> QED BY <1>8, <1>10, <1>11, <1>12, <1>13 DEF EpisodeInv

LEMMA TurnIsWrittenDown ==
    ASSUME EpisodeInv, Alerts!Record
    PROVE  EpisodeInv'
  <1> DEFINE t == CHOOSE t \in todo : TRUE
             row == [start |-> episode[t.alert], end |-> t.at]
  <1>1. /\ todo # {} /\ todo' = todo \ {t}
        /\ UNCHANGED <<firing, presence, cycle, hour, word, said, silent, torn, heard>>
    BY DEF Alerts!Record, Alerts!engine, Alerts!ghosts
  <1>2. t \in todo /\ cycle = {}
    BY <1>1 DEF EpisodeInv, OnePoll
  <1>3. /\ t \in Turns /\ t.alert \in AlertNames /\ t.at \in Nat /\ t.at <= hour /\ t.at # None
        /\ t.kind = "fired" <=> episode[t.alert] = None
        /\ \A u \in todo' : u.alert # t.alert
    BY <1>1, <1>2, NoneIsNoHour DEF EpisodeInv, AlertType, InOrder, Pending, Turns
  <1>4. /\ episode \in [AlertNames -> Nat \cup {None}] /\ closed \in [AlertNames -> Closings \cup {None}]
        /\ hour \in Nat
    BY DEF EpisodeInv, AlertType
  <1>5. /\ t.kind = "fired" => /\ episode' = [episode EXCEPT ![t.alert] = t.at]
                               /\ closed' = [a \in AlertNames |-> Alerts!Kept(closed[a])]
        /\ t.kind # "fired" => /\ episode' = [episode EXCEPT ![t.alert] = None]
                               /\ closed' = [a \in AlertNames |->
                                                Alerts!Kept(IF a = t.alert THEN row ELSE closed[a])]
    BY <1>3 DEF Alerts!Record, Turns, AlertNames
  <1> HIDE DEF t, row
  <1>6. \A past : Alerts!Kept(past) = None \/ Alerts!Kept(past) = past
    BY DEF Alerts!Kept
  <1>7. t.kind # "fired" => /\ row \in Closings /\ row.start = episode[t.alert] /\ row.end = t.at
                            /\ row.start <= row.end
    <2> SUFFICES ASSUME t.kind # "fired"
                 PROVE  /\ row \in Closings /\ row.start = episode[t.alert] /\ row.end = t.at
                        /\ row.start <= row.end
      OBVIOUS
    <2>1. episode[t.alert] \in Nat /\ episode[t.alert] <= t.at
      BY <1>2, <1>3, <1>4 DEF EpisodeInv, InOrder, NoLater
    <2> QED BY <2>1, <1>3 DEF row, Closings
  <1>8. ASSUME NEW a \in AlertNames
        PROVE  /\ a # t.alert => episode'[a] = episode[a] /\ closed'[a] \in {closed[a], None}
               /\ a = t.alert => IF t.kind = "fired"
                                 THEN episode'[a] = t.at /\ closed'[a] \in {closed[a], None}
                                 ELSE episode'[a] = None /\ closed'[a] \in {row, None}
    BY <1>3, <1>4, <1>5, <1>6
  <1>9. AlertType' /\ OnePoll'
    <2>1. episode' \in [AlertNames -> Nat \cup {None}]
      BY <1>3, <1>4, <1>5
    <2>2. closed' \in [AlertNames -> Closings \cup {None}]
      <3>1. closed' = [a \in AlertNames |-> closed'[a]]
        BY <1>5
      <3>2. \A a \in AlertNames : closed'[a] \in Closings \cup {None}
        BY <1>4, <1>7, <1>8
      <3> QED BY <3>1, <3>2
    <2> QED BY <2>1, <2>2, <1>1, <1>2 DEF EpisodeInv, AlertType, OnePoll
  <1>10. Pending'
    <2>1. ASSUME NEW u \in todo' PROVE u.kind = "fired" <=> episode'[u.alert] = None
      <3>1. u \in todo /\ u.alert \in AlertNames /\ u.alert # t.alert
        BY <1>1, <1>3 DEF EpisodeInv, AlertType, Turns
      <3> QED BY <3>1, <1>8 DEF EpisodeInv, Pending
    <2>2. ASSUME NEW a \in AlertNames
          PROVE  (\E u \in todo' : u.alert = a) <=> ~(a \in firing <=> episode'[a] # None)
      <3>1. CASE a = t.alert
        BY <3>1, <1>2, <1>3, <1>8 DEF EpisodeInv, Pending
      <3>2. CASE a # t.alert
        BY <3>2, <1>1, <1>8 DEF EpisodeInv, Pending
      <3> QED BY <3>1, <3>2
    <2> QED BY <2>1, <2>2, <1>1 DEF EpisodeInv, Pending
  <1>11. \A a \in AlertNames :
            /\ episode[a] # None =>
                  episode[a] <= hour /\ \A u \in todo : u.alert = a => episode[a] <= u.at
            /\ closed[a] # None =>
                  closed[a].end <= hour /\ \A u \in todo : u.alert = a => closed[a].end <= u.at
    BY DEF EpisodeInv, InOrder, NoLater
  <1>12. ASSUME NEW a \in AlertNames
         PROVE  /\ episode'[a] # None =>
                      episode'[a] <= hour /\ \A u \in todo' : u.alert = a => episode'[a] <= u.at
                /\ closed'[a] # None =>
                      closed'[a].end <= hour /\ \A u \in todo' : u.alert = a => closed'[a].end <= u.at
    <2>1. \A u \in todo' : u \in todo
      BY <1>1
    <2>2. CASE a = t.alert
      <3>1. \A u \in todo' : u.alert # a
        BY <1>3, <2>2
      <3>2. closed[a] # None => closed[a].end <= hour
        BY <1>11
      <3>3. episode'[a] # None => episode'[a] <= hour
        BY <1>3, <1>8, <2>2
      <3>4. closed'[a] # None => closed'[a].end <= hour
        BY <1>3, <1>7, <1>8, <2>2, <3>2
      <3> QED BY <3>1, <3>3, <3>4
    <2>3. CASE a # t.alert
      BY <1>8, <1>11, <2>1, <2>3
    <2> QED BY <2>2, <2>3
  <1>13. InOrder'
    <2>1. \A u \in todo' : u.at <= hour
      BY <1>1 DEF EpisodeInv, InOrder
    <2>2. cycle' = {} /\ hour' = hour
      BY <1>1, <1>2
    <2> QED BY <2>1, <2>2, <1>12 DEF InOrder, NoLater
  <1>14. Alerts!EpisodesAreApart'
    <2> SUFFICES ASSUME NEW a \in AlertNames, closed'[a] # None
                 PROVE  /\ closed'[a].start <= closed'[a].end
                        /\ episode'[a] # None => closed'[a].end <= episode'[a]
      BY DEF Alerts!EpisodesAreApart, AlertNames
    <2>1. closed[a] # None => /\ closed[a].start <= closed[a].end
                              /\ episode[a] # None => closed[a].end <= episode[a]
                              /\ a = t.alert => closed[a].end <= t.at
      BY <1>2, <1>11 DEF EpisodeInv, Alerts!EpisodesAreApart, AlertNames, NoLater
    <2> QED BY <2>1, <1>7, <1>8
  <1>15. AsHeard'
    BY <1>1 DEF EpisodeInv, AsHeard, Asked, Answering
  <1> QED BY <1>9, <1>10, <1>13, <1>14, <1>15 DEF EpisodeInv

(* A start seeds the engine from the record, which is the engine's word unless   *)
(* a poll or its transitions were cut short.                                     *)
LEMMA EngineIsSeeded ==
    ASSUME EpisodeInv, Alerts!Restart
    PROVE  EpisodeInv'
  <1>1. /\ firing' = Alerts!OpenAlerts /\ presence' = None /\ heard' = FALSE
        /\ torn' = IF todo = {} /\ cycle = {} THEN torn ELSE {"dish", "router", "silences"}
        /\ todo' = {} /\ cycle' = {}
        /\ UNCHANGED <<episode, closed, hour, word, said, silent>>
    BY DEF Alerts!Restart, Alerts!Seed, Alerts!log
  <1>2. \A a : a \in Alerts!OpenAlerts <=> a \in AlertNames /\ episode[a] # None
    BY DEF Alerts!OpenAlerts, AlertNames
  <1>3. AlertType' /\ OnePoll'
    BY <1>1, <1>2 DEF EpisodeInv, AlertType, OnePoll
  <1>4. Pending'
    BY <1>1, <1>2 DEF Pending
  <1>5. InOrder'
    BY <1>1 DEF EpisodeInv, InOrder, NoLater
  <1>6. Alerts!EpisodesAreApart'
    BY <1>1 DEF EpisodeInv, Alerts!EpisodesAreApart
  <1>7. AsHeard'
    <2>1. ~Asked' /\ ~Answering'
      BY <1>1 DEF Asked, Answering
    <2>2. CASE todo = {} /\ cycle = {}
      <3>1. ~Asked /\ ~Answering /\ torn' = torn
        BY <2>2, <1>1 DEF Asked, Answering
      <3>2. \A a \in AlertNames : a \in firing' <=> a \in firing
        BY <2>2, <1>1, <1>2 DEF EpisodeInv, Pending
      <3> QED BY <2>1, <3>1, <3>2, <1>1, ScopesApart DEF EpisodeInv, AsHeard
    <2>3. CASE ~(todo = {} /\ cycle = {})
      BY <2>1, <2>3, <1>1 DEF AsHeard
    <2> QED BY <2>2, <2>3
  <1> QED BY <1>3, <1>4, <1>5, <1>6, <1>7 DEF EpisodeInv

LEMMA HourPasses ==
    ASSUME EpisodeInv, Alerts!Tick
    PROVE  EpisodeInv'
  <1>1. /\ hour' = hour + 1
        /\ UNCHANGED <<firing, presence, episode, closed, todo, cycle, word, said, silent, torn, heard>>
    BY DEF Alerts!Tick, Alerts!engine, Alerts!log, Alerts!ghosts
  <1>2. /\ hour \in Nat /\ todo \subseteq Turns /\ cycle \subseteq Polls
        /\ episode \in [AlertNames -> Nat \cup {None}] /\ closed \in [AlertNames -> Closings \cup {None}]
    BY DEF EpisodeInv, AlertType
  <1>3. AlertType' /\ OnePoll'
    BY <1>1 DEF EpisodeInv, AlertType, OnePoll
  <1>4. Pending' /\ Alerts!EpisodesAreApart'
    BY <1>1 DEF EpisodeInv, Pending, Alerts!EpisodesAreApart
  <1>5. InOrder'
    <2>1. \A m \in Nat : \A a : NoLater(m, a) => NoLater(m, a)'
      BY <1>1, <1>2 DEF NoLater
    <2>2. \A t \in todo : t.at \in Nat
      BY <1>2 DEF Turns
    <2>3. \A c \in cycle : c.at # None => c.at \in Nat
      BY <1>2 DEF Polls
    <2>4. \A a \in AlertNames : /\ episode[a] # None => episode[a] \in Nat
                                /\ closed[a] # None => closed[a].end \in Nat
      BY <1>2 DEF Closings
    <2>5. \A a \in AlertNames : /\ episode[a] # None => NoLater(episode[a], a)
                                /\ closed[a] # None => NoLater(closed[a].end, a)
      BY DEF EpisodeInv, InOrder
    <2>6. \A a \in AlertNames : /\ episode'[a] # None => NoLater(episode[a], a)'
                                /\ closed'[a] # None => NoLater(closed[a].end, a)'
      BY <2>1, <2>4, <2>5, <1>1
    <2> QED BY <2>2, <2>3, <2>6, <1>1, <1>2 DEF EpisodeInv, InOrder, NoLater
  <1>6. AsHeard'
    BY <1>1 DEF EpisodeInv, AsHeard, Asked, Answering
  <1> QED BY <1>3, <1>4, <1>5, <1>6 DEF EpisodeInv

LEMMA EpisodesStand == EpisodeInv /\ UNCHANGED alertVars => EpisodeInv'
  <1> SUFFICES ASSUME EpisodeInv, UNCHANGED alertVars PROVE EpisodeInv'
    OBVIOUS
  <1>1. UNCHANGED <<firing, presence, episode, closed, todo, cycle, hour, word, said, silent, torn, heard>>
    BY DEF alertVars
  <1>2. AlertType' /\ OnePoll' /\ Pending'
    BY <1>1 DEF EpisodeInv, AlertType, OnePoll, Pending
  <1>3. InOrder' /\ Alerts!EpisodesAreApart'
    BY <1>1 DEF EpisodeInv, InOrder, NoLater, Alerts!EpisodesAreApart
  <1>4. AsHeard'
    BY <1>1 DEF EpisodeInv, AsHeard, Asked, Answering
  <1> QED BY <1>2, <1>3, <1>4 DEF EpisodeInv

LEMMA EpisodeInvStep == EpisodeInv /\ UNCHANGED part /\ StoresNext => EpisodeInv'
  <1> SUFFICES ASSUME EpisodeInv, StoresNext PROVE EpisodeInv'
    OBVIOUS
  <1>1. CASE UNCHANGED alertVars
    BY <1>1, EpisodesStand
  <1>2. CASE Alerts!Next
    <2>1. ASSUME NEW c \in cycle, NEW voice \in Alerts!DishReplies \cup {None}, Alerts!HearDish(c, voice)
          PROVE  EpisodeInv'
      BY <2>1, DishIsHeard
    <2>2. ASSUME NEW c \in cycle, NEW answer \in (SUBSET RouterFlags) \cup {None},
                 Alerts!HearRouter(c, answer)
          PROVE  EpisodeInv'
      BY <2>2, RouterIsHeard
    <2> QED BY <1>2, <2>1, <2>2, HourPasses, EngineIsSeeded, PollBegins, TurnIsWrittenDown
            DEF Alerts!Next
  <1> QED BY <1>1, <1>2 DEF StoresNext

(* AlertEpisodes: between polls the open episodes are what the devices last      *)
(* said, over silences and restarts; the router's silence is judged by the       *)
(* dish's word (AlertEngine.update); and the episodes of one alert follow one    *)
(* another (nonOverlapping).                                                     *)
THEOREM EpisodesAreTheDevices == StoresSpec => []EpisodesFollowDevices
  <1>1. EpisodeInv => EpisodesFollowDevices
    <2> SUFFICES ASSUME EpisodeInv, Alerts!Settled
                 PROVE  Alerts!EpisodesFollowDevices /\ Alerts!RouterIsJudgedByTheDish
      BY DEF EpisodeInv, EpisodesFollowDevices, Alerts!EpisodesFollowDevices,
             Alerts!RouterIsJudgedByTheDish
    <2>1. todo = {} /\ cycle = {} /\ ~Asked /\ ~Answering
      BY DEF Alerts!Settled, Asked, Answering
    <2>2. \A a \in AlertNames : a \in Alerts!OpenAlerts <=> a \in firing
      BY <2>1 DEF EpisodeInv, Pending, Alerts!OpenAlerts, AlertNames
    <2>3. Alerts!EpisodesFollowDevices
      BY <2>1, <2>2, ScopesApart DEF EpisodeInv, AsHeard, Alerts!EpisodesFollowDevices
    <2>4. Alerts!RouterIsJudgedByTheDish
      BY <2>1, <2>2, ScopesApart
         DEF EpisodeInv, AsHeard, Alerts!RouterIsJudgedByTheDish, Alerts!JudgesRouter
    <2> QED BY <2>3, <2>4
  <1>2. EpisodeInv /\ UNCHANGED storesVars => EpisodeInv'
    BY EpisodesStand DEF storesVars
  <1> QED BY <1>1, <1>2, EpisodesStart, EpisodeInvStep, PTL DEF StoresSpec

--------------------------------------------------------------------------------
(* The drain.  What was taken of the boot that runs lies before the cursor, by   *)
(* position and by stamp; the cursor is no further than some boot has been read  *)
(* to; and what a commit had in reach it took or missed.                         *)

(* The largest of a set that has one.                                            *)
LEMMA LargestIs ==
    ASSUME NEW S, NEW m \in S, S \subseteq Nat, \A x \in S : x <= m
    PROVE  Drain!Max(S) = m
  <1>1. \E x \in S : \A y \in S : x >= y
    OBVIOUS
  <1>2. Drain!Max(S) \in S /\ \A y \in S : Drain!Max(S) >= y
    BY <1>1 DEF Drain!Max
  <1>3. Drain!Max(S) >= m /\ Drain!Max(S) <= m
    BY <1>2
  <1>4. Drain!Max(S) \in Nat /\ m \in Nat
    BY <1>2
  <1> QED BY <1>3, <1>4

RingIds(b, k) == [boot |-> b, k |-> k]

(* The quarter second from which the stamps of the running boot are counted.     *)
BootBase == 4 * (now - count + 1)

(* A window read from boot b, whose first sample was written at base.            *)
WindowOf(w, b, base) ==
    /\ w.count \in Nat /\ w.lag \in Nat
    /\ \A s \in w.samples :
          /\ s.boot = b /\ s.k \in Nat /\ s.k < w.count /\ w.count <= s.k + RingSize
          /\ s.stamp \in Nat \ {0} /\ s.stamp = base + w.lag + 4 * s.k
          /\ s = [boot |-> b, k |-> s.k, stamp |-> s.stamp]
    /\ \A k \in Nat : k < w.count /\ w.count <= k + RingSize => \E s \in w.samples : s.k = k

DrainType ==
    /\ now \in Nat /\ count \in Nat /\ count <= now /\ boot \in 0..MaxBoots
    /\ cursor.counter \in Nat /\ cursor.newest \in Nat /\ cursor.lag \in Nat
    /\ peak \in [0..MaxBoots -> Nat]
    /\ \A id \in missed : id.boot \in 0 .. MaxBoots /\ id.k \in Nat

(* What the cursor says of boot b, none later having been read: what was taken   *)
(* of it lies below the cursor, by stamp too while the counter is an earlier     *)
(* boot's, and what it has yet to be read of lies above the newest stamp.        *)
CursorAt(b, base) ==
    /\ cursor.counter = 0 => cursor.newest = 0
    /\ cursor.counter > 0 => \E e \in 0..b : cursor.counter <= peak[e]
    /\ \A id \in taken :
          /\ cursor.newest > 0 /\ id.boot \in 0..b
          /\ id.boot = b => /\ id.k \in Nat /\ id.k < peak[b] /\ id.k < cursor.counter
                            /\ \/ cursor.counter <= peak[b]
                               \/ base + 4 * id.k + cursor.lag <= cursor.newest
    /\ cursor.newest + 4 <= base + 4 * peak[b] + cursor.lag

OnBooks == taken \cup missed \cup lost

PeaksKnown ==
    /\ \A b \in 0..MaxBoots : b > boot => peak[b] = 0
    /\ peak[boot] <= count
    /\ \A k \in Nat : k < peak[boot] /\ count <= k + RingSize => RingIds(boot, k) \in OnBooks

ReadingOf(w, b, base) ==
    /\ WindowOf(w, b, base) /\ CursorAt(b, base) /\ peak[b] <= w.count
    /\ b = boot => w.count <= count /\ (w.count > 0 => base = BootBase)
    /\ b < boot /\ w.count > 0 => base + 4 * w.count <= BootBase
    /\ \A s \in w.samples : s.k < peak[b] => RingIds(b, s.k) \in OnBooks

Reading ==
    worker.at = "read" =>
        /\ worker.cursor = cursor
        /\ \E b \in 0..boot : \E base \in Nat : ReadingOf(worker.window, b, base)

PuttingOf(w, c, b, base) ==
    /\ WindowOf(w, b, base)
    /\ \A s \in Drain!Fresh(w, c) :
          /\ RingIds(b, s.k) \in taken
          /\ RingIds(b, s.k) \in astray \/ \A r \in raw : Drain!Identity(r) # RingIds(b, s.k)

Putting ==
    worker.at = "committed" =>
        \E b \in 0..boot : \E base \in Nat : PuttingOf(worker.window, worker.cursor, b, base)

DrainInv ==
    /\ DrainType /\ CursorAt(boot, BootBase) /\ PeaksKnown /\ Reading /\ Putting
    /\ Drain!StraysOnlyBySlips /\ Drain!SkipsOnlyBelowAnEarlierBoot /\ Drain!RawSeriesIsOneHertz

LEMMA RingIsSized ==
    RingSize \in Nat \ {0} /\ Jitter \in Nat /\ MaxBoots \in Nat /\ Phases \subseteq 0..Jitter
  BY InstancesSuit DEF Drain!DrainAssumption, Drain!RingAssumption

LEMMA FreshIs ==
    ASSUME NEW w, NEW c, c.counter \in Nat
    PROVE  /\ Drain!Fresh(w, c) \subseteq w.samples
           /\ c.counter > 0 /\ w.count >= c.counter =>
                 \A s \in w.samples : s \in Drain!Fresh(w, c) <=> s.k >= c.counter
           /\ ~(c.counter > 0 /\ w.count >= c.counter) =>
                 \A s \in w.samples : s \in Drain!Fresh(w, c) <=> c.newest = 0 \/ s.stamp > c.newest + 2
  BY DEF Drain!Fresh, Drain!CounterTrusted, Drain!Second

LEMMA IdentityIs ==
    ASSUME NEW w, NEW b, NEW base, WindowOf(w, b, base), NEW s \in w.samples
    PROVE  Drain!Identity(s) = RingIds(b, s.k)
  BY DEF WindowOf, Drain!Identity, RingIds

LEMMA DrainStarts == StoresInit => DrainInv
  <1> SUFFICES ASSUME StoresInit PROVE DrainInv
    OBVIOUS
  <1>1. /\ now = 1 /\ boot = 0 /\ count = 1
        /\ cursor = [counter |-> 0, newest |-> 0, lag |-> 0] /\ raw = {} /\ worker = [at |-> "idle"]
        /\ taken = {} /\ twice = {} /\ missed = {} /\ lost = {} /\ peak = [b \in 0..MaxBoots |-> 0]
    BY DEF StoresInit, Drain!Init, Drain!DishInit, Drain!NoCursor, Drain!Idle, Drain!Boots
  <1>2. DrainType
    BY <1>1, RingIsSized DEF DrainType
  <1>3. CursorAt(boot, BootBase) /\ PeaksKnown
    BY <1>1, RingIsSized DEF CursorAt, PeaksKnown, BootBase
  <1>4. Reading /\ Putting
    BY <1>1 DEF Reading, Putting
  <1>5. Drain!StraysOnlyBySlips /\ Drain!SkipsOnlyBelowAnEarlierBoot /\ Drain!RawSeriesIsOneHertz
    BY <1>1 DEF Drain!StraysOnlyBySlips, Drain!SkipsOnlyBelowAnEarlierBoot, Drain!RawSeriesIsOneHertz
  <1> QED BY <1>2, <1>3, <1>4, <1>5 DEF DrainInv

(* The dish counts on, is slow to begin, or starts over.                         *)
LEMMA DishGoesOn ==
    ASSUME DrainInv, Drain!Tick \/ Drain!Reboot
    PROVE  DrainInv'
  <1>1. /\ \/ now' = now + 1 /\ boot' = boot /\ (count' = count + 1 \/ (count = 0 /\ count' = 0))
           \/ now' = now /\ boot' = boot + 1 /\ boot < MaxBoots /\ count' = 0
        /\ UNCHANGED <<cursor, minutes, months, raw, worker, taken, twice, missed, lost, astray, peak>>
    BY DEF Drain!Tick, Drain!Reboot, Drain!DishTick, Drain!DishReboot, Drain!history
  <1>2. /\ now \in Nat /\ count \in Nat /\ count <= now /\ boot \in 0..MaxBoots
        /\ cursor.counter \in Nat /\ cursor.newest \in Nat /\ cursor.lag \in Nat
        /\ peak \in [0..MaxBoots -> Nat]
    BY DEF DrainInv, DrainType
  <1>3. DrainType'
    BY <1>1, <1>2, RingIsSized DEF DrainInv, DrainType
  <1>4. /\ boot' >= boot /\ boot' \in 0 .. MaxBoots /\ boot \in Nat /\ boot' \in Nat
        /\ boot' = boot => count' >= count /\ BootBase' >= BootBase
        /\ boot' = boot /\ count > 0 => BootBase' = BootBase
        /\ boot' # boot => boot' = boot + 1 /\ BootBase' = BootBase + 4 * count
        /\ BootBase \in Nat /\ BootBase' \in Nat /\ count' \in Nat
    <2>1. /\ boot' \in 0 .. MaxBoots /\ boot' \in Nat /\ boot \in Nat /\ count' \in Nat
          /\ now' \in Nat /\ count' <= now'
      BY <1>2, <1>3, RingIsSized DEF DrainType
    <2>2. BootBase = 4 * (now - count + 1) /\ BootBase' = 4 * (now' - count' + 1)
      BY DEF BootBase
    <2>3. CASE now' = now + 1 /\ boot' = boot /\ count' = count + 1
      BY <2>1, <2>2, <2>3, <1>2
    <2>4. CASE now' = now + 1 /\ boot' = boot /\ count = 0 /\ count' = 0
      BY <2>1, <2>2, <2>4, <1>2
    <2>5. CASE now' = now /\ boot' = boot + 1 /\ count' = 0
      BY <2>1, <2>2, <2>5, <1>2
    <2> QED BY <2>3, <2>4, <2>5, <1>1
  <1>5. /\ \A b \in 0..MaxBoots : b > boot => peak[b] = 0
        /\ peak[boot] <= count /\ peak[boot] \in Nat
        /\ \A k \in Nat : k < peak[boot] /\ count <= k + RingSize => RingIds(boot, k) \in OnBooks
    BY <1>2 DEF DrainInv, PeaksKnown
  <1>6. CursorAt(boot, BootBase)'
    <2>0. /\ cursor.counter = 0 => cursor.newest = 0
          /\ cursor.counter > 0 => \E e \in 0..boot : cursor.counter <= peak[e]
          /\ \A id \in taken :
                /\ cursor.newest > 0 /\ id.boot \in 0..boot
                /\ id.boot = boot => /\ id.k \in Nat /\ id.k < peak[boot] /\ id.k < cursor.counter
                                     /\ \/ cursor.counter <= peak[boot]
                                        \/ BootBase + 4 * id.k + cursor.lag <= cursor.newest
          /\ cursor.newest + 4 <= BootBase + 4 * peak[boot] + cursor.lag
      BY DEF DrainInv, CursorAt
    <2>1. cursor.counter > 0 => \E e \in 0..boot' : cursor.counter <= peak[e]
      BY <1>2, <1>4, <2>0
    <2>2. ASSUME NEW id \in taken
          PROVE  /\ cursor.newest > 0 /\ id.boot \in 0..boot'
                 /\ id.boot = boot' => /\ id.k \in Nat /\ id.k < peak[boot'] /\ id.k < cursor.counter
                                      /\ \/ cursor.counter <= peak[boot']
                                         \/ BootBase' + 4 * id.k + cursor.lag <= cursor.newest
      <3>1. cursor.newest > 0 /\ id.boot \in 0..boot
        BY <2>0
      <3>2. id.boot = boot' => boot' = boot
        BY <3>1, <1>4
      <3>3. CASE id.boot = boot'
        <4>1. /\ id.k \in Nat /\ id.k < peak[boot] /\ id.k < cursor.counter
              /\ \/ cursor.counter <= peak[boot]
                 \/ BootBase + 4 * id.k + cursor.lag <= cursor.newest
          BY <2>0, <3>2, <3>3
        <4>2. count > 0
          BY <4>1, <1>2, <1>5
        <4> QED BY <3>1, <3>2, <3>3, <4>1, <4>2, <1>4
      <3>4. id.boot \in 0..boot'
        BY <3>1, <1>4
      <3> QED BY <3>1, <3>3, <3>4
    <2>3. cursor.newest + 4 <= BootBase' + 4 * peak[boot'] + cursor.lag
      <3>1. CASE boot' = boot
        BY <3>1, <2>0, <1>2, <1>4, <1>5
      <3>2. CASE boot' = boot + 1
        <4>1. peak[boot'] = 0
          BY <3>2, <1>4, <1>5
        <4> QED BY <3>2, <4>1, <2>0, <1>2, <1>4, <1>5
      <3> QED BY <3>1, <3>2, <1>4
    <2> QED BY <2>0, <2>1, <2>2, <2>3, <1>1 DEF CursorAt, BootBase
  <1>7. PeaksKnown'
    <2>1. /\ \A b \in 0..MaxBoots : b > boot' => peak[b] = 0
          /\ peak[boot'] <= count'
          /\ \A k \in Nat : k < peak[boot'] /\ count' <= k + RingSize => RingIds(boot', k) \in OnBooks
      <3>1. CASE boot' = boot
        BY <3>1, <1>2, <1>4, <1>5, RingIsSized
      <3>2. CASE boot' = boot + 1
        <4>1. peak[boot'] = 0
          BY <3>2, <1>4, <1>5
        <4>2. \A b \in 0..MaxBoots : b > boot' => peak[b] = 0
          BY <3>2, <1>4, <1>5, RingIsSized
        <4> QED BY <4>1, <4>2, <1>4
      <3> QED BY <3>1, <3>2, <1>4
    <2> QED BY <2>1, <1>1 DEF PeaksKnown, RingIds, OnBooks
  <1>8. Reading'
    <2> SUFFICES ASSUME worker.at = "read"
                 PROVE  /\ worker.cursor = cursor
                        /\ \E b \in 0..boot' : \E base \in Nat : ReadingOf(worker.window, b, base)'
      BY <1>1 DEF Reading
    <2>1. worker.cursor = cursor
      BY DEF DrainInv, Reading
    <2>2. PICK b \in 0..boot, base \in Nat : ReadingOf(worker.window, b, base)
      BY DEF DrainInv, Reading
    <2>3. b \in 0 .. boot' /\ b \in Nat /\ (b = boot' => boot' = boot)
      BY <1>4
    <2>4. /\ WindowOf(worker.window, b, base) /\ CursorAt(b, base) /\ peak[b] <= worker.window.count
          /\ b = boot => worker.window.count <= count /\ (worker.window.count > 0 => base = BootBase)
          /\ b < boot /\ worker.window.count > 0 => base + 4 * worker.window.count <= BootBase
          /\ \A s \in worker.window.samples : s.k < peak[b] => RingIds(b, s.k) \in OnBooks
          /\ worker.window.count \in Nat
      BY <2>2 DEF ReadingOf, WindowOf
    <2>5. b = boot' => worker.window.count <= count' /\ (worker.window.count > 0 => base = BootBase')
      BY <2>3, <2>4, <1>2, <1>4
    <2>6. b < boot' /\ worker.window.count > 0 => base + 4 * worker.window.count <= BootBase'
      <3>1. /\ BootBase \in Nat /\ BootBase' \in Nat /\ BootBase <= BootBase'
            /\ b = boot /\ b < boot' => BootBase' = BootBase + 4 * count
        BY <1>2, <1>4
      <3>2. /\ worker.window.count \in Nat
            /\ worker.window.count > 0 /\ b < boot => base + 4 * worker.window.count <= BootBase
            /\ worker.window.count > 0 /\ b = boot => worker.window.count <= count /\ base = BootBase
        BY <2>4
      <3> QED BY <3>1, <3>2, <1>2
    <2>7. ReadingOf(worker.window, b, base)'
      BY <2>4, <2>5, <2>6, <1>1 DEF ReadingOf, WindowOf, CursorAt, RingIds, OnBooks
    <2> QED BY <2>1, <2>3, <2>7
  <1>9. Putting'
    <2> SUFFICES ASSUME worker.at = "committed"
                 PROVE  \E b \in 0..boot' : \E base \in Nat :
                           PuttingOf(worker.window, worker.cursor, b, base)'
      BY <1>1 DEF Putting
    <2>1. PICK b \in 0..boot, base \in Nat : PuttingOf(worker.window, worker.cursor, b, base)
      BY DEF DrainInv, Putting
    <2>2. PuttingOf(worker.window, worker.cursor, b, base)'
      BY <1>1, <2>1 DEF PuttingOf, WindowOf, RingIds, Drain!Identity,
                        Drain!Fresh, Drain!CounterTrusted, Drain!Second
    <2>3. b \in 0..boot'
      BY <1>4
    <2> QED BY <2>2, <2>3
  <1>10. /\ Drain!StraysOnlyBySlips' /\ Drain!SkipsOnlyBelowAnEarlierBoot' /\ Drain!RawSeriesIsOneHertz'
    BY <1>1 DEF DrainInv, Drain!StraysOnlyBySlips, Drain!SkipsOnlyBelowAnEarlierBoot,
                Drain!RawSeriesIsOneHertz, Drain!Identity
  <1> QED BY <1>3, <1>6, <1>7, <1>8, <1>9, <1>10 DEF DrainInv

(* A window as it is decoded.                                                    *)
LEMMA WindowIsRead ==
    ASSUME DrainInv, NEW phase \in Phases
    PROVE  ReadingOf(Drain!Stamped(Drain!Ring, phase), boot, BootBase)
  <1> DEFINE w == Drain!Stamped(Drain!Ring, phase)
             base == BootBase
  <1>1. /\ now \in Nat /\ count \in Nat /\ count <= now /\ boot \in 0..MaxBoots
        /\ peak \in [0..MaxBoots -> Nat]
    BY DEF DrainInv, DrainType
  <1>2. phase \in Nat /\ base \in Nat \ {0} /\ base = 4 * (now - count + 1)
    BY <1>1, RingIsSized DEF BootBase
  <1> HIDE DEF base
  <1>3. w.count = count /\ w.lag = phase
    BY DEF Drain!Stamped, Drain!Ring
  <1>4. ASSUME NEW s \in w.samples
        PROVE  /\ s.boot = boot /\ s.k \in Nat /\ s.k < count /\ count <= s.k + RingSize
               /\ s.stamp \in Nat \ {0} /\ s.stamp = base + phase + 4 * s.k
               /\ s = [boot |-> boot, k |-> s.k, stamp |-> s.stamp]
    <2>1. PICK k \in 0..count - 1 :
             /\ k >= count - RingSize
             /\ s = [boot |-> boot, k |-> k, stamp |-> (now - (count - 1 - k)) * 4 + phase]
      BY DEF Drain!Stamped, Drain!Ring, Drain!Second
    <2>2. k \in Nat /\ k < count /\ count <= k + RingSize
      BY <2>1, <1>1, RingIsSized
    <2>3. (now - (count - 1 - k)) * 4 + phase = base + phase + 4 * k
          /\ base + phase + 4 * k \in Nat \ {0}
      BY <2>2, <1>1, <1>2
    <2> QED BY <2>1, <2>2, <2>3
  <1>5. ASSUME NEW k \in Nat, k < count, count <= k + RingSize
        PROVE  \E s \in w.samples : s.k = k
    <2> DEFINE s == [boot |-> boot, k |-> k, stamp |-> (now - (count - 1 - k)) * 4 + phase]
    <2>1. k \in 0 .. count - 1 /\ k >= count - RingSize
      BY <1>1, <1>5, RingIsSized
    <2>2. s \in w.samples
      BY <2>1 DEF Drain!Stamped, Drain!Ring, Drain!Second
    <2> QED BY <2>2
  <1> HIDE DEF w
  <1>6. WindowOf(w, boot, base)
    BY <1>1, <1>2, <1>3, <1>4, <1>5 DEF WindowOf
  <1>7. ASSUME NEW s \in w.samples, s.k < peak[boot]
        PROVE  RingIds(boot, s.k) \in OnBooks
    BY <1>4, <1>7 DEF DrainInv, PeaksKnown
  <1>8. CursorAt(boot, base) /\ peak[boot] <= w.count /\ w.count <= count /\ ~(boot < boot)
    BY <1>1, <1>3 DEF base, DrainInv, PeaksKnown
  <1> QED BY <1>6, <1>7, <1>8 DEF ReadingOf, w, base

LEMMA DrainReads ==
    ASSUME DrainInv, Drain!ReadWindow
    PROVE  DrainInv'
  <1>1. PICK phase \in Phases : worker' = Drain!Read(Drain!Stamped(Drain!Ring, phase), cursor)
    BY DEF Drain!ReadWindow
  <1>2. UNCHANGED <<now, boot, count, cursor, minutes, months, raw,
                    taken, twice, missed, lost, astray, peak>>
    BY DEF Drain!ReadWindow, Drain!dish, Drain!history
  <1> DEFINE w == Drain!Stamped(Drain!Ring, phase)
             base == BootBase
  <1>3. worker'.at = "read" /\ worker'.window = w /\ worker'.cursor = cursor
    BY <1>1 DEF Drain!Read
  <1>4. ReadingOf(w, boot, base)
    BY WindowIsRead
  <1>5. boot \in 0 .. boot /\ base \in Nat
    BY RingIsSized DEF DrainInv, DrainType, BootBase
  <1> HIDE DEF w, base
  <1>6. Reading'
    <2>1. ReadingOf(w, boot, base)'
      BY <1>1, <1>2, <1>4 DEF ReadingOf, WindowOf, CursorAt, RingIds, BootBase, OnBooks, w, base,
            Drain!Stamped, Drain!Ring
    <2>2. w' = w /\ base' = base
      BY <1>2 DEF w, base, Drain!Stamped, Drain!Ring, BootBase
    <2> QED BY <2>1, <2>2, <1>2, <1>3, <1>5 DEF Reading, ReadingOf, WindowOf, CursorAt, RingIds,
                  BootBase, OnBooks
  <1>7. Putting'
    BY <1>3 DEF Putting
  <1>8. DrainType' /\ CursorAt(boot, BootBase)' /\ PeaksKnown'
    BY <1>2 DEF DrainInv, DrainType, CursorAt, PeaksKnown, BootBase, RingIds, OnBooks
  <1>9. /\ Drain!StraysOnlyBySlips' /\ Drain!SkipsOnlyBelowAnEarlierBoot' /\ Drain!RawSeriesIsOneHertz'
    BY <1>2 DEF DrainInv, Drain!StraysOnlyBySlips, Drain!SkipsOnlyBelowAnEarlierBoot,
                Drain!RawSeriesIsOneHertz, Drain!Identity
  <1> QED BY <1>6, <1>7, <1>8, <1>9 DEF DrainInv

(* The worker ends, or the archive takes old minutes: neither is about samples   *)
(* taken or not.                                                                 *)
LEMMA DrainRests ==
    ASSUME DrainInv, Drain!Teardown \/ Drain!CompactEnergy \/ UNCHANGED <<dish, drainVars>>
    PROVE  DrainInv'
  <1>1. /\ UNCHANGED <<now, boot, count, cursor, raw, taken, twice, missed, lost, astray, peak>>
        /\ worker' = worker \/ worker'.at = "idle"
    BY DEF Drain!Teardown, Drain!CompactEnergy, Drain!dish, Drain!history, Drain!Idle, dish, drainVars
  <1>2. DrainType' /\ CursorAt(boot, BootBase)' /\ PeaksKnown'
    BY <1>1 DEF DrainInv, DrainType, CursorAt, PeaksKnown, BootBase, RingIds, OnBooks
  <1>3. Reading' /\ Putting'
    <2>1. CASE worker'.at = "idle"
      BY <2>1 DEF Reading, Putting
    <2>2. CASE worker' = worker
      <3>1. Reading'
        BY <1>1, <2>2 DEF DrainInv, Reading, ReadingOf, WindowOf, CursorAt, RingIds, BootBase, OnBooks
      <3>2. Putting'
        BY <1>1, <2>2 DEF DrainInv, Putting, PuttingOf, WindowOf, RingIds, Drain!Identity,
                          Drain!Fresh, Drain!CounterTrusted, Drain!Second
      <3> QED BY <3>1, <3>2
    <2> QED BY <1>1, <2>1, <2>2
  <1>4. /\ Drain!StraysOnlyBySlips' /\ Drain!SkipsOnlyBelowAnEarlierBoot' /\ Drain!RawSeriesIsOneHertz'
    BY <1>1 DEF DrainInv, Drain!StraysOnlyBySlips, Drain!SkipsOnlyBelowAnEarlierBoot,
                Drain!RawSeriesIsOneHertz, Drain!Identity
  <1> QED BY <1>2, <1>3, <1>4 DEF DrainInv

(* The raw rows of a committed drain are of samples it took and nobody put, but  *)
(* for those that strayed.                                                       *)
LEMMA DrainPuts ==
    ASSUME DrainInv, Drain!PutSamples
    PROVE  DrainInv'
  <1> DEFINE w == worker.window
             fresh == Drain!Fresh(worker.window, worker.cursor)
  <1>1. /\ worker.at = "committed" /\ worker'.at = "idle"
        /\ \A r \in raw' : r \in fresh \/ r \in raw
        /\ UNCHANGED <<now, boot, count, cursor, taken, twice, missed, lost, astray, peak>>
    BY DEF Drain!PutSamples, Drain!RawRows, Drain!dish, Drain!history, Drain!Idle
  <1>2. PICK b \in 0..boot, base \in Nat : PuttingOf(w, worker.cursor, b, base)
    BY <1>1 DEF DrainInv, Putting
  <1>3. WindowOf(w, b, base) /\ fresh \subseteq w.samples
    BY <1>2 DEF PuttingOf, Drain!Fresh
  <1>4. ASSUME NEW s \in fresh
        PROVE  /\ Drain!Identity(s) \in taken
               /\ Drain!Identity(s) \in astray \/ \A r \in raw : Drain!Identity(r) # Drain!Identity(s)
               /\ \A t \in fresh : Drain!Identity(t) = Drain!Identity(s) => t = s
    <2>1. Drain!Identity(s) = RingIds(b, s.k)
      BY <1>3, IdentityIs
    <2>2. ASSUME NEW t \in fresh, Drain!Identity(t) = Drain!Identity(s) PROVE t = s
      <3>1. RingIds(b, t.k) = RingIds(b, s.k)
        BY <2>1, <2>2, <1>3, IdentityIs
      <3>2. t.k = s.k
        BY <3>1 DEF RingIds
      <3> QED BY <3>2, <1>3 DEF WindowOf
    <2> QED BY <1>2, <2>1, <2>2 DEF PuttingOf
  <1> HIDE DEF w, fresh
  <1>5. Drain!RawSeriesIsOneHertz'
    <2>1. /\ \A r, s \in raw : Drain!Identity(r) = Drain!Identity(s) => r = s \/ Drain!Identity(r) \in astray
          /\ \A r \in raw : Drain!Identity(r) \in taken
      BY DEF DrainInv, Drain!RawSeriesIsOneHertz
    <2>2. ASSUME NEW r \in raw', NEW s \in raw', Drain!Identity(r) = Drain!Identity(s)
          PROVE  r = s \/ Drain!Identity(r) \in astray
      <3>1. CASE r \in fresh
        BY <1>1, <1>4, <2>2, <3>1
      <3>2. CASE s \in fresh
        BY <1>1, <1>4, <2>2, <3>2
      <3>3. CASE r \in raw /\ s \in raw
        BY <2>1, <2>2, <3>3
      <3> QED BY <3>1, <3>2, <3>3, <1>1
    <2>3. \A r \in raw' : Drain!Identity(r) \in taken
      BY <1>1, <1>4, <2>1
    <2> QED BY <1>1, <2>2, <2>3 DEF Drain!RawSeriesIsOneHertz, Drain!Identity
  <1>6. DrainType' /\ CursorAt(boot, BootBase)' /\ PeaksKnown'
    BY <1>1 DEF DrainInv, DrainType, CursorAt, PeaksKnown, BootBase, RingIds, OnBooks
  <1>7. Reading' /\ Putting'
    BY <1>1 DEF Reading, Putting
  <1>8. Drain!StraysOnlyBySlips' /\ Drain!SkipsOnlyBelowAnEarlierBoot'
    BY <1>1 DEF DrainInv, Drain!StraysOnlyBySlips, Drain!SkipsOnlyBelowAnEarlierBoot
  <1> QED BY <1>5, <1>6, <1>7, <1>8 DEF DrainInv

(* The newest stamp after a drain, and how far each boot has then been read.     *)
LEMMA NewestIsNoLess ==
    ASSUME NEW w, NEW b \in Nat, NEW base \in Nat, WindowOf(w, b, base),
           NEW c, c.counter \in Nat, c.newest \in Nat
    PROVE  /\ Drain!NewestStamp(c, Drain!Fresh(w, c)) \in Nat
           /\ Drain!NewestStamp(c, Drain!Fresh(w, c)) >= c.newest
           /\ Drain!NewestStamp(c, Drain!Fresh(w, c)) # c.newest =>
                 /\ w.count > 0
                 /\ Drain!NewestStamp(c, Drain!Fresh(w, c)) = base + w.lag + 4 * (w.count - 1)
           /\ Drain!Fresh(w, c) # {} =>
                 /\ w.count > 0
                 /\ \E top \in Drain!Fresh(w, c) :
                       /\ top.k = w.count - 1
                       /\ Drain!NewestStamp(c, Drain!Fresh(w, c)) >= top.stamp
  <1> DEFINE fresh == Drain!Fresh(w, c)
             S == {c.newest} \cup { s.stamp : s \in fresh }
  <1>1. fresh \subseteq w.samples
    BY FreshIs
  <1>2. S \subseteq Nat
    BY <1>1 DEF WindowOf
  <1>0. Drain!NewestStamp(c, fresh) = Drain!Max(S)
    BY DEF Drain!NewestStamp
  <1>3. CASE fresh = {}
    <2>1. S = {c.newest}
      BY <1>3
    <2> HIDE DEF S, fresh
    <2>2. Drain!Max(S) = c.newest
      BY <2>1, <1>2, LargestIs
    <2> QED BY <1>3, <2>2, <1>0 DEF fresh
  <1>4. CASE fresh # {}
    <2>1. PICK s \in fresh : TRUE
      BY <1>4
    <2>2. w.count \in Nat /\ w.count > 0 /\ w.count <= (w.count - 1) + RingSize /\ w.lag \in Nat
      BY <2>1, <1>1, RingIsSized DEF WindowOf
    <2>3. PICK top \in w.samples : top.k = w.count - 1
      BY <2>2, RingIsSized DEF WindowOf
    <2>4. /\ \A t \in w.samples : t.k <= top.k /\ t.stamp <= top.stamp /\ t.stamp \in Nat /\ t.k \in Nat
          /\ top.stamp = base + w.lag + 4 * (w.count - 1)
      BY <2>2, <2>3 DEF WindowOf
    <2>5. top \in fresh
      <3>1. CASE c.counter > 0 /\ w.count >= c.counter
        BY <3>1, <2>1, <2>3, <2>4, <1>1, FreshIs
      <3>2. CASE ~(c.counter > 0 /\ w.count >= c.counter)
        BY <3>2, <2>1, <2>3, <2>4, <1>1, FreshIs
      <3> QED BY <3>1, <3>2
    <2>6. \A t \in fresh : t.stamp <= top.stamp
      BY <2>4, <1>1
    <2>7. PICK m \in S : /\ \A x \in S : x <= m
                         /\ m = c.newest \/ m = top.stamp
      <3>1. CASE top.stamp >= c.newest
        <4>1. top.stamp \in S
          BY <2>5
        <4> QED BY <4>1, <3>1, <2>6
      <3>2. CASE top.stamp < c.newest
        <4>1. c.newest \in S
          OBVIOUS
        <4>2. \A t \in fresh : t.stamp <= c.newest
          BY <3>2, <2>4, <2>6, <1>1
        <4> QED BY <4>1, <4>2
      <3> QED BY <3>1, <3>2, <2>4
    <2>8. c.newest \in S /\ \A t \in fresh : t.stamp \in S
      OBVIOUS
    <2> HIDE DEF fresh, S
    <2>9. Drain!Max(S) = m
      BY <2>7, <1>2, LargestIs
    <2>10. /\ m \in Nat /\ m >= c.newest /\ m >= top.stamp
      BY <2>5, <2>7, <2>8, <1>2
    <2> QED BY <2>2, <2>3, <2>4, <2>5, <2>7, <2>9, <2>10, <1>0 DEF fresh
  <1> QED BY <1>3, <1>4

ReadUpTo(w, e, p) == Drain!Max({p} \cup { s.k + 1 : s \in { x \in w.samples : x.boot = e } })

LEMMA PeakIsNoLess ==
    ASSUME NEW w, NEW b \in Nat, NEW base \in Nat, WindowOf(w, b, base),
           NEW e \in Nat, NEW p \in Nat
    PROVE  /\ ReadUpTo(w, e, p) \in Nat /\ ReadUpTo(w, e, p) >= p
           /\ e # b => ReadUpTo(w, e, p) = p
           /\ e = b => /\ ReadUpTo(w, e, p) >= w.count
                       /\ ReadUpTo(w, e, p) = p \/ ReadUpTo(w, e, p) = w.count
  <1> DEFINE q == ReadUpTo(w, e, p)
             S == {p} \cup { s.k + 1 : s \in { x \in w.samples : x.boot = e } }
  <1>1. S \subseteq Nat /\ p \in S
    BY DEF WindowOf
  <1>2. w.count \in Nat
    BY DEF WindowOf
  <1>3. CASE e # b \/ w.count = 0
    <2>1. { x \in w.samples : x.boot = e } = {}
      BY <1>3 DEF WindowOf
    <2>2. S = {p}
      BY <2>1
    <2> HIDE DEF S, ReadUpTo
    <2>3. Drain!Max(S) = p
      BY <2>2, <1>1, LargestIs
    <2>4. q = p
      BY <2>3 DEF S, ReadUpTo
    <2> QED BY <2>4, <1>2, <1>3
  <1>4. CASE e = b /\ w.count > 0
    <2>0. w.count - 1 \in Nat /\ w.count - 1 < w.count /\ w.count <= (w.count - 1) + RingSize
      BY <1>2, <1>4, RingIsSized
    <2>1. PICK top \in w.samples : top.k = w.count - 1
      BY <2>0 DEF WindowOf
    <2>2. w.count \in S
      BY <1>2, <1>4, <2>1 DEF WindowOf
    <2>3. \A x \in S : x = p \/ x <= w.count
      BY <1>2 DEF WindowOf
    <2> HIDE DEF S, ReadUpTo
    <2>4. CASE w.count >= p
      <3>1. Drain!Max(S) = w.count
        BY <2>2, <2>3, <2>4, <1>1, <1>2, LargestIs
      <3>2. q = w.count
        BY <3>1 DEF S, ReadUpTo
      <3> QED BY <3>2, <2>4, <1>2, <1>4
    <2>5. CASE w.count < p
      <3>1. ASSUME NEW x \in S PROVE x <= p
        <4>1. x \in Nat /\ (x = p \/ x <= w.count)
          BY <2>3, <1>1
        <4> QED BY <4>1, <2>5, <1>2
      <3>2. Drain!Max(S) = p
        BY <3>1, <1>1, LargestIs
      <3>3. q = p
        BY <3>2 DEF S, ReadUpTo
      <3> QED BY <3>3, <2>5, <1>2, <1>4
    <2> QED BY <2>4, <2>5, <1>2
  <1> QED BY <1>2, <1>3, <1>4

(* What in a window strays from the line of half a second.                       *)
LEMMA AstrayIs ==
    ASSUME NEW w, NEW c, NEW s \in w.samples, ~Drain!CounterTrusted(w, c), c.newest # 0,
           \/ 2 < s.stamp - c.newest /\ s.stamp - c.newest <= w.lag - c.lag
           \/ 4 + (w.lag - c.lag) <= s.stamp - c.newest /\ s.stamp - c.newest <= 2
    PROVE  Drain!Identity(s) \in Drain!IdsOf(Drain!Astray(w, c))
  <1>1. Drain!Second = 4 /\ 4 \div 2 = 2
    BY DEF Drain!Second
  <1>2. s \in Drain!Astray(w, c)
    BY <1>1 DEF Drain!Astray, Drain!Slip
  <1> QED BY <1>2 DEF Drain!IdsOf

(* A commit takes what is new, and what it takes again or leaves out while it    *)
(* judges by stamps has strayed; while it trusts the counter it takes nothing    *)
(* again and leaves out only what an earlier boot's counter had passed.          *)
LEMMA CommitStrays ==
    ASSUME DrainInv, NEW w, NEW b \in 0..boot, NEW base \in Nat, ReadingOf(w, b, base),
           NEW s \in w.samples
    PROVE  /\ s \in Drain!Fresh(w, cursor) /\ RingIds(b, s.k) \in taken =>
                 RingIds(b, s.k) \in Drain!IdsOf(Drain!Astray(w, cursor))
           /\ s \notin Drain!Fresh(w, cursor) => s.k < cursor.counter
           /\ s \notin Drain!Fresh(w, cursor) /\ ~Drain!CounterTrusted(w, cursor)
                 /\ RingIds(b, s.k) \notin OnBooks =>
                 RingIds(b, s.k) \in Drain!IdsOf(Drain!Astray(w, cursor))
  <1>1. /\ cursor.counter \in Nat /\ cursor.newest \in Nat /\ cursor.lag \in Nat
        /\ b \in 0 .. MaxBoots /\ b \in Nat /\ peak[b] \in Nat
    BY RingIsSized DEF DrainInv, DrainType
  <1>2. /\ w.count \in Nat /\ w.lag \in Nat /\ s.k \in Nat /\ s.k < w.count
        /\ s.stamp \in Nat \ {0} /\ s.stamp = base + w.lag + 4 * s.k
    BY DEF ReadingOf, WindowOf
  <1>3. /\ cursor.counter = 0 => cursor.newest = 0
        /\ \A id \in taken :
              /\ cursor.newest > 0
              /\ id.boot = b => /\ id.k < peak[b] /\ id.k < cursor.counter
                                /\ \/ cursor.counter <= peak[b]
                                   \/ base + 4 * id.k + cursor.lag <= cursor.newest
        /\ cursor.newest + 4 <= base + 4 * peak[b] + cursor.lag
        /\ peak[b] <= w.count
        /\ s.k < peak[b] => RingIds(b, s.k) \in OnBooks
    BY DEF ReadingOf, CursorAt
  <1>4. Drain!Identity(s) = RingIds(b, s.k)
    BY IdentityIs DEF ReadingOf
  <1>5. /\ Drain!CounterTrusted(w, cursor) <=> cursor.counter > 0 /\ w.count >= cursor.counter
        /\ Drain!CounterTrusted(w, cursor) =>
              (s \in Drain!Fresh(w, cursor) <=> s.k >= cursor.counter)
        /\ ~Drain!CounterTrusted(w, cursor) =>
              (s \in Drain!Fresh(w, cursor) <=> cursor.newest = 0 \/ s.stamp > cursor.newest + 2)
    BY <1>1, FreshIs DEF Drain!CounterTrusted
  <1>6. ASSUME s \in Drain!Fresh(w, cursor), RingIds(b, s.k) \in taken
        PROVE  RingIds(b, s.k) \in Drain!IdsOf(Drain!Astray(w, cursor))
    <2>1. /\ cursor.newest > 0 /\ s.k < peak[b] /\ s.k < cursor.counter
          /\ \/ cursor.counter <= peak[b]
             \/ base + 4 * s.k + cursor.lag <= cursor.newest
      BY <1>3, <1>6 DEF RingIds
    <2>2. ~Drain!CounterTrusted(w, cursor)
      BY <1>1, <1>2, <1>5, <1>6, <2>1
    <2>3. s.stamp > cursor.newest + 2 /\ cursor.newest # 0
      BY <1>1, <1>5, <1>6, <2>1, <2>2
    <2>4. ~(cursor.counter <= peak[b])
      BY <1>1, <1>2, <1>3, <1>5, <2>1, <2>2
    <2>5. 2 < s.stamp - cursor.newest /\ s.stamp - cursor.newest <= w.lag - cursor.lag
      BY <1>1, <1>2, <2>1, <2>3, <2>4
    <2> QED BY <1>4, <2>2, <2>3, <2>5, AstrayIs
  <1>7. ASSUME s \notin Drain!Fresh(w, cursor) PROVE s.k < cursor.counter
    <2>1. CASE Drain!CounterTrusted(w, cursor)
      BY <1>1, <1>2, <1>5, <1>7, <2>1
    <2>2. CASE ~Drain!CounterTrusted(w, cursor)
      BY <1>1, <1>2, <1>3, <1>5, <1>7, <2>2
    <2> QED BY <2>1, <2>2
  <1>8. ASSUME s \notin Drain!Fresh(w, cursor), ~Drain!CounterTrusted(w, cursor),
               RingIds(b, s.k) \notin OnBooks
        PROVE  RingIds(b, s.k) \in Drain!IdsOf(Drain!Astray(w, cursor))
    <2>1. cursor.newest # 0 /\ s.stamp <= cursor.newest + 2
      BY <1>1, <1>2, <1>5, <1>8
    <2>2. s.k >= peak[b]
      BY <1>1, <1>2, <1>3, <1>8
    <2>3. 4 + (w.lag - cursor.lag) <= s.stamp - cursor.newest /\ s.stamp - cursor.newest <= 2
      BY <1>1, <1>2, <1>3, <2>1, <2>2
    <2> QED BY <1>4, <1>8, <2>1, <2>3, AstrayIs
  <1> QED BY <1>6, <1>7, <1>8

(* What a commit leaves of the cursor.                                           *)
LEMMA CursorMoves ==
    ASSUME DrainInv, NEW w, NEW b \in 0..boot, NEW base \in Nat, ReadingOf(w, b, base),
           \A id \in taken' : id \in taken \/ \E s \in Drain!Fresh(w, cursor) : id = RingIds(b, s.k),
           cursor' = Drain!Advanced(w, cursor),
           peak' = [e \in 0..MaxBoots |-> ReadUpTo(w, e, peak[e])],
           UNCHANGED <<now, boot, count>>
    PROVE  /\ cursor'.counter \in Nat /\ cursor'.newest \in Nat /\ cursor'.lag \in Nat
           /\ peak' \in [0 .. MaxBoots -> Nat] /\ \A e \in 0 .. MaxBoots : peak'[e] >= peak[e]
           /\ \A e \in 0..MaxBoots : e # b => peak'[e] = peak[e]
           /\ peak'[b] = w.count
           /\ CursorAt(boot, BootBase)'
  <1> DEFINE fresh == Drain!Fresh(w, cursor)
             newest == Drain!NewestStamp(cursor, fresh)
             c == cursor
             d == cursor'
  <1>1. /\ now \in Nat /\ count \in Nat /\ boot \in 0 .. MaxBoots /\ boot \in Nat
        /\ c.counter \in Nat /\ c.newest \in Nat /\ c.lag \in Nat
        /\ peak \in [0 .. MaxBoots -> Nat] /\ b \in Nat /\ b \in 0 .. MaxBoots /\ BootBase \in Int
    BY RingIsSized DEF DrainInv, DrainType, BootBase
  <1>2. /\ WindowOf(w, b, base) /\ w.count \in Nat /\ w.lag \in Nat /\ peak[b] <= w.count
        /\ peak[b] \in Nat
        /\ \A s \in w.samples : s.k \in Nat /\ s.k < w.count
        /\ fresh \subseteq w.samples
    BY <1>1, FreshIs DEF ReadingOf, WindowOf
  <1>3. /\ newest \in Nat /\ newest >= c.newest
        /\ newest # c.newest => w.count > 0 /\ newest = base + w.lag + 4 * (w.count - 1)
        /\ fresh # {} =>
              /\ w.count > 0
              /\ \E top \in fresh : top.k = w.count - 1 /\ newest >= top.stamp
    BY <1>1, <1>2, NewestIsNoLess
  <1>4. d.newest = newest /\ d.lag = (IF newest = c.newest THEN c.lag ELSE w.lag)
        /\ d.counter = Drain!Max({c.counter, w.count})
    BY DEF Drain!Advanced, Drain!LagOfNewest
  <1>5. d.lag \in Nat /\ d.newest \in Nat
    BY <1>1, <1>2, <1>3, <1>4
  <1> HIDE DEF fresh, newest
  <1>6. /\ d.counter \in Nat /\ d.counter >= c.counter /\ d.counter >= w.count
        /\ d.counter = c.counter \/ d.counter = w.count
    <2> DEFINE S == {c.counter, w.count}
    <2>0. S \subseteq Nat /\ c.counter \in S /\ w.count \in S
      BY <1>1, <1>2
    <2>1. CASE w.count >= c.counter
      <3>0. \A x \in S : x <= w.count
        BY <2>1, <1>1, <1>2
      <3> HIDE DEF S
      <3>1. Drain!Max(S) = w.count
        BY <2>0, <3>0, LargestIs
      <3> QED BY <3>1, <2>1, <1>1, <1>2, <1>4 DEF S
    <2>2. CASE w.count < c.counter
      <3>0. \A x \in S : x <= c.counter
        BY <2>2, <1>1, <1>2
      <3> HIDE DEF S
      <3>1. Drain!Max(S) = c.counter
        BY <2>0, <3>0, LargestIs
      <3> QED BY <3>1, <2>2, <1>1, <1>2, <1>4 DEF S
    <2> QED BY <2>1, <2>2, <1>1, <1>2
  <1>7. ASSUME NEW e \in 0..MaxBoots
        PROVE  /\ peak'[e] \in Nat /\ peak'[e] >= peak[e]
               /\ e # b => peak'[e] = peak[e]
               /\ e = b => peak'[e] = w.count
    <2> DEFINE p == peak[e]
    <2>1. e \in Nat /\ p \in Nat /\ peak'[e] = ReadUpTo(w, e, p)
      BY <1>1
    <2>0. e = b => p <= w.count
      BY <1>2
    <2> HIDE DEF p
    <2>2. /\ ReadUpTo(w, e, p) \in Nat /\ ReadUpTo(w, e, p) >= p
          /\ e # b => ReadUpTo(w, e, p) = p
          /\ e = b => /\ ReadUpTo(w, e, p) >= w.count
                      /\ ReadUpTo(w, e, p) = p \/ ReadUpTo(w, e, p) = w.count
      <3>1. b \in Nat /\ base \in Nat /\ e \in Nat /\ p \in Nat /\ WindowOf(w, b, base)
        BY <1>1, <1>2, <2>1
      <3> QED BY <3>1, PeakIsNoLess, Zenon
    <2>3. e = b => ReadUpTo(w, e, p) = w.count
      BY <2>0, <2>1, <2>2, <1>2
    <2> QED BY <2>1, <2>2, <2>3 DEF p
  <1>8. /\ c.counter = 0 => c.newest = 0
        /\ c.counter > 0 => \E e \in 0..b : c.counter <= peak[e]
        /\ \A id \in taken :
              /\ c.newest > 0 /\ id.boot \in 0..b
              /\ id.boot = b => /\ id.k \in Nat /\ id.k < peak[b] /\ id.k < c.counter
                                /\ \/ c.counter <= peak[b]
                                   \/ base + 4 * id.k + c.lag <= c.newest
        /\ c.newest + 4 <= base + 4 * peak[b] + c.lag
        /\ b = boot => w.count <= count /\ (w.count > 0 => base = BootBase)
        /\ b < boot /\ w.count > 0 => base + 4 * w.count <= BootBase
        /\ CursorAt(boot, BootBase) /\ \A e \in 0..MaxBoots : e > boot => peak[e] = 0
    BY DEF ReadingOf, CursorAt, DrainInv, PeaksKnown
  <1>9. peak' \in [0..MaxBoots -> Nat]
    <2> DEFINE to(e) == ReadUpTo(w, e, peak[e])
    <2>1. peak' = [e \in 0..MaxBoots |-> to(e)]
      OBVIOUS
    <2>2. \A e \in 0..MaxBoots : peak'[e] \in Nat
      BY <1>7
    <2> HIDE DEF to
    <2>3. \A e \in 0..MaxBoots : to(e) \in Nat
      BY <2>1, <2>2
    <2> QED BY <2>1, <2>3
  <1>10. d.counter = 0 => d.newest = 0
    <2>1. d.counter = 0 => c.counter = 0 /\ w.count = 0
      BY <1>1, <1>2, <1>6
    <2> QED BY <2>1, <1>3, <1>4, <1>8
  <1>11. d.counter > 0 => \E e \in 0..boot : d.counter <= peak'[e]
    <2>1. CASE d.counter = w.count
      BY <2>1, <1>1, <1>2, <1>7
    <2>2. CASE d.counter = c.counter /\ d.counter > 0
      <3>1. PICK e \in 0..b : c.counter <= peak[e]
        BY <2>2, <1>8
      <3>2. e \in 0 .. MaxBoots /\ e \in 0 .. boot /\ peak[e] \in Nat
        <4>1. e \in 0 .. MaxBoots /\ e \in 0 .. boot
          BY <1>1, RingIsSized
        <4> QED BY <4>1, <1>1
      <3>3. d.counter <= peak'[e]
        BY <2>2, <3>1, <3>2, <1>1, <1>7
      <3> QED BY <3>2, <3>3
    <2> QED BY <2>1, <2>2, <1>6
  <1>12. d.newest + 4 <= base + 4 * w.count + d.lag
    <2>1. CASE newest = c.newest
      BY <2>1, <1>1, <1>2, <1>4, <1>8
    <2>2. CASE newest # c.newest
      BY <2>2, <1>1, <1>2, <1>3, <1>4
    <2> QED BY <2>1, <2>2
  <1>13. d.newest + 4 <= BootBase + 4 * peak'[boot] + d.lag
    <2>1. CASE w.count = 0
      <3>1. newest = c.newest /\ peak'[boot] >= peak[boot] /\ peak[boot] \in Nat /\ peak'[boot] \in Nat
        BY <2>1, <1>1, <1>3, <1>7
      <3>2. c.newest + 4 <= BootBase + 4 * peak[boot] + c.lag
        BY <1>8 DEF CursorAt
      <3> QED BY <3>1, <3>2, <1>1, <1>4
    <2>2. CASE w.count > 0 /\ b = boot
      BY <2>2, <1>1, <1>2, <1>7, <1>8, <1>12
    <2>3. CASE w.count > 0 /\ b < boot
      <3>1. peak'[boot] \in Nat
        BY <1>1, <1>7
      <3>2. base + 4 * w.count <= BootBase
        BY <2>3, <1>8
      <3> DEFINE x == d.newest
                 y == d.lag
                 z == peak'[boot]
                 n == w.count
      <3>3. x \in Nat /\ y \in Nat /\ z \in Nat /\ n \in Nat /\ x + 4 <= base + 4 * n + y
            /\ base + 4 * n <= BootBase
        BY <3>1, <3>2, <1>2, <1>5, <1>12
      <3> HIDE DEF x, y, z, n
      <3>4. x + 4 <= BootBase + 4 * z + y
        BY <3>3, <1>1
      <3> QED BY <3>4 DEF x, y, z
    <2> QED BY <2>1, <2>2, <2>3, <1>1, <1>2
  <1>14. ASSUME NEW id \in taken'
         PROVE  /\ d.newest > 0 /\ id.boot \in 0..boot
                /\ id.boot = boot => /\ id.k \in Nat /\ id.k < peak'[boot] /\ id.k < d.counter
                                     /\ \/ d.counter <= peak'[boot]
                                        \/ BootBase + 4 * id.k + d.lag <= d.newest
    <2>1. CASE id \in taken /\ fresh = {}
      <3>1. newest = c.newest \/ newest # c.newest
        OBVIOUS
      <3>2. Drain!NewestStamp(c, fresh) = Drain!Max({c.newest})
        <4>1. {c.newest} \cup { s.stamp : s \in fresh } = {c.newest}
          BY <2>1
        <4> QED BY <4>1 DEF Drain!NewestStamp
      <3>3. newest = c.newest
        <4> DEFINE S == {c.newest}
        <4>1. S \subseteq Nat /\ c.newest \in S /\ \A x \in S : x <= c.newest
          BY <1>1
        <4> HIDE DEF S
        <4>2. Drain!Max(S) = c.newest
          BY <4>1, LargestIs
        <4> QED BY <3>2, <4>2 DEF S, newest
      <3>4. d.newest = c.newest /\ d.lag = c.lag
        BY <3>3, <1>4
      <3>5. c.newest > 0 /\ id.boot \in 0..b
        BY <2>1, <1>8
      <3>6. CASE id.boot = boot
        <4>1. b = boot
          BY <3>5, <3>6, <1>1
        <4>2. /\ id.k \in Nat /\ id.k < peak[b] /\ id.k < c.counter
              /\ \/ c.counter <= peak[b]
                 \/ base + 4 * id.k + c.lag <= c.newest
          BY <2>1, <3>6, <4>1, <1>8
        <4>3. w.count > 0 /\ base = BootBase /\ peak'[boot] = w.count
          BY <4>1, <4>2, <1>1, <1>2, <1>7, <1>8
        <4>4. id.k < peak'[boot] /\ id.k < d.counter
          BY <4>2, <4>3, <1>1, <1>2, <1>6
        <4>5. \/ d.counter <= w.count
              \/ base + 4 * id.k + c.lag <= c.newest
          BY <4>2, <1>1, <1>2, <1>6
        <4> QED BY <3>4, <3>5, <4>1, <4>2, <4>3, <4>4, <4>5, <1>1
      <3> QED BY <3>4, <3>5, <3>6, <1>1
    <2>2. CASE fresh # {}
      <3>1. w.count > 0
        BY <2>2, <1>3
      <3>2. PICK top \in fresh : top.k = w.count - 1 /\ newest >= top.stamp
        BY <2>2, <1>3
      <3>3. top \in w.samples /\ top.stamp = base + w.lag + 4 * (w.count - 1) /\ top.stamp \in Nat \ {0}
        BY <3>2, <1>2 DEF WindowOf
      <3>4. d.newest > 0
        BY <3>2, <3>3, <1>3, <1>4
      <3>5. id.boot \in 0 .. b /\ (id.boot = b => id.k \in Nat /\ id.k < w.count)
        <4>1. CASE id \in taken
          BY <4>1, <1>1, <1>2, <1>8
        <4>2. CASE id \notin taken
          <5>1. PICK s \in fresh : id = RingIds(b, s.k)
            BY <4>2 DEF fresh
          <5> QED BY <5>1, <1>1, <1>2 DEF RingIds
        <4> QED BY <4>1, <4>2
      <3>6. CASE id.boot = boot
        <4>1. b = boot /\ id.k \in Nat /\ id.k < w.count
          BY <3>5, <3>6, <1>1
        <4>2. base = BootBase /\ peak'[boot] = w.count /\ id.k < d.counter
          BY <3>1, <4>1, <1>1, <1>2, <1>6, <1>7, <1>8
        <4>3. d.counter <= w.count \/ BootBase + 4 * id.k + d.lag <= d.newest
          <5>1. CASE c.counter <= w.count
            BY <5>1, <1>1, <1>2, <1>6
          <5>2. CASE ~(c.counter <= w.count)
            <6>1. c.newest = 0 \/ top.stamp > c.newest + 2
              BY <5>2, <3>2, <3>3, <1>1, <1>2, FreshIs DEF fresh
            <6>2. newest # c.newest
              BY <6>1, <3>2, <3>3, <1>1, <1>3
            <6>3. d.newest = base + w.lag + 4 * (w.count - 1) /\ d.lag = w.lag
              BY <6>2, <1>3, <1>4
            <6> QED BY <6>3, <4>1, <4>2, <1>1, <1>2
          <5> QED BY <5>1, <5>2
        <4> QED BY <3>4, <3>5, <4>1, <4>2, <4>3, <1>1
      <3> QED BY <3>4, <3>5, <3>6, <1>1
    <2>3. fresh = {} => id \in taken
      BY DEF fresh
    <2> QED BY <2>1, <2>2, <2>3
  <1>15. CursorAt(boot, BootBase)'
    BY <1>10, <1>11, <1>13, <1>14 DEF CursorAt, BootBase
  <1> QED BY <1>1, <1>5, <1>6, <1>7, <1>9, <1>15

LEMMA DrainCommits ==
    ASSUME DrainInv, Drain!Commit
    PROVE  DrainInv'
  <1> DEFINE w == worker.window
             fresh == Drain!Fresh(worker.window, cursor)
             ids == Drain!IdsOf(fresh)
             inReach == Drain!IdsOf(w.samples)
             left == inReach \ (taken \cup ids)
             sure == Drain!CounterTrusted(w, cursor)
             strays == Drain!IdsOf(Drain!Astray(w, cursor))
  <1>1. worker.at = "read" /\ worker.cursor = cursor
    BY DEF Drain!Commit, DrainInv, Reading
  <1>2. /\ cursor' = Drain!Advanced(w, cursor) /\ worker' = Drain!Committed(w, cursor)
        /\ taken' = taken \cup ids /\ twice' = twice \cup (taken \cap ids)
        /\ missed' = IF sure THEN missed \cup (left \ lost) ELSE missed
        /\ lost' = IF sure THEN lost ELSE lost \cup (left \ missed)
        /\ astray' = astray \cup strays
        /\ peak' = [b \in 0..MaxBoots |-> ReadUpTo(w, b, peak[b])]
        /\ UNCHANGED <<now, boot, count, raw>>
    BY <1>1 DEF Drain!Commit, Drain!dish, Drain!Boots, ReadUpTo
  <1>3. PICK b \in 0..boot, base \in Nat : ReadingOf(w, b, base)
    BY <1>1 DEF DrainInv, Reading
  <1>4. WindowOf(w, b, base) /\ w.count \in Nat
    BY <1>3 DEF ReadingOf, WindowOf
  <1>5. /\ now \in Nat /\ count \in Nat /\ count <= now /\ boot \in 0 .. MaxBoots /\ boot \in Nat
        /\ cursor.counter \in Nat /\ peak \in [0..MaxBoots -> Nat]
        /\ b \in Nat /\ b \in 0 .. MaxBoots /\ MaxBoots \in Nat
    BY RingIsSized DEF DrainInv, DrainType
  <1>6. fresh \subseteq w.samples
    BY <1>5, FreshIs
  <1>7. \A id : id \in ids <=> \E s \in fresh : id = RingIds(b, s.k)
    BY <1>4, <1>6, IdentityIs DEF Drain!IdsOf
  <1>8. \A id : id \in inReach <=> \E s \in w.samples : id = RingIds(b, s.k)
    BY <1>4, IdentityIs DEF Drain!IdsOf
  <1>9. worker'.at = "committed" /\ worker'.window = w /\ worker'.cursor = cursor
    BY <1>2 DEF Drain!Committed
  <1>10. ASSUME NEW s \in w.samples
         PROVE  /\ s \in fresh /\ RingIds(b, s.k) \in taken => RingIds(b, s.k) \in strays
                /\ s \notin fresh => s.k < cursor.counter
                /\ s \notin fresh /\ ~sure /\ RingIds(b, s.k) \notin OnBooks => RingIds(b, s.k) \in strays
    BY <1>3, CommitStrays
  <1>11. /\ \A s \in w.samples : s.boot = b /\ s.k \in Nat /\ s.k < w.count
         /\ \A k \in Nat : k < w.count /\ w.count <= k + RingSize => \E s \in w.samples : s.k = k
    BY <1>4 DEF WindowOf
  <1>12. /\ cursor'.counter \in Nat /\ cursor'.newest \in Nat /\ cursor'.lag \in Nat
         /\ peak' \in [0 .. MaxBoots -> Nat] /\ \A e \in 0 .. MaxBoots : peak'[e] >= peak[e]
         /\ \A e \in 0..MaxBoots : e # b => peak'[e] = peak[e]
         /\ peak'[b] = w.count
         /\ CursorAt(boot, BootBase)'
    <2>1. \A id \in ids : \E s \in fresh : id = RingIds(b, s.k)
      BY <1>7
    <2> HIDE DEF w, ids, fresh
    <2>2. \A id \in taken' : id \in taken \/ \E s \in Drain!Fresh(w, cursor) : id = RingIds(b, s.k)
      BY <2>1, <1>2 DEF w, fresh
    <2>3. /\ cursor' = Drain!Advanced(w, cursor)
          /\ peak' = [e \in 0..MaxBoots |-> ReadUpTo(w, e, peak[e])]
          /\ UNCHANGED <<now, boot, count>>
      BY <1>2
    <2>4. ReadingOf(w, b, base)
      BY <1>3
    <2> QED BY <2>2, <2>3, <2>4, CursorMoves
  <1> HIDE DEF w, fresh, ids, inReach, left, sure, strays
  <1>13. DrainType'
    <2>1. \A id \in missed' : id.boot \in 0 .. MaxBoots /\ id.k \in Nat
      <3>1. \A id \in inReach : id.boot \in 0 .. MaxBoots /\ id.k \in Nat
        BY <1>5, <1>8, <1>11 DEF RingIds
      <3>2. \A id \in missed' : id \in missed \/ id \in inReach
        BY <1>2 DEF left
      <3> QED BY <3>1, <3>2 DEF DrainInv, DrainType
    <2> QED BY <2>1, <1>2, <1>5, <1>12 DEF DrainType
  <1>14. OnBooks \subseteq OnBooks' /\ inReach \subseteq OnBooks'
    BY <1>2 DEF OnBooks, left
  <1>15. PeaksKnown'
    <2>1. \A e \in 0..MaxBoots : e > boot => peak'[e] = 0
      BY <1>3, <1>5, <1>12 DEF DrainInv, PeaksKnown
    <2>2. peak'[boot] <= count
      BY <1>3, <1>5, <1>12 DEF DrainInv, PeaksKnown, ReadingOf
    <2>3. ASSUME NEW k \in Nat, k < peak'[boot], count <= k + RingSize
          PROVE  RingIds(boot, k) \in OnBooks'
      <3>1. CASE k < peak[boot]
        BY <2>3, <3>1, <1>14 DEF DrainInv, PeaksKnown
      <3>2. CASE ~(k < peak[boot])
        <4>1. b = boot /\ peak'[boot] = w.count
          BY <2>3, <3>2, <1>5, <1>12
        <4>2. w.count <= count /\ k < w.count
          BY <2>3, <4>1, <1>3 DEF ReadingOf
        <4>3. w.count <= k + RingSize
          BY <2>3, <4>2, <1>4, <1>5, RingIsSized
        <4>4. PICK s \in w.samples : s.k = k
          BY <4>2, <4>3, <1>11
        <4> QED BY <4>1, <4>4, <1>8, <1>14
      <3> QED BY <3>1, <3>2
    <2> QED BY <2>1, <2>2, <2>3, <1>2 DEF PeaksKnown, RingIds
  <1>16. Reading'
    BY <1>9 DEF Reading
  <1>17. ASSUME NEW s \in fresh
         PROVE  /\ RingIds(b, s.k) \in taken'
                /\ RingIds(b, s.k) \in astray' \/ RingIds(b, s.k) \notin taken
    <2>1. RingIds(b, s.k) \in ids
      BY <1>7
    <2>2. RingIds(b, s.k) \in taken => RingIds(b, s.k) \in strays
      BY <1>6, <1>10
    <2> QED BY <2>1, <2>2, <1>2
  <1>18. \A r \in raw : Drain!Identity(r) \in taken
    BY DEF DrainInv, Drain!RawSeriesIsOneHertz
  <1>19. Putting'
    <2>1. /\ WindowOf(w, b, base)
          /\ \A s \in fresh :
                /\ RingIds(b, s.k) \in taken'
                /\ RingIds(b, s.k) \in astray' \/ \A r \in raw' : Drain!Identity(r) # RingIds(b, s.k)
      BY <1>2, <1>4, <1>17, <1>18
    <2>2. b \in 0 .. boot' /\ Drain!Fresh(worker'.window, worker'.cursor) = fresh
      BY <1>2, <1>9 DEF fresh, w
    <2>3. PuttingOf(worker.window, worker.cursor, b, base)'
      BY <2>1, <2>2, <1>9 DEF PuttingOf, WindowOf, RingIds, Drain!Identity,
                             Drain!Fresh, Drain!CounterTrusted, Drain!Second
    <2> QED BY <2>2, <2>3 DEF Putting
  <1>20. Drain!StraysOnlyBySlips'
    <2>1. twice \subseteq astray /\ lost \subseteq astray
      BY DEF DrainInv, Drain!StraysOnlyBySlips
    <2>2. twice' \subseteq astray'
      <3>1. taken \cap ids \subseteq astray'
        BY <1>7, <1>17
      <3> QED BY <2>1, <3>1, <1>2
    <2>3. lost' \subseteq astray'
      <3>1. ASSUME ~sure, NEW id \in left \ missed PROVE id \in astray'
        <4>1. CASE id \in lost
          BY <4>1, <2>1, <1>2
        <4>2. CASE id \notin lost
          <5>1. id \notin OnBooks
            BY <3>1, <4>2 DEF OnBooks, left
          <5>2. PICK s \in w.samples : id = RingIds(b, s.k)
            BY <3>1, <1>8 DEF left
          <5>3. s \notin fresh
            BY <3>1, <5>2, <1>7 DEF left
          <5> QED BY <3>1, <5>1, <5>2, <5>3, <1>2, <1>10
        <4> QED BY <4>1, <4>2
      <3> QED BY <2>1, <3>1, <1>2
    <2> QED BY <2>2, <2>3 DEF Drain!StraysOnlyBySlips
  <1>21. Drain!RawSeriesIsOneHertz'
    BY <1>2 DEF DrainInv, Drain!RawSeriesIsOneHertz, Drain!Identity
  <1>22. Drain!SkipsOnlyBelowAnEarlierBoot'
    <2> SUFFICES ASSUME NEW id \in missed'
                 PROVE  \E e \in 0..id.boot - 1 : id.k < peak'[e]
      BY DEF Drain!SkipsOnlyBelowAnEarlierBoot
    <2>1. CASE id \in missed
      <3>1. PICK e \in 0..id.boot - 1 : id.k < peak[e]
        BY <2>1 DEF DrainInv, Drain!SkipsOnlyBelowAnEarlierBoot
      <3>2. id.boot \in 0 .. MaxBoots /\ id.k \in Nat /\ e \in 0 .. MaxBoots
        BY <2>1, <3>1, <1>5 DEF DrainInv, DrainType
      <3>3. id.k < peak'[e]
        <4>1. peak[e] \in Nat /\ peak'[e] \in Nat /\ peak'[e] >= peak[e]
          BY <3>2, <1>5, <1>12
        <4> QED BY <3>1, <3>2, <4>1
      <3> QED BY <3>1, <3>3
    <2>2. CASE id \notin missed
      <3>0. sure /\ id \in left /\ id \notin lost
        BY <2>2, <1>2
      <3>1. PICK s \in w.samples : id = RingIds(b, s.k)
        BY <3>0, <1>8 DEF left
      <3>2. id.boot = b /\ id.k = s.k /\ s.k \in Nat
        BY <3>1, <1>11 DEF RingIds
      <3>3. id \notin OnBooks /\ s \notin fresh
        BY <2>2, <3>0, <3>1, <1>7 DEF left, OnBooks
      <3>4. s.k < cursor.counter
        BY <3>3, <1>10
      <3>5. PICK e \in 0..b : cursor.counter <= peak[e]
        BY <3>2, <3>4, <1>3, <1>5 DEF ReadingOf, CursorAt
      <3>6. ~(s.k < peak[b])
        BY <3>1, <3>3, <1>3 DEF ReadingOf
      <3>7. e # b /\ e \in 0 .. b - 1 /\ e \in 0 .. MaxBoots /\ s.k < peak[e]
        BY <3>2, <3>4, <3>5, <3>6, <1>5
      <3>8. s.k < peak'[e]
        <4>1. peak[e] \in Nat /\ peak'[e] \in Nat /\ peak'[e] >= peak[e]
          BY <3>7, <1>5, <1>12
        <4> QED BY <3>2, <3>7, <4>1
      <3> QED BY <3>2, <3>7, <3>8
    <2> QED BY <2>1, <2>2
  <1> QED BY <1>12, <1>13, <1>15, <1>16, <1>19, <1>20, <1>21, <1>22 DEF DrainInv

(* What is on file.  Compaction only moves samples, and a commit adds as many to *)
(* the minutes as it takes: no minute it adds to is past the rows there are.     *)
FilesInv ==
    /\ now <= MaxSeconds + 1
    /\ minutes \in [Drain!Rows -> Nat] /\ months \in [Drain!Years -> Nat]
    /\ IsFiniteSet(taken)
    /\ worker.at = "read" =>
          /\ IsFiniteSet(worker.window.samples)
          /\ \A s \in worker.window.samples : s.stamp <= 4 * now + Jitter
    /\ twice = {} =>
          Cardinality(taken) = SumFunctionOnSet(minutes, Drain!Rows) + SumFunctionOnSet(months, Drain!Years)

(* The rows and sums of the drain's model.                                       *)
LEMMA FilesAre ==
    /\ MinuteLen \in Nat \ {0} /\ YearLen \in Nat \ {0} /\ MaxSeconds \in Nat
    /\ Drain!Rows = 0..(MaxSeconds + 1 + Jitter) \div MinuteLen
    /\ Drain!Years = 0..(MaxSeconds + 1 + Jitter) \div YearLen
    /\ IsFiniteSet(Drain!Rows) /\ IsFiniteSet(Drain!Years)
    /\ \A S : Drain!Cardinality(S) = Cardinality(S)
  <1>1. MinuteLen \in Nat \ {0} /\ YearLen \in Nat \ {0} /\ MaxSeconds \in Nat
    BY InstancesSuit DEF Drain!DrainAssumption, Drain!RingAssumption
  <1>2. (MaxSeconds + 1 + Jitter) \div MinuteLen \in Int /\ (MaxSeconds + 1 + Jitter) \div YearLen \in Int
    <2>1. MaxSeconds + 1 + Jitter \in Nat
      BY <1>1, RingIsSized
    <2> QED BY <1>1, <2>1, QuotientIs
  <1>3. /\ Drain!Rows = 0..(MaxSeconds + 1 + Jitter) \div MinuteLen
        /\ Drain!Years = 0..(MaxSeconds + 1 + Jitter) \div YearLen
    BY DEF Drain!Rows, Drain!Years
  <1>4. IsFiniteSet(Drain!Rows) /\ IsFiniteSet(Drain!Years)
    BY <1>2, <1>3, FS_Interval
  <1>5. \A S : Drain!Cardinality(S) = Cardinality(S)
    BY DEF Drain!Cardinality, Cardinality
  <1> QED BY <1>1, <1>3, <1>4, <1>5

LEMMA DrainSums ==
    ASSUME NEW f
    PROVE  /\ \A I : Drain!SumFunctionOnSet(f, I) = SumFunctionOnSet(f, I)
           /\ Drain!SumFunction(f) = SumFunctionOnSet(f, DOMAIN f)
  BY DEF Drain!SumFunction, Drain!SumFunctionOnSet, Drain!FoldFunctionOnSet, Drain!MapThenFoldSet,
         SumFunctionOnSet, FoldFunctionOnSet, MapThenFoldSet

LEMMA FilesStart == StoresInit => FilesInv
  <1> SUFFICES ASSUME StoresInit PROVE FilesInv
    OBVIOUS
  <1>1. /\ now = 1 /\ taken = {} /\ twice = {} /\ worker = [at |-> "idle"]
        /\ minutes = [m \in Drain!Rows |-> 0] /\ months = [y \in Drain!Years |-> 0]
    BY DEF StoresInit, Drain!Init, Drain!DishInit, Drain!Idle
  <1>2. SumFunctionOnSet(minutes, Drain!Rows) = 0
    <2>1. IsFiniteSet(Drain!Rows) /\ \A m \in Drain!Rows : minutes[m] = 0
      BY <1>1, FilesAre
    <2> QED BY <2>1, SumsCompare
  <1>3. SumFunctionOnSet(months, Drain!Years) = 0
    <2>1. IsFiniteSet(Drain!Years) /\ \A m \in Drain!Years : months[m] = 0
      BY <1>1, FilesAre
    <2> QED BY <2>1, SumsCompare
  <1>4. IsFiniteSet(taken) /\ Cardinality(taken) = 0
    BY <1>1, FS_EmptySet
  <1>5. now <= MaxSeconds + 1
    BY <1>1, FilesAre
  <1> QED BY <1>1, <1>2, <1>3, <1>4, <1>5 DEF FilesInv

(* A commit adds to the minutes' rows as many samples as it takes.               *)
LEMMA CommitIsFiled ==
    ASSUME DrainInv, DrainInv', FilesInv, Drain!Commit
    PROVE  FilesInv'
  <1> DEFINE w == worker.window
             fresh == Drain!Fresh(worker.window, cursor)
             ids == Drain!IdsOf(fresh)
             place(s) == Drain!MinuteOf(s.stamp, MinuteLen)
             adds == [m \in Drain!Rows |-> Cardinality({ s \in fresh : place(s) = m })]
  <1>1. worker.at = "read" /\ worker.cursor = cursor
    BY DEF Drain!Commit, DrainInv, Reading
  <1>2. /\ minutes' = [m \in Drain!Rows |-> minutes[m] + Drain!Cardinality({ s \in fresh : place(s) = m })]
        /\ worker'.at = "committed" /\ taken' = taken \cup ids
        /\ twice' = twice \cup (taken \cap ids)
        /\ UNCHANGED <<now, months>>
    BY <1>1 DEF Drain!Commit, Drain!dish, Drain!Added, Drain!Committed
  <1>3. PICK b \in 0..boot, base \in Nat : ReadingOf(w, b, base)
    BY <1>1 DEF DrainInv, Reading
  <1>4. WindowOf(w, b, base) /\ cursor.counter \in Nat
    BY <1>3 DEF ReadingOf, DrainInv, DrainType
  <1>5. fresh \subseteq w.samples /\ IsFiniteSet(fresh)
    <2>1. fresh \subseteq w.samples
      BY <1>4, FreshIs
    <2>2. IsFiniteSet(w.samples)
      BY <1>1 DEF FilesInv
    <2> HIDE DEF w, fresh
    <2> QED BY <2>1, <2>2, FS_Subset
  <1>6. ASSUME NEW s \in fresh
        PROVE  /\ Drain!Identity(s) = RingIds(b, s.k)
               /\ \A t \in fresh : Drain!Identity(t) = Drain!Identity(s) => t = s
               /\ place(s) \in Drain!Rows
    <2>1. Drain!Identity(s) = RingIds(b, s.k)
      BY <1>4, <1>5, IdentityIs
    <2>3. ASSUME NEW t \in fresh, Drain!Identity(t) = Drain!Identity(s) PROVE t = s
      <3>1. RingIds(b, t.k) = RingIds(b, s.k)
        BY <2>1, <2>3, <1>4, <1>5, IdentityIs
      <3>2. t.k = s.k
        BY <3>1 DEF RingIds
      <3> QED BY <3>2, <1>4, <1>5 DEF WindowOf
    <2>4. place(s) \in Drain!Rows
      <3>1. s.stamp \in Nat /\ s.stamp <= 4 * now + Jitter /\ now \in Nat /\ now <= MaxSeconds + 1
        BY <1>1, <1>4, <1>5 DEF WindowOf, FilesInv, DrainInv, DrainType
      <3>2. Jitter \in Nat /\ MaxSeconds + 1 + Jitter \in Nat
        BY RingIsSized, FilesAre
      <3> DEFINE at == s.stamp
                 second == s.stamp \div 4
      <3>3. second \in Nat /\ 4 * second <= s.stamp
        BY <3>1, QuotientIs
      <3> HIDE DEF second
      <3>4. second <= MaxSeconds + 1 + Jitter
        BY <3>1, <3>2, <3>3, FilesAre
      <3>5. second \div MinuteLen \in Nat /\ (MaxSeconds + 1 + Jitter) \div MinuteLen \in Nat
            /\ second \div MinuteLen <= (MaxSeconds + 1 + Jitter) \div MinuteLen
        BY <3>2, <3>3, <3>4, FilesAre, QuotientGrows
      <3>6. second \div MinuteLen \in Drain!Rows
        BY <3>5, FilesAre
      <3> QED BY <3>6 DEF second, Drain!MinuteOf, Drain!Second
    <2> QED BY <2>1, <2>3, <2>4
  <1>7. IsFiniteSet(ids) /\ Cardinality(ids) = Cardinality(fresh)
    <2> DEFINE f == [s \in fresh |-> Drain!Identity(s)]
    <2>1. f \in Surjection(fresh, ids)
      BY DEF Surjection, Drain!IdsOf
    <2>2. f \in Injection(fresh, ids)
      <3>1. f \in [fresh -> ids]
        BY DEF Drain!IdsOf
      <3>2. ASSUME NEW s \in fresh, NEW t \in fresh, f[s] = f[t] PROVE s = t
        <4>1. Drain!Identity(t) = Drain!Identity(s)
          BY <3>2
        <4> HIDE DEF fresh, f
        <4> QED BY <1>6, <4>1
      <3> HIDE DEF fresh, f, ids
      <3> QED BY <3>1, <3>2 DEF Injection, IsInjective
    <2> HIDE DEF f, ids, fresh
    <2>4. IsFiniteSet(ids)
      BY <2>1, <1>5, FS_Surjection
    <2>5. Cardinality(ids) = Cardinality(fresh)
      BY <2>1, <2>2, <2>4, FS_Injection
    <2> QED BY <2>4, <2>5
  <1> HIDE DEF w, ids, fresh
  <1>8. /\ IsFiniteSet(taken')
        /\ twice' = {} => twice = {} /\ Cardinality(taken') = Cardinality(taken) + Cardinality(fresh)
    <2>1. IsFiniteSet(taken) /\ Cardinality(taken) \in Nat /\ Cardinality(fresh) \in Nat
      BY <1>5, FS_CardinalityType DEF FilesInv
    <2>2. IsFiniteSet(taken \cup ids)
          /\ Cardinality(taken \cup ids) = Cardinality(taken) + Cardinality(ids) - Cardinality(taken \cap ids)
      BY <2>1, <1>7, FS_Union
    <2>3. ASSUME twice' = {}
          PROVE  twice = {} /\ Cardinality(taken \cap ids) = 0
      <3>1. twice = {} /\ taken \cap ids = {}
        BY <2>3, <1>2
      <3> QED BY <3>1, FS_EmptySet
    <2>4. twice' = {} =>
             twice = {} /\ Cardinality(taken \cup ids) = Cardinality(taken) + Cardinality(fresh)
      BY <2>1, <2>2, <2>3, <1>7
    <2> QED BY <2>2, <2>4, <1>2
  <1>9. SumFunctionOnSet(adds, Drain!Rows) = Cardinality(fresh)
    <2> DEFINE ones == [s \in fresh |-> 1]
               c == [s \in fresh |-> place(s)]
               sums == [m \in Drain!Rows |-> SumFunctionOnSet(ones, { s \in fresh : c[s] = m })]
    <2>1. ASSUME NEW T \in SUBSET fresh
          PROVE  Cardinality(T) = SumFunctionOnSet(ones, T)
      <3>1. IsFiniteSet(T) /\ \A s \in T : ones[s] = 1
        BY <1>5, FS_Subset
      <3> HIDE DEF ones
      <3> QED BY <3>1, SumOfOnes
    <2>2. ASSUME NEW m \in Drain!Rows
          PROVE  { s \in fresh : place(s) = m } = { s \in fresh : c[s] = m }
      OBVIOUS
    <2>3. adds = sums
      <3>1. ASSUME NEW m \in Drain!Rows PROVE adds[m] = sums[m]
        <4> HIDE DEF ones, c, place
        <4>1. adds[m] = Cardinality({ s \in fresh : place(s) = m })
              /\ sums[m] = SumFunctionOnSet(ones, { s \in fresh : c[s] = m })
          OBVIOUS
        <4> QED BY <4>1, <2>1, <2>2
      <3> QED BY <3>1
    <2>4. SumFunctionOnSet(sums, Drain!Rows) = SumFunctionOnSet(ones, fresh)
      <3>1. \A s \in fresh : ones[s] \in Int
        OBVIOUS
      <3>2. \A s \in fresh : c[s] \in Drain!Rows
        BY <1>6
      <3>3. IsFiniteSet(Drain!Rows) /\ IsFiniteSet(fresh)
        BY <1>5, FilesAre
      <3> HIDE DEF ones, c
      <3> QED BY <3>1, <3>2, <3>3, SumOfClasses
    <2>5. Cardinality(fresh) = SumFunctionOnSet(ones, fresh)
      BY <2>1
    <2> HIDE DEF ones, c, sums, adds
    <2> QED BY <2>3, <2>4, <2>5
  <1>10. /\ minutes' \in [Drain!Rows -> Nat]
         /\ \A m \in Drain!Rows : /\ adds[m] \in Nat /\ minutes[m] \in Nat /\ minutes'[m] \in Nat
                                  /\ minutes[m] + adds[m] = minutes'[m]
    <2>1. ASSUME NEW m \in Drain!Rows
          PROVE  /\ adds[m] \in Nat /\ minutes[m] \in Nat
                 /\ minutes[m] + adds[m] = minutes'[m]
      <3> DEFINE T == { s \in fresh : place(s) = m }
      <3>1. IsFiniteSet(T)
        BY <1>5, FS_Subset
      <3>2. adds[m] = Cardinality(T) /\ minutes'[m] = minutes[m] + Drain!Cardinality(T)
        BY <1>2
      <3> HIDE DEF T
      <3>3. Cardinality(T) \in Nat /\ Drain!Cardinality(T) = Cardinality(T)
        BY <3>1, FS_CardinalityType, FilesAre
      <3> QED BY <3>2, <3>3 DEF FilesInv
    <2>2. \A m \in Drain!Rows : minutes'[m] \in Nat
      <3> HIDE DEF adds
      <3> QED BY <2>1
    <2>3. minutes' = [m \in Drain!Rows |-> minutes'[m]]
      BY <1>2
    <2> QED BY <2>1, <2>2, <2>3
  <1> HIDE DEF adds
  <1>11. SumFunctionOnSet(minutes', Drain!Rows) = SumFunctionOnSet(minutes, Drain!Rows) + SumFunctionOnSet(adds, Drain!Rows)
    <2>1. TermsAdd(minutes, adds, minutes', Drain!Rows)
      BY <1>10 DEF TermsAdd
    <2> QED BY <2>1, FilesAre, SumsAdd
  <1>12. /\ SumFunctionOnSet(minutes, Drain!Rows) \in Int /\ SumFunctionOnSet(months, Drain!Years) \in Int
         /\ Cardinality(fresh) \in Nat
    <2>1. /\ \A m \in Drain!Rows : minutes[m] \in Int
          /\ \A y \in Drain!Years : months[y] \in Int
      BY DEF FilesInv
    <2> QED BY <2>1, <1>5, FilesAre, SumIsInt, FS_CardinalityType
  <1>13. twice' = {} => Cardinality(taken')
                            = SumFunctionOnSet(minutes', Drain!Rows) + SumFunctionOnSet(months', Drain!Years)
    BY <1>2, <1>8, <1>9, <1>11, <1>12 DEF FilesInv
  <1>14. Drain!Rows' = Drain!Rows /\ Drain!Years' = Drain!Years
    BY DEF Drain!Rows, Drain!Years
  <1> QED BY <1>2, <1>8, <1>10, <1>13, <1>14 DEF FilesInv

(* Compaction moves the minutes of a year gone to that year's row.               *)
LEMMA CompactionIsFiled ==
    ASSUME DrainInv, FilesInv, Drain!CompactEnergy
    PROVE  FilesInv'
  <1> DEFINE gone == Drain!Expired
             rest == Drain!Rows \ Drain!Expired
             year == [m \in gone |-> Drain!YearOf(m)]
             moved == [y \in Drain!Years |-> SumFunctionOnSet(minutes, { m \in gone : year[m] = y })]
             left == [m \in Drain!Rows |-> IF m \in gone THEN 0 ELSE minutes[m]]
             sum(f, S) == SumFunctionOnSet(f, S)
  <1>1. /\ minutes' = left
        /\ months' = [y \in Drain!Years |-> months[y]
                         + Drain!SumFunctionOnSet(minutes, { m \in gone : Drain!YearOf(m) = y })]
        /\ UNCHANGED <<now, worker, taken, twice>>
    BY DEF Drain!CompactEnergy, Drain!dish, Drain!history, Drain!Archived
  <1>2. /\ gone \in SUBSET Drain!Rows /\ IsFiniteSet(gone) /\ IsFiniteSet(rest)
        /\ rest \in SUBSET Drain!Rows /\ Drain!Rows \ gone = rest
    BY FilesAre, FS_Subset DEF Drain!Expired
  <1>3. /\ \A m \in Drain!Rows : minutes[m] \in Nat
        /\ \A y \in Drain!Years : months[y] \in Nat
    BY DEF FilesInv
  <1>4. ASSUME NEW m \in gone PROVE year[m] \in Drain!Years
    <2>1. m \in Nat /\ m <= (MaxSeconds + 1 + Jitter) \div MinuteLen /\ year[m] = (m * MinuteLen) \div YearLen
      BY <1>2, FilesAre DEF Drain!YearOf
    <2> DEFINE most == (MaxSeconds + 1 + Jitter) \div MinuteLen
    <2>2. most \in Nat /\ MinuteLen * most <= MaxSeconds + 1 + Jitter
      <3>1. MaxSeconds + 1 + Jitter \in Nat
        BY RingIsSized, FilesAre
      <3> QED BY <3>1, FilesAre, QuotientIs
    <2> HIDE DEF most
    <2>3. m * MinuteLen \in Nat /\ m * MinuteLen <= MaxSeconds + 1 + Jitter
      <3>1. MinuteLen \in Nat /\ m <= most
        BY <2>1, FilesAre DEF most
      <3>2. m * MinuteLen \in Nat /\ m * MinuteLen <= MinuteLen * most
        BY <2>1, <2>2, <3>1
      <3> QED BY <2>2, <3>1, <3>2, FilesAre, RingIsSized
    <2>4. (m * MinuteLen) \div YearLen \in Nat
          /\ (m * MinuteLen) \div YearLen <= (MaxSeconds + 1 + Jitter) \div YearLen
          /\ (MaxSeconds + 1 + Jitter) \div YearLen \in Nat
      <3> DEFINE at == m * MinuteLen
      <3>1. at \in Nat /\ at <= MaxSeconds + 1 + Jitter /\ MaxSeconds + 1 + Jitter \in Nat
        BY <2>3, FilesAre, RingIsSized
      <3> HIDE DEF at
      <3>2. at \div YearLen \in Nat /\ at \div YearLen <= (MaxSeconds + 1 + Jitter) \div YearLen
            /\ (MaxSeconds + 1 + Jitter) \div YearLen \in Nat
        BY <3>1, FilesAre, QuotientGrows
      <3> QED BY <3>2 DEF at
    <2> HIDE DEF year
    <2> QED BY <2>1, <2>4, FilesAre
  <1>5. ASSUME NEW y \in Drain!Years
        PROVE  moved[y] \in Nat /\ months'[y] = months[y] + moved[y]
    <2> DEFINE T == { m \in gone : year[m] = y }
    <2>1. T = { m \in gone : Drain!YearOf(m) = y } /\ T \in SUBSET gone
      OBVIOUS
    <2>2. IsFiniteSet(T) /\ \A m \in T : minutes[m] \in Nat
      BY <1>2, <1>3, <2>1, FS_Subset
    <2>3. moved[y] = sum(minutes, T)
      OBVIOUS
    <2>4. months'[y] = months[y] + Drain!SumFunctionOnSet(minutes, T)
      BY <1>1, <2>1
    <2>5. Drain!SumFunctionOnSet(minutes, T) = sum(minutes, T)
      <3> HIDE DEF T
      <3> QED BY DrainSums
    <2> HIDE DEF T, moved
    <2> QED BY <2>2, <2>3, <2>4, <2>5, SumIsNat
  <1>6. sum(moved, Drain!Years) = sum(minutes, gone)
    <2>1. \A m \in gone : minutes[m] \in Int
      BY <1>2, <1>3
    <2>2. \A m \in gone : year[m] \in Drain!Years
      BY <1>4
    <2>3. IsFiniteSet(gone) /\ IsFiniteSet(Drain!Years)
      BY <1>2, FilesAre
    <2> HIDE DEF gone, year
    <2>4. SumFunctionOnSet([y \in Drain!Years |->
                              SumFunctionOnSet(minutes, { m \in gone : year[m] = y })], Drain!Years)
             = SumFunctionOnSet(minutes, gone)
      BY <2>1, <2>2, <2>3, SumOfClasses
    <2> QED BY <2>4
  <1>7. sum(left, Drain!Rows) = sum(minutes, rest)
    <2>1. /\ \A m \in Drain!Rows : left[m] \in Int
          /\ \A m \in gone : left[m] = 0
          /\ \A m \in rest : left[m] = minutes[m] /\ left[m] \in Int /\ minutes[m] \in Int
      BY <1>2, <1>3
    <2> HIDE DEF left, gone, rest
    <2>2. sum(left, Drain!Rows) = sum(left, gone) + sum(left, rest)
      BY <1>2, <2>1, FilesAre, SumSplits
    <2>3. sum(left, gone) = 0
      <3>1. \A m \in gone : left[m] \in Int
        BY <2>1
      <3> QED BY <1>2, <2>1, <3>1, SumsCompare
    <2>4. sum(left, rest) = sum(minutes, rest) /\ sum(left, rest) \in Int
      BY <1>2, <2>1, SumsCompare, SumIsInt
    <2> QED BY <2>2, <2>3, <2>4
  <1>8. /\ sum(minutes, Drain!Rows) = sum(minutes, gone) + sum(minutes, rest)
        /\ sum(minutes, gone) \in Int /\ sum(minutes, rest) \in Int
    <2>1. /\ \A m \in Drain!Rows : minutes[m] \in Int
          /\ \A m \in gone : minutes[m] \in Int
          /\ \A m \in rest : minutes[m] \in Int
      BY <1>2, <1>3
    <2> HIDE DEF gone, rest
    <2> QED BY <1>2, <2>1, FilesAre, SumSplits, SumIsInt
  <1>9. /\ sum(months', Drain!Years) = sum(months, Drain!Years) + sum(moved, Drain!Years)
        /\ sum(months, Drain!Years) \in Int
    <2>1. TermsAdd(months, moved, months', Drain!Years)
      <3> HIDE DEF moved
      <3> QED BY <1>3, <1>5 DEF TermsAdd
    <2> QED BY <2>1, FilesAre, SumsAdd
  <1>10. minutes' \in [Drain!Rows -> Nat] /\ months' \in [Drain!Years -> Nat]
    <2>1. minutes' \in [Drain!Rows -> Nat]
      BY <1>1, <1>3
    <2>2. \A y \in Drain!Years : months'[y] \in Nat
      <3> HIDE DEF moved
      <3> QED BY <1>3, <1>5
    <2>3. months' = [y \in Drain!Years |-> months'[y]]
      BY <1>1
    <2> QED BY <2>1, <2>2, <2>3
  <1>11. twice' = {} => Cardinality(taken')
                            = SumFunctionOnSet(minutes', Drain!Rows) + SumFunctionOnSet(months', Drain!Years)
    <2> SUFFICES ASSUME twice = {}
                 PROVE  Cardinality(taken')
                            = SumFunctionOnSet(minutes', Drain!Rows) + SumFunctionOnSet(months', Drain!Years)
      BY <1>1
    <2>1. Cardinality(taken) = sum(minutes, Drain!Rows) + sum(months, Drain!Years)
      BY DEF FilesInv
    <2> HIDE DEF left, moved, gone, rest, sum
    <2>2. sum(minutes', Drain!Rows) = sum(minutes, rest)
      BY <1>1, <1>7
    <2>3. Cardinality(taken') = sum(minutes', Drain!Rows) + sum(months', Drain!Years)
      BY <1>1, <1>6, <1>8, <1>9, <2>1, <2>2
    <2> QED BY <2>3 DEF sum
  <1>12. Drain!Rows' = Drain!Rows /\ Drain!Years' = Drain!Years
    BY DEF Drain!Rows, Drain!Years
  <1> QED BY <1>1, <1>10, <1>11, <1>12 DEF FilesInv

LEMMA FilesStep ==
    ASSUME DrainInv, DrainInv', FilesInv, Drain!Next \/ UNCHANGED <<dish, drainVars>>
    PROVE  FilesInv'
  <1>1. Drain!Rows' = Drain!Rows /\ Drain!Years' = Drain!Years
    BY DEF Drain!Rows, Drain!Years
  <1>2. now \in Nat /\ count \in Nat /\ Jitter \in Nat
    BY RingIsSized DEF DrainInv, DrainType
  <1>3. ASSUME UNCHANGED <<minutes, months, taken, twice>>, now' \in Nat, now <= now', now' <= MaxSeconds + 1,
               worker' = worker \/ worker'.at # "read"
        PROVE  FilesInv'
    <2>1. worker'.at = "read" =>
             /\ IsFiniteSet(worker'.window.samples)
             /\ \A s \in worker'.window.samples : s.stamp <= 4 * now' + Jitter
      <3> SUFFICES ASSUME worker.at = "read", worker' = worker, NEW s \in worker.window.samples
                   PROVE  s.stamp <= 4 * now' + Jitter
        BY <1>3 DEF FilesInv
      <3>1. s.stamp <= 4 * now + Jitter
        BY DEF FilesInv
      <3>2. s.stamp \in Nat
        BY DEF DrainInv, Reading, ReadingOf, WindowOf
      <3> QED BY <3>1, <3>2, <1>2, <1>3
    <2> QED BY <2>1, <1>1, <1>3 DEF FilesInv
  <1>4. CASE Drain!Tick \/ Drain!Reboot
    <2>1. /\ UNCHANGED <<minutes, months, taken, twice, worker>>
          /\ now' = now \/ (now < MaxSeconds /\ now' = now + 1)
      BY <1>4 DEF Drain!Tick, Drain!Reboot, Drain!DishTick, Drain!DishReboot, Drain!history
    <2> QED BY <2>1, <1>2, <1>3, FilesAre DEF FilesInv
  <1>5. CASE Drain!PutSamples \/ Drain!Teardown \/ UNCHANGED <<dish, drainVars>>
    <2>1. /\ UNCHANGED <<now, minutes, months, taken, twice>>
          /\ worker' = worker \/ worker'.at # "read"
      BY <1>5 DEF Drain!PutSamples, Drain!Teardown, Drain!Idle, Drain!dish, Drain!history, dish, drainVars
    <2> QED BY <2>1, <1>2, <1>3, FilesAre DEF FilesInv
  <1>6. CASE Drain!ReadWindow
    <2>1. PICK phase \in Phases : worker' = Drain!Read(Drain!Stamped(Drain!Ring, phase), cursor)
      BY <1>6 DEF Drain!ReadWindow
    <2>0. phase \in Nat /\ phase <= Jitter
      BY RingIsSized
    <2>2. UNCHANGED <<now, minutes, months, taken, twice>>
      BY <1>6 DEF Drain!ReadWindow, Drain!dish, Drain!history
    <2> DEFINE ks == { i \in 0..count - 1 : i >= count - RingSize }
               sample(k) == [boot |-> boot, k |-> k, stamp |-> (now - (count - 1 - k)) * 4 + phase]
               all == { sample(k) : k \in ks }
    <2>3. worker'.window.samples = all
      BY <2>1 DEF Drain!Read, Drain!Stamped, Drain!Ring, Drain!Second
    <2>4. ASSUME NEW s \in all PROVE s.stamp <= 4 * now + Jitter
      <3>1. PICK k \in ks : s = sample(k)
        OBVIOUS
      <3>2. s.stamp = (now - (count - 1 - k)) * 4 + phase /\ k \in Nat /\ k <= count - 1
        BY <3>1, <1>2
      <3> QED BY <3>2, <2>0, <1>2
    <2>5. IsFiniteSet(all)
      <3>1. IsFiniteSet(ks)
        <4>1. IsFiniteSet(0..count - 1)
          BY <1>2, FS_Interval
        <4> QED BY <4>1, FS_Subset
      <3> DEFINE f == [k \in ks |-> sample(k)]
      <3>2. f \in Surjection(ks, all)
        BY DEF Surjection
      <3> HIDE DEF f, ks, all
      <3> QED BY <3>1, <3>2, FS_Surjection
    <2> HIDE DEF all
    <2> QED BY <2>2, <2>3, <2>4, <2>5, <1>1 DEF FilesInv
  <1> QED BY <1>4, <1>5, <1>6, CommitIsFiled, CompactionIsFiled DEF Drain!Next

LEMMA FilesSay ==
    ASSUME FilesInv
    PROVE  Drain!EverySampleOnFile
  <1>1. DOMAIN minutes = Drain!Rows /\ DOMAIN months = Drain!Years
    BY DEF FilesInv
  <1>2. twice = {} => Drain!Cardinality(taken) = Drain!SumFunction(minutes) + Drain!SumFunction(months)
    BY <1>1, FilesAre, DrainSums DEF FilesInv
  <1> QED BY <1>2 DEF Drain!EverySampleOnFile

(* DrainCursor: over reboots, rings that overlap, replies that come at any lag   *)
(* and workers that end anywhere, a sample is added again, or left out by a      *)
(* drain that judges by stamps, only if a slip of the clock carried it across    *)
(* the line of half a second, and left out by one that trusts its counter only   *)
(* if an earlier boot had been read past its place (selectFreshSamples,          *)
(* planDrain, commit, putSamples); and unless one strayed, what the minutes and  *)
(* the months count comes to the samples taken (compactEnergy).                  *)
THEOREM DrainsAreExact == StoresSpec => []DrainIsExact
  <1> DEFINE Inv == part = "drain" => DrainInv /\ FilesInv
  <1>1. StoresInit => Inv
    BY DrainStarts, FilesStart
  <1>2. Inv /\ [UNCHANGED part /\ StoresNext]_storesVars => Inv'
    <2> SUFFICES ASSUME part = "drain", DrainInv, FilesInv, UNCHANGED part,
                        StoresNext \/ UNCHANGED storesVars
                 PROVE  DrainInv' /\ FilesInv'
      BY DEF storesVars
    <2>1. ASSUME Drain!Next PROVE DrainInv'
      BY <2>1, DishGoesOn, DrainReads, DrainCommits, DrainPuts, DrainRests DEF Drain!Next
    <2>2. ASSUME UNCHANGED <<dish, drainVars>> PROVE DrainInv'
      BY <2>2, DrainRests
    <2>3. Drain!Next \/ UNCHANGED <<dish, drainVars>>
      BY DEF StoresNext, storesVars
    <2> QED BY <2>1, <2>2, <2>3, FilesStep
  <1>3. Inv => DrainIsExact
    BY FilesSay DEF DrainInv, DrainIsExact
  <1> QED BY <1>1, <1>2, <1>3, PTL DEF StoresSpec

--------------------------------------------------------------------------------
(* The groups.  What each step of a rule leaves of it, as far as the groups tell *)
(* it apart.                                                                     *)

RuleValues == Grouped!RuleTerms \cup Int \cup BOOLEAN \cup {None}

LEMMA GroupFacts ==
    /\ None \notin Groups /\ None \notin Devices /\ Groups \cap Devices = {}
    /\ None \notin Grouped!StoredRules /\ None \notin Grouped!StoredGroups /\ None \notin Int
    /\ DayLength \in Nat \ {0} /\ AnnounceHold \in Nat \ {0}
    /\ GroupTerms \subseteq Grouped!RuleTerms /\ OwnTerms \subseteq Grouped!RuleTerms
  BY InstancesSuit DEF Grouped!GroupsAssumption

LEMMA LeastIs ==
    ASSUME NEW S \in SUBSET Nat, S # {}
    PROVE  \E b \in S : \A c \in S : b <= c
  <1>1. PICK b \in S : \A c \in S : ~(<<c, b>> \in OpToRel(<, Nat))
    BY NatLessThanWellFounded, WFMin
  <1>2. ASSUME NEW c \in S PROVE b <= c
    <2>1. <<c, b>> \in Nat \X Nat
      OBVIOUS
    <2>2. ~(c < b)
      BY <1>1, <2>1 DEF OpToRel
    <2> QED BY <2>2
  <1> QED BY <1>2

LEMMA EndsAreMoments ==
    ASSUME NEW t \in Nat
    PROVE  /\ \A cyc : Grouped!PeriodEnd(cyc, t) \in RuleValues
           /\ \A schedule : Grouped!SegmentEnd(schedule, t) \in RuleValues
  <1>1. ASSUME NEW cyc PROVE Grouped!PeriodEnd(cyc, t) \in RuleValues
    <2>1. t \div DayLength \in Int
      BY GroupFacts
    <2> QED BY <2>1, GroupFacts DEF Grouped!PeriodEnd, RuleValues
  <1>2. ASSUME NEW schedule PROVE Grouped!SegmentEnd(schedule, t) \in RuleValues
    <2> DEFINE turns == { b \in t + 1..t + DayLength :
                             Grouped!BlockedAt(schedule, b) # Grouped!BlockedAt(schedule, t) }
    <2>1. turns \in SUBSET Nat
      BY GroupFacts
    <2>2. CASE turns = {}
      <3>1. Grouped!SegmentEnd(schedule, t) = t + DayLength
        BY <2>2 DEF Grouped!SegmentEnd
      <3> QED BY <3>1, GroupFacts DEF RuleValues
    <2>3. CASE turns # {}
      <3>1. \E b \in turns : \A c \in turns : b <= c
        BY <2>1, <2>3, LeastIs
      <3>2. Grouped!SegmentEnd(schedule, t) = CHOOSE b \in turns : \A c \in turns : b <= c
        BY <2>3 DEF Grouped!SegmentEnd
      <3>3. Grouped!SegmentEnd(schedule, t) \in turns
        BY <3>1, <3>2
      <3> QED BY <3>3, <2>1 DEF RuleValues
    <2> QED BY <2>2, <2>3
  <1> QED BY <1>1, <1>2

LEMMA NamesAreNames ==
    /\ "terms" \in Grouped!RuleNames /\ "anchor" \in Grouped!RuleNames
    /\ "observed" \in Grouped!RuleNames /\ "periodEnd" \in Grouped!RuleNames
    /\ "acted" \in Grouped!RuleNames /\ "countdownStart" \in Grouped!RuleNames
    /\ "countdownActed" \in Grouped!RuleNames /\ "windowEnd" \in Grouped!RuleNames
    /\ "windowBlocked" \in Grouped!RuleNames /\ "reachedAt" \in Grouped!RuleNames
    /\ "updated" \in Grouped!RuleNames /\ "sent" \in Grouped!RuleNames
    /\ "pooled" \in Grouped!RuleNames
  BY DEF Grouped!RuleNames

LEMMA RulesAre ==
    /\ Grouped!StoredRules = [Grouped!RuleNames -> RuleValues]
    /\ None \in RuleValues /\ \A b \in BOOLEAN : b \in RuleValues
    /\ \A i \in Int : i \in RuleValues
  BY DEF Grouped!StoredRules, RuleValues

(* What a rule keeps when its window or its cycle turns over.                    *)
SameBut(r, x) ==
    /\ x \in Grouped!StoredRules
    /\ x.terms = r.terms /\ x.pooled = r.pooled /\ x.updated = r.updated
    /\ x.reachedAt = r.reachedAt
    /\ x.countdownStart = r.countdownStart /\ x.countdownActed = r.countdownActed

LEMMA WindowIsJudged ==
    ASSUME NEW r \in Grouped!StoredRules, NEW t \in Nat
    PROVE  SameBut(r, Grouped!OpenWindow(r, t)) /\ Grouped!OpenWindow(r, t).acted = r.acted
  <1> DEFINE v == IF r.terms.schedule = None THEN None ELSE Grouped!SegmentEnd(r.terms.schedule, t)
             c == IF r.terms.schedule = None THEN FALSE ELSE Grouped!BlockedAt(r.terms.schedule, t)
  <1>1. Grouped!OpenWindow(r, t) = [r EXCEPT !.windowEnd = v, !.windowBlocked = c]
    BY DEF Grouped!OpenWindow
  <1>2. v \in RuleValues /\ c \in RuleValues
    BY EndsAreMoments DEF RuleValues, Grouped!BlockedAt
  <1> HIDE DEF v, c
  <1> QED BY <1>1, <1>2, NamesAreNames, RulesAre DEF SameBut

LEMMA CycleIsOpened ==
    ASSUME NEW r \in Grouped!StoredRules, NEW t \in Nat
    PROVE  SameBut(r, Grouped!Opened(r, t)) /\ ~Grouped!Opened(r, t).acted
  <1> DEFINE v == Grouped!PeriodEnd(r.terms.cycle, t)
  <1>1. v \in RuleValues /\ r.observed \in RuleValues
    BY EndsAreMoments DEF RuleValues, Grouped!StoredRules, Grouped!RuleNames
  <1>2. Grouped!Opened(r, t) = [r EXCEPT !.anchor = r.observed, !.periodEnd = v,
                                         !.acted = FALSE, !.sent = 0]
    BY DEF Grouped!Opened
  <1> HIDE DEF v
  <1>3. 0 \in RuleValues /\ FALSE \in RuleValues
    BY DEF RuleValues
  <1>4. Grouped!Opened(r, t) \in Grouped!StoredRules
    BY <1>1, <1>2, <1>3, RulesAre
  <1>5. Grouped!Opened(r, t).acted = FALSE
    BY <1>2, NamesAreNames, RulesAre
  <1> QED BY <1>2, <1>4, <1>5, NamesAreNames, RulesAre DEF SameBut

LEMMA RuleIsRolled ==
    ASSUME NEW r \in Grouped!StoredRules, NEW reading \in Int \cup {None}, NEW t \in Nat
    PROVE  /\ SameBut(r, Grouped!Rolled(r, reading, t))
           /\ Grouped!Rolled(r, reading, t).acted => r.acted
  <1> DEFINE read == IF reading = None THEN r ELSE [r EXCEPT !.observed = reading]
             turned == IF r.terms.schedule # None /\ (r.windowEnd = None \/ t >= r.windowEnd)
                       THEN Grouped!OpenWindow(read, t) ELSE read
  <1>1. SameBut(r, read) /\ read.acted = r.acted
    BY DEF SameBut, Grouped!StoredRules, Grouped!RuleNames
  <1> HIDE DEF read
  <1>2. SameBut(r, turned) /\ turned.acted = r.acted
    <2>1. SameBut(read, Grouped!OpenWindow(read, t)) /\ Grouped!OpenWindow(read, t).acted = read.acted
      BY <1>1, WindowIsJudged DEF SameBut
    <2> QED BY <1>1, <2>1 DEF SameBut
  <1> HIDE DEF turned
  <1>3. SameBut(turned, Grouped!Opened(turned, t)) /\ ~Grouped!Opened(turned, t).acted
    BY <1>2, CycleIsOpened DEF SameBut
  <1>4. Grouped!Rolled(r, reading, t) =
           IF Grouped!Past(turned.periodEnd, t) THEN Grouped!Opened(turned, t) ELSE turned
    BY DEF Grouped!Rolled, turned, read
  <1> QED BY <1>2, <1>3, <1>4 DEF SameBut

LEMMA RuleIsEvaluated ==
    ASSUME NEW r \in Grouped!StoredRules, NEW charged, NEW t \in Nat
    PROVE  LET x == Grouped!Evaluated(r, charged, t) IN
           /\ x \in Grouped!StoredRules
           /\ x.terms = r.terms /\ x.pooled = r.pooled /\ x.updated = r.updated
           /\ x.anchor = r.anchor /\ x.observed = r.observed
           /\ x.countdownStart = r.countdownStart
           /\ x.acted <=> r.acted \/ Grouped!AllocationSpent(r, charged)
           /\ x.countdownActed <=> r.countdownActed \/ Grouped!CountdownSpent(r, t)
           /\ Grouped!Reaches(r, charged, t) => x.reachedAt = t
           /\ ~Grouped!Reaches(r, charged, t) /\ ~Grouped!Expires(r, charged, t) =>
                 x.reachedAt = r.reachedAt
  <1> DEFINE a == r.acted \/ Grouped!AllocationSpent(r, charged)
             c == r.countdownActed \/ Grouped!CountdownSpent(r, t)
             s == IF Grouped!Expires(r, charged, t) THEN None ELSE Grouped!Stamp(r, charged, t)
  <1>1. Grouped!Evaluated(r, charged, t) = [r EXCEPT !.acted = a, !.countdownActed = c, !.reachedAt = s]
    BY DEF Grouped!Evaluated
  <1>2. a \in BOOLEAN /\ c \in BOOLEAN
    OBVIOUS
  <1>3. s \in RuleValues
    BY DEF Grouped!Stamp, RuleValues, Grouped!StoredRules, Grouped!RuleNames
  <1>4. Grouped!Reaches(r, charged, t) => s = t
    BY GroupFacts DEF Grouped!Expires, Grouped!Stamp
  <1>5. ~Grouped!Reaches(r, charged, t) /\ ~Grouped!Expires(r, charged, t) => s = r.reachedAt
    BY DEF Grouped!Stamp
  <1> HIDE DEF a, c, s
  <1>6. LET x == Grouped!Evaluated(r, charged, t) IN
           /\ x \in Grouped!StoredRules
           /\ x.terms = r.terms /\ x.pooled = r.pooled /\ x.updated = r.updated
           /\ x.anchor = r.anchor /\ x.observed = r.observed
           /\ x.countdownStart = r.countdownStart
           /\ x.acted = a /\ x.countdownActed = c /\ x.reachedAt = s
    BY <1>1, <1>2, <1>3, NamesAreNames, RulesAre
  <1> QED BY <1>4, <1>5, <1>6 DEF a, c

LEMMA PooledIs ==
    ASSUME NEW r, NEW pooled \in BOOLEAN,
           DOMAIN r \cup {"pooled"} = Grouped!RuleNames,
           \A f \in DOMAIN r : r[f] \in RuleValues
    PROVE  LET x == Grouped!WithPooled(r, pooled) IN
           /\ x \in Grouped!StoredRules /\ x.pooled = pooled
           /\ \A f \in Grouped!RuleNames : f # "pooled" => x[f] = r[f]
  <1> DEFINE x == Grouped!WithPooled(r, pooled)
  <1>1. x = [f \in Grouped!RuleNames |-> IF f = "pooled" THEN pooled ELSE r[f]]
    BY DEF Grouped!WithPooled
  <1>2. \A f \in Grouped!RuleNames : f # "pooled" => f \in DOMAIN r
    OBVIOUS
  <1>3. x \in Grouped!StoredRules
    BY <1>1, <1>2, RulesAre
  <1> QED BY <1>1, <1>3, NamesAreNames

(* A new rule of a group: on its terms, and announcing nothing.                  *)
LEMMA RuleIsCreated ==
    ASSUME NEW terms \in Grouped!RuleTerms, NEW reading \in Nat, NEW t \in Nat,
           NEW pooled \in BOOLEAN
    PROVE  LET x == Grouped!WithPooled(Grouped!CreatedRule(terms, reading, t), pooled) IN
           /\ x \in Grouped!StoredRules
           /\ x.terms = terms /\ x.pooled = pooled /\ x.reachedAt = None /\ x.updated = t
           /\ ~x.acted /\ ~x.countdownActed
           /\ x.countdownStart = IF terms.countdown = None THEN None ELSE t
  <1> DEFINE pe == Grouped!PeriodEnd(terms.cycle, t)
             cs == IF terms.countdown = None THEN None ELSE t
             we == IF terms.schedule = None THEN None ELSE Grouped!SegmentEnd(terms.schedule, t)
             wb == IF terms.schedule = None THEN FALSE ELSE Grouped!BlockedAt(terms.schedule, t)
             r == Grouped!CreatedRule(terms, reading, t)
  <1>1. pe \in RuleValues /\ cs \in RuleValues /\ we \in RuleValues /\ wb \in RuleValues
    BY EndsAreMoments DEF RuleValues, Grouped!BlockedAt
  <1>2. r = [terms |-> terms, anchor |-> reading, observed |-> reading, periodEnd |-> pe,
             acted |-> FALSE, countdownStart |-> cs, countdownActed |-> FALSE,
             windowEnd |-> we, windowBlocked |-> wb, reachedAt |-> None, updated |-> t, sent |-> 0]
    BY DEF Grouped!CreatedRule, Grouped!OpenWindow
  <1> HIDE DEF pe, cs, we, wb, r
  <1>3. /\ DOMAIN r = {"terms", "anchor", "observed", "periodEnd", "acted", "countdownStart",
                       "countdownActed", "windowEnd", "windowBlocked", "reachedAt", "updated", "sent"}
        /\ DOMAIN r \cup {"pooled"} = Grouped!RuleNames
    BY <1>2 DEF Grouped!RuleNames
  <1>4. /\ terms \in RuleValues /\ reading \in RuleValues /\ FALSE \in RuleValues
        /\ None \in RuleValues /\ t \in RuleValues /\ 0 \in RuleValues
    BY DEF RuleValues
  <1>5. \A f \in DOMAIN r : r[f] \in RuleValues
    <2>1. /\ r["terms"] = terms /\ r["anchor"] = reading /\ r["observed"] = reading
          /\ r["periodEnd"] = pe /\ r["acted"] = FALSE /\ r["countdownStart"] = cs
          /\ r["countdownActed"] = FALSE /\ r["windowEnd"] = we /\ r["windowBlocked"] = wb
          /\ r["reachedAt"] = None /\ r["updated"] = t /\ r["sent"] = 0
      BY <1>2
    <2> QED BY <2>1, <1>1, <1>3, <1>4
  <1>6. /\ r.terms = terms /\ r.reachedAt = None /\ r.updated = t /\ r.countdownStart = cs
        /\ r.acted = FALSE /\ r.countdownActed = FALSE
    BY <1>2
  <1> DEFINE x == Grouped!WithPooled(r, pooled)
  <1>7. /\ x \in Grouped!StoredRules /\ x.pooled = pooled
        /\ \A f \in Grouped!RuleNames : f # "pooled" => x[f] = r[f]
    BY <1>3, <1>5, PooledIs
  <1> HIDE DEF x
  <1>8. /\ x.terms = r.terms /\ x.reachedAt = r.reachedAt /\ x.updated = r.updated
        /\ x.countdownStart = r.countdownStart /\ x.acted = r.acted
        /\ x.countdownActed = r.countdownActed
    BY <1>7, NamesAreNames
  <1> QED BY <1>6, <1>7, <1>8 DEF x, r, cs

(* An edited rule: on the new terms, announcing what it did, its sitting begun.  *)
LEMMA RuleIsUpserted ==
    ASSUME NEW r \in Grouped!StoredRules, NEW terms \in Grouped!RuleTerms, NEW t \in Nat, NEW charged
    PROVE  LET x == Grouped!Upserted(r, terms, t, charged) IN
           /\ x \in Grouped!StoredRules
           /\ x.terms = terms /\ x.pooled = r.pooled /\ x.reachedAt = r.reachedAt /\ x.updated = t
           /\ x.acted => r.acted
           /\ ~x.countdownActed
           /\ x.countdownStart = IF terms.countdown = None THEN None ELSE t
  <1> DEFINE pe == IF terms.cycle = r.terms.cycle THEN r.periodEnd ELSE Grouped!PeriodEnd(terms.cycle, t)
             cs == IF terms.countdown = None THEN None ELSE t
             ac == r.acted /\ ~(charged < terms.allocation)
             e == [r EXCEPT !.terms = terms, !.updated = t, !.periodEnd = pe,
                            !.countdownStart = cs, !.countdownActed = FALSE, !.acted = ac]
  <1>1. /\ terms \in RuleValues /\ t \in RuleValues /\ pe \in RuleValues /\ cs \in RuleValues
        /\ FALSE \in RuleValues /\ ac \in RuleValues
    BY EndsAreMoments DEF RuleValues, Grouped!StoredRules, Grouped!RuleNames
  <1>2. Grouped!Upserted(r, terms, t, charged) =
           IF terms.schedule = r.terms.schedule THEN e ELSE Grouped!OpenWindow(e, t)
    BY DEF Grouped!Upserted
  <1>3. (ac => r.acted) /\ ac \in BOOLEAN
    OBVIOUS
  <1> HIDE DEF pe, cs, ac
  <1>4. e \in Grouped!StoredRules
    BY <1>1, RulesAre
  <1>5. /\ e.terms = terms /\ e.pooled = r.pooled /\ e.reachedAt = r.reachedAt /\ e.updated = t
        /\ e.acted = ac /\ e.countdownActed = FALSE /\ e.countdownStart = cs
    BY NamesAreNames, RulesAre
  <1> HIDE DEF e
  <1>6. SameBut(e, Grouped!OpenWindow(e, t)) /\ Grouped!OpenWindow(e, t).acted = e.acted
    BY <1>4, WindowIsJudged
  <1> QED BY <1>2, <1>3, <1>4, <1>5, <1>6 DEF SameBut, cs

LEMMA RuleIsRestarted ==
    ASSUME NEW r \in Grouped!StoredRules, NEW t \in Nat
    PROVE  LET x == Grouped!RestartedCycle(r, t) IN
           /\ x \in Grouped!StoredRules
           /\ x.terms = r.terms /\ x.pooled = r.pooled /\ x.reachedAt = None /\ x.updated = r.updated
           /\ ~x.acted /\ ~x.countdownActed
           /\ x.countdownStart = IF r.terms.countdown = None THEN None ELSE t
  <1> DEFINE o == Grouped!Opened(r, t)
             cs == IF r.terms.countdown = None THEN None ELSE t
             e == [o EXCEPT !.reachedAt = None, !.countdownStart = cs, !.countdownActed = FALSE]
  <1>1. None \in RuleValues /\ cs \in RuleValues /\ FALSE \in RuleValues
    BY DEF RuleValues
  <1>2. Grouped!RestartedCycle(r, t) =
           IF r.terms.schedule = None THEN e ELSE Grouped!OpenWindow(e, t)
    BY DEF Grouped!RestartedCycle
  <1>3. SameBut(r, o) /\ ~o.acted
    BY CycleIsOpened
  <1> HIDE DEF o, cs
  <1>4. e \in Grouped!StoredRules
    BY <1>1, <1>3, RulesAre DEF SameBut
  <1>5. /\ e.terms = o.terms /\ e.pooled = o.pooled /\ e.reachedAt = None /\ e.updated = o.updated
        /\ e.acted = o.acted /\ e.countdownActed = FALSE /\ e.countdownStart = cs
    BY <1>3, NamesAreNames, RulesAre DEF SameBut
  <1> HIDE DEF e
  <1>6. SameBut(e, Grouped!OpenWindow(e, t)) /\ Grouped!OpenWindow(e, t).acted = e.acted
    BY <1>4, WindowIsJudged
  <1> QED BY <1>2, <1>3, <1>4, <1>5, <1>6 DEF SameBut, cs

--------------------------------------------------------------------------------
(* The tables of rules.  Every rule of a group is of a member and carries the    *)
(* group's terms; a sitting that is over has run out by the clock.               *)

RuleOk(r, t) ==
    /\ r \in Grouped!StoredRules /\ r.terms \in Grouped!RuleTerms /\ r.pooled \in BOOLEAN
    /\ r.updated \in Nat /\ r.updated <= t
    /\ r.terms.countdown = None => r.countdownStart = None
    /\ r.terms.countdown # None => r.countdownStart \in Nat
    /\ r.countdownActed => Grouped!CountdownSpent(r, t)

TableOk(rs, t) ==
    /\ rs = [s \in Grouped!Slots |-> rs[s]]
    /\ \A s \in Grouped!Slots : rs[s] # None => RuleOk(rs[s], t)

GroupsOk(gs) ==
    /\ gs = [g \in Groups |-> gs[g]]
    /\ \A g \in Groups : gs[g] # None => gs[g] \in Grouped!StoredGroups

SameTerms(rs) ==
    \A s, o \in Grouped!Slots :
        rs[s] # None /\ rs[o] # None /\ s[1] = o[1] /\ s[1] # None =>
            rs[s].terms = rs[o].terms /\ rs[s].pooled = rs[o].pooled

Belongs(rs, gs) ==
    \A s \in Grouped!Slots : rs[s] # None /\ s[1] # None =>
        gs[s[1]] # None /\ s[2] \in gs[s[1]].members /\ Grouped!CarriesTerms(rs[s], gs[s[1]])

OneClockIn(rs, g) ==
    \A s, o \in Grouped!Slots :
        rs[s] # None /\ rs[o] # None /\ s[1] = g /\ o[1] = g =>
            rs[s].countdownStart = rs[o].countdownStart

LEMMA SlotsAre ==
    ASSUME NEW s \in Grouped!Slots
    PROVE  /\ s[1] \in Groups \cup {None} /\ s[2] \in Devices /\ s = <<s[1], s[2]>>
           /\ s[1] # None => s[1] \in Groups
  BY DEF Grouped!Slots

LEMMA GroupIsStored ==
    ASSUME NEW group \in Grouped!StoredGroups
    PROVE  /\ group.terms \in Grouped!RuleTerms /\ group.pooled \in BOOLEAN
           /\ group.members \subseteq Devices /\ group # None
           /\ group.terms.countdown # None => group.terms.countdown \in Nat \ {0}
  BY GroupFacts DEF Grouped!StoredGroups, Grouped!RuleTerms, Grouped!OrNone

LEMMA BelongingIsSame ==
    ASSUME NEW rs, NEW gs, Belongs(rs, gs) PROVE SameTerms(rs)
  BY DEF Belongs, SameTerms, Grouped!CarriesTerms

LEMMA JoinedIs ==
    ASSUME NEW s \in Grouped!Slots, NEW group \in Grouped!StoredGroups, NEW clock,
           group.terms.countdown # None => clock \in Nat,
           day \in Nat, Grouped!Counter(s[2]) \in Nat
    PROVE  LET x == Grouped!Joined(s, group, clock) IN
           /\ RuleOk(x, day) /\ Grouped!CarriesTerms(x, group)
           /\ x.reachedAt = None /\ ~x.acted /\ ~x.countdownActed
           /\ x.countdownStart = IF group.terms.countdown = None THEN None ELSE clock
  <1> DEFINE c == Grouped!WithPooled(Grouped!CreatedRule(group.terms, Grouped!Counter(s[2]), day), group.pooled)
             x == Grouped!Joined(s, group, clock)
  <1>1. group.terms \in Grouped!RuleTerms /\ group.pooled \in BOOLEAN
    BY GroupIsStored
  <1>2. /\ c \in Grouped!StoredRules
        /\ c.terms = group.terms /\ c.pooled = group.pooled /\ c.reachedAt = None /\ c.updated = day
        /\ ~c.acted /\ ~c.countdownActed
        /\ c.countdownStart = IF group.terms.countdown = None THEN None ELSE day
    BY <1>1, RuleIsCreated
  <1>3. x = IF c.terms.countdown = None THEN c
            ELSE [c EXCEPT !.countdownStart = clock, !.countdownActed = FALSE]
    BY DEF Grouped!Joined, Grouped!OnClock
  <1> HIDE DEF c, x
  <1>4. CASE group.terms.countdown = None
    BY <1>1, <1>2, <1>3, <1>4 DEF RuleOk, Grouped!CarriesTerms, x
  <1>5. CASE group.terms.countdown # None
    <2>1. clock \in RuleValues /\ FALSE \in RuleValues
      BY <1>5 DEF RuleValues
    <2>2. /\ x \in Grouped!StoredRules
          /\ x.terms = c.terms /\ x.pooled = c.pooled /\ x.reachedAt = c.reachedAt
          /\ x.updated = c.updated /\ x.acted = c.acted
          /\ x.countdownActed = FALSE /\ x.countdownStart = clock
      BY <1>2, <1>3, <1>5, <2>1, NamesAreNames, RulesAre
    <2> QED BY <1>1, <1>2, <1>5, <2>2 DEF RuleOk, Grouped!CarriesTerms, x
  <1> QED BY <1>4, <1>5

LEMMA ClockIs ==
    ASSUME NEW rs, TableOk(rs, day), NEW gs, NEW g \in Groups, day \in Nat
    PROVE  LET clock == Grouped!GroupClock(rs, gs, g) IN
           \/ /\ clock = day
              /\ \A s \in Grouped!Slots : rs[s] # None /\ s[1] = g =>
                    rs[s].terms.countdown # gs[g].terms.countdown
           \/ \E o \in Grouped!Slots :
                 /\ rs[o] # None /\ o[1] = g /\ rs[o].terms.countdown = gs[g].terms.countdown
                 /\ clock = rs[o].countdownStart
  <1> DEFINE running == Grouped!Running(rs, gs, g)
  <1>1. \A s : s \in running <=> /\ s \in Grouped!Slots /\ rs[s] # None /\ s[1] = g
                                 /\ rs[s].terms.countdown = gs[g].terms.countdown
    BY DEF Grouped!Running, Grouped!InGroup, Grouped!Held
  <1>2. Grouped!GroupClock(rs, gs, g) =
           IF running = {} THEN day ELSE rs[CHOOSE s \in running : TRUE].countdownStart
    BY DEF Grouped!GroupClock
  <1> HIDE DEF running
  <1>3. CASE running = {}
    BY <1>1, <1>2, <1>3
  <1>4. CASE running # {}
    <2>1. (CHOOSE s \in running : TRUE) \in running
      BY <1>4
    <2> QED BY <1>1, <1>2, <1>4, <2>1
  <1> QED BY <1>3, <1>4

LEMMA EditedIs ==
    ASSUME NEW rs, TableOk(rs, day), SameTerms(rs), NEW gs, GroupsOk(gs), day \in Nat,
           NEW s \in Grouped!Slots, s[1] # None, rs[s] # None, gs[s[1]] # None
    PROVE  LET group == gs[s[1]]
               clock == Grouped!GroupClock(rs, gs, s[1])
               x == Grouped!Edited(rs, s, group, clock)
           IN  /\ RuleOk(x, day) /\ Grouped!CarriesTerms(x, group)
               /\ x.acted => rs[s].acted
               /\ x.reachedAt = IF Grouped!Subject(s, x) = Grouped!Subject(s, rs[s])
                                THEN rs[s].reachedAt ELSE None
               /\ x.countdownStart = IF group.terms.countdown = None THEN None ELSE clock
               /\ group.terms.countdown # None =>
                     (x.countdownActed <=> clock = rs[s].countdownStart /\ rs[s].countdownActed)
  <1> DEFINE r == rs[s]
             group == gs[s[1]]
             clock == Grouped!GroupClock(rs, gs, s[1])
             charged == Grouped!Charged(rs, s)
             u == Grouped!Upserted(r, group.terms, day, charged)
             e == Grouped!WithPooled(u, group.pooled)
             stamp == IF Grouped!Subject(s, e) = Grouped!Subject(s, r) THEN e.reachedAt ELSE None
             f == [e EXCEPT !.reachedAt = stamp]
             act == clock = r.countdownStart /\ r.countdownActed
             x == Grouped!Edited(rs, s, group, clock)
  <1>1. RuleOk(r, day) /\ r \in Grouped!StoredRules /\ group \in Grouped!StoredGroups /\ s[1] \in Groups
    BY SlotsAre DEF TableOk, RuleOk, GroupsOk
  <1>2. /\ group.terms \in Grouped!RuleTerms /\ group.pooled \in BOOLEAN
        /\ group.terms.countdown # None => group.terms.countdown \in Nat \ {0}
    BY <1>1, GroupIsStored
  <1>3. x = Grouped!OnClock(f, clock, act)
    BY DEF Grouped!Edited
  <1>4. \/ /\ clock = day /\ r.terms.countdown # group.terms.countdown
        \/ \E o \in Grouped!Slots :
              /\ rs[o] # None /\ o[1] = s[1] /\ rs[o].terms.countdown = group.terms.countdown
              /\ clock = rs[o].countdownStart
    BY <1>1, ClockIs
  <1>5. group.terms.countdown # None => clock \in Nat
    BY <1>4 DEF TableOk, RuleOk
  <1> HIDE DEF r, group, clock, charged, x
  <1>6. /\ u \in Grouped!StoredRules
        /\ u.terms = group.terms /\ u.pooled = r.pooled /\ u.reachedAt = r.reachedAt /\ u.updated = day
        /\ (u.acted => r.acted) /\ ~u.countdownActed
        /\ u.countdownStart = IF group.terms.countdown = None THEN None ELSE day
    BY <1>1, <1>2, RuleIsUpserted
  <1> HIDE DEF u
  <1>7. /\ e \in Grouped!StoredRules
        /\ e.terms = group.terms /\ e.pooled = group.pooled /\ e.reachedAt = r.reachedAt
        /\ e.updated = day /\ (e.acted => r.acted) /\ ~e.countdownActed
        /\ e.countdownStart = IF group.terms.countdown = None THEN None ELSE day
    <2>1. /\ DOMAIN u \cup {"pooled"} = Grouped!RuleNames
          /\ \A n \in DOMAIN u : u[n] \in RuleValues
      BY <1>6, NamesAreNames, RulesAre
    <2>2. /\ e \in Grouped!StoredRules /\ e.pooled = group.pooled
          /\ \A n \in Grouped!RuleNames : n # "pooled" => e[n] = u[n]
      BY <2>1, <1>2, PooledIs
    <2> HIDE DEF e
    <2>3. /\ e.terms = u.terms /\ e.reachedAt = u.reachedAt /\ e.updated = u.updated
          /\ e.acted = u.acted /\ e.countdownActed = u.countdownActed
          /\ e.countdownStart = u.countdownStart
      BY <2>2, NamesAreNames
    <2> QED BY <1>6, <2>2, <2>3
  <1> HIDE DEF e
  <1>8. stamp = IF Grouped!Subject(s, e) = Grouped!Subject(s, r) THEN r.reachedAt ELSE None
    BY <1>7
  <1>9. stamp \in RuleValues /\ act \in RuleValues
    BY <1>1, <1>7, NamesAreNames, RulesAre
  <1> HIDE DEF stamp
  <1>10. /\ f \in Grouped!StoredRules
         /\ f.terms = group.terms /\ f.pooled = group.pooled /\ f.reachedAt = stamp
         /\ f.updated = day /\ (f.acted => r.acted) /\ ~f.countdownActed
         /\ f.countdownStart = IF group.terms.countdown = None THEN None ELSE day
    BY <1>7, <1>9, NamesAreNames, RulesAre
  <1> HIDE DEF f
  <1>11. CASE group.terms.countdown = None
    <2>1. x = f
      BY <1>3, <1>10, <1>11 DEF Grouped!OnClock
    <2>2. Grouped!Subject(s, x) = Grouped!Subject(s, e)
      BY <2>1, <1>7, <1>10 DEF Grouped!Subject, Grouped!AnnouncesAsGroup
    <2>3. RuleOk(x, day) /\ Grouped!CarriesTerms(x, group)
      BY <2>1, <1>2, <1>10, <1>11 DEF RuleOk, Grouped!CarriesTerms
    <2> QED BY <2>1, <2>2, <2>3, <1>8, <1>10, <1>11 DEF x, r, group, clock
  <1>12. CASE group.terms.countdown # None
    <2>1. clock \in RuleValues
      BY <1>5, <1>12 DEF RuleValues
    <2>2. x = [f EXCEPT !.countdownStart = clock, !.countdownActed = act]
      BY <1>3, <1>10, <1>12 DEF Grouped!OnClock
    <2>3. /\ x \in Grouped!StoredRules
          /\ x.terms = group.terms /\ x.pooled = group.pooled /\ x.reachedAt = stamp
          /\ x.updated = day /\ (x.acted => r.acted)
          /\ x.countdownActed = act /\ x.countdownStart = clock
      BY <1>9, <1>10, <2>1, <2>2, NamesAreNames, RulesAre
    <2>4. Grouped!Subject(s, x) = Grouped!Subject(s, e)
      BY <2>3, <1>7 DEF Grouped!Subject, Grouped!AnnouncesAsGroup
    <2>5. act => Grouped!CountdownSpent(x, day)
      <3> SUFFICES ASSUME act PROVE Grouped!CountdownSpent(x, day)
        OBVIOUS
      <3>1. /\ r.terms.countdown # None /\ day >= r.countdownStart + r.terms.countdown
            /\ r.countdownStart \in Nat /\ r.terms.countdown \in Nat \ {0}
        BY <1>1 DEF RuleOk, Grouped!CountdownSpent, Grouped!RuleTerms, Grouped!OrNone
      <3>2. clock # day
        BY <3>1
      <3>3. r.terms.countdown = group.terms.countdown
        BY <3>2, <1>4 DEF SameTerms, r
      <3> QED BY <3>1, <3>3, <2>3, <1>12 DEF Grouped!CountdownSpent
    <2> HIDE DEF act
    <2>6. RuleOk(x, day) /\ Grouped!CarriesTerms(x, group)
      <3>1. x \in Grouped!StoredRules /\ x.terms \in Grouped!RuleTerms /\ x.pooled \in BOOLEAN
        BY <2>3, <1>2
      <3>2. x.updated \in Nat /\ x.updated <= day
        BY <2>3
      <3>3. x.terms.countdown # None /\ x.countdownStart \in Nat
        BY <2>3, <1>5, <1>12
      <3>4. x.countdownActed => Grouped!CountdownSpent(x, day)
        BY <2>3, <2>5
      <3> QED BY <3>1, <3>2, <3>3, <3>4, <2>3 DEF RuleOk, Grouped!CarriesTerms
    <2> QED BY <2>3, <2>4, <2>6, <1>8, <1>12 DEF x, r, group, clock, act
  <1> QED BY <1>11, <1>12

(* What a projection leaves of each rule.                                        *)
ProjectsWell(rs, gs, ps) ==
    /\ TableOk(ps, day)
    /\ \A s \in Grouped!Slots : s[1] = None => ps[s] = rs[s]
    /\ \A s \in Grouped!Slots : s[1] # None =>
          /\ ps[s] # None <=> gs[s[1]] # None /\ s[2] \in gs[s[1]].members
          /\ ps[s] # None => Grouped!CarriesTerms(ps[s], gs[s[1]])

(* No step stamps a rule anew, and none takes a stamp whose subject stands.      *)
KeepsStamps(rs, ps) ==
    \A s \in Grouped!Slots :
        /\ ps[s] # None /\ ps[s].reachedAt # None =>
              /\ rs[s] # None /\ rs[s].reachedAt # None
              /\ Grouped!Subject(s, ps[s]) = Grouped!Subject(s, rs[s])
        /\ /\ rs[s] # None /\ rs[s].reachedAt # None /\ ps[s] # None
           /\ Grouped!Subject(s, ps[s]) = Grouped!Subject(s, rs[s])
           => ps[s].reachedAt # None

LEMMA ProjectedSlotIs ==
    ASSUME NEW rs, NEW gs, NEW s \in Grouped!Slots
    PROVE  LET ps == Grouped!Projected(rs, gs)
               clock == Grouped!GroupClock(rs, gs, s[1])
           IN  /\ ps = [o \in Grouped!Slots |-> ps[o]]
               /\ s[1] = None => ps[s] = rs[s]
               /\ s[1] # None /\ (gs[s[1]] = None \/ s[2] \notin gs[s[1]].members) => ps[s] = None
               /\ s[1] # None /\ gs[s[1]] # None /\ s[2] \in gs[s[1]].members =>
                     \/ rs[s] = None /\ ps[s] = Grouped!Joined(s, gs[s[1]], clock)
                     \/ rs[s] # None /\ Grouped!CarriesTerms(rs[s], gs[s[1]]) /\ ps[s] = rs[s]
                     \/ /\ rs[s] # None /\ ~Grouped!CarriesTerms(rs[s], gs[s[1]])
                        /\ ps[s] = Grouped!Edited(rs, s, gs[s[1]], clock)
  BY DEF Grouped!Projected

LEMMA ClockIsMoment ==
    ASSUME NEW rs, TableOk(rs, day), NEW gs, NEW g \in Groups, day \in Nat,
           gs[g].terms.countdown # None
    PROVE  Grouped!GroupClock(rs, gs, g) \in Nat
  <1> DEFINE clock == Grouped!GroupClock(rs, gs, g)
  <1>1. \/ clock = day
        \/ \E o \in Grouped!Slots :
              /\ rs[o] # None /\ o[1] = g /\ rs[o].terms.countdown = gs[g].terms.countdown
              /\ clock = rs[o].countdownStart
    BY ClockIs
  <1> HIDE DEF clock
  <1>2. clock \in Nat
    BY <1>1 DEF TableOk, RuleOk
  <1> QED BY <1>2 DEF clock

(* A rule of a group after its projection: joined, as it was, or edited.         *)
LEMMA MemberIs ==
    ASSUME NEW rs, TableOk(rs, day), SameTerms(rs), NEW gs, GroupsOk(gs), day \in Nat,
           \A d \in Devices : Grouped!Counter(d) \in Nat,
           NEW s \in Grouped!Slots, s[1] # None, gs[s[1]] # None, s[2] \in gs[s[1]].members
    PROVE  LET x == Grouped!Projected(rs, gs)[s]
               clock == Grouped!GroupClock(rs, gs, s[1])
           IN  /\ RuleOk(x, day) /\ Grouped!CarriesTerms(x, gs[s[1]])
               /\ x.acted => rs[s] # None /\ rs[s].acted
               /\ x.reachedAt # None => /\ rs[s] # None /\ rs[s].reachedAt # None
                                        /\ Grouped!Subject(s, x) = Grouped!Subject(s, rs[s])
               /\ rs[s] # None /\ Grouped!Subject(s, x) = Grouped!Subject(s, rs[s]) =>
                     x.reachedAt = rs[s].reachedAt
               /\ \/ rs[s] # None /\ x = rs[s]
                  \/ x.countdownStart = IF gs[s[1]].terms.countdown = None THEN None ELSE clock
               /\ rs[s] # None /\ rs[s].countdownActed /\ x.terms.countdown = rs[s].terms.countdown
                     /\ (x = rs[s] \/ clock = rs[s].countdownStart)
                  => x.countdownActed
  <1> DEFINE group == gs[s[1]]
             clock == Grouped!GroupClock(rs, gs, s[1])
             x == Grouped!Projected(rs, gs)[s]
  <1>1. /\ group \in Grouped!StoredGroups /\ s[1] \in Groups /\ s[2] \in Devices
        /\ group.terms.countdown # None => clock \in Nat
    BY SlotsAre, ClockIsMoment DEF GroupsOk
  <1>2. \/ rs[s] = None /\ x = Grouped!Joined(s, group, clock)
        \/ rs[s] # None /\ Grouped!CarriesTerms(rs[s], group) /\ x = rs[s]
        \/ rs[s] # None /\ x = Grouped!Edited(rs, s, group, clock)
    BY ProjectedSlotIs
  <1>3. CASE rs[s] = None
    <2>1. /\ RuleOk(x, day) /\ Grouped!CarriesTerms(x, group)
          /\ x.reachedAt = None /\ ~x.acted
          /\ x.countdownStart = IF group.terms.countdown = None THEN None ELSE clock
      BY <1>1, <1>2, <1>3, JoinedIs
    <2> QED BY <2>1, <1>3
  <1>4. CASE rs[s] # None /\ x = rs[s]
    <2>1. RuleOk(x, day)
      BY <1>4 DEF TableOk
    <2>2. Grouped!CarriesTerms(x, group)
      BY <1>2, <1>4, EditedIs
    <2> HIDE DEF x
    <2> QED BY <1>4, <2>1, <2>2 DEF x
  <1>5. CASE rs[s] # None /\ x # rs[s]
    <2>1. x = Grouped!Edited(rs, s, group, clock)
      BY <1>2, <1>5
    <2>2. /\ RuleOk(x, day) /\ Grouped!CarriesTerms(x, group)
          /\ x.acted => rs[s].acted
          /\ x.reachedAt = IF Grouped!Subject(s, x) = Grouped!Subject(s, rs[s])
                           THEN rs[s].reachedAt ELSE None
          /\ x.countdownStart = IF group.terms.countdown = None THEN None ELSE clock
          /\ group.terms.countdown # None =>
                (x.countdownActed <=> clock = rs[s].countdownStart /\ rs[s].countdownActed)
      BY <1>5, <2>1, EditedIs
    <2>3. rs[s].countdownActed => rs[s].terms.countdown # None
      BY <1>5 DEF TableOk, RuleOk, Grouped!CountdownSpent
    <2>4. x.terms.countdown = group.terms.countdown
      BY <2>2 DEF Grouped!CarriesTerms
    <2> HIDE DEF x, clock, group
    <2> QED BY <1>5, <2>2, <2>3, <2>4 DEF x, clock, group
  <1> QED BY <1>3, <1>4, <1>5

LEMMA RulesAreNotNone ==
    ASSUME NEW x, NEW t, RuleOk(x, t) PROVE x # None
  BY GroupFacts DEF RuleOk

LEMMA ProjectedIs ==
    ASSUME NEW rs, TableOk(rs, day), SameTerms(rs), NEW gs, GroupsOk(gs), day \in Nat,
           \A d \in Devices : Grouped!Counter(d) \in Nat
    PROVE  /\ ProjectsWell(rs, gs, Grouped!Projected(rs, gs))
           /\ KeepsStamps(rs, Grouped!Projected(rs, gs))
  <1> DEFINE ps == Grouped!Projected(rs, gs)
  <1>1. ASSUME NEW s \in Grouped!Slots
        PROVE  /\ s[1] = None => ps[s] = rs[s]
               /\ s[1] # None =>
                     /\ ps[s] # None <=> gs[s[1]] # None /\ s[2] \in gs[s[1]].members
                     /\ ps[s] # None => Grouped!CarriesTerms(ps[s], gs[s[1]])
               /\ ps[s] # None => RuleOk(ps[s], day)
               /\ ps[s] # None /\ ps[s].reachedAt # None =>
                     /\ rs[s] # None /\ rs[s].reachedAt # None
                     /\ Grouped!Subject(s, ps[s]) = Grouped!Subject(s, rs[s])
               /\ /\ rs[s] # None /\ rs[s].reachedAt # None /\ ps[s] # None
                  /\ Grouped!Subject(s, ps[s]) = Grouped!Subject(s, rs[s])
                  => ps[s].reachedAt # None
    <2>1. CASE s[1] = None
      <3>1. ps[s] = rs[s]
        BY <2>1, ProjectedSlotIs
      <3> HIDE DEF ps
      <3> QED BY <2>1, <3>1 DEF TableOk
    <2>2. CASE s[1] # None /\ (gs[s[1]] = None \/ s[2] \notin gs[s[1]].members)
      <3>1. ps[s] = None
        BY <2>2, ProjectedSlotIs
      <3> HIDE DEF ps
      <3> QED BY <2>2, <3>1
    <2>3. CASE s[1] # None /\ gs[s[1]] # None /\ s[2] \in gs[s[1]].members
      <3>1. /\ RuleOk(ps[s], day) /\ Grouped!CarriesTerms(ps[s], gs[s[1]])
            /\ ps[s].reachedAt # None => /\ rs[s] # None /\ rs[s].reachedAt # None
                                         /\ Grouped!Subject(s, ps[s]) = Grouped!Subject(s, rs[s])
            /\ rs[s] # None /\ Grouped!Subject(s, ps[s]) = Grouped!Subject(s, rs[s]) =>
                  ps[s].reachedAt = rs[s].reachedAt
        BY <2>3, MemberIs
      <3> HIDE DEF ps
      <3>2. ps[s] # None
        BY <3>1, RulesAreNotNone
      <3> QED BY <2>3, <3>1, <3>2
    <2> QED BY <2>1, <2>2, <2>3
  <1>2. ps = [s \in Grouped!Slots |-> ps[s]]
    BY DEF Grouped!Projected
  <1> HIDE DEF ps
  <1>3. ProjectsWell(rs, gs, ps) /\ KeepsStamps(rs, ps)
    BY <1>1, <1>2 DEF ProjectsWell, KeepsStamps, TableOk
  <1> QED BY <1>3 DEF ps

(* The members of a group are left counting from one start.                      *)
LEMMA StartIs ==
    ASSUME NEW rs, TableOk(rs, day), SameTerms(rs), NEW gs, GroupsOk(gs), day \in Nat,
           \A d \in Devices : Grouped!Counter(d) \in Nat,
           NEW s \in Grouped!Slots, s[1] # None, Grouped!Projected(rs, gs)[s] # None,
           OneClockIn(rs, s[1])
    PROVE  Grouped!Projected(rs, gs)[s].countdownStart =
              IF gs[s[1]].terms.countdown = None THEN None ELSE Grouped!GroupClock(rs, gs, s[1])
  <1> DEFINE x == Grouped!Projected(rs, gs)[s]
             clock == Grouped!GroupClock(rs, gs, s[1])
             group == gs[s[1]]
  <1>1. gs[s[1]] # None /\ s[2] \in gs[s[1]].members /\ s[1] \in Groups
    BY ProjectedSlotIs, SlotsAre
  <1>2. /\ Grouped!CarriesTerms(x, group)
        /\ \/ rs[s] # None /\ x = rs[s]
           \/ x.countdownStart = IF group.terms.countdown = None THEN None ELSE clock
    BY <1>1, MemberIs
  <1>3. \/ \A o \in Grouped!Slots : rs[o] # None /\ o[1] = s[1] =>
              rs[o].terms.countdown # group.terms.countdown
        \/ \E o \in Grouped!Slots :
              /\ rs[o] # None /\ o[1] = s[1] /\ clock = rs[o].countdownStart
    BY <1>1, ClockIs
  <1> HIDE DEF x, clock, group
  <1>4. ASSUME rs[s] # None, x = rs[s]
        PROVE  x.countdownStart = IF group.terms.countdown = None THEN None ELSE clock
    <2>1. x.terms.countdown = group.terms.countdown
      BY <1>2 DEF Grouped!CarriesTerms
    <2>2. CASE group.terms.countdown = None
      BY <1>4, <2>1, <2>2 DEF TableOk, RuleOk
    <2>3. CASE group.terms.countdown # None
      <3>1. PICK o \in Grouped!Slots : rs[o] # None /\ o[1] = s[1] /\ clock = rs[o].countdownStart
        BY <1>3, <1>4, <2>1
      <3>2. rs[o].countdownStart = rs[s].countdownStart
        BY <3>1, <1>4 DEF OneClockIn
      <3> QED BY <1>4, <2>3, <3>1, <3>2
    <2> QED BY <2>2, <2>3
  <1>5. x.countdownStart = IF group.terms.countdown = None THEN None ELSE clock
    BY <1>2, <1>4
  <1> QED BY <1>5 DEF x, clock, group

LEMMA ProjectedOnOneClock ==
    ASSUME NEW rs, TableOk(rs, day), SameTerms(rs), NEW gs, GroupsOk(gs), day \in Nat,
           \A d \in Devices : Grouped!Counter(d) \in Nat,
           NEW g \in Groups, OneClockIn(rs, g)
    PROVE  OneClockIn(Grouped!Projected(rs, gs), g)
  <1> DEFINE ps == Grouped!Projected(rs, gs)
             start == IF gs[g].terms.countdown = None THEN None ELSE Grouped!GroupClock(rs, gs, g)
  <1>1. \A s \in Grouped!Slots : ps[s] # None /\ s[1] = g => ps[s].countdownStart = start
    BY StartIs, GroupFacts
  <1> HIDE DEF ps, start
  <1>2. OneClockIn(ps, g)
    BY <1>1 DEF OneClockIn
  <1> QED BY <1>2 DEF ps

--------------------------------------------------------------------------------
(* The episodes and who announces them.                                          *)

Announced(opened, gone, rs) ==
    opened \ gone \subseteq Grouped!Subjects(rs, Grouped!Announcing(rs))

LEMMA AnnouncerIs ==
    ASSUME NEW rs, NEW x
    PROVE  x \in Grouped!Subjects(rs, Grouped!Announcing(rs)) <=>
              \E s \in Grouped!Slots :
                  rs[s] # None /\ rs[s].reachedAt # None /\ x = Grouped!Subject(s, rs[s])
  BY DEF Grouped!Subjects, Grouped!Announcing, Grouped!Held

(* An announcement is retired only with the last of its announcers.              *)
LEMMA RetiredKeeps ==
    ASSUME NEW before, NEW after, NEW opened, NEW going \in SUBSET Grouped!Slots,
           SameTerms(before), KeepsStamps(before, after),
           \A s \in Grouped!Slots : before[s] # None /\ s \notin going =>
              after[s] # None /\ Grouped!Subject(s, after[s]) = Grouped!Subject(s, before[s]),
           NEW x \in Grouped!Retired(opened, before, after, going),
           x \in Grouped!Subjects(before, Grouped!Announcing(before))
    PROVE  x \in opened /\ x \in Grouped!Subjects(after, Grouped!Announcing(after))
  <1>1. /\ x \in opened
        /\ \A s \in going : Grouped!Retires(before, after, s) => x # Grouped!Subject(s, before[s])
    BY DEF Grouped!Retired, Grouped!Subjects
  <1>2. PICK s \in Grouped!Slots : /\ before[s] # None /\ before[s].reachedAt # None
                                   /\ x = Grouped!Subject(s, before[s])
    BY AnnouncerIs
  <1>3. CASE s \notin going
    <2>1. after[s] # None /\ Grouped!Subject(s, after[s]) = x /\ after[s].reachedAt # None
      BY <1>2, <1>3 DEF KeepsStamps
    <2> QED BY <1>1, <2>1, AnnouncerIs
  <1>4. CASE s \in going
    <2>1. ~Grouped!Retires(before, after, s)
      BY <1>1, <1>2, <1>4
    <2>2. /\ Grouped!AnnouncesAsGroup(s, before[s])
          /\ \E o \in Grouped!InGroup(after, s[1]) : o # s /\ after[o].reachedAt # None
      BY <2>1, <1>2 DEF Grouped!Retires
    <2>3. PICK o \in Grouped!Slots : after[o] # None /\ o[1] = s[1] /\ after[o].reachedAt # None
      BY <2>2 DEF Grouped!InGroup, Grouped!Held
    <2>4. before[o] # None /\ Grouped!Subject(o, after[o]) = Grouped!Subject(o, before[o])
      BY <2>3 DEF KeepsStamps
    <2>5. s[1] # None /\ before[o].terms = before[s].terms /\ before[o].pooled = before[s].pooled
      BY <1>2, <2>2, <2>3, <2>4 DEF Grouped!AnnouncesAsGroup, SameTerms
    <2>6. Grouped!Subject(o, before[o]) = s[1] /\ Grouped!Subject(s, before[s]) = s[1]
      BY <2>2, <2>3, <2>5 DEF Grouped!Subject, Grouped!AnnouncesAsGroup
    <2> QED BY <1>1, <1>2, <2>3, <2>4, <2>6, AnnouncerIs
  <1> QED BY <1>3, <1>4

LEMMA ReconciledKeeps ==
    ASSUME NEW before, NEW after, NEW opened, SameTerms(before), KeepsStamps(before, after),
           NEW x \in Grouped!Reconciled(opened, before, after),
           x \in Grouped!Subjects(before, Grouped!Announcing(before))
    PROVE  x \in opened /\ x \in Grouped!Subjects(after, Grouped!Announcing(after))
  <1> DEFINE went == Grouped!Went(before, after)
  <1>1. went \in SUBSET Grouped!Slots
    BY DEF Grouped!Went, Grouped!Held
  <1>2. \A s \in Grouped!Slots : before[s] # None /\ s \notin went =>
           after[s] # None /\ Grouped!Subject(s, after[s]) = Grouped!Subject(s, before[s])
    BY DEF Grouped!Went, Grouped!Held
  <1>3. x \in Grouped!Retired(opened, before, after, went)
    BY DEF Grouped!Reconciled
  <1> HIDE DEF went
  <1> QED BY <1>1, <1>2, <1>3, RetiredKeeps

--------------------------------------------------------------------------------
(* The poll, pass by pass.                                                       *)

LEMMA ResolvedIs ==
    ASSUME TableOk(rules, day), day \in Nat, alias \in [Devices -> Devices]
    PROVE  /\ Grouped!Resolved = [s \in Grouped!Slots |-> Grouped!Resolved[s]]
           /\ \A s \in Grouped!Slots : Grouped!Resolved[s] # None =>
                 \E o \in Grouped!Slots : /\ rules[o] # None /\ o[1] = s[1] /\ alias[o[2]] = s[2]
                                          /\ Grouped!Resolved[s] = rules[o]
           /\ \A o \in Grouped!Slots : rules[o] # None =>
                 /\ <<o[1], alias[o[2]]>> \in Grouped!Slots
                 /\ Grouped!Resolved[<<o[1], alias[o[2]]>>] # None
  <1> DEFINE res == Grouped!Resolved
             latest(s) == CHOOSE o \in Grouped!Claimants(s) :
                             \A p \in Grouped!Claimants(s) : rules[o].updated >= rules[p].updated
  <1>1. /\ res = [s \in Grouped!Slots |-> res[s]]
        /\ \A s \in Grouped!Slots :
              res[s] = IF Grouped!Claimants(s) = {} THEN None ELSE rules[latest(s)]
    BY DEF Grouped!Resolved
  <1>2. ASSUME NEW s \in Grouped!Slots, Grouped!Claimants(s) # {}
        PROVE  latest(s) \in Grouped!Claimants(s)
    <2> DEFINE C == Grouped!Claimants(s)
               ages == { day - rules[o].updated : o \in C }
    <2>1. \A o \in C : rules[o].updated \in Nat /\ rules[o].updated <= day
      BY DEF Grouped!Claimants, Grouped!Held, TableOk, RuleOk
    <2>2. C # {}
      BY <1>2
    <2> HIDE DEF C
    <2>3. ages \in SUBSET Nat /\ ages # {}
      BY <2>1, <2>2
    <2>4. PICK a \in ages : \A b \in ages : a <= b
      BY <2>3, LeastIs
    <2>5. PICK o \in C : a = day - rules[o].updated
      BY <2>4
    <2>6. \A p \in C : rules[o].updated >= rules[p].updated
      <3> TAKE p \in C
      <3>1. day - rules[o].updated <= day - rules[p].updated
        BY <2>4, <2>5
      <3> QED BY <3>1, <2>1, <2>5
    <2>7. (CHOOSE q \in C : \A p \in C : rules[q].updated >= rules[p].updated) \in C
      BY <2>5, <2>6
    <2> QED BY <2>7 DEF C
  <1> HIDE DEF latest, res
  <1>3. \A s : \A o : o \in Grouped!Claimants(s) <=>
                         o \in Grouped!Slots /\ rules[o] # None /\ o[1] = s[1] /\ alias[o[2]] = s[2]
    BY DEF Grouped!Claimants, Grouped!Held
  <1>4. ASSUME NEW s \in Grouped!Slots, res[s] # None
        PROVE  \E o \in Grouped!Slots : /\ rules[o] # None /\ o[1] = s[1] /\ alias[o[2]] = s[2]
                                        /\ res[s] = rules[o]
    <2>1. Grouped!Claimants(s) # {} /\ res[s] = rules[latest(s)]
      BY <1>1, <1>4
    <2>2. latest(s) \in Grouped!Claimants(s)
      BY <1>2, <2>1
    <2> QED BY <2>1, <2>2, <1>3
  <1>5. ASSUME NEW o \in Grouped!Slots, rules[o] # None
        PROVE  <<o[1], alias[o[2]]>> \in Grouped!Slots /\ res[<<o[1], alias[o[2]]>>] # None
    <2> DEFINE s == <<o[1], alias[o[2]]>>
    <2>1. s \in Grouped!Slots /\ s[1] = o[1] /\ s[2] = alias[o[2]]
      BY SlotsAre DEF Grouped!Slots
    <2> HIDE DEF s
    <2>2. o \in Grouped!Claimants(s)
      BY <1>3, <1>5, <2>1
    <2>3. latest(s) \in Grouped!Claimants(s) /\ res[s] = rules[latest(s)]
      BY <1>1, <1>2, <2>1, <2>2
    <2>4. rules[latest(s)] # None
      BY <2>3, <1>3
    <2> QED BY <2>1, <2>3, <2>4 DEF s
  <1> QED BY <1>1, <1>4, <1>5 DEF res

LEMMA GroupsAreResolved ==
    ASSUME GroupsOk(groups), alias \in [Devices -> Devices]
    PROVE  LET gs == Grouped!ResolvedGroups IN
           /\ GroupsOk(gs)
           /\ \A g \in Groups :
                 /\ gs[g] # None <=> groups[g] # None
                 /\ groups[g] # None => /\ gs[g].terms = groups[g].terms
                                        /\ gs[g].pooled = groups[g].pooled
                                        /\ gs[g].members = { alias[d] : d \in groups[g].members }
  <1> DEFINE gs == Grouped!ResolvedGroups
             named(g) == { alias[d] : d \in groups[g].members }
  <1>1. /\ gs = [g \in Groups |-> gs[g]]
        /\ \A g \in Groups :
              gs[g] = IF groups[g] = None THEN None ELSE [groups[g] EXCEPT !.members = named(g)]
    BY DEF Grouped!ResolvedGroups, Grouped!MembersNow
  <1> HIDE DEF gs
  <1>2. ASSUME NEW g \in Groups, groups[g] # None
        PROVE  /\ gs[g] \in Grouped!StoredGroups /\ gs[g] # None
               /\ gs[g].terms = groups[g].terms /\ gs[g].pooled = groups[g].pooled
               /\ gs[g].members = named(g)
    <2>1. groups[g] \in Grouped!StoredGroups /\ named(g) \in SUBSET Devices
      BY <1>2, GroupIsStored DEF GroupsOk
    <2> HIDE DEF named
    <2>2. /\ gs[g] \in Grouped!StoredGroups
          /\ gs[g].terms = groups[g].terms /\ gs[g].pooled = groups[g].pooled
          /\ gs[g].members = named(g)
      BY <1>1, <1>2, <2>1 DEF Grouped!StoredGroups
    <2> QED BY <2>2, GroupIsStored
  <1>3. \A g \in Groups : groups[g] = None => gs[g] = None
    BY <1>1
  <1> HIDE DEF named
  <1>4. GroupsOk(gs)
    BY <1>1, <1>2, <1>3 DEF GroupsOk
  <1> QED BY <1>2, <1>3, <1>4 DEF gs, named

LEMMA ResolvedKeeps ==
    ASSUME TableOk(rules, day), day \in Nat, alias \in [Devices -> Devices],
           GroupsOk(groups), Belongs(rules, groups)
    PROVE  /\ TableOk(Grouped!Resolved, day)
           /\ Belongs(Grouped!Resolved, Grouped!ResolvedGroups)
           /\ \A g \in Groups : OneClockIn(rules, g) => OneClockIn(Grouped!Resolved, g)
           /\ (\A d \in Devices : alias[d] = d) =>
                 \A s \in Grouped!Slots : Grouped!Resolved[s] = rules[s]
  <1> DEFINE res == Grouped!Resolved
             gs == Grouped!ResolvedGroups
  <1>1. /\ res = [s \in Grouped!Slots |-> res[s]]
        /\ \A s \in Grouped!Slots : res[s] # None =>
              \E o \in Grouped!Slots : /\ rules[o] # None /\ o[1] = s[1] /\ alias[o[2]] = s[2]
                                       /\ res[s] = rules[o]
        /\ \A o \in Grouped!Slots : rules[o] # None =>
              <<o[1], alias[o[2]]>> \in Grouped!Slots /\ res[<<o[1], alias[o[2]]>>] # None
    BY ResolvedIs
  <1>2. \A g \in Groups :
           /\ gs[g] # None <=> groups[g] # None
           /\ groups[g] # None => /\ gs[g].terms = groups[g].terms
                                  /\ gs[g].pooled = groups[g].pooled
                                  /\ gs[g].members = { alias[d] : d \in groups[g].members }
    BY GroupsAreResolved
  <1> HIDE DEF res, gs
  <1>3. TableOk(res, day)
    BY <1>1 DEF TableOk
  <1>4. Belongs(res, gs)
    <2> SUFFICES ASSUME NEW s \in Grouped!Slots, res[s] # None, s[1] # None
                 PROVE  /\ gs[s[1]] # None /\ s[2] \in gs[s[1]].members
                        /\ Grouped!CarriesTerms(res[s], gs[s[1]])
      BY DEF Belongs
    <2>1. PICK o \in Grouped!Slots : /\ rules[o] # None /\ o[1] = s[1] /\ alias[o[2]] = s[2]
                                     /\ res[s] = rules[o]
      BY <1>1
    <2>2. /\ groups[s[1]] # None /\ o[2] \in groups[s[1]].members /\ s[1] \in Groups
          /\ Grouped!CarriesTerms(res[s], groups[s[1]])
      BY <2>1, SlotsAre DEF Belongs
    <2> QED BY <1>2, <2>1, <2>2 DEF Grouped!CarriesTerms
  <1>5. ASSUME NEW g \in Groups, OneClockIn(rules, g) PROVE OneClockIn(res, g)
    BY <1>1, <1>5 DEF OneClockIn
  <1>6. ASSUME \A d \in Devices : alias[d] = d, NEW s \in Grouped!Slots PROVE res[s] = rules[s]
    <2>1. s[2] \in Devices /\ s = <<s[1], s[2]>>
      BY SlotsAre
    <2>2. CASE res[s] = None
      BY <1>1, <1>6, <2>1, <2>2
    <2>3. CASE res[s] # None
      <3>1. PICK o \in Grouped!Slots : /\ rules[o] # None /\ o[1] = s[1] /\ alias[o[2]] = s[2]
                                       /\ res[s] = rules[o]
        BY <1>1, <2>3
      <3>2. o = <<o[1], o[2]>> /\ o[2] = s[2]
        BY <3>1, <1>6, SlotsAre
      <3> QED BY <3>1, <3>2, <2>1
    <2> QED BY <2>2, <2>3
  <1> QED BY <1>3, <1>4, <1>5, <1>6 DEF res, gs

LEMMA TurnedIs ==
    ASSUME NEW ps, TableOk(ps, day), day \in Nat, NEW counters,
           \A d \in Devices : counters[d] \in Int \cup {None}
    PROVE  LET turned == Grouped!Turned(ps, counters) IN
           /\ TableOk(turned, day)
           /\ \A s \in Grouped!Slots :
                 /\ turned[s] = None <=> ps[s] = None
                 /\ ps[s] # None => /\ SameBut(ps[s], turned[s])
                                    /\ turned[s].acted => ps[s].acted
  <1> DEFINE turned == Grouped!Turned(ps, counters)
  <1>1. /\ turned = [s \in Grouped!Slots |-> turned[s]]
        /\ \A s \in Grouped!Slots :
              turned[s] = IF ps[s] = None THEN None ELSE Grouped!Rolled(ps[s], counters[s[2]], day)
    BY DEF Grouped!Turned
  <1> HIDE DEF turned
  <1>2. ASSUME NEW s \in Grouped!Slots, ps[s] # None
        PROVE  /\ turned[s] # None /\ RuleOk(turned[s], day)
               /\ SameBut(ps[s], turned[s]) /\ (turned[s].acted => ps[s].acted)
    <2>1. RuleOk(ps[s], day) /\ ps[s] \in Grouped!StoredRules /\ counters[s[2]] \in Int \cup {None}
      BY <1>2, SlotsAre DEF TableOk, RuleOk
    <2>2. SameBut(ps[s], turned[s]) /\ (turned[s].acted => ps[s].acted)
      BY <1>1, <1>2, <2>1, RuleIsRolled
    <2>3. RuleOk(turned[s], day)
      BY <2>1, <2>2 DEF SameBut, RuleOk, Grouped!CountdownSpent
    <2> QED BY <2>2, <2>3, RulesAreNotNone
  <1>3. \A s \in Grouped!Slots : ps[s] = None => turned[s] = None
    BY <1>1
  <1>4. TableOk(turned, day)
    BY <1>1, <1>2, <1>3 DEF TableOk
  <1> QED BY <1>2, <1>3, <1>4 DEF turned

EvaluatedAll(turned, charged) ==
    [s \in Grouped!Slots |-> IF turned[s] = None THEN None
                             ELSE Grouped!Evaluated(turned[s], charged[s], day)]

(* What the allowances' test leaves of a rule.                                   *)
TestedFrom(r, x, charge) ==
    /\ x.terms = r.terms /\ x.pooled = r.pooled
    /\ x.anchor = r.anchor /\ x.observed = r.observed
    /\ x.countdownStart = r.countdownStart
    /\ x.acted <=> r.acted \/ Grouped!AllocationSpent(r, charge)
    /\ x.countdownActed <=> r.countdownActed \/ Grouped!CountdownSpent(r, day)
    /\ Grouped!Reaches(r, charge, day) => x.reachedAt # None
    /\ ~Grouped!Reaches(r, charge, day) /\ ~Grouped!Expires(r, charge, day) =>
          x.reachedAt = r.reachedAt

LEMMA EvaluatedIs ==
    ASSUME NEW turned, TableOk(turned, day), day \in Nat, NEW charged
    PROVE  LET after == EvaluatedAll(turned, charged) IN
           /\ TableOk(after, day)
           /\ \A s \in Grouped!Slots :
                 /\ after[s] = None <=> turned[s] = None
                 /\ turned[s] # None => TestedFrom(turned[s], after[s], charged[s])
  <1> DEFINE after == EvaluatedAll(turned, charged)
  <1>1. /\ after = [s \in Grouped!Slots |-> after[s]]
        /\ \A s \in Grouped!Slots :
              after[s] = IF turned[s] = None THEN None
                         ELSE Grouped!Evaluated(turned[s], charged[s], day)
    BY DEF EvaluatedAll
  <1> HIDE DEF after
  <1>2. ASSUME NEW s \in Grouped!Slots, turned[s] # None
        PROVE  /\ after[s] # None /\ RuleOk(after[s], day)
               /\ TestedFrom(turned[s], after[s], charged[s])
    <2> DEFINE r == turned[s]
               x == after[s]
    <2>1. RuleOk(r, day) /\ r \in Grouped!StoredRules
      BY <1>2 DEF TableOk, RuleOk
    <2>2. x = Grouped!Evaluated(r, charged[s], day)
      BY <1>1, <1>2
    <2> HIDE DEF r, x
    <2>3. /\ x \in Grouped!StoredRules
          /\ x.terms = r.terms /\ x.pooled = r.pooled /\ x.updated = r.updated
          /\ x.anchor = r.anchor /\ x.observed = r.observed
          /\ x.countdownStart = r.countdownStart
          /\ x.acted <=> r.acted \/ Grouped!AllocationSpent(r, charged[s])
          /\ x.countdownActed <=> r.countdownActed \/ Grouped!CountdownSpent(r, day)
          /\ Grouped!Reaches(r, charged[s], day) => x.reachedAt = day
          /\ ~Grouped!Reaches(r, charged[s], day) /\ ~Grouped!Expires(r, charged[s], day) =>
                x.reachedAt = r.reachedAt
      BY <2>1, <2>2, RuleIsEvaluated
    <2>4. day # None
      BY GroupFacts
    <2>5. RuleOk(x, day)
      <3>1. x.countdownActed => Grouped!CountdownSpent(x, day)
        BY <2>1, <2>3 DEF RuleOk, Grouped!CountdownSpent
      <3> QED BY <2>1, <2>3, <3>1 DEF RuleOk
    <2>6. TestedFrom(r, x, charged[s])
      BY <2>3, <2>4 DEF TestedFrom
    <2> QED BY <2>5, <2>6, RulesAreNotNone DEF r, x
  <1>3. \A s \in Grouped!Slots : turned[s] = None => after[s] = None
    BY <1>1
  <1>4. TableOk(after, day)
    BY <1>1, <1>2, <1>3 DEF TableOk
  <1> QED BY <1>2, <1>3, <1>4 DEF after

(* What is charged does not tell a rule from the same rule tested.               *)
LEMMA ChargeStands ==
    ASSUME NEW turned, NEW after,
           \A s \in Grouped!Slots :
              /\ after[s] = None <=> turned[s] = None
              /\ turned[s] # None => /\ after[s].pooled = turned[s].pooled
                                     /\ after[s].anchor = turned[s].anchor
                                     /\ after[s].observed = turned[s].observed
    PROVE  /\ \A g \in Groups : Grouped!SharedUsage(after, g) = Grouped!SharedUsage(turned, g)
           /\ \A s \in Grouped!Slots : turned[s] # None =>
                 Grouped!Charged(after, s) = Grouped!Charged(turned, s)
  <1>1. ASSUME NEW g \in Groups
        PROVE  Grouped!SharedUsage(after, g) = Grouped!SharedUsage(turned, g)
    <2> DEFINE D(rs) == { o \in Grouped!InGroup(rs, g) : rs[o].pooled }
               u(rs) == [s \in D(rs) |-> Grouped!UsageBytes(rs[s])]
    <2>1. \A rs : D(rs) = { o \in Grouped!Slots : rs[o] # None /\ o[1] = g /\ rs[o].pooled }
      BY DEF Grouped!InGroup, Grouped!Held
    <2>2. D(after) = D(turned)
      BY <2>1
    <2>3. \A s \in D(turned) : Grouped!UsageBytes(after[s]) = Grouped!UsageBytes(turned[s])
      BY <2>1 DEF Grouped!UsageBytes
    <2> HIDE DEF D
    <2>4. u(after) = u(turned)
      BY <2>2, <2>3
    <2>5. \A rs : Grouped!SharedUsage(rs, g) = Grouped!Total(u(rs))
      BY DEF Grouped!SharedUsage, D
    <2> HIDE DEF u
    <2> QED BY <2>4, <2>5
  <1>2. ASSUME NEW s \in Grouped!Slots, turned[s] # None
        PROVE  Grouped!Charged(after, s) = Grouped!Charged(turned, s)
    <2>1. Grouped!UsageBytes(after[s]) = Grouped!UsageBytes(turned[s])
      BY <1>2 DEF Grouped!UsageBytes
    <2> QED BY <1>1, <1>2, <2>1, SlotsAre DEF Grouped!Charged
  <1> QED BY <1>1, <1>2

LEMMA CountersAre ==
    ASSUME odometer \in [Devices -> Nat \cup {None}], NEW moving
    PROVE  /\ Grouped!Counters(moving) \in [Devices -> Nat \cup {None}]
           /\ \A d \in Devices : Grouped!Counters(moving)[d] \in Int \cup {None}
           /\ \A d \in Devices : Grouped!Counter(d) \in Nat
  <1>1. Grouped!Counters(moving) \in [Devices -> Nat \cup {None}]
    BY DEF Grouped!Counters
  <1> QED BY <1>1 DEF Grouped!Counter

--------------------------------------------------------------------------------
(* The invariant of the groups.                                                  *)

Follows(rs, gs, names) ==
    \A s \in Grouped!Slots : s[1] # None =>
        /\ rs[s] # None <=> gs[s[1]] # None /\ s[2] \in gs[s[1]].members
        /\ rs[s] # None => names[s[2]] = s[2]

HoldsAll(rs) ==
    \A s \in Grouped!Slots :
        /\ rs[s] # None /\ s[1] # None /\ rs[s].pooled /\ 0 < rs[s].terms.allocation
        /\ Grouped!SharedUsage(rs, s[1]) >= rs[s].terms.allocation
        => rs[s].acted

GroupInv ==
    /\ GroupsOk(groups) /\ TableOk(rules, day) /\ Belongs(rules, groups)
    /\ odometer \in [Devices -> Nat \cup {None}] /\ day \in Nat
    /\ alias \in [Devices -> Devices] /\ \A d \in Devices : alias[alias[d]] = alias[d]
    /\ Announced(episodes, stranded, rules)
    /\ \A g \in Groups : g \notin split => OneClockIn(rules, g)
    /\ polled => Follows(rules, groups, alias) /\ HoldsAll(rules)

ReachedIn(turned, charged) ==
    { s \in Grouped!Held(turned) : Grouped!Reaches(turned[s], charged[s], day) }
ExpiredIn(turned, charged) ==
    { s \in Grouped!Held(turned) : Grouped!Expires(turned[s], charged[s], day) }
ChargedIn(ps, turned) ==
    [s \in Grouped!Held(turned) |-> Grouped!ChargedAtPoll(ps, turned, s)]
StampsLost(rs, res) ==
    Grouped!Subjects(rs, Grouped!Announcing(rs)) \ Grouped!Subjects(res, Grouped!Announcing(res))

LEMMA PollIs ==
    ASSUME NEW moving, Grouped!Poll(moving)
    PROVE  LET res     == Grouped!Resolved
               ps      == Grouped!Projected(res, Grouped!ResolvedGroups)
               turned  == Grouped!Turned(ps, Grouped!Counters(moving))
               charged == ChargedIn(ps, turned)
           IN  /\ rules' = EvaluatedAll(turned, charged)
               /\ groups' = Grouped!ResolvedGroups /\ odometer' = Grouped!Counters(moving)
               /\ episodes' \in Grouped!Recorded(Grouped!Reconciled(episodes, res, ps),
                                    Grouped!Subjects(turned, ReachedIn(turned, charged)),
                                    Grouped!Subjects(turned, ExpiredIn(turned, charged)))
               /\ stranded' = (stranded \cup StampsLost(rules, res)) \cap episodes'
               /\ polled' = TRUE
               /\ alias' = alias /\ split' = split /\ day' = day
  <1> DEFINE res     == Grouped!Resolved
             ps      == Grouped!Projected(res, Grouped!ResolvedGroups)
             turned  == Grouped!Turned(ps, Grouped!Counters(moving))
             charged == ChargedIn(ps, turned)
             Does(r, p, t, c) ==
                /\ rules' = EvaluatedAll(t, c)
                /\ episodes' \in Grouped!Recorded(Grouped!Reconciled(episodes, r, p),
                                     Grouped!Subjects(t, ReachedIn(t, c)),
                                     Grouped!Subjects(t, ExpiredIn(t, c)))
                /\ stranded' = (stranded \cup StampsLost(rules, r)) \cap episodes'
  <1>1. \E r \in Grouped!Whole(Grouped!Resolved) :
        \E p \in Grouped!Whole(Grouped!Projected(r, Grouped!ResolvedGroups)) :
        \E t \in Grouped!Whole(Grouped!Turned(p, Grouped!Counters(moving))) :
        \E c \in Grouped!Whole(ChargedIn(p, t)) : Does(r, p, t, c)
    BY DEF Grouped!Poll, ChargedIn, ReachedIn, ExpiredIn, StampsLost, EvaluatedAll
  <1> HIDE DEF Does
  <1>2. Does(res, ps, turned, charged)
    BY <1>1 DEF Grouped!Whole
  <1>3. /\ groups' = Grouped!ResolvedGroups /\ odometer' = Grouped!Counters(moving)
        /\ polled' = TRUE /\ alias' = alias /\ split' = split /\ day' = day
    BY DEF Grouped!Poll
  <1> HIDE DEF res, ps, turned, charged
  <1> QED BY <1>2, <1>3 DEF Does, res, ps, turned, charged

(* What the passes of a poll make of one another.                                *)
Passes(res, gs, ps, turned, charged, after) ==
    /\ TableOk(res, day) /\ GroupsOk(gs) /\ Belongs(res, gs) /\ SameTerms(res)
    /\ ProjectsWell(res, gs, ps) /\ KeepsStamps(res, ps)
    /\ TableOk(after, day)
    /\ \A s \in Grouped!Slots :
          /\ turned[s] = None <=> ps[s] = None
          /\ after[s] = None <=> ps[s] = None
          /\ ps[s] # None => /\ SameBut(ps[s], turned[s])
                             /\ turned[s].acted => ps[s].acted
                             /\ TestedFrom(turned[s], after[s], charged[s])
                             /\ charged[s] = Grouped!Charged(turned, s)

LEMMA PassesAre ==
    ASSUME GroupInv, NEW moving
    PROVE  LET res     == Grouped!Resolved
               gs      == Grouped!ResolvedGroups
               ps      == Grouped!Projected(res, gs)
               turned  == Grouped!Turned(ps, Grouped!Counters(moving))
               charged == ChargedIn(ps, turned)
           IN  Passes(res, gs, ps, turned, charged, EvaluatedAll(turned, charged))
  <1> DEFINE res     == Grouped!Resolved
             gs      == Grouped!ResolvedGroups
             ps      == Grouped!Projected(res, gs)
             cs      == Grouped!Counters(moving)
             turned  == Grouped!Turned(ps, cs)
             charged == ChargedIn(ps, turned)
             after   == EvaluatedAll(turned, charged)
  <1>1. /\ GroupsOk(groups) /\ TableOk(rules, day) /\ Belongs(rules, groups) /\ day \in Nat
        /\ alias \in [Devices -> Devices]
        /\ \A d \in Devices : cs[d] \in Int \cup {None}
        /\ \A d \in Devices : Grouped!Counter(d) \in Nat
    BY CountersAre DEF GroupInv
  <1>2. TableOk(res, day) /\ Belongs(res, gs) /\ GroupsOk(gs)
    BY <1>1, ResolvedKeeps, GroupsAreResolved
  <1> HIDE DEF res, gs, cs
  <1>3. SameTerms(res)
    BY <1>2, BelongingIsSame
  <1>4. ProjectsWell(res, gs, ps) /\ KeepsStamps(res, ps)
    BY <1>1, <1>2, <1>3, ProjectedIs
  <1> HIDE DEF ps
  <1>5. TableOk(ps, day)
    BY <1>4 DEF ProjectsWell
  <1>6. /\ TableOk(turned, day)
        /\ \A s \in Grouped!Slots :
              /\ turned[s] = None <=> ps[s] = None
              /\ ps[s] # None => SameBut(ps[s], turned[s]) /\ (turned[s].acted => ps[s].acted)
    BY <1>1, <1>5, TurnedIs
  <1> HIDE DEF turned
  <1>7. \A s \in Grouped!Slots : turned[s] # None => charged[s] = Grouped!Charged(turned, s)
    BY DEF ChargedIn, Grouped!ChargedAtPoll, Grouped!Held
  <1> HIDE DEF charged
  <1>8. /\ TableOk(after, day)
        /\ \A s \in Grouped!Slots :
              /\ after[s] = None <=> turned[s] = None
              /\ turned[s] # None => TestedFrom(turned[s], after[s], charged[s])
    BY <1>1, <1>6, EvaluatedIs
  <1> HIDE DEF after
  <1>9. Passes(res, gs, ps, turned, charged, after)
    BY <1>2, <1>3, <1>4, <1>6, <1>7, <1>8 DEF Passes
  <1> QED BY <1>9 DEF res, gs, ps, cs, turned, charged, after

(* The rules are left those of the groups, and a spent allowance holds them.     *)
LEMMA PassesGovern ==
    ASSUME NEW res, NEW gs, NEW ps, NEW turned, NEW charged, NEW after,
           Passes(res, gs, ps, turned, charged, after)
    PROVE  /\ Belongs(after, gs)
           /\ \A s \in Grouped!Slots : s[1] # None =>
                 (after[s] # None <=> gs[s[1]] # None /\ s[2] \in gs[s[1]].members)
           /\ HoldsAll(after)
           /\ \A s \in Grouped!Slots : after[s] # None =>
                 Grouped!Charged(after, s) = charged[s]
  <1>1. ASSUME NEW s \in Grouped!Slots, after[s] # None
        PROVE  /\ ps[s] # None /\ turned[s] # None
               /\ turned[s].terms = ps[s].terms /\ turned[s].pooled = ps[s].pooled
               /\ after[s].terms = turned[s].terms /\ after[s].pooled = turned[s].pooled
               /\ after[s].anchor = turned[s].anchor /\ after[s].observed = turned[s].observed
               /\ after[s].acted <=> turned[s].acted \/ Grouped!AllocationSpent(turned[s], charged[s])
               /\ charged[s] = Grouped!Charged(turned, s)
    BY <1>1 DEF Passes, SameBut, TestedFrom
  <1>2. \A s \in Grouped!Slots : after[s] = None <=> turned[s] = None
    BY DEF Passes
  <1>3. Belongs(after, gs)
    BY <1>1 DEF Belongs, Passes, ProjectsWell, Grouped!CarriesTerms
  <1>4. \A s \in Grouped!Slots : s[1] # None =>
           (after[s] # None <=> gs[s[1]] # None /\ s[2] \in gs[s[1]].members)
    BY DEF Passes, ProjectsWell
  <1>5. /\ \A g \in Groups : Grouped!SharedUsage(after, g) = Grouped!SharedUsage(turned, g)
        /\ \A s \in Grouped!Slots : turned[s] # None =>
              Grouped!Charged(after, s) = Grouped!Charged(turned, s)
    BY <1>1, <1>2, ChargeStands
  <1>6. HoldsAll(after)
    <2> SUFFICES ASSUME NEW s \in Grouped!Slots, after[s] # None, s[1] # None, after[s].pooled,
                        0 < after[s].terms.allocation,
                        Grouped!SharedUsage(after, s[1]) >= after[s].terms.allocation
                 PROVE  after[s].acted
      BY DEF HoldsAll
    <2>1. Grouped!Charged(after, s) = Grouped!SharedUsage(after, s[1])
      BY DEF Grouped!Charged
    <2>2. charged[s] = Grouped!SharedUsage(after, s[1])
      BY <2>1, <1>1, <1>2, <1>5
    <2> QED BY <2>2, <1>1 DEF Grouped!AllocationSpent
  <1> QED BY <1>1, <1>3, <1>4, <1>5, <1>6

LEMMA SubjectStands ==
    ASSUME NEW s, NEW r, NEW x, x.terms = r.terms, x.pooled = r.pooled
    PROVE  Grouped!Subject(s, x) = Grouped!Subject(s, r)
  BY DEF Grouped!Subject, Grouped!AnnouncesAsGroup

(* An episode the poll leaves open has an announcer, or had lost it before.      *)
LEMMA PassesAnnounce ==
    ASSUME NEW res, NEW gs, NEW ps, NEW turned, NEW charged, NEW after,
           Passes(res, gs, ps, turned, charged, after),
           NEW opened, NEW gone, Announced(opened, gone, rules),
           NEW left \in Grouped!Recorded(Grouped!Reconciled(opened, res, ps),
                           Grouped!Subjects(turned, ReachedIn(turned, charged)),
                           Grouped!Subjects(turned, ExpiredIn(turned, charged)))
    PROVE  Announced(left, (gone \cup StampsLost(rules, res)) \cap left, after)
  <1> DEFINE R == Grouped!Reconciled(opened, res, ps)
             A == Grouped!Subjects(turned, ReachedIn(turned, charged))
             B == Grouped!Subjects(turned, ExpiredIn(turned, charged))
  <1>1. \A x \in left : (x \in A) \/ (x \in R /\ x \notin B)
    BY DEF Grouped!Recorded
  <1>2. ASSUME NEW s \in Grouped!Slots, turned[s] # None
        PROVE  /\ ps[s] # None /\ after[s] # None
               /\ Grouped!Subject(s, turned[s]) = Grouped!Subject(s, ps[s])
               /\ Grouped!Subject(s, after[s]) = Grouped!Subject(s, ps[s])
               /\ turned[s].reachedAt = ps[s].reachedAt
               /\ Grouped!Reaches(turned[s], charged[s], day) => after[s].reachedAt # None
               /\ ~Grouped!Reaches(turned[s], charged[s], day)
                     /\ ~Grouped!Expires(turned[s], charged[s], day) =>
                        after[s].reachedAt = ps[s].reachedAt
    <2>1. /\ ps[s] # None /\ after[s] # None
          /\ SameBut(ps[s], turned[s]) /\ TestedFrom(turned[s], after[s], charged[s])
      BY <1>2 DEF Passes
    <2>2. /\ turned[s].terms = ps[s].terms /\ turned[s].pooled = ps[s].pooled
          /\ after[s].terms = ps[s].terms /\ after[s].pooled = ps[s].pooled
      BY <2>1 DEF SameBut, TestedFrom
    <2> QED BY <2>1, <2>2, SubjectStands DEF SameBut, TestedFrom
  <1>3. /\ \A s \in Grouped!Slots : turned[s] # None /\ Grouped!Reaches(turned[s], charged[s], day) =>
              Grouped!Subject(s, turned[s]) \in A
        /\ \A x \in A : \E s \in Grouped!Slots :
              /\ turned[s] # None /\ Grouped!Reaches(turned[s], charged[s], day)
              /\ x = Grouped!Subject(s, turned[s])
        /\ \A s \in Grouped!Slots : turned[s] # None /\ Grouped!Expires(turned[s], charged[s], day) =>
              Grouped!Subject(s, turned[s]) \in B
    BY DEF Grouped!Subjects, ReachedIn, ExpiredIn, Grouped!Held
  <1> HIDE DEF A, B
  <1>4. SUFFICES ASSUME NEW x \in left, x \notin gone, x \notin StampsLost(rules, res)
                 PROVE  \E s \in Grouped!Slots : /\ after[s] # None /\ after[s].reachedAt # None
                                                 /\ x = Grouped!Subject(s, after[s])
    BY AnnouncerIs DEF Announced
  <1>5. CASE x \in A
    BY <1>2, <1>3, <1>5
  <1>6. CASE x \notin A /\ x \in R /\ x \notin B
    <2>1. /\ SameTerms(res) /\ KeepsStamps(res, ps)
          /\ \A s \in Grouped!Slots : ps[s] # None => turned[s] # None
      BY DEF Passes
    <2>2. x \in opened
      BY <1>6 DEF Grouped!Reconciled, Grouped!Retired
    <2>3. x \in Grouped!Subjects(res, Grouped!Announcing(res))
      BY <2>2, <1>4 DEF Announced, StampsLost
    <2>4. x \in Grouped!Subjects(ps, Grouped!Announcing(ps))
      BY <1>6, <2>1, <2>3, ReconciledKeeps
    <2>5. PICK s \in Grouped!Slots : /\ ps[s] # None /\ ps[s].reachedAt # None
                                     /\ x = Grouped!Subject(s, ps[s])
      BY <2>4, AnnouncerIs
    <2>6. /\ ~Grouped!Reaches(turned[s], charged[s], day)
          /\ ~Grouped!Expires(turned[s], charged[s], day)
      BY <2>1, <2>5, <1>2, <1>3, <1>6
    <2> QED BY <2>1, <2>5, <2>6, <1>2
  <1> QED BY <1>1, <1>5, <1>6

(* The members of a group are left counting from one start, and a sitting that   *)
(* has run out is over for whoever of them is left.                              *)
LEMMA PassesKeepTheClock ==
    ASSUME GroupInv, NEW turned, NEW charged, NEW after,
           Passes(Grouped!Resolved, Grouped!ResolvedGroups,
                  Grouped!Projected(Grouped!Resolved, Grouped!ResolvedGroups), turned, charged, after),
           NEW g \in Groups, g \notin split
    PROVE  /\ OneClockIn(after, g)
           /\ \A s \in Grouped!Slots :
                 /\ s[1] = g /\ rules[s] # None /\ rules[s].countdownActed /\ after[s] # None
                 /\ after[s].terms.countdown = rules[s].terms.countdown
                 => after[s].countdownActed
  <1> DEFINE res == Grouped!Resolved
             gs == Grouped!ResolvedGroups
             ps == Grouped!Projected(res, gs)
             clock == Grouped!GroupClock(res, gs, g)
  <1>1. /\ TableOk(rules, day) /\ Belongs(rules, groups) /\ SameTerms(rules) /\ OneClockIn(rules, g)
        /\ GroupsOk(groups) /\ day \in Nat /\ alias \in [Devices -> Devices]
        /\ \A d \in Devices : Grouped!Counter(d) \in Nat
    BY CountersAre, BelongingIsSame DEF GroupInv
  <1>2. TableOk(res, day) /\ SameTerms(res) /\ GroupsOk(gs) /\ OneClockIn(res, g)
    BY <1>1, ResolvedKeeps DEF Passes
  <1>3. OneClockIn(ps, g)
    BY <1>1, <1>2, ProjectedOnOneClock
  <1>4. \A s \in Grouped!Slots : s[1] = g /\ ps[s] # None =>
           ps[s].countdownStart = IF gs[g].terms.countdown = None THEN None ELSE clock
    BY <1>1, <1>2, StartIs, GroupFacts
  <1>5. \/ \A s \in Grouped!Slots : res[s] # None /\ s[1] = g =>
              res[s].terms.countdown # gs[g].terms.countdown
        \/ \E o \in Grouped!Slots : res[o] # None /\ o[1] = g /\ clock = res[o].countdownStart
    BY <1>1, <1>2, ClockIs
  <1>6. /\ \A s \in Grouped!Slots : res[s] # None =>
              \E o \in Grouped!Slots : rules[o] # None /\ o[1] = s[1] /\ res[s] = rules[o]
        /\ \A o \in Grouped!Slots : rules[o] # None =>
              <<o[1], alias[o[2]]>> \in Grouped!Slots /\ res[<<o[1], alias[o[2]]>>] # None
    BY <1>1, ResolvedIs
  <1>7. /\ ProjectsWell(res, gs, ps)
        /\ \A s \in Grouped!Slots : after[s] # None =>
              ps[s] # None /\ SameBut(ps[s], turned[s]) /\ TestedFrom(turned[s], after[s], charged[s])
    BY DEF Passes
  <1> HIDE DEF res, gs, ps, clock
  <1>8. \A s \in Grouped!Slots : after[s] # None =>
           /\ ps[s] # None
           /\ after[s].terms = ps[s].terms /\ after[s].countdownStart = ps[s].countdownStart
           /\ turned[s].terms = ps[s].terms /\ turned[s].countdownStart = ps[s].countdownStart
           /\ Grouped!CountdownSpent(turned[s], day) => after[s].countdownActed
    BY <1>7 DEF SameBut, TestedFrom
  <1>9. OneClockIn(after, g)
    BY <1>3, <1>8 DEF OneClockIn
  <1>10. ASSUME NEW s \in Grouped!Slots, s[1] = g, rules[s] # None, rules[s].countdownActed,
                after[s] # None, after[s].terms.countdown = rules[s].terms.countdown
         PROVE  after[s].countdownActed
    <2>1. Grouped!CountdownSpent(rules[s], day) /\ rules[s].terms.countdown # None
      BY <1>1, <1>10 DEF TableOk, RuleOk, Grouped!CountdownSpent
    <2>2. gs[g].terms.countdown = rules[s].terms.countdown
      <3>1. Grouped!CarriesTerms(ps[s], gs[g])
        BY <1>7, <1>8, <1>10, GroupFacts DEF ProjectsWell
      <3> QED BY <3>1, <1>8, <1>10 DEF Grouped!CarriesTerms
    <2>3. ASSUME NEW o \in Grouped!Slots, res[o] # None, o[1] = g
          PROVE  /\ res[o].terms.countdown = rules[s].terms.countdown
                 /\ res[o].countdownStart = rules[s].countdownStart
      <3>1. PICK q \in Grouped!Slots : rules[q] # None /\ q[1] = g /\ res[o] = rules[q]
        BY <1>6, <2>3
      <3>2. rules[q].terms = rules[s].terms
        BY <3>1, <1>1, <1>10, GroupFacts DEF SameTerms
      <3>3. rules[q].countdownStart = rules[s].countdownStart
        BY <3>1, <1>1, <1>10 DEF OneClockIn
      <3> QED BY <3>1, <3>2, <3>3
    <2>4. PICK o \in Grouped!Slots : res[o] # None /\ o[1] = g
      <3> DEFINE o == <<s[1], alias[s[2]]>>
      <3>1. o \in Grouped!Slots /\ res[o] # None /\ o[1] = g
        BY <1>6, <1>10
      <3> QED BY <3>1
    <2>5. clock = rules[s].countdownStart
      BY <1>5, <2>2, <2>3, <2>4
    <2>6. turned[s].terms.countdown = rules[s].terms.countdown
          /\ turned[s].countdownStart = rules[s].countdownStart
      BY <1>4, <1>8, <1>10, <2>1, <2>2, <2>5
    <2> QED BY <1>8, <1>10, <2>1, <2>6 DEF Grouped!CountdownSpent
  <1> QED BY <1>9, <1>10

(* A latch is the allowance's, or was set before.                                *)
LEMMA PassesLatchTheSpent ==
    ASSUME GroupInv, NEW turned, NEW charged, NEW after,
           Passes(Grouped!Resolved, Grouped!ResolvedGroups,
                  Grouped!Projected(Grouped!Resolved, Grouped!ResolvedGroups), turned, charged, after),
           \A d \in Devices : alias[d] = d,
           NEW s \in Grouped!Slots, after[s] # None, after[s].acted, (rules[s] = None) \/ ~rules[s].acted
    PROVE  Grouped!Charged(after, s) >= after[s].terms.allocation
  <1> DEFINE res == Grouped!Resolved
             gs == Grouped!ResolvedGroups
             ps == Grouped!Projected(res, gs)
  <1>1. /\ TableOk(rules, day) /\ GroupsOk(groups) /\ Belongs(rules, groups) /\ day \in Nat
        /\ alias \in [Devices -> Devices]
        /\ \A d \in Devices : Grouped!Counter(d) \in Nat
    BY CountersAre DEF GroupInv
  <1>2. res[s] = rules[s]
    BY <1>1, ResolvedKeeps
  <1>3. /\ TableOk(res, day) /\ SameTerms(res) /\ GroupsOk(gs)
        /\ ProjectsWell(res, gs, ps)
        /\ ps[s] # None /\ SameBut(ps[s], turned[s]) /\ (turned[s].acted => ps[s].acted)
        /\ TestedFrom(turned[s], after[s], charged[s])
    BY DEF Passes
  <1>4. Grouped!Charged(after, s) = charged[s]
    BY PassesGovern
  <1>5. ps[s].acted => res[s] # None /\ res[s].acted
    <2>1. CASE s[1] = None
      <3>1. ps[s] = res[s]
        BY <1>3, <2>1 DEF ProjectsWell
      <3> HIDE DEF res, gs, ps
      <3> QED BY <1>3, <3>1
    <2>2. CASE s[1] # None
      <3>1. gs[s[1]] # None /\ s[2] \in gs[s[1]].members
        BY <1>3, <2>2 DEF ProjectsWell
      <3> QED BY <1>1, <1>3, <2>2, <3>1, MemberIs
    <2> QED BY <2>1, <2>2
  <1> HIDE DEF res, gs, ps
  <1>6. after[s].acted <=> turned[s].acted \/ Grouped!AllocationSpent(turned[s], charged[s])
    BY <1>3 DEF TestedFrom
  <1>7. Grouped!AllocationSpent(turned[s], charged[s])
    BY <1>2, <1>3, <1>5, <1>6
  <1> QED BY <1>3, <1>4, <1>7 DEF TestedFrom, Grouped!AllocationSpent

SpentStay(rs) ==
    \A s \in Grouped!Slots :
        /\ s[1] \notin split \cup {None} /\ rules[s] # None /\ rules[s].countdownActed
        /\ rs[s] # None /\ rs[s].terms.countdown = rules[s].terms.countdown
        => rs[s].countdownActed

LatchedAreEarned(rs) ==
    (\A d \in Devices : alias[d] = d) =>
        \A s \in Grouped!Slots :
            rs[s] # None /\ rs[s].acted /\ (rules[s] = None \/ ~rules[s].acted) =>
                Grouped!Charged(rs, s) >= rs[s].terms.allocation

LEMMA PollKeeps ==
    ASSUME GroupInv, NEW moving, Grouped!Poll(moving)
    PROVE  GroupInv' /\ SpentStay(rules') /\ LatchedAreEarned(rules')
  <1> DEFINE res     == Grouped!Resolved
             gs      == Grouped!ResolvedGroups
             ps      == Grouped!Projected(res, gs)
             turned  == Grouped!Turned(ps, Grouped!Counters(moving))
             charged == ChargedIn(ps, turned)
             after   == EvaluatedAll(turned, charged)
  <1>1. /\ rules' = after
        /\ groups' = gs /\ odometer' = Grouped!Counters(moving)
        /\ episodes' \in Grouped!Recorded(Grouped!Reconciled(episodes, res, ps),
                             Grouped!Subjects(turned, ReachedIn(turned, charged)),
                             Grouped!Subjects(turned, ExpiredIn(turned, charged)))
        /\ stranded' = (stranded \cup StampsLost(rules, res)) \cap episodes'
        /\ alias' = alias /\ split' = split /\ day' = day
    BY PollIs
  <1>2. Passes(res, gs, ps, turned, charged, after)
    BY PassesAre
  <1>3. GroupsOk(gs) /\ TableOk(after, day)
    BY <1>2 DEF Passes
  <1>4. /\ Belongs(after, gs) /\ HoldsAll(after)
        /\ \A s \in Grouped!Slots : s[1] # None =>
              (after[s] # None <=> gs[s[1]] # None /\ s[2] \in gs[s[1]].members)
    BY <1>2, PassesGovern
  <1>5. Follows(after, gs, alias)
    <2>1. /\ alias \in [Devices -> Devices] /\ \A d \in Devices : alias[alias[d]] = alias[d]
          /\ GroupsOk(groups)
      BY DEF GroupInv
    <2>2. \A g \in Groups : gs[g] # None =>
             groups[g] # None /\ gs[g].members = { alias[d] : d \in groups[g].members }
      BY <2>1, GroupsAreResolved
    <2>3. \A g \in Groups : groups[g] # None => groups[g].members \subseteq Devices
      BY <2>1, GroupIsStored DEF GroupsOk
    <2> HIDE DEF gs, after
    <2>4. \A g \in Groups : gs[g] # None => \A d \in gs[g].members : alias[d] = d
      BY <2>1, <2>2, <2>3
    <2> QED BY <2>4, <1>4, SlotsAre DEF Follows
  <1>6. Announced(episodes', stranded', after)
    <2>1. Announced(episodes, stranded, rules)
      BY DEF GroupInv
    <2> QED BY <1>1, <1>2, <2>1, PassesAnnounce
  <1>7. \A g \in Groups : g \notin split =>
           /\ OneClockIn(after, g)
           /\ \A s \in Grouped!Slots :
                 /\ s[1] = g /\ rules[s] # None /\ rules[s].countdownActed /\ after[s] # None
                 /\ after[s].terms.countdown = rules[s].terms.countdown
                 => after[s].countdownActed
    BY <1>2, PassesKeepTheClock
  <1>8. LatchedAreEarned(after)
    BY <1>2, PassesLatchTheSpent DEF LatchedAreEarned
  <1>9. /\ Grouped!Counters(moving) \in [Devices -> Nat \cup {None}]
        /\ alias \in [Devices -> Devices] /\ \A d \in Devices : alias[alias[d]] = alias[d]
        /\ day \in Nat
    BY CountersAre DEF GroupInv
  <1> HIDE DEF gs, after, res, ps, turned, charged
  <1>10. SpentStay(after)
    BY <1>7, SlotsAre DEF SpentStay
  <1>11. GroupInv'
    BY <1>1, <1>3, <1>4, <1>5, <1>6, <1>7, <1>9 DEF GroupInv
  <1> QED BY <1>1, <1>8, <1>10, <1>11

--------------------------------------------------------------------------------
(* The requests.                                                                 *)

(* What a step that is no poll has to keep.                                      *)
Keeps ==
    /\ GroupInv' /\ polled' = FALSE
    /\ groups' # groups => SpentStay(rules')

Dropped(going) == [s \in Grouped!Slots |-> IF s \in going THEN None ELSE rules[s]]

LEMMA DroppedKeeps ==
    ASSUME GroupInv, NEW going \in SUBSET Grouped!Slots,
           NEW left, left = Grouped!Retired(episodes, rules, Dropped(going), going)
    PROVE  /\ TableOk(Dropped(going), day)
           /\ Announced(left, stranded \cap left, Dropped(going))
           /\ \A g \in Groups : OneClockIn(rules, g) => OneClockIn(Dropped(going), g)
           /\ SpentStay(Dropped(going))
  <1> DEFINE after == Dropped(going)
  <1>1. /\ after = [s \in Grouped!Slots |-> after[s]]
        /\ \A s \in Grouped!Slots : after[s] = IF s \in going THEN None ELSE rules[s]
    BY DEF Dropped
  <1>2. left = Grouped!Retired(episodes, rules, after, going)
    OBVIOUS
  <1> HIDE DEF after
  <1>3. TableOk(after, day)
    BY <1>1 DEF TableOk, GroupInv
  <1>4. SameTerms(rules)
    BY BelongingIsSame DEF GroupInv
  <1>5. KeepsStamps(rules, after)
    BY <1>1 DEF KeepsStamps
  <1>6. Announced(left, stranded \cap left, after)
    <2> SUFFICES ASSUME NEW x \in left, x \notin stranded
                 PROVE  x \in Grouped!Subjects(after, Grouped!Announcing(after))
      BY DEF Announced
    <2>1. x \in episodes
      BY <1>2 DEF Grouped!Retired
    <2>2. x \in Grouped!Subjects(rules, Grouped!Announcing(rules))
      BY <2>1 DEF GroupInv, Announced
    <2>3. \A s \in Grouped!Slots : rules[s] # None /\ s \notin going =>
             after[s] # None /\ Grouped!Subject(s, after[s]) = Grouped!Subject(s, rules[s])
      BY <1>1
    <2> QED BY <1>2, <1>4, <1>5, <2>2, <2>3, RetiredKeeps
  <1>7. \A g \in Groups : OneClockIn(rules, g) => OneClockIn(after, g)
    BY <1>1 DEF OneClockIn
  <1>8. SpentStay(after)
    BY <1>1 DEF SpentStay
  <1> QED BY <1>3, <1>6, <1>7, <1>8 DEF after

LEMMA DeleteGroupKeeps ==
    ASSUME GroupInv, NEW g \in Groups, Grouped!DeleteGroup(g)
    PROVE  Keeps
  <1> DEFINE going == Grouped!InGroup(rules, g)
  <1>1. /\ groups' = [groups EXCEPT ![g] = None]
        /\ rules' = [s \in Grouped!Slots |-> IF s[1] = g THEN None ELSE rules[s]]
        /\ episodes' = Grouped!Retired(episodes, rules, rules', going)
        /\ stranded' = stranded \cap episodes' /\ split' = split \ {g}
        /\ polled' = FALSE /\ UNCHANGED <<odometer, alias, day>>
    BY DEF Grouped!DeleteGroup, Grouped!Request
  <1>2. going \in SUBSET Grouped!Slots
        /\ \A s \in Grouped!Slots : s \in going <=> rules[s] # None /\ s[1] = g
    BY DEF Grouped!InGroup, Grouped!Held
  <1> HIDE DEF going
  <1>3. rules' = Dropped(going)
    BY <1>1, <1>2 DEF Dropped
  <1>4. /\ TableOk(rules', day) /\ Announced(episodes', stranded', rules')
        /\ \A h \in Groups : OneClockIn(rules, h) => OneClockIn(rules', h)
        /\ SpentStay(rules')
    BY <1>1, <1>2, <1>3, DroppedKeeps
  <1>5. GroupsOk(groups')
    BY <1>1 DEF GroupInv, GroupsOk
  <1>6. Belongs(rules', groups')
    <2> SUFFICES ASSUME NEW s \in Grouped!Slots, rules'[s] # None, s[1] # None
                 PROVE  /\ groups'[s[1]] # None /\ s[2] \in groups'[s[1]].members
                        /\ Grouped!CarriesTerms(rules'[s], groups'[s[1]])
      BY DEF Belongs
    <2>1. s[1] # g /\ rules'[s] = rules[s]
      BY <1>1
    <2>2. groups'[s[1]] = groups[s[1]]
      BY <1>1, <2>1, SlotsAre DEF GroupInv, GroupsOk
    <2> QED BY <2>1, <2>2 DEF GroupInv, Belongs
  <1>7. \A h \in Groups : h \notin split' => OneClockIn(rules', h)
    <2> TAKE h \in Groups
    <2>1. CASE h = g
      BY <1>1, <2>1 DEF OneClockIn
    <2>2. CASE h # g
      BY <1>1, <1>4, <2>2 DEF GroupInv
    <2> QED BY <2>1, <2>2
  <1> QED BY <1>1, <1>4, <1>5, <1>6, <1>7 DEF GroupInv, Keeps

LEMMA LeftIs ==
    ASSUME GroupsOk(groups), NEW d \in Devices
    PROVE  /\ GroupsOk(Grouped!Left(d))
           /\ \A g \in Groups : groups[g] # None /\ ~(groups[g].members \subseteq {d}) =>
                 /\ Grouped!Left(d)[g] # None
                 /\ Grouped!Left(d)[g].terms = groups[g].terms
                 /\ Grouped!Left(d)[g].pooled = groups[g].pooled
                 /\ Grouped!Left(d)[g].members = groups[g].members \ {d}
  <1> DEFINE gs == Grouped!Left(d)
  <1>1. /\ gs = [g \in Groups |-> gs[g]]
        /\ \A g \in Groups :
              /\ groups[g] = None => gs[g] = None
              /\ groups[g] # None => gs[g] = IF groups[g].members \subseteq {d} THEN None
                     ELSE [groups[g] EXCEPT !.members = groups[g].members \ {d}]
    BY DEF Grouped!Left
  <1> HIDE DEF gs
  <1>2. ASSUME NEW g \in Groups, groups[g] # None, ~(groups[g].members \subseteq {d})
        PROVE  /\ gs[g] \in Grouped!StoredGroups /\ gs[g] # None
               /\ gs[g].terms = groups[g].terms /\ gs[g].pooled = groups[g].pooled
               /\ gs[g].members = groups[g].members \ {d}
    <2>1. groups[g] \in Grouped!StoredGroups
      BY <1>2 DEF GroupsOk
    <2>2. /\ gs[g] \in Grouped!StoredGroups
          /\ gs[g].terms = groups[g].terms /\ gs[g].pooled = groups[g].pooled
          /\ gs[g].members = groups[g].members \ {d}
      BY <1>1, <1>2, <2>1 DEF Grouped!StoredGroups
    <2> QED BY <2>2, GroupIsStored
  <1>3. GroupsOk(gs)
    BY <1>1, <1>2 DEF GroupsOk
  <1> QED BY <1>2, <1>3 DEF gs

(* A device's rules go, with the groups' own or not.                             *)
LEMMA UnmetersKeeps ==
    ASSUME GroupInv, NEW d \in Devices, NEW going \in SUBSET Grouped!Slots,
           Grouped!Unmeters(going),
           \/ groups' = groups
           \/ /\ groups' = Grouped!Left(d)
              /\ \A s \in Grouped!Slots : rules[s] # None /\ s[2] = d => s \in going,
           odometer' \in [Devices -> Nat \cup {None}], day' = day, polled' = FALSE
    PROVE  Keeps
  <1>1. /\ rules' = Dropped(going)
        /\ episodes' = Grouped!Retired(episodes, rules, rules', going)
        /\ stranded' = stranded \cap episodes' /\ alias' = alias /\ split' = split
    BY DEF Grouped!Unmeters, Grouped!Without, Dropped
  <1>2. /\ TableOk(rules', day) /\ Announced(episodes', stranded', rules')
        /\ \A h \in Groups : OneClockIn(rules, h) => OneClockIn(rules', h)
        /\ SpentStay(rules')
    BY <1>1, DroppedKeeps
  <1>3. \A s \in Grouped!Slots : rules'[s] # None => s \notin going /\ rules'[s] = rules[s]
    BY <1>1 DEF Dropped
  <1>4. GroupsOk(groups') /\ Belongs(rules', groups')
    <2>1. CASE groups' = groups
      BY <2>1, <1>3 DEF GroupInv, Belongs
    <2>2. CASE /\ groups' = Grouped!Left(d)
               /\ \A s \in Grouped!Slots : rules[s] # None /\ s[2] = d => s \in going
      <3>1. /\ GroupsOk(groups')
            /\ \A g \in Groups : groups[g] # None /\ ~(groups[g].members \subseteq {d}) =>
                  /\ groups'[g] # None
                  /\ groups'[g].terms = groups[g].terms
                  /\ groups'[g].pooled = groups[g].pooled
                  /\ groups'[g].members = groups[g].members \ {d}
        BY <2>2, LeftIs DEF GroupInv
      <3>2. ASSUME NEW s \in Grouped!Slots, rules'[s] # None, s[1] # None
            PROVE  /\ groups'[s[1]] # None /\ s[2] \in groups'[s[1]].members
                   /\ Grouped!CarriesTerms(rules'[s], groups'[s[1]])
        <4>1. s[2] # d /\ rules'[s] = rules[s]
          BY <2>2, <3>2, <1>3
        <4>2. /\ groups[s[1]] # None /\ s[2] \in groups[s[1]].members /\ s[1] \in Groups
              /\ Grouped!CarriesTerms(rules[s], groups[s[1]])
          BY <3>2, <4>1, SlotsAre DEF GroupInv, Belongs
        <4> QED BY <3>1, <4>1, <4>2 DEF Grouped!CarriesTerms
      <3> QED BY <3>1, <3>2 DEF Belongs
    <2> QED BY <2>1, <2>2
  <1> QED BY <1>1, <1>2, <1>4 DEF GroupInv, Keeps

LEMMA DeletionsKeep ==
    ASSUME GroupInv, NEW d \in Devices,
           (Grouped!DeleteOwn(d) \/ Grouped!DeleteMeters(d)) \/ Grouped!DeleteRecord(d)
    PROVE  Keeps
  <1>1. /\ Grouped!OfDevice(rules, d) \in SUBSET Grouped!Slots
        /\ \A s \in Grouped!Slots : rules[s] # None /\ s[2] = d => s \in Grouped!OfDevice(rules, d)
    BY DEF Grouped!OfDevice, Grouped!Held
  <1>2. odometer \in [Devices -> Nat \cup {None}]
    BY DEF GroupInv
  <1>3. CASE Grouped!DeleteOwn(d)
    <2>1. /\ Grouped!Unmeters({<<None, d>>}) /\ groups' = groups /\ odometer' = odometer
          /\ day' = day /\ polled' = FALSE
      BY <1>3 DEF Grouped!DeleteOwn, Grouped!Request
    <2>2. {<<None, d>>} \in SUBSET Grouped!Slots
      BY DEF Grouped!Slots
    <2> QED BY <1>2, <2>1, <2>2, UnmetersKeeps
  <1>4. CASE Grouped!DeleteMeters(d)
    <2>1. /\ Grouped!Unmeters(Grouped!OfDevice(rules, d)) /\ odometer' = odometer
          /\ day' = day /\ polled' = FALSE
          /\ (groups' = groups) \/ (groups' = Grouped!Left(d))
      BY <1>4 DEF Grouped!DeleteMeters, Grouped!Request
    <2> QED BY <1>1, <1>2, <2>1, UnmetersKeeps
  <1>5. CASE Grouped!DeleteRecord(d)
    <2>1. /\ Grouped!Unmeters(Grouped!OfDevice(rules, d))
          /\ odometer' = [odometer EXCEPT ![d] = None]
          /\ day' = day /\ polled' = FALSE /\ groups' = Grouped!Left(d)
      BY <1>5 DEF Grouped!DeleteRecord, Grouped!Request
    <2> QED BY <1>1, <1>2, <2>1, UnmetersKeeps
  <1> QED BY <1>3, <1>4, <1>5

LEMMA ClearRecordsKeeps ==
    ASSUME GroupInv, Grouped!ClearRecords
    PROVE  Keeps
  <1> DEFINE going == Grouped!Held(rules)
  <1>1. /\ groups' = [g \in Groups |-> None] /\ rules' = Grouped!NoRule
        /\ odometer' = [e \in Devices |-> None]
        /\ episodes' = Grouped!Retired(episodes, rules, Grouped!NoRule, going)
        /\ stranded' = stranded \cap episodes' /\ split' = {}
        /\ polled' = FALSE /\ UNCHANGED <<alias, day>>
    BY DEF Grouped!ClearRecords, Grouped!Request
  <1>2. going \in SUBSET Grouped!Slots /\ Grouped!NoRule = Dropped(going)
    BY DEF Grouped!Held, Grouped!NoRule, Dropped
  <1> HIDE DEF going
  <1>3. /\ TableOk(rules', day) /\ Announced(episodes', stranded', rules') /\ SpentStay(rules')
    BY <1>1, <1>2, DroppedKeeps
  <1>4. \A s \in Grouped!Slots : rules'[s] = None
    BY <1>1 DEF Grouped!NoRule
  <1>5. Belongs(rules', groups') /\ \A h \in Groups : OneClockIn(rules', h)
    BY <1>4 DEF Belongs, OneClockIn
  <1>6. GroupsOk(groups')
    BY <1>1 DEF GroupsOk
  <1> QED BY <1>1, <1>3, <1>5, <1>6 DEF GroupInv, Keeps

LEMMA WriteGroupKeeps ==
    ASSUME GroupInv, NEW g \in Groups, NEW members \in SUBSET Devices, NEW terms \in GroupTerms,
           NEW pooled \in BOOLEAN, Grouped!WriteGroup(g, members, terms, pooled)
    PROVE  Keeps
  <1> DEFINE group == [members |-> members, terms |-> terms, pooled |-> pooled]
             gs == [groups EXCEPT ![g] = group]
             ps == Grouped!Projected(rules, gs)
  <1>1. /\ groups' = gs /\ rules' \in Grouped!Whole(ps)
        /\ episodes' = Grouped!Reconciled(episodes, rules, rules')
        /\ stranded' = stranded \cap episodes'
        /\ polled' = FALSE /\ UNCHANGED <<odometer, alias, split, day>>
    BY DEF Grouped!WriteGroup, Grouped!Request
  <1>2. rules' = ps
    BY <1>1 DEF Grouped!Whole
  <1>3. group \in Grouped!StoredGroups
    BY DEF Grouped!StoredGroups
  <1> HIDE DEF group
  <1>4. GroupsOk(gs)
    BY <1>3, GroupIsStored DEF GroupInv, GroupsOk
  <1> HIDE DEF gs
  <1>5. /\ TableOk(rules, day) /\ SameTerms(rules) /\ day \in Nat
        /\ \A e \in Devices : Grouped!Counter(e) \in Nat
    BY BelongingIsSame, CountersAre DEF GroupInv
  <1>6. ProjectsWell(rules, gs, ps) /\ KeepsStamps(rules, ps)
    BY <1>4, <1>5, ProjectedIs
  <1>7. \A h \in Groups : h \notin split => OneClockIn(ps, h)
    BY <1>4, <1>5, ProjectedOnOneClock DEF GroupInv
  <1>8. ASSUME NEW s \in Grouped!Slots, s[1] \notin split \cup {None}, rules[s] # None,
               rules[s].countdownActed, ps[s] # None,
               ps[s].terms.countdown = rules[s].terms.countdown
        PROVE  ps[s].countdownActed
    <2> DEFINE clock == Grouped!GroupClock(rules, gs, s[1])
    <2>1. /\ s[1] \in Groups /\ gs[s[1]] # None /\ s[2] \in gs[s[1]].members
          /\ Grouped!CarriesTerms(ps[s], gs[s[1]])
      BY <1>6, <1>8, SlotsAre DEF ProjectsWell
    <2>2. \/ \A o \in Grouped!Slots : rules[o] # None /\ o[1] = s[1] =>
                rules[o].terms.countdown # gs[s[1]].terms.countdown
          \/ \E o \in Grouped!Slots :
                rules[o] # None /\ o[1] = s[1] /\ clock = rules[o].countdownStart
      BY <1>5, <2>1, ClockIs
    <2>3. OneClockIn(rules, s[1])
      BY <1>8, <2>1 DEF GroupInv
    <2>4. clock = rules[s].countdownStart
      <3> HIDE DEF clock, ps
      <3>1. rules[s].terms.countdown = gs[s[1]].terms.countdown
        BY <1>8, <2>1 DEF Grouped!CarriesTerms
      <3>2. PICK o \in Grouped!Slots :
               rules[o] # None /\ o[1] = s[1] /\ clock = rules[o].countdownStart
        BY <1>8, <2>2, <3>1
      <3> QED BY <1>8, <2>3, <3>2 DEF OneClockIn
    <2> QED BY <1>4, <1>5, <1>8, <2>1, <2>4, MemberIs
  <1> HIDE DEF ps
  <1>9. SpentStay(ps)
    BY <1>8 DEF SpentStay
  <1>10. Belongs(ps, gs)
    BY <1>6 DEF ProjectsWell, Belongs
  <1>11. Announced(episodes', stranded', ps)
    <2> SUFFICES ASSUME NEW x \in episodes', x \notin stranded
                 PROVE  x \in Grouped!Subjects(ps, Grouped!Announcing(ps))
      BY <1>1 DEF Announced
    <2>1. x \in Grouped!Reconciled(episodes, rules, ps) /\ x \in episodes
      BY <1>1, <1>2 DEF Grouped!Reconciled, Grouped!Retired
    <2>2. x \in Grouped!Subjects(rules, Grouped!Announcing(rules))
      BY <2>1 DEF GroupInv, Announced
    <2> QED BY <1>5, <1>6, <2>1, <2>2, ReconciledKeeps
  <1>12. TableOk(ps, day)
    BY <1>6 DEF ProjectsWell
  <1> QED BY <1>1, <1>2, <1>4, <1>7, <1>9, <1>10, <1>11, <1>12 DEF GroupInv, Keeps

LEMMA OwnSubject ==
    ASSUME NEW s \in Grouped!Slots, s[1] = None, NEW r
    PROVE  Grouped!Subject(s, r) = s[2]
  BY DEF Grouped!Subject, Grouped!AnnouncesAsGroup

LEMMA WriteOwnKeeps ==
    ASSUME GroupInv, NEW d \in Devices, NEW terms \in OwnTerms, Grouped!WriteOwn(d, terms)
    PROVE  Keeps
  <1> DEFINE s == <<None, d>>
             made == Grouped!WithPooled(Grouped!CreatedRule(terms, Grouped!Counter(d), day), FALSE)
             written == Grouped!Upserted(rules[s], terms, day, Grouped!UsageBytes(rules[s]))
             x == IF rules[s] = None THEN made ELSE written
  <1>1. /\ rules' = [rules EXCEPT ![s] = x] /\ polled' = FALSE
        /\ UNCHANGED <<groups, odometer, alias, episodes, stranded, split, day>>
    BY DEF Grouped!WriteOwn, Grouped!Request
  <1>2. /\ s \in Grouped!Slots /\ s[1] = None /\ None \notin Groups
        /\ TableOk(rules, day) /\ Belongs(rules, groups) /\ day \in Nat
        /\ terms \in Grouped!RuleTerms /\ Grouped!Counter(d) \in Nat
        /\ terms.countdown # None => terms.countdown \in Nat
    BY CountersAre, GroupFacts DEF Grouped!Slots, GroupInv, Grouped!RuleTerms, Grouped!OrNone
  <1> HIDE DEF s
  <1>3. RuleOk(x, day) /\ (x.reachedAt # None <=> rules[s] # None /\ rules[s].reachedAt # None)
    <2>1. CASE rules[s] = None
      <3>1. /\ made \in Grouped!StoredRules
            /\ made.terms = terms /\ made.pooled \in BOOLEAN /\ made.reachedAt = None
            /\ made.updated = day /\ ~made.countdownActed
            /\ made.countdownStart = IF terms.countdown = None THEN None ELSE day
        <4> DEFINE base == Grouped!CreatedRule(terms, Grouped!Counter(d), day)
                   asked(p) == Grouped!WithPooled(base, p)
        <4>1. \A p \in BOOLEAN :
                 /\ asked(p) \in Grouped!StoredRules
                 /\ asked(p).terms = terms /\ asked(p).pooled = p /\ asked(p).reachedAt = None
                 /\ asked(p).updated = day /\ ~asked(p).countdownActed
                 /\ asked(p).countdownStart = IF terms.countdown = None THEN None ELSE day
          BY <1>2, RuleIsCreated
        <4> HIDE DEF base, asked
        <4>2. asked(FALSE).pooled \in BOOLEAN
          BY <4>1, Zenon
        <4>3. /\ asked(FALSE) \in Grouped!StoredRules
              /\ asked(FALSE).terms = terms /\ asked(FALSE).reachedAt = None
              /\ asked(FALSE).updated = day /\ ~asked(FALSE).countdownActed
              /\ asked(FALSE).countdownStart = IF terms.countdown = None THEN None ELSE day
          BY <4>1, Zenon
        <4>4. made = asked(FALSE)
          BY DEF asked, base
        <4> HIDE DEF made
        <4> QED BY <4>2, <4>3, <4>4
      <3> HIDE DEF made, written
      <3>2. x = made
        BY <2>1
      <3> HIDE DEF x
      <3> QED BY <1>2, <2>1, <3>1, <3>2 DEF RuleOk
    <2>2. CASE rules[s] # None
      <3>1. rules[s] \in Grouped!StoredRules /\ rules[s].pooled \in BOOLEAN
        BY <1>2, <2>2 DEF TableOk, RuleOk
      <3>2. /\ written \in Grouped!StoredRules
            /\ written.terms = terms /\ written.pooled = rules[s].pooled
            /\ written.reachedAt = rules[s].reachedAt
            /\ written.updated = day /\ ~written.countdownActed
            /\ written.countdownStart = IF terms.countdown = None THEN None ELSE day
        BY <1>2, <3>1, RuleIsUpserted
      <3> HIDE DEF written
      <3> QED BY <1>2, <2>2, <3>1, <3>2 DEF RuleOk
    <2> QED BY <2>1, <2>2
  <1> HIDE DEF x
  <1>4. /\ rules' = [o \in Grouped!Slots |-> rules'[o]]
        /\ rules'[s] = x /\ \A o \in Grouped!Slots : o # s => rules'[o] = rules[o]
    BY <1>1, <1>2 DEF TableOk
  <1>5. TableOk(rules', day)
    BY <1>2, <1>3, <1>4 DEF TableOk
  <1>6. Belongs(rules', groups)
    BY <1>2, <1>4 DEF Belongs
  <1>7. \A g \in Groups : OneClockIn(rules, g) => OneClockIn(rules', g)
    BY <1>2, <1>4 DEF OneClockIn
  <1>8. Announced(episodes, stranded, rules')
    <2> SUFFICES ASSUME NEW e \in episodes, e \notin stranded
                 PROVE  e \in Grouped!Subjects(rules', Grouped!Announcing(rules'))
      BY DEF Announced
    <2>1. e \in Grouped!Subjects(rules, Grouped!Announcing(rules))
      BY DEF GroupInv, Announced
    <2>2. PICK o \in Grouped!Slots : /\ rules[o] # None /\ rules[o].reachedAt # None
                                     /\ e = Grouped!Subject(o, rules[o])
      BY <2>1, AnnouncerIs
    <2>3. CASE o # s
      BY <2>2, <2>3, <1>4, AnnouncerIs
    <2>4. CASE o = s
      <3>1. rules'[s] # None /\ rules'[s].reachedAt # None
        BY <2>2, <2>4, <1>3, <1>4, RulesAreNotNone
      <3>2. e = Grouped!Subject(s, rules'[s])
        BY <2>2, <2>4, <1>2, OwnSubject
      <3> QED BY <1>2, <3>1, <3>2, AnnouncerIs
    <2> QED BY <2>3, <2>4
  <1> QED BY <1>1, <1>5, <1>6, <1>7, <1>8 DEF GroupInv, Keeps

(* Whole groups start over, or the groups that did not are split.                *)
LEMMA RestartKeeps ==
    ASSUME GroupInv, NEW going, Grouped!Restart(going), going \subseteq Grouped!Held(rules),
           \A g \in Groups : g \notin split' =>
              \/ \A s \in Grouped!Slots : rules[s] # None /\ s[1] = g => s \in going
              \/ g \notin split /\ \A s \in going : s[1] # g
    PROVE  Keeps
  <1>1. /\ rules' = [s \in Grouped!Slots |-> IF s \in going THEN Grouped!RestartedCycle(rules[s], day)
                                              ELSE rules[s]]
        /\ stranded' = (stranded \cup Grouped!Subjects(rules, going \cap Grouped!Announcing(rules)))
                          \cap episodes
        /\ polled' = FALSE /\ UNCHANGED <<groups, odometer, alias, episodes, day>>
    BY DEF Grouped!Restart, Grouped!Request
  <1>2. /\ TableOk(rules, day) /\ Belongs(rules, groups) /\ SameTerms(rules) /\ day \in Nat
        /\ \A s \in going : s \in Grouped!Slots /\ rules[s] # None
    BY BelongingIsSame DEF GroupInv, Grouped!Held
  <1>3. ASSUME NEW s \in going
        PROVE  /\ RuleOk(rules'[s], day) /\ rules'[s] # None
               /\ rules'[s].terms = rules[s].terms /\ rules'[s].pooled = rules[s].pooled
               /\ rules'[s].countdownStart = IF rules[s].terms.countdown = None THEN None ELSE day
    <2> DEFINE r == rules[s]
               x == Grouped!RestartedCycle(r, day)
    <2>1. rules'[s] = x /\ RuleOk(r, day) /\ r \in Grouped!StoredRules
      BY <1>1, <1>2 DEF TableOk, RuleOk
    <2> HIDE DEF r
    <2>2. /\ x \in Grouped!StoredRules
          /\ x.terms = r.terms /\ x.pooled = r.pooled /\ x.updated = r.updated
          /\ ~x.countdownActed
          /\ x.countdownStart = IF r.terms.countdown = None THEN None ELSE day
      BY <1>2, <2>1, RuleIsRestarted
    <2> HIDE DEF x
    <2>3. RuleOk(x, day)
      BY <1>2, <2>1, <2>2 DEF RuleOk
    <2> QED BY <2>1, <2>2, <2>3, RulesAreNotNone DEF r
  <1>4. \A s \in Grouped!Slots : s \notin going => rules'[s] = rules[s]
    BY <1>1
  <1>5. rules' = [s \in Grouped!Slots |-> rules'[s]]
    BY <1>1
  <1>6. TableOk(rules', day)
    BY <1>2, <1>3, <1>4, <1>5 DEF TableOk
  <1>7. Belongs(rules', groups)
    BY <1>2, <1>3, <1>4 DEF Belongs, Grouped!CarriesTerms
  <1>8. ASSUME NEW g \in Groups, g \notin split' PROVE OneClockIn(rules', g)
    <2>1. CASE \A s \in Grouped!Slots : rules[s] # None /\ s[1] = g => s \in going
      <3> SUFFICES ASSUME NEW s \in Grouped!Slots, NEW o \in Grouped!Slots,
                          rules'[s] # None, rules'[o] # None, s[1] = g, o[1] = g
                   PROVE  rules'[s].countdownStart = rules'[o].countdownStart
        BY DEF OneClockIn
      <3>1. s \in going /\ o \in going
        BY <1>4, <2>1
      <3>2. rules[s].terms = rules[o].terms
        BY <3>1, <1>2, GroupFacts DEF SameTerms
      <3> QED BY <1>3, <3>1, <3>2
    <2>2. CASE g \notin split /\ \A s \in going : s[1] # g
      <3>1. OneClockIn(rules, g)
        BY <2>2 DEF GroupInv
      <3> QED BY <1>4, <2>2, <3>1 DEF OneClockIn
    <2> QED BY <1>8, <2>1, <2>2
  <1>9. Announced(episodes, stranded', rules')
    <2> SUFFICES ASSUME NEW e \in episodes, e \notin stranded'
                 PROVE  e \in Grouped!Subjects(rules', Grouped!Announcing(rules'))
      BY DEF Announced
    <2>1. e \in Grouped!Subjects(rules, Grouped!Announcing(rules))
          /\ e \notin Grouped!Subjects(rules, going \cap Grouped!Announcing(rules))
      BY <1>1 DEF GroupInv, Announced
    <2>2. PICK o \in Grouped!Announcing(rules) : e = Grouped!Subject(o, rules[o])
      BY <2>1 DEF Grouped!Subjects
    <2>3. o \notin going
      BY <2>1, <2>2 DEF Grouped!Subjects
    <2>4. o \in Grouped!Slots /\ rules[o] # None /\ rules[o].reachedAt # None
      BY <2>2 DEF Grouped!Announcing, Grouped!Held
    <2> QED BY <1>4, <2>2, <2>3, <2>4, AnnouncerIs
  <1> QED BY <1>1, <1>6, <1>7, <1>8, <1>9 DEF GroupInv, Keeps

LEMMA RestartsKeep ==
    ASSUME GroupInv,
           \/ \E g \in Groups : Grouped!RestartGroup(g)
           \/ \E d \in Devices : Grouped!RestartOwn(d) \/ Grouped!ResetTotals(d)
    PROVE  Keeps
  <1>1. ASSUME NEW g \in Groups, Grouped!RestartGroup(g) PROVE Keeps
    <2> DEFINE going == Grouped!InGroup(rules, g)
    <2>1. Grouped!Restart(going) /\ split' = split \ {g}
      BY <1>1 DEF Grouped!RestartGroup
    <2>2. /\ going \subseteq Grouped!Held(rules)
          /\ \A s \in going : s[1] = g
          /\ \A s \in Grouped!Slots : rules[s] # None /\ s[1] = g => s \in going
      BY DEF Grouped!InGroup, Grouped!Held
    <2> HIDE DEF going
    <2> QED BY <2>1, <2>2, RestartKeeps
  <1>2. ASSUME NEW d \in Devices, Grouped!RestartOwn(d) PROVE Keeps
    <2> DEFINE going == {<<None, d>>} \cap Grouped!Held(rules)
    <2>1. Grouped!Restart(going) /\ split' = split
      BY <1>2 DEF Grouped!RestartOwn
    <2>2. going \subseteq Grouped!Held(rules) /\ \A s \in going : s[1] = None
      OBVIOUS
    <2> HIDE DEF going
    <2> QED BY <2>1, <2>2, GroupFacts, RestartKeeps
  <1>3. ASSUME NEW d \in Devices, Grouped!ResetTotals(d) PROVE Keeps
    <2> DEFINE going == Grouped!OfDevice(rules, d)
               apart == { g \in Groups : rules[<<g, d>>] # None }
    <2>1. Grouped!Restart(going) /\ split' = split \cup apart
      BY <1>3 DEF Grouped!ResetTotals
    <2>2. /\ going \subseteq Grouped!Held(rules)
          /\ \A s \in going : s \in Grouped!Slots /\ rules[s] # None /\ s[2] = d
      BY DEF Grouped!OfDevice, Grouped!Held
    <2>3. \A g \in Groups : \A s \in going : s[1] = g => g \in apart
      BY <2>2, SlotsAre
    <2> HIDE DEF going, apart
    <2> QED BY <2>1, <2>2, <2>3, RestartKeeps
  <1> QED BY <1>1, <1>2, <1>3

LEMMA MergeKeeps ==
    ASSUME GroupInv, NEW from \in Devices, NEW to \in Devices, Grouped!Merge(from, to)
    PROVE  Keeps
  <1>1. /\ from # to /\ alias[to] = to /\ odometer[from] # None /\ odometer[to] # None
        /\ odometer' = [odometer EXCEPT ![to] = odometer[to] + odometer[from], ![from] = None]
        /\ alias' = [e \in Devices |-> IF alias[e] = from THEN to ELSE alias[e]]
        /\ polled' = FALSE
        /\ UNCHANGED <<groups, rules, episodes, stranded, split, day>>
    BY DEF Grouped!Merge, Grouped!Listed, Grouped!Request
  <1>2. odometer' \in [Devices -> Nat \cup {None}]
    BY <1>1 DEF GroupInv
  <1>3. alias' \in [Devices -> Devices] /\ \A e \in Devices : alias'[alias'[e]] = alias'[e]
    BY <1>1 DEF GroupInv
  <1> QED BY <1>1, <1>2, <1>3 DEF GroupInv, Keeps

LEMMA TickOfGroupsKeeps ==
    ASSUME GroupInv, Grouped!Tick
    PROVE  Keeps
  <1>1. /\ day' = day + 1 /\ polled' = FALSE
        /\ UNCHANGED <<groups, rules, odometer, alias, episodes, stranded, split>>
    BY DEF Grouped!Tick
  <1>2. \A r : RuleOk(r, day) => RuleOk(r, day + 1)
    <2> SUFFICES ASSUME NEW r, RuleOk(r, day) PROVE RuleOk(r, day + 1)
      OBVIOUS
    <2>1. day \in Nat
      BY DEF GroupInv
    <2>2. Grouped!CountdownSpent(r, day) => Grouped!CountdownSpent(r, day + 1)
      BY <2>1 DEF RuleOk, Grouped!CountdownSpent, Grouped!RuleTerms, Grouped!OrNone
    <2> QED BY <2>1, <2>2 DEF RuleOk
  <1>3. TableOk(rules, day + 1)
    BY <1>2 DEF TableOk, GroupInv
  <1> QED BY <1>1, <1>3 DEF GroupInv, Keeps

LEMMA GroupsStart == Grouped!Init => GroupInv
  <1> SUFFICES ASSUME Grouped!Init PROVE GroupInv
    OBVIOUS
  <1>1. /\ groups = [g \in Groups |-> None] /\ rules = Grouped!NoRule
        /\ odometer = [d \in Devices |-> None] /\ alias = [d \in Devices |-> d]
        /\ episodes = {} /\ polled = FALSE /\ day = 0
    BY DEF Grouped!Init
  <1>2. /\ rules = [s \in Grouped!Slots |-> rules[s]]
        /\ \A s \in Grouped!Slots : rules[s] = None
    BY <1>1 DEF Grouped!NoRule
  <1>3. TableOk(rules, day) /\ Belongs(rules, groups) /\ \A g \in Groups : OneClockIn(rules, g)
    BY <1>2 DEF TableOk, Belongs, OneClockIn
  <1>4. GroupsOk(groups) /\ Announced(episodes, stranded, rules)
    BY <1>1 DEF GroupsOk, Announced
  <1> QED BY <1>1, <1>3, <1>4 DEF GroupInv

LEMMA GroupsStep ==
    ASSUME GroupInv, Grouped!Next
    PROVE  Keeps \/ (GroupInv' /\ SpentStay(rules') /\ LatchedAreEarned(rules'))
  <1>1. CASE Grouped!Tick
    BY <1>1, TickOfGroupsKeeps
  <1>2. CASE Grouped!ClearRecords
    BY <1>2, ClearRecordsKeeps
  <1>3. CASE \E moving \in SUBSET Devices : Grouped!Poll(moving)
    BY <1>3, PollKeeps
  <1>4. CASE \E g \in Groups : Grouped!DeleteGroup(g)
    BY <1>4, DeleteGroupKeeps
  <1>5. CASE \/ \E g \in Groups : Grouped!RestartGroup(g)
             \/ \E d \in Devices : Grouped!RestartOwn(d) \/ Grouped!ResetTotals(d)
    BY <1>5, RestartsKeep
  <1>6. CASE \E g \in Groups, members \in SUBSET Devices, terms \in GroupTerms, pooled \in BOOLEAN :
                Grouped!WriteGroup(g, members, terms, pooled)
    BY <1>6, WriteGroupKeeps
  <1>7. CASE \E d \in Devices :
                (Grouped!DeleteOwn(d) \/ Grouped!DeleteMeters(d)) \/ Grouped!DeleteRecord(d)
    BY <1>7, DeletionsKeep
  <1>8. CASE \E d \in Devices : \E terms \in OwnTerms : Grouped!WriteOwn(d, terms)
    BY <1>8, WriteOwnKeeps
  <1>9. CASE \E from, to \in Devices : Grouped!Merge(from, to)
    BY <1>9, MergeKeeps
  <1> QED BY <1>1, <1>2, <1>3, <1>4, <1>5, <1>6, <1>7, <1>8, <1>9 DEF Grouped!Next

LEMMA GroupInvStep ==
    ASSUME GroupInv, [UNCHANGED part /\ StoresNext]_storesVars
    PROVE  GroupInv' /\ (Grouped!Next \/ UNCHANGED groupVars)
  <1>1. Grouped!Next \/ UNCHANGED groupVars
    BY DEF StoresNext, storesVars
  <1>2. CASE Grouped!Next
    BY <1>2, GroupsStep DEF Keeps
  <1>3. CASE UNCHANGED groupVars
    BY <1>3 DEF GroupInv, groupVars
  <1> QED BY <1>1, <1>2, <1>3

(* After a poll the rules are those of the groups, one for each member, on the   *)
(* group's terms; a spent pooled allowance holds every member; and an episode    *)
(* left open has a rule that announces it (resolveGroupMembers, resolveRuleKeys, *)
(* projectGroupRules, evaluateMeters, retireMeterAlert).                         *)
THEOREM GroupsAlwaysGovern == StoresSpec => []GroupsGovern
  <1>1. StoresInit => GroupInv
    BY GroupsStart DEF StoresInit
  <1>2. GroupInv /\ [UNCHANGED part /\ StoresNext]_storesVars => GroupInv'
    BY GroupInvStep
  <1>3. GroupInv => GroupsGovern
    <2> SUFFICES ASSUME GroupInv, polled
                 PROVE  /\ Grouped!RulesFollowGroups /\ Grouped!PooledHoldsAll
                        /\ Grouped!EpisodesEnd
      BY DEF GroupsGovern, Grouped!RulesFollowGroups, Grouped!PooledHoldsAll,
             Grouped!EpisodesEnd, Grouped!EpisodesHaveAnnouncers
    <2>1. Follows(rules, groups, alias) /\ HoldsAll(rules) /\ Belongs(rules, groups)
      BY DEF GroupInv
    <2>2. Grouped!RulesFollowGroups
      <3> SUFFICES ASSUME NEW g \in Groups
                   PROVE  IF groups[g] = None THEN Grouped!InGroup(rules, g) = {}
                          ELSE /\ Grouped!InGroup(rules, g) = {g} \X groups[g].members
                               /\ \A d \in groups[g].members :
                                     /\ Grouped!Listed(d)
                                     /\ Grouped!CarriesTerms(rules[<<g, d>>], groups[g])
        BY DEF Grouped!RulesFollowGroups
      <3>1. /\ \A s : s \in Grouped!InGroup(rules, g) <=>
                         s \in Grouped!Slots /\ rules[s] # None /\ s[1] = g
            /\ g # None
        BY GroupFacts DEF Grouped!InGroup, Grouped!Held
      <3>2. CASE groups[g] = None
        BY <2>1, <3>1, <3>2 DEF Follows
      <3>3. CASE groups[g] # None
        <4>1. groups[g].members \subseteq Devices
          BY <3>3, GroupIsStored DEF GroupInv, GroupsOk
        <4>2. ASSUME NEW d \in groups[g].members
              PROVE  /\ <<g, d>> \in Grouped!Slots /\ rules[<<g, d>>] # None
                     /\ Grouped!Listed(d)
                     /\ Grouped!CarriesTerms(rules[<<g, d>>], groups[g])
          <5>1. <<g, d>> \in Grouped!Slots
            BY <4>1 DEF Grouped!Slots
          <5>2. rules[<<g, d>>] # None /\ alias[d] = d
            BY <2>1, <3>1, <3>3, <5>1 DEF Follows
          <5> QED BY <2>1, <3>1, <5>1, <5>2 DEF Belongs, Grouped!Listed
        <4>3. \A s \in Grouped!InGroup(rules, g) : s \in {g} \X groups[g].members
          BY <2>1, <3>1, SlotsAre DEF Follows
        <4>4. \A s \in {g} \X groups[g].members : s \in Grouped!InGroup(rules, g)
          BY <3>1, <4>2
        <4> QED BY <3>3, <4>2, <4>3, <4>4
      <3> QED BY <3>2, <3>3
    <2>3. Grouped!PooledHoldsAll
      BY <2>1 DEF HoldsAll, Grouped!PooledHoldsAll, Grouped!Held
    <2>4. Grouped!EpisodesEnd
      BY DEF GroupInv, Announced, Grouped!EpisodesEnd, Grouped!EpisodesHaveAnnouncers
    <2> QED BY <2>2, <2>3, <2>4
  <1> QED BY <1>1, <1>2, <1>3, PTL DEF StoresSpec

(* The members of a group count one sitting from one start, unless one of them   *)
(* was started over alone; one that has run out is not handed back by an edit    *)
(* beside it; and a poll latches no member by bytes that are not charged to it   *)
(* (groupClock, projectGroupRules, evaluateMeters).                              *)
THEOREM GroupsKeepOneClock == StoresSpec => GroupsShareAClock
  <1>1. StoresInit => GroupInv
    BY GroupsStart DEF StoresInit
  <1>2. GroupInv /\ [UNCHANGED part /\ StoresNext]_storesVars => GroupInv'
    BY GroupInvStep
  <1>3. GroupInv => (part = "groups" => Grouped!GroupsShareAClock)
    <2> SUFFICES ASSUME GroupInv, NEW g \in Groups, g \notin split PROVE Grouped!OneClock(g)
      BY DEF Grouped!GroupsShareAClock
    <2>1. OneClockIn(rules, g)
      BY DEF GroupInv
    <2> QED BY <2>1 DEF OneClockIn, Grouped!OneClock, Grouped!InGroup, Grouped!Held
  <1>4. GroupInv /\ [UNCHANGED part /\ StoresNext]_storesVars =>
           [\A s \in Grouped!Held(rules) :
               groups' # groups /\ s[1] \notin split \cup {None} /\ rules[s].countdownActed /\ rules'[s] # None
               /\ rules'[s].terms.countdown = rules[s].terms.countdown
               => rules'[s].countdownActed]_Grouped!vars
    <2> SUFFICES ASSUME GroupInv, [UNCHANGED part /\ StoresNext]_storesVars,
                        groups' # groups, NEW s \in Grouped!Held(rules),
                        s[1] \notin split \cup {None}, rules[s].countdownActed, rules'[s] # None,
                        rules'[s].terms.countdown = rules[s].terms.countdown
                 PROVE  rules'[s].countdownActed
      OBVIOUS
    <2>1. Grouped!Next
      BY GroupInvStep DEF groupVars
    <2>2. SpentStay(rules')
      BY <2>1, GroupsStep DEF Keeps
    <2> QED BY <2>2 DEF SpentStay, Grouped!Held
  <1>5. GroupInv /\ [UNCHANGED part /\ StoresNext]_storesVars =>
           [\A s \in Grouped!Slots :
               polled' /\ rules'[s] # None /\ rules'[s].acted /\ (rules[s] = None \/ ~rules[s].acted)
               /\ (\A d \in Devices : alias[d] = d)
               => Grouped!Charged(rules', s) >= rules'[s].terms.allocation]_Grouped!vars
    <2> SUFFICES ASSUME GroupInv, [UNCHANGED part /\ StoresNext]_storesVars,
                        NEW s \in Grouped!Slots, polled', rules'[s] # None, rules'[s].acted,
                        (rules[s] = None) \/ ~rules[s].acted,
                        \A d \in Devices : alias[d] = d,
                        ~UNCHANGED Grouped!vars
                 PROVE  Grouped!Charged(rules', s) >= rules'[s].terms.allocation
      OBVIOUS
    <2>1. Grouped!Next
      BY GroupInvStep DEF groupVars, Grouped!vars
    <2>2. LatchedAreEarned(rules')
      BY <2>1, GroupsStep DEF Keeps
    <2> QED BY <2>2 DEF LatchedAreEarned
  <1> QED BY <1>1, <1>2, <1>3, <1>4, <1>5, PTL
          DEF StoresSpec, GroupsShareAClock, Grouped!SpentTimersStaySpent, Grouped!LatchesAreEarned

--------------------------------------------------------------------------------
(* The recorded minutes.  What is filed, archived or open is placed by the stamp *)
(* of some poll; a sample that no two polls' stamps place apart therefore lies   *)
(* in one minute and one month.  What is filed lies before what is open and      *)
(* before what the dish has yet to write; the archive holds past months alone,   *)
(* and of its months the file holds only what came late; and what the ring, or   *)
(* the answer a poll still holds, has of a minute once reached is on record.     *)

SampleIds  == Minutes!Ids
MinuteRows == [minute : Minutes!Minutes, ids : SUBSET SampleIds]
MonthRows  == [month : Nat, ids : SUBSET SampleIds]
Logs(Row)  == [rows : Seq(Row), torn : BOOLEAN]
HeldSeries == [counter : Nat, newest : Int, lag : Nat, ids : SUBSET SampleIds]

Filed    == Minutes!Readable(file)
Archives == Minutes!Readable(archive)

Seen(id) == id.boot < boot \/ (id.boot = boot /\ id.k < count)

(* The minutes and months a sample was placed in by a poll.                      *)
LiesAt(id, m) == Seen(id) /\ \E l \in lags : Minutes!PlaceAt(id, l) = m
LiesIn(id, y) == Seen(id) /\ \E l \in lags : Minutes!MonthOf(Minutes!PlaceAt(id, l)) = y

(* A minute some poll found over.                                                *)
FoundOver(m) == \E l \in lags : m < Minutes!MinuteOf(4 * now + l, MinuteLen)

RingHolds(ring, id) == id.boot = ring.boot /\ id.k < ring.count /\ ring.count <= id.k + RingSize

MinuteType ==
    /\ now \in 1 .. MaxRecorded + 1 /\ boot \in 0 .. MaxBoots
    /\ count \in 0 .. MaxRecorded + 1 /\ count <= now
    /\ first \in [0 .. MaxBoots -> Nat] /\ lags \subseteq Nat
    /\ up \in BOOLEAN /\ open \in [Minutes!Minutes -> SUBSET SampleIds]
    /\ lastWritten \in Minutes!Minutes \cup {-1}
    /\ held \in HeldSeries /\ snapshot \in HeldSeries
    /\ file \in Logs(MinuteRows) /\ archive \in Logs(MonthRows)

(* A ring's newest sample was written in the second it was read.                 *)
RingType(ring) ==
    /\ ring.boot \in 0 .. MaxBoots /\ ring.boot <= boot
    /\ ring.count \in 0 .. MaxRecorded + 1 /\ ring.at \in Nat \ {0} /\ ring.at <= now
    /\ ring.count > 0 => first[ring.boot] + ring.count = ring.at + 1
    /\ ring.boot = boot => ring.count <= count
    /\ (ring.boot # boot \/ ring.count = 0) /\ count > 0 => ring.at < first[boot]

DishIsTimed == count > 0 => first[boot] + count = now + 1
ReplyInLife == reply # None => up /\ RingType(reply)

FileInPlace ==
    /\ \A i, j \in DOMAIN file.rows : i < j => file.rows[i].minute # file.rows[j].minute
    /\ \A r \in Filed : FoundOver(r.minute) /\ \A id \in r.ids : LiesAt(id, r.minute)

ArchiveInPlace ==
    /\ \A i, j \in DOMAIN archive.rows : i < j => archive.rows[i].month # archive.rows[j].month
    /\ \A a \in Archives : a.month < now \div YearLen /\ \A id \in a.ids : LiesIn(id, a.month)

FileBesideArchive ==
    \A r \in Filed : Minutes!MonthOf(r.minute) \in Minutes!ArchivedMonths =>
                          r.ids \subseteq late \cup spoiled \cup Minutes!SamplesIn(Archives)

OpenInPlace ==
    \A m \in Minutes!Minutes :
        /\ open[m] # {} => up /\ lastWritten < m
        /\ \A id \in open[m] : LiesAt(id, m)

Running ==
    up => /\ lastWritten # -1 => FoundOver(lastWritten)
          /\ \A r \in Filed :
                /\ r.minute <= lastWritten
                /\ Minutes!MonthOf(r.minute) \in Minutes!ArchivedMonths => r.ids \subseteq late

Kept(id) == id \in Minutes!OnRecord \cup late \cup spoiled

(* Some poll placed the sample in a minute that has been filed, or before one.   *)
Reached(id) ==
    \E l \in lags : \/ up /\ Minutes!PlaceAt(id, l) <= lastWritten
                    \/ \E r \in Filed : Minutes!PlaceAt(id, l) <= r.minute

Backfilled(ring) ==
    \A id \in SampleIds : RingHolds(ring, id) /\ Reached(id) /\ ~Minutes!Astride(id) => Kept(id)

(* What a series of samples says: its newest stamp is that of the newest of them.*)
SeriesKnows(h) ==
    /\ h.newest <= 4 * now + h.lag
    /\ reply # None => h.newest <= 4 * reply.at + h.lag
    /\ \A id \in h.ids :
          /\ Seen(id) /\ Minutes!Moment(id) + h.lag <= h.newest /\ 0 < h.newest
          /\ id.boot = boot /\ h.counter > 0 => id.k < h.counter
          /\ reply # None /\ id.boot = reply.boot /\ h.counter > 0 => id.k < h.counter

MinuteInv ==
    /\ MinuteType /\ DishIsTimed /\ ReplyInLife /\ FileInPlace /\ ArchiveInPlace /\ FileBesideArchive
    /\ OpenInPlace /\ Running
    /\ Backfilled(Minutes!Ring) /\ (reply # None => Backfilled(reply))
    /\ SeriesKnows(held) /\ SeriesKnows(snapshot) /\ doubled \subseteq astray

LEMMA RecorderIsSized ==
    /\ RingSize \in Nat \ {0} /\ Jitter \in Nat /\ PollPhases \subseteq 0..Jitter
    /\ MaxRecorded \in Nat /\ MaxBoots \in Nat /\ MinuteLen \in Nat \ {0} /\ YearLen \in Nat \ {0}
  BY InstancesSuit DEF Minutes!RecorderAssumption, Minutes!RingAssumption

LEMMA MinutesAre == Minutes!Minutes \subseteq Nat /\ IsFiniteSet(Minutes!Minutes)
  <1> DEFINE last == (MaxRecorded + 1 + Jitter) \div MinuteLen
  <1>1. MaxRecorded + 1 + Jitter \in Nat
    BY RecorderIsSized
  <1>2. last \in Nat
    BY <1>1, RecorderIsSized, QuotientIs
  <1>3. Minutes!Minutes = 0..last
    BY DEF Minutes!Minutes
  <1> HIDE DEF last
  <1> QED BY <1>2, <1>3, FS_Interval

LEMMA MonthsAre == ASSUME NEW m \in Nat PROVE Minutes!MonthOf(m) \in Nat
  BY RecorderIsSized, QuotientIs DEF Minutes!MonthOf

(* The minute of a stamp, and of a later one.                                    *)
LEMMA MinutesGrow ==
    ASSUME NEW a \in Nat, NEW b \in Nat, a <= b
    PROVE  /\ Minutes!MinuteOf(a, MinuteLen) \in Nat /\ Minutes!MinuteOf(b, MinuteLen) \in Nat
           /\ Minutes!MinuteOf(a, MinuteLen) <= Minutes!MinuteOf(b, MinuteLen)
  <1>1. a \div 4 \in Nat /\ b \div 4 \in Nat /\ a \div 4 <= b \div 4
    OBVIOUS
  <1> DEFINE p == a \div 4
             q == b \div 4
  <1>2. Minutes!MinuteOf(a, MinuteLen) = p \div MinuteLen /\ Minutes!MinuteOf(b, MinuteLen) = q \div MinuteLen
    BY DEF Minutes!MinuteOf, Minutes!Second
  <1>3. p \in Nat /\ q \in Nat /\ p <= q
    BY <1>1
  <1> HIDE DEF p, q
  <1> QED BY <1>2, <1>3, RecorderIsSized, QuotientGrows, QuotientIs

LEMMA PlacesAre ==
    ASSUME MinuteType, NEW id \in SampleIds
    PROVE  /\ id.k \in Nat /\ id.boot \in 0 .. MaxBoots /\ first[id.boot] \in Nat
           /\ Minutes!Moment(id) = 4 * (first[id.boot] + id.k) /\ Minutes!Moment(id) \in Nat
           /\ \A l \in Nat : Minutes!PlaceAt(id, l) \in Nat
  <1>1. id.k \in Nat /\ id.boot \in 0..MaxBoots
    BY RecorderIsSized DEF SampleIds, Minutes!Ids, Minutes!Boots
  <1>2. first[id.boot] \in Nat
    BY <1>1 DEF MinuteType
  <1>3. Minutes!Moment(id) = 4 * (first[id.boot] + id.k)
    BY DEF Minutes!Moment, Minutes!Second
  <1>4. Minutes!Moment(id) \in Nat
    BY <1>1, <1>2, <1>3
  <1>5. ASSUME NEW l \in Nat PROVE Minutes!PlaceAt(id, l) \in Nat
    <2>1. Minutes!Moment(id) + l \in Nat
      BY <1>4
    <2> QED BY <2>1, MinutesGrow DEF Minutes!PlaceAt
  <1> QED BY <1>1, <1>2, <1>3, <1>4, <1>5

LEMMA ShiftsInStep ==
    ASSUME NEW i \in Int, NEW j \in Int, NEW a \in Int, NEW s \in Int, i < j
    PROVE  i - a + s < j - a + s
  OBVIOUS

LEMMA StampsAre == ASSUME NEW a \in Nat, NEW l \in Nat PROVE 4 * a + l \in Nat
  OBVIOUS

LEMMA StampsGrow ==
    ASSUME NEW a \in Nat, NEW b \in Nat, NEW l \in Nat, a <= b
    PROVE  4 * a + l \in Nat /\ 4 * b + l \in Nat /\ 4 * a + l <= 4 * b + l
  OBVIOUS

LEMMA SizeIs == ASSUME NEW S PROVE Minutes!Cardinality(S) = Cardinality(S)
  BY DEF Minutes!Cardinality, Cardinality

(* An increasing list of a set of numbers names each of them once.               *)
LEMMA AscendingIs ==
    ASSUME NEW S, IsFiniteSet(S), NEW ms \in Minutes!Ascending(S)
    PROVE  /\ ms \in Seq(S) /\ Len(ms) \in Nat /\ DOMAIN ms = 1..Len(ms)
           /\ \A i \in 1..Len(ms) : ms[i] \in S
           /\ \A i, j \in 1..Len(ms) : i < j => ms[i] < ms[j]
           /\ \A s \in S : \E i \in 1..Len(ms) : ms[i] = s
  <1>1. Minutes!Cardinality(S) = Cardinality(S) /\ Cardinality(S) \in Nat
    BY SizeIs, FS_CardinalityType
  <1>2. ms \in [1 .. Cardinality(S) -> S] /\ DOMAIN ms = 1 .. Cardinality(S)
    BY <1>1 DEF Minutes!Ascending
  <1>3. ms \in Seq(S) /\ Len(ms) = Cardinality(S)
    BY <1>1, <1>2
  <1> QED BY <1>1, <1>2, <1>3 DEF Minutes!Ascending

(* Rows x and y of a log, x before y, after `rows` were appended to it.          *)
InTurn(log, rows, x, y) ==
    \/ \E p, q \in DOMAIN log.rows : p < q /\ x = log.rows[p] /\ y = log.rows[q]
    \/ x \in Minutes!Readable(log) /\ y \in Minutes!RowsIn(rows)
    \/ \E p, q \in DOMAIN rows : p < q /\ x = rows[p] /\ y = rows[q]

(* What a log is after rows were appended to it.                                 *)
LEMMA AppendedIs ==
    ASSUME NEW Row, NEW log \in Logs(Row), NEW rows \in Seq(Row)
    PROVE  LET new == Minutes!Appended(log, rows) IN
           /\ new \in Logs(Row)
           /\ Minutes!Readable(log) \subseteq Minutes!Readable(new)
           /\ Minutes!Readable(new) \subseteq Minutes!Readable(log) \cup Minutes!RowsIn(rows)
           /\ Minutes!RowsIn(rows) \subseteq Minutes!Readable(new) \cup Minutes!Spoiled(log, rows)
           /\ Minutes!Spoiled(log, rows) \subseteq Minutes!RowsIn(rows)
           /\ \A i, j \in DOMAIN new.rows : i < j => InTurn(log, rows, new.rows[i], new.rows[j])
  <1> DEFINE new == Minutes!Appended(log, rows)
  <1>1. log.rows \in Seq(Row) /\ log.torn \in BOOLEAN /\ log = [rows |-> log.rows, torn |-> log.torn]
    BY DEF Logs
  <1>2. CASE rows = <<>>
    <2>1. new = log /\ Minutes!RowsIn(rows) = {} /\ Minutes!Spoiled(log, rows) = {}
      BY <1>2 DEF Minutes!Appended, Minutes!RowsIn, Minutes!Spoiled
    <2>2. DOMAIN log.rows = 1..Len(log.rows)
      BY <1>1
    <2> QED BY <2>1, <2>2 DEF InTurn
  <1>3. CASE rows # <<>>
    <2> DEFINE skip == IF log.torn THEN 1 ELSE 0
               added == IF log.torn THEN Tail(rows) ELSE rows
               a == Len(log.rows)
    <2>1. skip \in {0, 1} /\ a \in Nat /\ Len(rows) \in Nat \ {0} /\ DOMAIN rows = 1..Len(rows)
          /\ DOMAIN log.rows = 1..a
      BY <1>1, <1>3
    <2>2. /\ added \in Seq(Row) /\ Len(added) = Len(rows) - skip
          /\ \A i \in 1..Len(rows) - skip : added[i] = rows[i + skip]
      BY <1>3, <2>1
    <2>3. new = [rows |-> log.rows \o added, torn |-> FALSE]
      BY <1>3 DEF Minutes!Appended
    <2> HIDE DEF new, added, skip
    <2>4. /\ new.rows \in Seq(Row) /\ new.torn = FALSE
          /\ DOMAIN new.rows = 1..a + Len(rows) - skip
          /\ \A i \in 1..a : new.rows[i] = log.rows[i]
          /\ \A i \in a + 1..a + Len(rows) - skip : new.rows[i] = rows[i - a + skip]
      BY <1>1, <2>1, <2>2, <2>3
    <2>5. new \in Logs(Row)
      BY <2>3, <2>4 DEF Logs
    <2>6. Minutes!Readable(log) \subseteq Minutes!Readable(new)
      BY <2>1, <2>4 DEF Minutes!Readable, Minutes!RowsIn
    <2>7. Minutes!Readable(new) \subseteq Minutes!Readable(log) \cup Minutes!RowsIn(rows)
      <3> SUFFICES ASSUME NEW i \in 1..a + Len(rows) - skip
                   PROVE  new.rows[i] \in Minutes!Readable(log) \cup Minutes!RowsIn(rows)
        BY <2>4 DEF Minutes!Readable, Minutes!RowsIn
      <3>1. CASE i \in 1..a
        BY <3>1, <2>1, <2>4 DEF Minutes!Readable, Minutes!RowsIn
      <3>2. CASE i \in a + 1..a + Len(rows) - skip
        <4>1. i - a + skip \in 1..Len(rows)
          BY <3>2, <2>1
        <4> QED BY <3>2, <4>1, <2>1, <2>4 DEF Minutes!RowsIn
      <3> QED BY <3>1, <3>2, <2>1
    <2>8. Minutes!Spoiled(log, rows) = IF skip = 1 THEN {rows[1]} ELSE {}
      BY <1>3, <2>1 DEF Minutes!Spoiled, skip
    <2>9. Minutes!RowsIn(rows) \subseteq Minutes!Readable(new) \cup Minutes!Spoiled(log, rows)
      <3> SUFFICES ASSUME NEW j \in 1..Len(rows)
                   PROVE  rows[j] \in Minutes!Readable(new) \cup Minutes!Spoiled(log, rows)
        BY <2>1 DEF Minutes!RowsIn
      <3>1. CASE j <= skip
        <4>1. j = 1 /\ skip = 1
          BY <3>1, <2>1
        <4> QED BY <4>1, <2>8
      <3>2. CASE j > skip
        <4>1. /\ a + j - skip \in a + 1..a + Len(rows) - skip
              /\ (a + j - skip) - a + skip = j /\ a + j - skip \in 1..a + Len(rows) - skip
          BY <3>2, <2>1
        <4>2. new.rows[a + j - skip] = rows[j]
          BY <4>1, <2>4
        <4> QED BY <4>1, <4>2, <2>4 DEF Minutes!Readable, Minutes!RowsIn
      <3> QED BY <3>1, <3>2, <2>1
    <2>10. Minutes!Spoiled(log, rows) \subseteq Minutes!RowsIn(rows)
      BY <2>1, <2>8 DEF Minutes!RowsIn
    <2>11. ASSUME NEW i \in 1..a + Len(rows) - skip, NEW j \in 1..a + Len(rows) - skip, i < j
           PROVE  InTurn(log, rows, new.rows[i], new.rows[j])
      <3>1. CASE j <= a
        <4>1. i \in 1 .. a /\ j \in 1 .. a
          BY <2>11, <3>1, <2>1
        <4>2. new.rows[i] = log.rows[i] /\ new.rows[j] = log.rows[j] /\ i \in DOMAIN log.rows /\ j \in DOMAIN log.rows
          BY <4>1, <2>1, <2>4
        <4> QED BY <2>11, <4>2 DEF InTurn
      <3>2. CASE i > a
        <4>1. i \in a + 1 .. a + Len(rows) - skip /\ j \in a + 1 .. a + Len(rows) - skip
          BY <2>11, <3>2, <2>1
        <4>2. i - a + skip \in 1 .. Len(rows) /\ j - a + skip \in 1 .. Len(rows)
          BY <4>1, <2>1
        <4>2a. i - a + skip < j - a + skip
          <5>1. i \in Int /\ j \in Int /\ a \in Int /\ skip \in Int
            BY <4>1, <2>1
          <5>2. i < j
            BY <2>11
          <5> QED BY <5>1, <5>2, ShiftsInStep
        <4>3. new.rows[i] = rows[i - a + skip] /\ new.rows[j] = rows[j - a + skip]
          BY <4>1, <2>4
        <4>4. i - a + skip \in DOMAIN rows /\ j - a + skip \in DOMAIN rows
          BY <4>2, <2>1
        <4> QED BY <4>2a, <4>3, <4>4 DEF InTurn
      <3>3. CASE i <= a /\ j > a
        <4>1. /\ i \in 1 .. a /\ j \in a + 1 .. a + Len(rows) - skip /\ j - a + skip \in DOMAIN rows
          BY <3>3, <2>1
        <4>2. new.rows[i] = log.rows[i] /\ new.rows[j] = rows[j - a + skip]
          BY <4>1, <2>4
        <4>3. new.rows[i] \in Minutes!Readable(log) /\ new.rows[j] \in Minutes!RowsIn(rows)
          BY <4>1, <4>2, <2>1 DEF Minutes!Readable, Minutes!RowsIn
        <4> QED BY <4>3 DEF InTurn
      <3> QED BY <3>1, <3>2, <3>3, <2>1
    <2>12. \A i, j \in DOMAIN new.rows : i < j => InTurn(log, rows, new.rows[i], new.rows[j])
      BY <2>4, <2>11
    <2> QED BY <2>5, <2>6, <2>7, <2>9, <2>10, <2>12 DEF new
  <1> QED BY <1>2, <1>3

LEMMA RowsReadAre ==
    ASSUME NEW log \in Logs(MinuteRows)
    PROVE  \A r \in Minutes!Readable(log) :
              r \in MinuteRows /\ r.minute \in Minutes!Minutes /\ r.minute \in Nat /\ r.ids \subseteq SampleIds
  <1>1. log.rows \in Seq(MinuteRows)
    BY DEF Logs
  <1>2. \A r \in Minutes!Readable(log) : r \in MinuteRows
    BY <1>1 DEF Minutes!Readable, Minutes!RowsIn
  <1> QED BY <1>2, MinutesAre DEF MinuteRows

LEMMA MonthsReadAre ==
    ASSUME NEW log \in Logs(MonthRows)
    PROVE  \A a \in Minutes!Readable(log) : a.month \in Nat /\ a.ids \subseteq SampleIds
  <1>1. log.rows \in Seq(MonthRows)
    BY DEF Logs
  <1>2. \A a \in Minutes!Readable(log) : a \in MonthRows
    BY <1>1 DEF Minutes!Readable, Minutes!RowsIn
  <1> QED BY <1>2 DEF MonthRows

(* A sample that no two polls place apart is placed by each in the same minute.  *)
LEMMA PlacesAgree ==
    ASSUME NEW id, ~Minutes!Astride(id), NEW m, LiesAt(id, m)
    PROVE  /\ \A l \in lags : Minutes!PlaceAt(id, l) = m
           /\ \A n : LiesAt(id, n) => n = m
           /\ \A y : LiesIn(id, y) => y = Minutes!MonthOf(m)
  BY DEF LiesAt, LiesIn, Minutes!Astride

LEMMA MinuteInvCounts == ASSUME MinuteInv PROVE Minutes!CountedOnce
  <1>1. /\ file \in Logs(MinuteRows) /\ archive \in Logs(MonthRows) /\ file.rows \in Seq(MinuteRows)
        /\ archive.rows \in Seq(MonthRows)
    BY DEF MinuteInv, MinuteType, Logs
  <1>2. /\ DOMAIN file.rows \subseteq Nat /\ DOMAIN archive.rows \subseteq Nat
    BY <1>1
  <1>3. Minutes!RowsApart(file.rows)
    <2> SUFFICES ASSUME NEW i \in DOMAIN file.rows, NEW j \in DOMAIN file.rows, i # j,
                        NEW id \in file.rows[i].ids, id \in file.rows[j].ids, ~Minutes!Astride(id)
                 PROVE  FALSE
      BY DEF Minutes!RowsApart, Minutes!Apart
    <2>1. file.rows[i].minute # file.rows[j].minute
      BY <1>2 DEF MinuteInv, FileInPlace
    <2>2. file.rows[i] \in Filed /\ file.rows[j] \in Filed
      BY DEF Filed, Minutes!Readable, Minutes!RowsIn
    <2>3. LiesAt(id, file.rows[i].minute) /\ LiesAt(id, file.rows[j].minute)
      BY <2>2 DEF MinuteInv, FileInPlace
    <2> QED BY <2>1, <2>3, PlacesAgree
  <1>4. Minutes!RowsApart(archive.rows)
    <2> SUFFICES ASSUME NEW i \in DOMAIN archive.rows, NEW j \in DOMAIN archive.rows, i # j,
                        NEW id \in archive.rows[i].ids, id \in archive.rows[j].ids, ~Minutes!Astride(id)
                 PROVE  FALSE
      BY DEF Minutes!RowsApart, Minutes!Apart
    <2>1. archive.rows[i].month # archive.rows[j].month
      BY <1>2 DEF MinuteInv, ArchiveInPlace
    <2>2. archive.rows[i] \in Archives /\ archive.rows[j] \in Archives
      BY DEF Archives, Minutes!Readable, Minutes!RowsIn
    <2>3. LiesIn(id, archive.rows[i].month) /\ LiesIn(id, archive.rows[j].month)
      BY <2>2 DEF MinuteInv, ArchiveInPlace
    <2>4. PICK l \in lags : Minutes!MonthOf(Minutes!PlaceAt(id, l)) = archive.rows[i].month
      BY <2>3 DEF LiesIn
    <2>5. LiesAt(id, Minutes!PlaceAt(id, l))
      BY <2>3 DEF LiesIn, LiesAt
    <2> QED BY <2>1, <2>3, <2>4, <2>5, PlacesAgree
  <1>5. ASSUME NEW m \in Minutes!Minutes, NEW r \in Filed, NEW id \in open[m], id \in r.ids,
               ~Minutes!Astride(id)
        PROVE  FALSE
    <2>1. up /\ lastWritten < m /\ LiesAt(id, m)
      BY <1>5 DEF MinuteInv, OpenInPlace
    <2>2. r.minute <= lastWritten /\ LiesAt(id, r.minute)
      BY <1>5, <2>1 DEF MinuteInv, Running, FileInPlace
    <2>3. r.minute = m
      BY <1>5, <2>1, <2>2, PlacesAgree
    <2>4. m \in Nat /\ lastWritten \in Int
      BY MinutesAre DEF MinuteInv, MinuteType
    <2> QED BY <2>1, <2>2, <2>3, <2>4
  <1>6. ASSUME up, NEW r \in Filed, NEW a \in Archives, NEW id \in r.ids, id \in a.ids,
               ~Minutes!Astride(id)
        PROVE  id \in late
    <2>1. LiesAt(id, r.minute) /\ LiesIn(id, a.month)
      BY <1>6 DEF MinuteInv, FileInPlace, ArchiveInPlace
    <2>2. a.month = Minutes!MonthOf(r.minute)
      BY <1>6, <2>1, PlacesAgree
    <2>3. a.month \in Minutes!ArchivedMonths
      BY DEF Archives, Minutes!ArchivedMonths
    <2> QED BY <1>6, <2>2, <2>3 DEF MinuteInv, Running
  <1>7. \A m \in Minutes!Minutes : Minutes!Apart(open[m], Minutes!SamplesIn(Filed))
    BY <1>5 DEF Minutes!Apart, Minutes!SamplesIn
  <1>8. up => Minutes!Apart(Minutes!SamplesIn(Filed) \ late, Minutes!SamplesIn(Archives))
    BY <1>6 DEF Minutes!Apart, Minutes!SamplesIn
  <1> QED BY <1>3, <1>4, <1>7, <1>8 DEF Minutes!CountedOnce, Filed, Archives

LEMMA MinutesStart == StoresInit => MinuteInv
  <1> SUFFICES ASSUME StoresInit PROVE MinuteInv
    OBVIOUS
  <1>1. /\ now = 1 /\ boot = 0 /\ count = 1 /\ up = TRUE /\ reply = None
        /\ first = [b \in 0 .. MaxBoots |-> IF b = 0 THEN 1 ELSE 0]
        /\ open = [m \in Minutes!Minutes |-> {}] /\ lastWritten = -1
        /\ held = [counter |-> 0, newest |-> 0, lag |-> 0, ids |-> {}] /\ snapshot = held
        /\ file = [rows |-> <<>>, torn |-> FALSE] /\ archive = file
        /\ late = {} /\ spoiled = {} /\ doubled = {} /\ lags = {}
    BY DEF StoresInit, Minutes!Init, Minutes!DishInit, Minutes!NoSeries, Minutes!EmptyLog, Minutes!Boots
  <1>2. Filed = {} /\ Archives = {} /\ DOMAIN file.rows = {} /\ DOMAIN archive.rows = {}
    BY <1>1 DEF Filed, Archives, Minutes!Readable, Minutes!RowsIn
  <1>3. MinuteType
    <2>1. held \in HeldSeries
      BY <1>1 DEF HeldSeries
    <2>2. file \in Logs(MinuteRows) /\ archive \in Logs(MonthRows)
      BY <1>1 DEF Logs
    <2>3. first \in [0..MaxBoots -> Nat]
      BY <1>1
    <2>4. now \in 1 .. MaxRecorded + 1 /\ count \in 0 .. MaxRecorded + 1 /\ boot \in 0 .. MaxBoots
      BY <1>1, RecorderIsSized
    <2> QED BY <1>1, <2>1, <2>2, <2>3, <2>4 DEF MinuteType
  <1>4. DishIsTimed /\ ReplyInLife
    BY <1>1, RecorderIsSized DEF DishIsTimed, ReplyInLife
  <1>5. FileInPlace /\ ArchiveInPlace /\ FileBesideArchive /\ OpenInPlace /\ Running
    BY <1>1, <1>2 DEF FileInPlace, ArchiveInPlace, FileBesideArchive, OpenInPlace, Running
  <1>6. Backfilled(Minutes!Ring)
    BY <1>1 DEF Backfilled, Reached
  <1>7. SeriesKnows(held) /\ SeriesKnows(snapshot)
    BY <1>1 DEF SeriesKnows
  <1> QED BY <1>1, <1>3, <1>4, <1>5, <1>6, <1>7 DEF MinuteInv

(* What no step of the dish or of the recorder undoes: samples stay written when *)
(* they were, the clock goes on, and the polls' stamps are remembered.           *)
Onward ==
    /\ now <= now' /\ now' \in Nat /\ lags \subseteq lags' /\ lags' \subseteq Nat
    /\ \A id \in SampleIds : Seen(id) => Seen(id)' /\ Minutes!Moment(id)' = Minutes!Moment(id)

LEMMA PlacesStay ==
    ASSUME MinuteType, Onward
    PROVE  /\ \A id \in SampleIds : \A m : LiesAt(id, m) => LiesAt(id, m)'
           /\ \A id \in SampleIds : \A y : LiesIn(id, y) => LiesIn(id, y)'
           /\ \A m \in Nat : FoundOver(m) => FoundOver(m)'
           /\ \A y \in Nat : y < now \div YearLen => y < now' \div YearLen
           /\ \A id \in SampleIds : Seen(id) => \A l : Minutes!PlaceAt(id, l)' = Minutes!PlaceAt(id, l)
           /\ \A id \in SampleIds : Seen(id) /\ Minutes!Astride(id) => Minutes!Astride(id)'
  <1>1. \A id \in SampleIds : Seen(id) => \A l : Minutes!PlaceAt(id, l)' = Minutes!PlaceAt(id, l)
    BY DEF Onward, Minutes!PlaceAt, Minutes!MinuteOf, Minutes!Second
  <1>2. \A id \in SampleIds : \A m : LiesAt(id, m) => LiesAt(id, m)'
    BY <1>1 DEF Onward, LiesAt
  <1>3. \A id \in SampleIds : \A y : LiesIn(id, y) => LiesIn(id, y)'
    BY <1>1 DEF Onward, LiesIn, Minutes!MonthOf
  <1>4. ASSUME NEW m \in Nat, FoundOver(m) PROVE FoundOver(m)'
    <2>1. PICK l \in lags : m < Minutes!MinuteOf(4 * now + l, MinuteLen)
      BY <1>4 DEF FoundOver
    <2>2. l \in Nat /\ l \in lags' /\ now \in Nat /\ now' \in Nat /\ now <= now'
      BY DEF Onward, MinuteType
    <2>3. 4 * now + l \in Nat /\ 4 * now' + l \in Nat /\ 4 * now + l <= 4 * now' + l
      BY <2>2, StampsGrow
    <2>4. /\ Minutes!MinuteOf(4 * now + l, MinuteLen) \in Nat /\ Minutes!MinuteOf(4 * now' + l, MinuteLen) \in Nat
          /\ Minutes!MinuteOf(4 * now + l, MinuteLen) <= Minutes!MinuteOf(4 * now' + l, MinuteLen)
      BY <2>3, MinutesGrow
    <2>5. m < Minutes!MinuteOf(4 * now' + l, MinuteLen)
      BY <2>1, <2>4
    <2>6. Minutes!MinuteOf(4 * now + l, MinuteLen)' = Minutes!MinuteOf(4 * now' + l, MinuteLen)
      BY DEF Minutes!MinuteOf
    <2> QED BY <2>2, <2>5, <2>6 DEF FoundOver
  <1>5. ASSUME NEW y \in Nat, y < now \div YearLen PROVE y < now' \div YearLen
    <2>1. now \in Nat /\ now' \in Nat /\ now <= now'
      BY DEF Onward, MinuteType
    <2>2. now \div YearLen \in Nat /\ now' \div YearLen \in Nat /\ now \div YearLen <= now' \div YearLen
      BY <2>1, RecorderIsSized, QuotientIs, QuotientGrows
    <2> QED BY <1>5, <2>2
  <1>6. \A id \in SampleIds : Seen(id) /\ Minutes!Astride(id) => Minutes!Astride(id)'
    BY <1>1 DEF Onward, Minutes!Astride
  <1> QED BY <1>1, <1>2, <1>3, <1>4, <1>5, <1>6

LEMMA FileStays ==
    ASSUME MinuteInv, Onward, file' = file
    PROVE  FileInPlace'
  <1>1. Filed' = Filed /\ \A r \in Filed : r.minute \in Nat /\ r.ids \subseteq SampleIds
    BY RowsReadAre DEF MinuteInv, MinuteType, Filed, Minutes!Readable, Minutes!RowsIn
  <1>2. \A r \in Filed : FoundOver(r.minute)' /\ \A id \in r.ids : LiesAt(id, r.minute)'
    <2>1. MinuteType
      BY DEF MinuteInv
    <2>2. \A r \in Filed : FoundOver(r.minute) /\ \A id \in r.ids : LiesAt(id, r.minute)
      BY DEF MinuteInv, FileInPlace
    <2> QED BY <1>1, <2>1, <2>2, PlacesStay
  <1> QED BY <1>1, <1>2 DEF MinuteInv, FileInPlace

LEMMA ArchiveStays ==
    ASSUME MinuteInv, Onward, archive' = archive
    PROVE  ArchiveInPlace' /\ Archives' = Archives /\ Minutes!ArchivedMonths' = Minutes!ArchivedMonths
  <1>1. Archives' = Archives /\ Minutes!ArchivedMonths' = Minutes!ArchivedMonths
        /\ \A a \in Archives : a.month \in Nat /\ a.ids \subseteq SampleIds
    BY MonthsReadAre DEF MinuteInv, MinuteType, Archives, Minutes!Readable, Minutes!RowsIn, Minutes!ArchivedMonths
  <1>2. \A a \in Archives : a.month < now' \div YearLen /\ \A id \in a.ids : LiesIn(id, a.month)'
    <2>1. MinuteType
      BY DEF MinuteInv
    <2>2. \A a \in Archives : a.month < now \div YearLen /\ \A id \in a.ids : LiesIn(id, a.month)
      BY DEF MinuteInv, ArchiveInPlace
    <2> QED BY <1>1, <2>1, <2>2, PlacesStay
  <1> QED BY <1>1, <1>2 DEF MinuteInv, ArchiveInPlace

LEMMA RecordStands ==
    ASSUME UNCHANGED <<file, archive, late, spoiled>>
    PROVE  /\ \A id : Kept(id)' <=> Kept(id)
           /\ Filed' = Filed /\ Archives' = Archives /\ Minutes!ArchivedMonths' = Minutes!ArchivedMonths
           /\ FileBesideArchive => FileBesideArchive'
  <1>1. Filed' = Filed /\ Archives' = Archives /\ Minutes!ArchivedMonths' = Minutes!ArchivedMonths
    BY DEF Filed, Archives, Minutes!Readable, Minutes!RowsIn, Minutes!ArchivedMonths
  <1>2. \A id : Kept(id)' <=> Kept(id)
    BY DEF Kept, Minutes!OnRecord, Minutes!Readable, Minutes!RowsIn, Minutes!SamplesIn
  <1>3. FileBesideArchive => FileBesideArchive'
    BY <1>1 DEF FileBesideArchive, Minutes!MonthOf, Minutes!SamplesIn
  <1> QED BY <1>1, <1>2, <1>3

(* Nothing the process has in memory or on disk changes.                         *)
LEMMA MemoryStands ==
    ASSUME MinuteInv, Onward, UNCHANGED <<up, open, lastWritten, file, archive, late, spoiled>>
    PROVE  FileInPlace' /\ ArchiveInPlace' /\ FileBesideArchive' /\ OpenInPlace' /\ Running'
  <1>1. /\ FileInPlace' /\ ArchiveInPlace' /\ FileBesideArchive' /\ Filed' = Filed
        /\ Minutes!ArchivedMonths' = Minutes!ArchivedMonths
    BY FileStays, ArchiveStays, RecordStands DEF MinuteInv
  <1>2. MinuteType /\ open \in [Minutes!Minutes -> SUBSET SampleIds] /\ lastWritten \in Minutes!Minutes \cup {-1}
    BY DEF MinuteInv, MinuteType
  <1>3. OpenInPlace'
    <2>1. \A m \in Minutes!Minutes : \A id \in open[m] : LiesAt(id, m)'
      BY <1>2, PlacesStay DEF MinuteInv, OpenInPlace
    <2> QED BY <2>1 DEF MinuteInv, OpenInPlace, Minutes!Minutes
  <1>4. Running'
    <2>1. lastWritten # -1 => lastWritten \in Nat
      BY <1>2, MinutesAre
    <2>2. up /\ lastWritten # -1 => FoundOver(lastWritten)
      BY DEF MinuteInv, Running
    <2>3. up /\ lastWritten # -1 => FoundOver(lastWritten)'
      BY <1>2, <2>1, <2>2, PlacesStay DEF FoundOver
    <2> QED BY <1>1, <2>3 DEF MinuteInv, Running, Minutes!MonthOf
  <1> QED BY <1>1, <1>3, <1>4

(* A sample seen before is reached by no step that files nothing.                *)
LEMMA ReachedStands ==
    ASSUME MinuteInv, Onward, UNCHANGED <<up, lastWritten, file, archive, late, spoiled, lags>>,
           NEW id \in SampleIds, Seen(id)
    PROVE  (Reached(id) /\ ~Minutes!Astride(id) => Kept(id)) => (Reached(id) /\ ~Minutes!Astride(id) => Kept(id))'
  <1>1. MinuteType
    BY DEF MinuteInv
  <1>2. /\ \A l : Minutes!PlaceAt(id, l)' = Minutes!PlaceAt(id, l)
        /\ Minutes!Astride(id) => Minutes!Astride(id)'
    BY <1>1, PlacesStay
  <1>3. Filed' = Filed /\ (Kept(id)' <=> Kept(id))
    BY RecordStands
  <1>4. Reached(id)' <=> Reached(id)
    BY <1>2, <1>3 DEF Reached
  <1> QED BY <1>2, <1>3, <1>4

(* What a series knows goes on being so, while a poll waits, ends or begins.     *)
LEMMA SeriesStands ==
    ASSUME MinuteType, Onward, boot <= boot', boot' \in Nat,
           (reply' = reply) \/ (reply' = None) \/ reply' = [boot |-> boot, count |-> count, at |-> now],
           NEW h \in HeldSeries, SeriesKnows(h)
    PROVE  SeriesKnows(h)'
  <1>1. /\ h.newest \in Int /\ h.lag \in Nat /\ h.counter \in Nat /\ h.ids \subseteq SampleIds
        /\ now \in Nat /\ now' \in Nat /\ now <= now' /\ boot \in Nat
    BY RecorderIsSized DEF MinuteType, HeldSeries, Onward
  <1>2. h.newest <= 4 * now + h.lag
    BY DEF SeriesKnows
  <1>3. h.newest <= 4 * now' + h.lag
    BY <1>1, <1>2
  <1>4. reply' # None => h.newest <= 4 * reply'.at + h.lag
    BY <1>1, <1>2 DEF SeriesKnows
  <1>5. ASSUME NEW id \in h.ids
        PROVE  /\ Seen(id)' /\ Minutes!Moment(id)' + h.lag <= h.newest /\ 0 < h.newest
               /\ id.boot = boot' /\ h.counter > 0 => id.k < h.counter
               /\ reply' # None /\ id.boot = reply'.boot /\ h.counter > 0 => id.k < h.counter
    <2>1. /\ Seen(id) /\ Minutes!Moment(id) + h.lag <= h.newest /\ 0 < h.newest
          /\ id.boot = boot /\ h.counter > 0 => id.k < h.counter
          /\ reply # None /\ id.boot = reply.boot /\ h.counter > 0 => id.k < h.counter
      BY DEF SeriesKnows
    <2>2. Seen(id)' /\ Minutes!Moment(id)' = Minutes!Moment(id) /\ id.boot \in Nat
      BY <1>1, <2>1, PlacesAre DEF Onward
    <2>3. id.boot = boot' => id.boot = boot
      BY <1>1, <2>1, <2>2 DEF Seen
    <2> QED BY <2>1, <2>2, <2>3
  <1> QED BY <1>3, <1>4, <1>5 DEF SeriesKnows

(* The dish writes a sample, is slow to begin, or starts over.                   *)
LEMMA DishStepsOn ==
    ASSUME MinuteInv, Minutes!Tick \/ Minutes!Reboot
    PROVE  /\ UNCHANGED minuteVars /\ Onward /\ MinuteType' /\ DishIsTimed'
           /\ boot <= boot' /\ boot' \in Nat
           /\ \/ boot' = boot + 1 /\ count' = 0
              \/ boot' = boot /\ now' = now + 1 /\ count' \in {0, count + 1} /\ (count > 0 => count' = count + 1)
                 /\ (count > 0 => first' = first) /\ (count' > 0 /\ count = 0 => first'[boot] = now')
  <1>1. /\ MinuteType /\ now \in 1 .. MaxRecorded + 1 /\ boot \in 0 .. MaxBoots
        /\ count \in 0 .. MaxRecorded + 1 /\ count <= now /\ first \in [0 .. MaxBoots -> Nat]
        /\ MaxRecorded \in Nat /\ MaxBoots \in Nat
    BY RecorderIsSized DEF MinuteInv, MinuteType
  <1>2. /\ UNCHANGED minuteVars
        /\ \/ /\ now < MaxRecorded /\ now' = now + 1 /\ boot' = boot
              /\ \/ count > 0 /\ count' = count + 1 /\ first' = first
                 \/ count = 0 /\ count' = 1 /\ first' = [first EXCEPT ![boot] = now']
                 \/ count = 0 /\ count' = 0 /\ first' = first
           \/ boot < MaxBoots /\ count > 0 /\ now' = now /\ boot' = boot + 1 /\ count' = 0 /\ first' = first
    BY DEF Minutes!Tick, Minutes!Reboot, Minutes!DishTick, Minutes!DishReboot, Minutes!process,
           Minutes!disk, Minutes!history, minuteVars
  <1>3. /\ now' \in 1 .. MaxRecorded + 1 /\ now <= now' /\ boot' \in 0 .. MaxBoots /\ boot <= boot'
        /\ count' \in 0 .. MaxRecorded + 1 /\ count' <= now'
    BY <1>1, <1>2
  <1>4. first' \in [0..MaxBoots -> Nat]
    BY <1>1, <1>2, <1>3
  <1>5. MinuteType'
    BY <1>1, <1>2, <1>3, <1>4 DEF MinuteType, minuteVars, Minutes!Minutes, SampleIds, Minutes!Ids, Minutes!Boots
  <1>6. ASSUME NEW id \in SampleIds, Seen(id)
        PROVE  Seen(id)' /\ Minutes!Moment(id)' = Minutes!Moment(id)
    <2>1. id.boot \in 0 .. MaxBoots /\ id.k \in Nat
      BY <1>1, PlacesAre
    <2>2. Seen(id)'
      <3>1. CASE id.boot < boot
        BY <1>1, <1>2, <2>1, <3>1 DEF Seen
      <3>2. CASE id.boot = boot /\ id.k < count
        BY <1>1, <1>2, <2>1, <3>2 DEF Seen
      <3> QED BY <1>6, <3>1, <3>2 DEF Seen
    <2>3. first'[id.boot] = first[id.boot]
      <3>1. CASE first' = first
        BY <3>1
      <3>2. CASE count = 0 /\ first' = [first EXCEPT ![boot] = now']
        <4>1. id.boot # boot
          BY <1>6, <2>1, <3>2 DEF Seen
        <4> QED BY <1>1, <2>1, <3>2, <4>1
      <3> QED BY <1>2, <3>1, <3>2
    <2> QED BY <2>2, <2>3 DEF Minutes!Moment, Minutes!Second
  <1>7. Onward
    BY <1>1, <1>2, <1>3, <1>6 DEF Onward, MinuteType, minuteVars
  <1>8. DishIsTimed'
    <2>1. CASE count > 0 /\ count' = count + 1 /\ first' = first /\ now' = now + 1 /\ boot' = boot
      <3>1. first[boot] + count = now + 1 /\ first[boot] \in Nat
        BY <1>1, <2>1 DEF MinuteInv, DishIsTimed
      <3> QED BY <1>1, <2>1, <3>1 DEF DishIsTimed
    <2>2. CASE count' = 1 /\ first' = [first EXCEPT ![boot] = now'] /\ boot' = boot
      <3>1. first'[boot'] = now'
        BY <1>1, <2>2
      <3> QED BY <1>3, <2>2, <3>1 DEF DishIsTimed
    <2>3. CASE count' = 0
      BY <2>3 DEF DishIsTimed
    <2> QED BY <1>2, <2>1, <2>2, <2>3
  <1>9. \/ boot' = boot + 1 /\ count' = 0
        \/ boot' = boot /\ now' = now + 1 /\ count' \in {0, count + 1} /\ (count > 0 => count' = count + 1)
           /\ (count > 0 => first' = first) /\ (count' > 0 /\ count = 0 => first'[boot] = now')
    BY <1>1, <1>2
  <1> QED BY <1>2, <1>3, <1>5, <1>7, <1>8, <1>9

(* The answer a poll holds ages.                                                 *)
LEMMA ReplyAges ==
    ASSUME MinuteInv, Minutes!Tick \/ Minutes!Reboot
    PROVE  ReplyInLife'
  <1> SUFFICES ASSUME reply # None PROVE up /\ RingType(reply)'
    BY DishStepsOn DEF ReplyInLife, minuteVars, RingType
  <1>1. /\ up /\ reply.boot \in 0 .. MaxBoots /\ reply.boot <= boot
        /\ reply.count \in 0 .. MaxRecorded + 1 /\ reply.at \in Nat \ {0} /\ reply.at <= now
        /\ reply.count > 0 => first[reply.boot] + reply.count = reply.at + 1
        /\ reply.boot = boot => reply.count <= count
        /\ (reply.boot # boot \/ reply.count = 0) /\ count > 0 => reply.at < first[boot]
    BY DEF MinuteInv, ReplyInLife, RingType
  <1>2. /\ now \in Nat /\ boot \in Nat /\ count \in Nat /\ now' \in Nat /\ boot' \in Nat /\ now <= now'
        /\ boot <= boot' /\ MaxRecorded \in Nat /\ MaxBoots \in Nat /\ reply' = reply
        /\ first \in [0..MaxBoots -> Nat]
    BY DishStepsOn, RecorderIsSized DEF MinuteInv, MinuteType, Onward, minuteVars
  <1>3. reply.boot <= boot' /\ reply.at <= now'
    BY <1>1, <1>2
  <1>4. reply.count > 0 => first'[reply.boot] + reply.count = reply.at + 1
    <2> SUFFICES ASSUME reply.count > 0 PROVE first'[reply.boot] = first[reply.boot]
      BY <1>1
    <2>1. PICK id \in SampleIds : id.boot = reply.boot /\ id.k = 0
      <3>1. [boot |-> reply.boot, k |-> 0] \in SampleIds
        BY <1>1, <1>2 DEF SampleIds, Minutes!Ids, Minutes!Boots
      <3> QED BY <3>1
    <2>2. Seen(id)
      BY <1>1, <1>2, <2>1 DEF Seen
    <2>3. Minutes!Moment(id)' = Minutes!Moment(id)
      BY <2>1, <2>2, DishStepsOn DEF Onward
    <2>4. Minutes!Moment(id) = 4 * (first[reply.boot] + 0) /\ Minutes!Moment(id)' = 4 * (first'[reply.boot] + 0)
      BY <2>1 DEF Minutes!Moment, Minutes!Second
    <2>5. first[reply.boot] \in Nat /\ first'[reply.boot] \in Nat
      BY <1>1, DishStepsOn DEF MinuteInv, MinuteType
    <2> QED BY <2>3, <2>4, <2>5
  <1>5. reply.boot = boot' => reply.count <= count'
    BY <1>1, <1>2, DishStepsOn
  <1>6. (reply.boot # boot' \/ reply.count = 0) /\ count' > 0 => reply.at < first'[boot']
    <2> SUFFICES ASSUME (reply.boot # boot') \/ reply.count = 0, count' > 0 PROVE reply.at < first'[boot']
      OBVIOUS
    <2>1. boot' = boot /\ now' = now + 1
      BY DishStepsOn
    <2>2. CASE count > 0
      <3>1. first' = first
        BY <2>1, <2>2, <1>2, DishStepsOn
      <3> QED BY <1>1, <2>1, <2>2, <3>1
    <2>3. CASE count = 0
      <3>1. first'[boot] = now'
        BY <2>1, <2>3, <1>2, DishStepsOn
      <3> QED BY <1>1, <1>2, <2>1, <3>1
    <2> QED BY <1>2, <2>2, <2>3
  <1> QED BY <1>1, <1>2, <1>3, <1>4, <1>5, <1>6 DEF RingType

(* A sample just written has been reached by no poll.                            *)
LEMMA NewestIsNotReached ==
    ASSUME MinuteType', Running', FileInPlace', NEW id \in SampleIds, Minutes!Moment(id)' = 4 * now',
           ~Minutes!Astride(id)'
    PROVE  ~Reached(id)'
  <1> SUFFICES ASSUME Reached(id)' PROVE FALSE
    OBVIOUS
  <1>1. now' \in Nat /\ lags' \subseteq Nat /\ lastWritten' \in Minutes!Minutes \cup {-1}
    BY DEF MinuteType, Minutes!Minutes
  <1>2. PICK l \in lags' : \/ up' /\ Minutes!PlaceAt(id, l)' <= lastWritten'
                           \/ \E r \in Filed' : Minutes!PlaceAt(id, l)' <= r.minute
    BY DEF Reached
  <1>3. \A b \in lags' : /\ Minutes!PlaceAt(id, b)' = Minutes!MinuteOf(4 * now' + b, MinuteLen)
                         /\ Minutes!PlaceAt(id, b)' \in Nat
    <2> TAKE b \in lags'
    <2>1. Minutes!PlaceAt(id, b)' = Minutes!MinuteOf(4 * now' + b, MinuteLen)
      BY DEF Minutes!PlaceAt, Minutes!MinuteOf, Minutes!Second
    <2>2. b \in Nat /\ 4 * now' + b \in Nat
      BY <1>1, StampsAre
    <2> QED BY <2>1, <2>2, MinutesGrow
  <1>4. ASSUME NEW m \in Nat, FoundOver(m)', Minutes!PlaceAt(id, l)' <= m PROVE FALSE
    <2>1. PICK b \in lags' : m < Minutes!MinuteOf(4 * now' + b, MinuteLen)
      BY <1>4 DEF FoundOver, Minutes!MinuteOf
    <2>2. Minutes!PlaceAt(id, b)' = Minutes!PlaceAt(id, l)'
      BY DEF Minutes!Astride
    <2> QED BY <1>3, <1>4, <2>1, <2>2
  <1>5. CASE up' /\ Minutes!PlaceAt(id, l)' <= lastWritten'
    <2>1. lastWritten' \in Nat
      BY <1>1, <1>3, <1>5, MinutesAre
    <2>2. FoundOver(lastWritten)'
      BY <1>5, <2>1 DEF Running
    <2> QED BY <1>4, <1>5, <2>1, <2>2 DEF FoundOver
  <1>6. ASSUME NEW r \in Filed', Minutes!PlaceAt(id, l)' <= r.minute PROVE FALSE
    <2>1. file' \in Logs(MinuteRows)
      BY DEF MinuteType, Logs, MinuteRows, Minutes!Minutes, SampleIds, Minutes!Ids, Minutes!Boots
    <2>2. r.minute \in Nat
      BY <2>1, RowsReadAre DEF Filed, Minutes!Readable, Minutes!RowsIn
    <2>3. FoundOver(r.minute)'
      BY DEF FileInPlace
    <2> QED BY <1>4, <1>6, <2>2, <2>3 DEF FoundOver
  <1> QED BY <1>2, <1>5, <1>6

LEMMA SeenInRing ==
    ASSUME MinuteType, NEW ring, RingType(ring), NEW id \in SampleIds, RingHolds(ring, id)
    PROVE  Seen(id)
  <1>1. id.k \in Nat
    BY PlacesAre
  <1>2. count \in Nat /\ boot \in Nat /\ ring.count \in Nat /\ ring.boot \in Nat
    BY RecorderIsSized DEF MinuteType, RingType
  <1> QED BY <1>1, <1>2 DEF RingType, RingHolds, Seen

LEMMA RecordOutlivesTheDish ==
    ASSUME MinuteInv, Minutes!Tick \/ Minutes!Reboot
    PROVE  MinuteInv'
  <1>1. /\ UNCHANGED minuteVars /\ Onward /\ MinuteType' /\ DishIsTimed' /\ boot <= boot' /\ boot' \in Nat
        /\ reply' = reply
    BY DishStepsOn DEF minuteVars
  <1>2. ReplyInLife'
    BY ReplyAges
  <1>3. FileInPlace' /\ ArchiveInPlace' /\ FileBesideArchive' /\ OpenInPlace' /\ Running'
    BY <1>1, MemoryStands DEF minuteVars
  <1>4. ASSUME NEW id \in SampleIds, Seen(id), Reached(id) /\ ~Minutes!Astride(id) => Kept(id)
        PROVE  Reached(id)' /\ ~Minutes!Astride(id)' => Kept(id)'
    BY <1>1, <1>4, ReachedStands DEF minuteVars
  <1>5. Backfilled(Minutes!Ring)'
    <2> SUFFICES ASSUME NEW id \in SampleIds, RingHolds(Minutes!Ring, id)', Reached(id)', ~Minutes!Astride(id)'
                 PROVE  Kept(id)'
      BY DEF Backfilled, SampleIds, Minutes!Ids, Minutes!Boots
    <2>1. id.boot = boot' /\ id.k < count' /\ count' <= id.k + RingSize /\ id.k \in Nat
      BY PlacesAre DEF MinuteInv, RingHolds, Minutes!Ring
    <2>2. count \in Nat /\ RingSize \in Nat /\ boot \in Nat
      BY RecorderIsSized DEF MinuteInv, MinuteType
    <2>3. boot' = boot /\ count' = count + 1
      BY <2>1, <2>2, DishStepsOn
    <2>4. CASE id.k < count
      <3>1. RingHolds(Minutes!Ring, id) /\ Seen(id)
        BY <2>1, <2>2, <2>3, <2>4 DEF RingHolds, Minutes!Ring, Seen
      <3> QED BY <1>4, <3>1 DEF MinuteInv, Backfilled
    <2>5. CASE ~(id.k < count)
      <3>1. id.k + 1 = count'
        BY <2>1, <2>2, <2>3, <2>5
      <3>2. first'[boot'] + count' = now' + 1
        BY <1>1, <2>1, <2>2, <2>3 DEF DishIsTimed
      <3>3. first'[boot'] \in Nat /\ now' \in Nat
        BY <1>1, RecorderIsSized DEF MinuteType
      <3>4. first'[boot'] + id.k = now'
        BY <2>1, <3>1, <3>2, <3>3
      <3>5. Minutes!Moment(id)' = 4 * now'
        BY <2>1, <3>4 DEF Minutes!Moment, Minutes!Second
      <3> QED BY <1>1, <1>3, <3>5, NewestIsNotReached
    <2> QED BY <2>4, <2>5
  <1>6. reply # None => Backfilled(reply)'
    <2> SUFFICES ASSUME reply # None, NEW id \in SampleIds, RingHolds(reply, id), Reached(id)', ~Minutes!Astride(id)'
                 PROVE  Kept(id)'
      BY <1>1 DEF Backfilled, SampleIds, Minutes!Ids, Minutes!Boots, RingHolds
    <2>1. RingType(reply) /\ MinuteType
      BY DEF MinuteInv, ReplyInLife
    <2>2. Seen(id)
      BY <2>1, SeenInRing
    <2> QED BY <1>4, <2>2 DEF MinuteInv, Backfilled
  <1>7. SeriesKnows(held)' /\ SeriesKnows(snapshot)'
    <2>1. held \in HeldSeries /\ snapshot \in HeldSeries /\ held' = held /\ snapshot' = snapshot /\ MinuteType
      BY <1>1 DEF MinuteInv, MinuteType, minuteVars
    <2>2. \A h \in HeldSeries : SeriesKnows(h) => SeriesKnows(h)'
      BY <1>1, <2>1, SeriesStands
    <2> QED BY <2>1, <2>2 DEF MinuteInv, SeriesKnows
  <1>8. doubled' \subseteq astray'
    BY <1>1 DEF Minutes!Tick, Minutes!Reboot, Minutes!history, MinuteInv
  <1> QED BY <1>1, <1>2, <1>3, <1>5, <1>6, <1>7, <1>8 DEF MinuteInv

LEMMA StandingIsOnward ==
    ASSUME MinuteType, UNCHANGED <<now, boot, count, first>>, lags \subseteq lags', lags' \subseteq Nat
    PROVE  /\ Onward /\ \A id : Seen(id)' <=> Seen(id)
           /\ boot <= boot' /\ boot' \in Nat
  <1>1. now \in Nat /\ boot \in Nat
    BY RecorderIsSized DEF MinuteType
  <1>2. \A id : (Seen(id)' <=> Seen(id)) /\ Minutes!Moment(id)' = Minutes!Moment(id)
    BY DEF Seen, Minutes!Moment, Minutes!Second
  <1> QED BY <1>1, <1>2 DEF Onward

(* A poll asks the dish, a snapshot is taken, or nothing happens here.           *)
LEMMA RecorderStands ==
    ASSUME MinuteInv, Minutes!Fetch \/ Minutes!Snapshot \/ UNCHANGED <<dish, minuteVars>>
    PROVE  MinuteInv' /\ UNCHANGED <<file, archive, late, spoiled>>
  <1>1. /\ UNCHANGED <<now, boot, count, first, up, open, lastWritten, held, file, archive, late, spoiled,
                       doubled, astray, lags>>
        /\ \/ reply' = reply /\ snapshot' \in {snapshot, [held EXCEPT !.counter = 0]}
           \/ up /\ reply' = Minutes!Ring /\ snapshot' = snapshot
    BY DEF Minutes!Fetch, Minutes!Snapshot, Minutes!dish, Minutes!process, Minutes!disk, Minutes!history,
           dish, minuteVars
  <1>2. MinuteType /\ lags \subseteq Nat /\ held \in HeldSeries /\ snapshot \in HeldSeries
    BY DEF MinuteInv, MinuteType
  <1>3. Onward /\ boot <= boot' /\ boot' \in Nat
    BY <1>1, <1>2, StandingIsOnward
  <1>4. FileInPlace' /\ ArchiveInPlace' /\ FileBesideArchive' /\ OpenInPlace' /\ Running'
    BY <1>1, <1>3, MemoryStands
  <1>5. snapshot' \in HeldSeries
    BY <1>1, <1>2 DEF HeldSeries
  <1>6. MinuteType'
    BY <1>1, <1>2, <1>5 DEF MinuteType, Minutes!Minutes, SampleIds, Minutes!Ids, Minutes!Boots
  <1>7. Minutes!Ring = [boot |-> boot, count |-> count, at |-> now] /\ Minutes!Ring' = Minutes!Ring
    BY <1>1 DEF Minutes!Ring
  <1>8. ReplyInLife'
    <2>1. \A ring : RingType(ring)' <=> RingType(ring)
      BY <1>1 DEF RingType
    <2>2. RingType(Minutes!Ring)
      <3>1. now \in Nat \ {0} /\ count \in 0 .. MaxRecorded + 1 /\ boot \in 0 .. MaxBoots /\ count \in Nat
        BY <1>2, RecorderIsSized DEF MinuteType
      <3>2. count > 0 => first[boot] + count = now + 1
        BY DEF MinuteInv, DishIsTimed
      <3> QED BY <1>7, <3>1, <3>2, RecorderIsSized DEF RingType
    <2>3. CASE reply' = reply
      BY <1>1, <2>1, <2>3 DEF MinuteInv, ReplyInLife, RingType
    <2>4. CASE up /\ reply' = Minutes!Ring
      BY <1>1, <2>1, <2>2, <2>4 DEF ReplyInLife, RingType, Minutes!Ring
    <2> QED BY <1>1, <2>3, <2>4
  <1>9. ASSUME NEW ring, Backfilled(ring), \A id \in SampleIds : RingHolds(ring, id) => Seen(id)
        PROVE  \A id \in SampleIds : RingHolds(ring, id) /\ Reached(id)' /\ ~Minutes!Astride(id)' => Kept(id)'
    <2> SUFFICES ASSUME NEW id \in SampleIds, RingHolds(ring, id)
                 PROVE  (Reached(id) /\ ~Minutes!Astride(id) => Kept(id))'
      OBVIOUS
    <2>1. Seen(id) /\ (Reached(id) /\ ~Minutes!Astride(id) => Kept(id))
      BY <1>9 DEF Backfilled
    <2> QED BY <1>1, <1>3, <2>1, ReachedStands
  <1>10. \A id \in SampleIds : RingHolds(Minutes!Ring, id) => Seen(id)
    BY <1>7 DEF RingHolds, Seen
  <1>11. reply # None => \A id \in SampleIds : RingHolds(reply, id) => Seen(id)
    BY SeenInRing DEF MinuteInv, ReplyInLife
  <1>12. Backfilled(Minutes!Ring)'
    <2>1. \A id \in SampleIds :
             RingHolds(Minutes!Ring, id) /\ Reached(id)' /\ ~Minutes!Astride(id)' => Kept(id)'
      BY <1>9, <1>10 DEF MinuteInv
    <2> QED BY <1>1, <2>1 DEF Backfilled, RingHolds, Minutes!Ring, SampleIds, Minutes!Ids, Minutes!Boots
  <1>13. reply' # None => Backfilled(reply)'
    <2> SUFFICES ASSUME reply' # None, NEW id \in SampleIds, RingHolds(reply', id), Reached(id)', ~Minutes!Astride(id)'
                 PROVE  Kept(id)'
      BY DEF Backfilled, RingHolds, SampleIds, Minutes!Ids, Minutes!Boots
    <2>1. CASE reply' = Minutes!Ring
      BY <1>9, <1>10, <2>1 DEF MinuteInv
    <2>2. CASE reply' = reply
      BY <1>9, <1>11, <2>2 DEF MinuteInv
    <2> QED BY <1>1, <2>1, <2>2
  <1>14. SeriesKnows(held)' /\ SeriesKnows(snapshot)'
    <2>1. \A h \in HeldSeries : SeriesKnows(h) => SeriesKnows(h)'
      BY <1>1, <1>2, <1>3, <1>7, SeriesStands
    <2>2. SeriesKnows(held) /\ SeriesKnows(snapshot)
      BY DEF MinuteInv
    <2>3. SeriesKnows([held EXCEPT !.counter = 0]) /\ [held EXCEPT !.counter = 0] \in HeldSeries
      BY <1>2, <2>2 DEF SeriesKnows, HeldSeries
    <2>4. SeriesKnows(held)'
      BY <1>1, <1>2, <2>1, <2>2 DEF SeriesKnows
    <2>5. SeriesKnows(snapshot)'
      <3>1. snapshot' \in HeldSeries /\ SeriesKnows(snapshot')
        BY <1>1, <1>5, <2>2, <2>3
      <3> DEFINE kept == snapshot'
      <3>2. PICK h \in HeldSeries : h = snapshot' /\ SeriesKnows(h)
        BY <3>1
      <3>3. SeriesKnows(h)'
        BY <2>1, <3>2
      <3> QED BY <3>2, <3>3 DEF SeriesKnows
    <2> QED BY <2>4, <2>5
  <1>15. DishIsTimed' /\ doubled' \subseteq astray'
    BY <1>1 DEF MinuteInv, DishIsTimed
  <1> QED BY <1>1, <1>4, <1>6, <1>8, <1>12, <1>13, <1>14, <1>15 DEF MinuteInv

(* The process ends, wherever it was: what is kept is what the files hold.       *)
LEMMA ProcessEnds ==
    ASSUME MinuteInv, Minutes!Down, UNCHANGED <<now, boot, count, first, snapshot>>,
           lags \subseteq lags', lags' \subseteq Nat, doubled' \subseteq astray',
           file' \in Logs(MinuteRows), archive' \in Logs(MonthRows),
           FileInPlace', ArchiveInPlace', FileBesideArchive',
           \A id \in SampleIds :
              /\ RingHolds(Minutes!Ring, id) /\ ~Minutes!Astride(id)'
              /\ \E l \in lags', r \in Filed' : Minutes!PlaceAt(id, l) <= r.minute
              => Kept(id)'
    PROVE  MinuteInv'
  <1>1. /\ up' = FALSE /\ reply' = None /\ open' = [m \in Minutes!Minutes |-> {}] /\ lastWritten' = -1
        /\ held' = [counter |-> 0, newest |-> 0, lag |-> 0, ids |-> {}]
    BY DEF Minutes!Down, Minutes!NoSeries
  <1>2. MinuteType /\ snapshot \in HeldSeries /\ SeriesKnows(snapshot)
    BY DEF MinuteInv, MinuteType
  <1>3. Onward /\ boot <= boot' /\ boot' \in Nat
    BY <1>2, StandingIsOnward
  <1>4. MinuteType'
    <2>1. held' \in HeldSeries
      BY <1>1 DEF HeldSeries
    <2> QED BY <1>1, <1>2, <2>1 DEF MinuteType, Minutes!Minutes, SampleIds, Minutes!Ids, Minutes!Boots
  <1>5. OpenInPlace' /\ Running' /\ ReplyInLife'
    BY <1>1 DEF OpenInPlace, Running, ReplyInLife
  <1>6. SeriesKnows(held)'
    <2>1. now' \in Nat /\ 0 <= 4 * now' + 0
      BY <1>3 DEF Onward
    <2> QED BY <1>1, <2>1 DEF SeriesKnows
  <1>7. SeriesKnows(snapshot)'
    <2>1. \A h \in HeldSeries : SeriesKnows(h) => SeriesKnows(h)'
      BY <1>1, <1>2, <1>3, SeriesStands
    <2> QED BY <1>2, <2>1 DEF SeriesKnows
  <1>8. Backfilled(Minutes!Ring)'
    <2>1. \A id, l : Minutes!PlaceAt(id, l)' = Minutes!PlaceAt(id, l)
      BY DEF Minutes!PlaceAt, Minutes!MinuteOf, Minutes!Moment, Minutes!Second
    <2> SUFFICES ASSUME NEW id \in SampleIds, RingHolds(Minutes!Ring, id), Reached(id)', ~Minutes!Astride(id)'
                 PROVE  Kept(id)'
      BY DEF Backfilled, RingHolds, Minutes!Ring, SampleIds, Minutes!Ids, Minutes!Boots
    <2>2. \E l \in lags', r \in Filed' : Minutes!PlaceAt(id, l) <= r.minute
      BY <1>1, <2>1 DEF Reached
    <2> QED BY <2>2
  <1>9. DishIsTimed'
    BY DEF MinuteInv, DishIsTimed
  <1> QED BY <1>1, <1>4, <1>5, <1>6, <1>7, <1>8, <1>9 DEF MinuteInv

LEMMA ProcessIsKilled ==
    ASSUME MinuteInv, Minutes!Kill
    PROVE  MinuteInv' /\ UNCHANGED <<file, archive, late, spoiled>>
  <1>1. /\ Minutes!Down /\ UNCHANGED <<now, boot, count, first, file, archive, snapshot, late, spoiled, doubled,
                                       astray, lags>>
    BY DEF Minutes!Kill, Minutes!Killed, Minutes!dish, Minutes!disk, Minutes!history
  <1>2. MinuteType /\ lags \subseteq Nat /\ file' \in Logs(MinuteRows) /\ archive' \in Logs(MonthRows)
    BY <1>1 DEF MinuteInv, MinuteType
  <1>3. Onward
    BY <1>1, <1>2, StandingIsOnward
  <1>4. FileInPlace' /\ ArchiveInPlace' /\ FileBesideArchive' /\ Filed' = Filed
        /\ \A id : Kept(id)' <=> Kept(id)
    BY <1>1, <1>3, FileStays, ArchiveStays, RecordStands DEF MinuteInv
  <1>5. ASSUME NEW id \in SampleIds, RingHolds(Minutes!Ring, id), ~Minutes!Astride(id)',
               NEW l \in lags', NEW r \in Filed', Minutes!PlaceAt(id, l) <= r.minute
        PROVE  Kept(id)'
    <2>1. l \in lags /\ Reached(id)
      BY <1>1, <1>4, <1>5 DEF Reached
    <2>2. Seen(id)
      BY <1>5 DEF RingHolds, Minutes!Ring, Seen
    <2>3. ~Minutes!Astride(id)
      BY <1>2, <1>3, <1>5, <2>2, PlacesStay
    <2> QED BY <1>4, <1>5, <2>1, <2>3 DEF MinuteInv, Backfilled
  <1>6. doubled' \subseteq astray'
    BY <1>1 DEF MinuteInv
  <1>7. MinuteInv'
    BY <1>1, <1>2, <1>4, <1>5, <1>6, ProcessEnds
  <1> QED BY <1>1, <1>7

LEMMA HighestIs ==
    ASSUME NEW S \in SUBSET Int, S # {}, NEW b \in Int, \A x \in S : x <= b
    PROVE  Minutes!Max(S) \in S /\ \A x \in S : x <= Minutes!Max(S)
  <1> DEFINE T == { b - x : x \in S }
  <1>1. T \in SUBSET Nat /\ T # {}
    <2>1. \A x \in S : b - x \in Nat
      OBVIOUS
    <2> QED BY <2>1
  <1>2. PICK t \in T : \A u \in T : t <= u
    BY <1>1, LeastIs
  <1>3. PICK y \in S : t = b - y
    BY <1>2
  <1>4. \A x \in S : y >= x
    <2> TAKE x \in S
    <2>1. b - x \in T
      OBVIOUS
    <2> QED BY <1>2, <1>3, <2>1
  <1>5. Minutes!Max(S) \in S /\ \A x \in S : Minutes!Max(S) >= x
    BY <1>3, <1>4 DEF Minutes!Max
  <1> QED BY <1>5

(* What a poll decodes of the answer it holds, and under which minute.           *)
LEMMA PollLagIs ==
    ASSUME MinuteInv, reply # None, NEW phase \in PollPhases
    PROVE  LET l == Minutes!Lag(phase) IN
           /\ l \in Nat /\ phase \in Nat /\ reply.at \in Nat \ {0} /\ reply.at <= now /\ now \in Nat
           /\ 4 * reply.at + l \in Nat /\ now * 4 + phase = 4 * reply.at + l
           /\ Minutes!Current(phase) = Minutes!MinuteOf(4 * reply.at + l, MinuteLen)
           /\ Minutes!Current(phase) \in Nat
  <1>1. now \in Nat /\ reply.at \in Nat \ {0} /\ reply.at <= now
    BY DEF MinuteInv, MinuteType, ReplyInLife, RingType
  <1>2. phase \in Nat
    BY RecorderIsSized
  <1>3. Minutes!Lag(phase) = (now - reply.at) * 4 + phase
    BY DEF Minutes!Lag, Minutes!Second
  <1>4. (now - reply.at) * 4 + phase \in Nat /\ now * 4 + phase = 4 * reply.at + ((now - reply.at) * 4 + phase)
        /\ now * 4 + phase \in Nat
    BY <1>1, <1>2
  <1>5. Minutes!Current(phase) = Minutes!MinuteOf(now * 4 + phase, MinuteLen)
    BY DEF Minutes!Current, Minutes!Second
  <1>6. Minutes!Current(phase) \in Nat
    BY <1>4, <1>5, MinutesGrow
  <1> QED BY <1>1, <1>2, <1>3, <1>4, <1>5, <1>6

LEMMA RingIs ==
    ASSUME MinuteInv, reply # None, NEW phase \in PollPhases
    PROVE  LET w == Minutes!Decoded(phase)
               l == Minutes!Lag(phase) IN
           /\ w.count = reply.count /\ w.lag = l
           /\ \A s \in w.samples :
                 LET id == Minutes!Identity(s) IN
                 /\ id \in SampleIds /\ id.boot = reply.boot /\ id.k = s.k /\ RingHolds(reply, id) /\ Seen(id)
                 /\ s.stamp = Minutes!Moment(id) + l
                 /\ s.stamp = 4 * reply.at + l - 4 * (reply.count - 1 - s.k)
                 /\ Minutes!MinuteOf(s.stamp, MinuteLen) = Minutes!PlaceAt(id, l)
           /\ \A id \in SampleIds : RingHolds(reply, id) => \E s \in w.samples : Minutes!Identity(s) = id
  <1> DEFINE w == Minutes!Decoded(phase)
             l == Minutes!Lag(phase)
  <1>1. /\ MinuteType /\ RingType(reply) /\ l \in Nat
    BY PollLagIs DEF MinuteInv, ReplyInLife
  <1>2. /\ reply.boot \in 0 .. MaxBoots /\ reply.boot \in Nat /\ reply.count \in 0 .. MaxRecorded + 1
        /\ reply.count \in Nat /\ reply.at \in Nat /\ boot \in Nat /\ count \in Nat
        /\ first[reply.boot] \in Nat /\ RingSize \in Nat /\ MaxRecorded \in Nat
    BY <1>1, RecorderIsSized DEF MinuteType, RingType
  <1> HIDE DEF l
  <1>3. w = Minutes!Stamped(reply, l)
    BY DEF Minutes!Decoded, l
  <1>4. w.count = reply.count /\ w.lag = l
    BY <1>3 DEF Minutes!Stamped
  <1>5. ASSUME NEW s \in w.samples
        PROVE  LET id == Minutes!Identity(s) IN
               /\ id \in SampleIds /\ id.boot = reply.boot /\ id.k = s.k /\ RingHolds(reply, id) /\ Seen(id)
               /\ s.stamp = Minutes!Moment(id) + l
               /\ s.stamp = 4 * reply.at + l - 4 * (reply.count - 1 - s.k)
               /\ Minutes!MinuteOf(s.stamp, MinuteLen) = Minutes!PlaceAt(id, l)
    <2>1. PICK k \in 0..reply.count - 1 :
             /\ k >= reply.count - RingSize
             /\ s = [boot |-> reply.boot, k |-> k, stamp |-> (reply.at - (reply.count - 1 - k)) * 4 + l]
      BY <1>3, <1>5 DEF Minutes!Stamped, Minutes!Second
    <2> DEFINE id == Minutes!Identity(s)
    <2>2. id = [boot |-> reply.boot, k |-> k] /\ s.k = k /\ s.stamp = (reply.at - (reply.count - 1 - k)) * 4 + l
      BY <2>1 DEF Minutes!Identity
    <2>3. k \in Nat /\ k \in 0 .. MaxRecorded /\ k < reply.count /\ reply.count <= k + RingSize /\ reply.count > 0
      BY <1>2, <2>1
    <2>4. id \in SampleIds /\ id.boot = reply.boot /\ id.k = s.k
      BY <1>2, <2>2, <2>3 DEF SampleIds, Minutes!Ids, Minutes!Boots
    <2>5. RingHolds(reply, id)
      BY <2>2, <2>3 DEF RingHolds
    <2>6. Seen(id)
      BY <1>1, <2>4, <2>5, SeenInRing
    <2>7. Minutes!Moment(id) = 4 * (first[reply.boot] + k)
      BY <2>2 DEF Minutes!Moment, Minutes!Second
    <2>8. first[reply.boot] + reply.count = reply.at + 1
      BY <1>1, <2>3 DEF RingType
    <2>9. s.stamp = 4 * (first[reply.boot] + k) + l /\ s.stamp = 4 * reply.at + l - 4 * (reply.count - 1 - k)
      BY <1>1, <1>2, <2>2, <2>3, <2>8
    <2>10. s.stamp = Minutes!Moment(id) + l
      BY <2>7, <2>9
    <2>11. Minutes!MinuteOf(s.stamp, MinuteLen) = Minutes!PlaceAt(id, l)
      BY <2>10 DEF Minutes!PlaceAt
    <2> QED BY <2>2, <2>4, <2>5, <2>6, <2>9, <2>10, <2>11
  <1>6. ASSUME NEW id \in SampleIds, RingHolds(reply, id)
        PROVE  \E s \in w.samples : Minutes!Identity(s) = id
    <2> DEFINE s == [boot |-> reply.boot, k |-> id.k, stamp |-> (reply.at - (reply.count - 1 - id.k)) * 4 + l]
    <2>1. id.k \in Nat
      BY <1>1, PlacesAre
    <2>2. id.k \in 0 .. reply.count - 1 /\ id.k >= reply.count - RingSize
      BY <1>2, <1>6, <2>1 DEF RingHolds
    <2>3. s \in w.samples
      BY <1>3, <2>2 DEF Minutes!Stamped, Minutes!Second
    <2>4. id = [boot |-> reply.boot, k |-> id.k]
      BY <1>6 DEF RingHolds, SampleIds, Minutes!Ids
    <2>5. Minutes!Identity(s) = id
      BY <2>4 DEF Minutes!Identity
    <2> QED BY <2>3, <2>5
  <1> QED BY <1>4, <1>5, <1>6 DEF l

LEMMA InMinuteIs ==
    ASSUME MinuteInv, reply # None, NEW phase \in PollPhases, NEW m
    PROVE  /\ Minutes!InMinute(Minutes!Decoded(phase), m) \subseteq SampleIds
           /\ \A id \in SampleIds :
                 id \in Minutes!InMinute(Minutes!Decoded(phase), m) <=>
                    RingHolds(reply, id) /\ Minutes!PlaceAt(id, Minutes!Lag(phase)) = m
           /\ \A id \in Minutes!InMinute(Minutes!Decoded(phase), m) : Seen(id)
  <1> DEFINE w == Minutes!Decoded(phase)
             l == Minutes!Lag(phase)
  <1>1. ASSUME NEW id \in Minutes!InMinute(w, m)
        PROVE  id \in SampleIds /\ RingHolds(reply, id) /\ Minutes!PlaceAt(id, l) = m /\ Seen(id)
    <2>1. PICK s \in w.samples : Minutes!MinuteOf(s.stamp, MinuteLen) = m /\ id = Minutes!Identity(s)
      BY DEF Minutes!InMinute, Minutes!IdsOf
    <2> QED BY <2>1, RingIs
  <1>2. ASSUME NEW id \in SampleIds, RingHolds(reply, id), Minutes!PlaceAt(id, l) = m
        PROVE  id \in Minutes!InMinute(w, m)
    <2>1. PICK s \in w.samples : Minutes!Identity(s) = id
      BY <1>2, RingIs
    <2>2. Minutes!MinuteOf(s.stamp, MinuteLen) = Minutes!PlaceAt(id, l)
      BY <2>1, RingIs
    <2> QED BY <1>2, <2>1, <2>2 DEF Minutes!InMinute, Minutes!IdsOf
  <1> QED BY <1>1, <1>2

(* The buckets as a poll leaves them before it files the finished ones.          *)
LEMMA OpenedIs ==
    ASSUME MinuteInv, reply # None, NEW phase \in PollPhases
    PROVE  LET op == Minutes!Opened(Minutes!Decoded(phase))
               l  == Minutes!Lag(phase) IN
           /\ up /\ op \in [Minutes!Minutes -> SUBSET SampleIds]
           /\ \A m \in Minutes!Minutes : op[m] # {} => lastWritten < m
           /\ \A m \in Minutes!Minutes : \A id \in op[m] :
                 Seen(id) /\ \E b \in lags \cup {l} : Minutes!PlaceAt(id, b) = m
           /\ \A id \in SampleIds, m \in Minutes!Minutes :
                 RingHolds(reply, id) /\ Minutes!PlaceAt(id, l) = m /\ lastWritten < m => id \in op[m]
  <1> DEFINE w  == Minutes!Decoded(phase)
             l  == Minutes!Lag(phase)
             op == Minutes!Opened(w)
             Read(m) == Minutes!InMinute(w, m)
             Again(m) == m > lastWritten /\ Read(m) # {}
  <1>1. /\ open \in [Minutes!Minutes -> SUBSET SampleIds] /\ lastWritten \in Int /\ up
        /\ Minutes!Minutes \subseteq Int
    BY MinutesAre DEF MinuteInv, MinuteType, ReplyInLife
  <1>2. \A m \in Minutes!Minutes : op[m] = IF Again(m) THEN Read(m) ELSE open[m]
    BY DEF Minutes!Opened
  <1>3. \A m : /\ Read(m) \subseteq SampleIds
               /\ \A id \in Read(m) : Seen(id) /\ Minutes!PlaceAt(id, l) = m
               /\ \A id \in SampleIds : RingHolds(reply, id) /\ Minutes!PlaceAt(id, l) = m => id \in Read(m)
    BY InMinuteIs
  <1>4. op \in [Minutes!Minutes -> SUBSET SampleIds]
    BY <1>1, <1>2, <1>3 DEF Minutes!Opened
  <1> HIDE DEF op, Read, l
  <1>5. ASSUME NEW m \in Minutes!Minutes, op[m] # {} PROVE lastWritten < m
    <2>1. CASE Again(m)
      BY <2>1, <1>1
    <2>2. CASE ~Again(m)
      BY <1>2, <1>5, <2>2 DEF MinuteInv, OpenInPlace
    <2> QED BY <2>1, <2>2
  <1>6. ASSUME NEW m \in Minutes!Minutes, NEW id \in op[m]
        PROVE  Seen(id) /\ \E b \in lags \cup {l} : Minutes!PlaceAt(id, b) = m
    <2>1. CASE Again(m)
      BY <1>2, <1>3, <1>6, <2>1
    <2>2. CASE ~Again(m)
      <3>1. LiesAt(id, m)
        BY <1>2, <1>6, <2>2 DEF MinuteInv, OpenInPlace
      <3> QED BY <3>1 DEF LiesAt
    <2> QED BY <2>1, <2>2
  <1>7. ASSUME NEW id \in SampleIds, NEW m \in Minutes!Minutes, RingHolds(reply, id),
               Minutes!PlaceAt(id, l) = m, lastWritten < m
        PROVE  id \in op[m]
    <2>1. id \in Read(m)
      BY <1>3, <1>7
    <2>2. Again(m)
      BY <2>1, <1>1, <1>7
    <2> QED BY <1>2, <2>1, <2>2
  <1> QED BY <1>1, <1>4, <1>5, <1>6, <1>7 DEF op, l

(* The first n of the rows a poll files.                                         *)
RowsFiled(phase, ms, n) == SubSeq(Minutes!RowsOf(Minutes!Decoded(phase), ms), 1, n)
Finished(phase) == Minutes!Completed(Minutes!Decoded(phase), Minutes!Current(phase))

LEMMA FinishedIs ==
    ASSUME MinuteInv, reply # None, NEW phase \in PollPhases, NEW ms \in Minutes!Ascending(Finished(phase))
    PROVE  LET op == Minutes!Opened(Minutes!Decoded(phase)) IN
           /\ Finished(phase) = { m \in Minutes!Minutes : m < Minutes!Current(phase) /\ op[m] # {} }
           /\ DOMAIN ms = 1 .. Len(ms) /\ Len(ms) \in Nat
           /\ \A i \in 1 .. Len(ms) : ms[i] \in Finished(phase) /\ ms[i] \in Minutes!Minutes /\ ms[i] \in Nat
           /\ \A i, j \in 1..Len(ms) : i < j => ms[i] < ms[j]
           /\ \A m \in Finished(phase) : \E i \in 1..Len(ms) : ms[i] = m
  <1>1. Finished(phase) = { m \in Minutes!Minutes :
                              m < Minutes!Current(phase) /\ Minutes!Opened(Minutes!Decoded(phase))[m] # {} }
    BY DEF Finished, Minutes!Completed
  <1>2. IsFiniteSet(Finished(phase)) /\ Finished(phase) \subseteq Nat /\ Finished(phase) \subseteq Minutes!Minutes
    BY <1>1, MinutesAre, FS_Subset
  <1> QED BY <1>1, <1>2, AscendingIs

FiledAre(rows, op, ms, n) ==
    /\ rows \in Seq(MinuteRows)
    /\ \A p, q \in DOMAIN rows : p < q => rows[p].minute # rows[q].minute
    /\ \A r \in Minutes!RowsIn(rows) : \E i \in 1 .. n : r.minute = ms[i] /\ r.ids = op[ms[i]]
    /\ \A i \in 1 .. n : \E r \in Minutes!RowsIn(rows) : r.minute = ms[i] /\ r.ids = op[ms[i]]

LEMMA RowsFiledAre ==
    ASSUME MinuteInv, reply # None, NEW phase \in PollPhases,
           NEW ms \in Minutes!Ascending(Finished(phase)), NEW n \in 0..Len(ms)
    PROVE  FiledAre(RowsFiled(phase, ms, n), Minutes!Opened(Minutes!Decoded(phase)), ms, n)
  <1> DEFINE op   == Minutes!Opened(Minutes!Decoded(phase))
             all  == Minutes!RowsOf(Minutes!Decoded(phase), ms)
             rows == RowsFiled(phase, ms, n)
             Row(i) == [minute |-> ms[i], ids |-> op[ms[i]]]
  <1>1. /\ DOMAIN ms = 1 .. Len(ms) /\ Len(ms) \in Nat /\ n \in Nat
        /\ \A i \in 1 .. Len(ms) : ms[i] \in Minutes!Minutes /\ ms[i] \in Nat
        /\ \A i, j \in 1..Len(ms) : i < j => ms[i] < ms[j]
    BY FinishedIs
  <1>2. all = [ i \in 1..Len(ms) |-> Row(i) ]
    BY <1>1 DEF Minutes!RowsOf
  <1>3. op \in [Minutes!Minutes -> SUBSET SampleIds]
    BY OpenedIs
  <1> HIDE DEF op
  <1>4. \A i \in 1..Len(ms) : Row(i) \in MinuteRows
    BY <1>1, <1>3 DEF MinuteRows
  <1>5. all \in Seq(MinuteRows) /\ Len(all) = Len(ms)
    BY <1>1, <1>2, <1>4
  <1> HIDE DEF all
  <1>6. rows \in Seq(MinuteRows) /\ Len(rows) = n /\ DOMAIN rows = 1..n
    BY <1>1, <1>5 DEF RowsFiled, all
  <1>7. \A i \in 1..n : rows[i] = Row(i)
    BY <1>1, <1>2, <1>5 DEF RowsFiled, all
  <1> HIDE DEF rows
  <1>8. \A i \in 1 .. n : rows[i].minute = ms[i] /\ rows[i].ids = op[ms[i]] /\ rows[i] \in Minutes!RowsIn(rows)
    BY <1>6, <1>7 DEF Minutes!RowsIn
  <1>9. ASSUME NEW p \in DOMAIN rows, NEW q \in DOMAIN rows, p < q PROVE rows[p].minute # rows[q].minute
    <2>1. p \in 1 .. n /\ q \in 1 .. n /\ p \in 1 .. Len(ms) /\ q \in 1 .. Len(ms)
      BY <1>1, <1>6
    <2> QED BY <1>1, <1>8, <1>9, <2>1
  <1>10. \A r \in Minutes!RowsIn(rows) : \E i \in 1 .. n : r.minute = ms[i] /\ r.ids = op[ms[i]]
    BY <1>6, <1>8 DEF Minutes!RowsIn
  <1>11. \A i \in 1 .. n : \E r \in Minutes!RowsIn(rows) : r.minute = ms[i] /\ r.ids = op[ms[i]]
    BY <1>8
  <1> QED BY <1>6, <1>9, <1>10, <1>11 DEF rows, op, FiledAre

(* What a poll, whole or cut short, leaves in the file and of it.                *)
LEMMA RowsAreFiled ==
    ASSUME MinuteInv, reply # None, NEW phase \in PollPhases,
           NEW ms \in Minutes!Ascending(Finished(phase)), NEW n \in 0..Len(ms),
           file' \in Logs(MinuteRows),
           file'.rows = Minutes!Appended(file, RowsFiled(phase, ms, n)).rows,
           Minutes!FilingHistory(Minutes!Decoded(phase), RowsFiled(phase, ms, n)),
           UNCHANGED <<now, boot, count, first, archive, snapshot>>
    PROVE  LET op == Minutes!Opened(Minutes!Decoded(phase)) IN
           /\ Onward /\ lags' = lags \cup {Minutes!Lag(phase)} /\ lags' \subseteq Nat
           /\ FileInPlace' /\ ArchiveInPlace' /\ FileBesideArchive'
           /\ \A r \in Filed' : Minutes!MonthOf(r.minute) \in Minutes!ArchivedMonths' => r.ids \subseteq late'
           /\ Filed \subseteq Filed'
           /\ \A r \in Filed' : r \in Filed \/ \E i \in 1 .. n : r.minute = ms[i] /\ r.ids = op[ms[i]]
           /\ \A i \in 1..n : \A id \in op[ms[i]] : Kept(id)'
           /\ \A id : Kept(id) => Kept(id)'
  <1> DEFINE op   == Minutes!Opened(Minutes!Decoded(phase))
             l    == Minutes!Lag(phase)
             rows == RowsFiled(phase, ms, n)
             new  == Minutes!RowsIn(rows)
  <1>1. MinuteType /\ file \in Logs(MinuteRows) /\ lags \subseteq Nat /\ lastWritten \in Int /\ up
    <2>1. MinuteType /\ up
      BY DEF MinuteInv, ReplyInLife
    <2>2. file \in Logs(MinuteRows) /\ lags \subseteq Nat /\ lastWritten \in Minutes!Minutes \cup {-1}
      BY <2>1 DEF MinuteType
    <2> QED BY <2>1, <2>2, MinutesAre
  <1>2. /\ rows \in Seq(MinuteRows)
        /\ \A p, q \in DOMAIN rows : p < q => rows[p].minute # rows[q].minute
        /\ \A r \in new : \E i \in 1 .. n : r.minute = ms[i] /\ r.ids = op[ms[i]]
        /\ \A i \in 1 .. n : \E r \in new : r.minute = ms[i] /\ r.ids = op[ms[i]]
    <2>1. FiledAre(rows, op, ms, n)
      BY RowsFiledAre
    <2> HIDE DEF rows, op
    <2> QED BY <2>1 DEF FiledAre
  <1>3. n \in Nat /\ \A i \in 1 .. n : /\ ms[i] \in Minutes!Minutes /\ ms[i] \in Nat
                                       /\ ms[i] < Minutes!Current(phase) /\ op[ms[i]] # {}
    <2>1. /\ Finished(phase) = { m \in Minutes!Minutes : m < Minutes!Current(phase) /\ op[m] # {} }
          /\ \A i \in 1 .. Len(ms) : ms[i] \in Finished(phase) /\ ms[i] \in Nat
          /\ Len(ms) \in Nat
      BY FinishedIs
    <2> HIDE DEF op
    <2> QED BY <2>1
  <1>4. \A r \in new : /\ r.minute \in Minutes!Minutes /\ r.minute \in Nat /\ r.ids = op[r.minute]
                       /\ r.minute < Minutes!Current(phase) /\ op[r.minute] # {}
    BY <1>2, <1>3
  <1>5. /\ l \in Nat /\ 4 * reply.at + l \in Nat /\ reply.at \in Nat /\ now \in Nat /\ reply.at <= now
        /\ Minutes!Current(phase) = Minutes!MinuteOf(4 * reply.at + l, MinuteLen)
    BY PollLagIs
  <1>6. /\ op \in [Minutes!Minutes -> SUBSET SampleIds]
        /\ \A m \in Minutes!Minutes : op[m] # {} => lastWritten < m
        /\ \A m \in Minutes!Minutes : \A id \in op[m] :
              Seen(id) /\ \E b \in lags \cup {l} : Minutes!PlaceAt(id, b) = m
    BY OpenedIs
  <1>7. lags' = lags \cup {l} /\ lags \subseteq lags' /\ lags' \subseteq Nat
    <2>1. Minutes!Decoded(phase).lag = l
      BY RingIs
    <2> QED BY <1>1, <1>5, <2>1 DEF Minutes!FilingHistory
  <1>8. Onward /\ \A id : Seen(id)' <=> Seen(id)
    BY <1>1, <1>7, StandingIsOnward
  <1>9. \A id, b : Minutes!PlaceAt(id, b)' = Minutes!PlaceAt(id, b)
    BY DEF Minutes!PlaceAt, Minutes!MinuteOf, Minutes!Moment, Minutes!Second
  <1>10. ArchiveInPlace' /\ Archives' = Archives /\ Minutes!ArchivedMonths' = Minutes!ArchivedMonths
    BY <1>8, ArchiveStays
  <1>11. /\ late' = late \cup Minutes!SamplesIn({ r \in new : Minutes!MonthOf(r.minute) \in Minutes!ArchivedMonths })
         /\ spoiled' = spoiled \cup Minutes!SamplesIn(Minutes!Spoiled(file, rows))
    BY DEF Minutes!FilingHistory
  <1> HIDE DEF rows, op, l
  <1>12. /\ Filed \subseteq Filed' /\ Filed' \subseteq Filed \cup new
         /\ new \subseteq Filed' \cup Minutes!Spoiled(file, rows)
         /\ \A i, j \in DOMAIN file'.rows : i < j => InTurn(file, rows, file'.rows[i], file'.rows[j])
    <2>1. Filed' = Minutes!Readable(Minutes!Appended(file, rows))
      BY DEF Filed, Minutes!Readable, rows
    <2>2. file'.rows = Minutes!Appended(file, rows).rows
      BY DEF rows
    <2> QED BY <1>1, <1>2, <2>1, <2>2, AppendedIs DEF Filed
  <1>13. \A r \in Filed : r.minute \in Nat /\ r.minute <= lastWritten /\ r.ids \subseteq SampleIds
    <2>1. \A r \in Filed : r.minute \in Nat /\ r.ids \subseteq SampleIds
      BY <1>1, RowsReadAre DEF Filed
    <2>2. \A r \in Filed : r.minute <= lastWritten
      BY <1>1 DEF MinuteInv, Running
    <2> QED BY <2>1, <2>2
  <1>14. FileInPlace'
    <2>1. ASSUME NEW i \in DOMAIN file'.rows, NEW j \in DOMAIN file'.rows, i < j
          PROVE  file'.rows[i].minute # file'.rows[j].minute
      <3> DEFINE x == file'.rows[i]
                 y == file'.rows[j]
      <3>1. InTurn(file, rows, x, y)
        BY <1>12, <2>1
      <3> HIDE DEF x, y
      <3>2. ASSUME x \in Filed, y \in new PROVE x.minute # y.minute
        <4>1. lastWritten < y.minute /\ x.minute <= lastWritten /\ x.minute \in Nat /\ y.minute \in Nat
          BY <1>4, <1>6, <1>13, <3>2
        <4> QED BY <1>1, <4>1
      <3>3. ASSUME NEW p \in DOMAIN file.rows, NEW q \in DOMAIN file.rows, p < q, x = file.rows[p], y = file.rows[q]
            PROVE  x.minute # y.minute
        BY <3>3 DEF MinuteInv, FileInPlace
      <3>4. ASSUME NEW p \in DOMAIN rows, NEW q \in DOMAIN rows, p < q, x = rows[p], y = rows[q]
            PROVE  x.minute # y.minute
        BY <1>2, <3>4
      <3>5. x.minute # y.minute
        BY <3>1, <3>2, <3>3, <3>4 DEF InTurn, Filed
      <3> QED BY <3>5 DEF x, y
    <2>2. ASSUME NEW r \in Filed PROVE FoundOver(r.minute)' /\ \A id \in r.ids : LiesAt(id, r.minute)'
      <3>1. r.minute \in Nat /\ r.ids \subseteq SampleIds
        BY <1>13, <2>2
      <3>2. FoundOver(r.minute) /\ \A id \in r.ids : LiesAt(id, r.minute)
        BY <2>2 DEF MinuteInv, FileInPlace
      <3> QED BY <1>1, <1>8, <3>1, <3>2, PlacesStay
    <2>3. ASSUME NEW r \in new PROVE FoundOver(r.minute)' /\ \A id \in r.ids : LiesAt(id, r.minute)'
      <3>1. FoundOver(r.minute)'
        <4>1. 4 * now + l \in Nat /\ 4 * reply.at + l <= 4 * now + l
          BY <1>5, StampsGrow
        <4>2. /\ Minutes!MinuteOf(4 * reply.at + l, MinuteLen) <= Minutes!MinuteOf(4 * now + l, MinuteLen)
              /\ Minutes!MinuteOf(4 * reply.at + l, MinuteLen) \in Nat
              /\ Minutes!MinuteOf(4 * now + l, MinuteLen) \in Nat
          BY <1>5, <4>1, MinutesGrow
        <4>3. r.minute < Minutes!MinuteOf(4 * now + l, MinuteLen)
          BY <1>4, <1>5, <4>2
        <4>4. \E b \in lags' : r.minute < Minutes!MinuteOf(4 * now + b, MinuteLen)
          BY <1>7, <4>3
        <4> QED BY <4>4 DEF FoundOver, Minutes!MinuteOf
      <3>2. ASSUME NEW id \in r.ids PROVE LiesAt(id, r.minute)'
        <4>1. Seen(id) /\ \E b \in lags \cup {l} : Minutes!PlaceAt(id, b) = r.minute
          BY <1>4, <1>6, <3>2
        <4> QED BY <1>7, <1>8, <1>9, <4>1 DEF LiesAt
      <3> QED BY <3>1, <3>2
    <2>4. \A r \in Filed' : FoundOver(r.minute)' /\ \A id \in r.ids : LiesAt(id, r.minute)'
      BY <1>12, <2>2, <2>3
    <2> QED BY <2>1, <2>4 DEF FileInPlace
  <1>15. \A r \in Filed' : Minutes!MonthOf(r.minute) \in Minutes!ArchivedMonths => r.ids \subseteq late'
    <2>1. \A r \in new : Minutes!MonthOf(r.minute) \in Minutes!ArchivedMonths => r.ids \subseteq late'
      BY <1>11 DEF Minutes!SamplesIn
    <2>2. \A r \in Filed : Minutes!MonthOf(r.minute) \in Minutes!ArchivedMonths => r.ids \subseteq late'
      BY <1>1, <1>11 DEF MinuteInv, Running
    <2> QED BY <1>12, <2>1, <2>2
  <1>16. FileBesideArchive'
    BY <1>10, <1>15 DEF FileBesideArchive, Minutes!MonthOf, Minutes!SamplesIn
  <1>17. \A id : Kept(id) => Kept(id)'
    <2>1. Minutes!OnRecord \subseteq Minutes!OnRecord'
      BY <1>10, <1>12 DEF Minutes!OnRecord, Minutes!SamplesIn, Filed, Archives
    <2> QED BY <1>11, <2>1 DEF Kept
  <1>18. ASSUME NEW i \in 1..n, NEW id \in op[ms[i]] PROVE Kept(id)'
    <2>1. PICK r \in new : r.ids = op[ms[i]]
      BY <1>2
    <2>2. CASE r \in Filed'
      BY <1>18, <2>1, <2>2 DEF Kept, Minutes!OnRecord, Minutes!SamplesIn, Filed
    <2>3. CASE r \in Minutes!Spoiled(file, rows)
      BY <1>11, <1>18, <2>1, <2>3 DEF Kept, Minutes!SamplesIn
    <2> QED BY <2>2, <2>3, <1>12
  <1>19. \A r \in Filed' : r \in Filed \/ \E i \in 1 .. n : r.minute = ms[i] /\ r.ids = op[ms[i]]
    BY <1>2, <1>12
  <1>20. \A r \in Filed' : Minutes!MonthOf(r.minute) \in Minutes!ArchivedMonths' => r.ids \subseteq late'
    BY <1>10, <1>15
  <1> QED BY <1>7, <1>8, <1>10, <1>12, <1>14, <1>16, <1>17, <1>18, <1>19, <1>20 DEF op, l

(* The window takes what is new of the ring: by position, by stamp after a start *)
(* from the snapshot or a reboot.  What it takes twice a slip of the clock made  *)
(* look new.                                                                     *)
LEMMA SeriesIsIngested ==
    ASSUME MinuteInv, reply # None, NEW phase \in PollPhases
    PROVE  LET w == Minutes!Decoded(phase)
               h == Minutes!Ingested(w) IN
           /\ h \in HeldSeries /\ h.newest <= 4 * now + h.lag
           /\ \A id \in h.ids : /\ Seen(id) /\ Minutes!Moment(id) + h.lag <= h.newest /\ 0 < h.newest
                                /\ id.boot = boot /\ h.counter > 0 => id.k < h.counter
           /\ held.ids \cap Minutes!IdsOf(Minutes!Fresh(w, held)) \subseteq Minutes!IdsOf(Minutes!Astray(w, held))
  <1> DEFINE w     == Minutes!Decoded(phase)
             l     == Minutes!Lag(phase)
             fresh == Minutes!Fresh(w, held)
             new   == Minutes!Ingested(w)
             top   == 4 * reply.at + l
  <1>1. /\ MinuteType /\ held.counter \in Nat /\ held.newest \in Int /\ held.lag \in Nat
        /\ held.ids \subseteq SampleIds /\ held \in HeldSeries /\ SeriesKnows(held) /\ RingType(reply)
        /\ boot \in Nat /\ count \in Nat
    BY RecorderIsSized DEF MinuteInv, MinuteType, HeldSeries, ReplyInLife
  <1>2. /\ l \in Nat /\ reply.at \in Nat /\ reply.at > 0 /\ now \in Nat /\ reply.at <= now
        /\ reply.count \in Nat /\ reply.boot \in Nat /\ reply.boot <= boot
    BY <1>1, RecorderIsSized, PollLagIs DEF RingType
  <1>3. /\ w.count = reply.count /\ w.lag = l
        /\ \A s \in w.samples :
              LET id == Minutes!Identity(s) IN
              /\ id \in SampleIds /\ id.boot = reply.boot /\ id.k = s.k /\ RingHolds(reply, id) /\ Seen(id)
              /\ s.stamp = Minutes!Moment(id) + l
              /\ s.stamp = 4 * reply.at + l - 4 * (reply.count - 1 - s.k)
        /\ \A id \in SampleIds : RingHolds(reply, id) => \E s \in w.samples : Minutes!Identity(s) = id
    BY RingIs
  <1>4. /\ held.newest <= 4 * reply.at + held.lag
        /\ \A id \in held.ids :
              /\ Seen(id) /\ Minutes!Moment(id) + held.lag <= held.newest /\ 0 < held.newest
              /\ id.boot = boot /\ held.counter > 0 => id.k < held.counter
              /\ id.boot = reply.boot /\ held.counter > 0 => id.k < held.counter
              /\ Minutes!Moment(id) \in Nat /\ id.k \in Nat /\ id.boot \in Nat
              /\ Minutes!Moment(id) = 4 * (first[id.boot] + id.k) /\ first[id.boot] \in Nat
    <2>1. \A id \in held.ids : id.boot \in Nat
      BY <1>1, PlacesAre, RecorderIsSized
    <2> QED BY <1>1, <2>1, PlacesAre DEF SeriesKnows
  <1>5. fresh = IF held.counter > 0 /\ reply.count >= held.counter
                THEN { s \in w.samples : s.k >= held.counter }
                ELSE { s \in w.samples : (held.newest = 0) \/ s.stamp > held.newest + 2 }
    BY <1>3 DEF Minutes!Fresh, Minutes!CounterTrusted, Minutes!Second
  <1>5a. fresh \subseteq w.samples
    BY <1>5
  <1>6. Minutes!Astray(w, held) =
           IF (held.counter > 0 /\ reply.count >= held.counter) \/ held.newest = 0 THEN {}
           ELSE { s \in w.samples :
                    \/ 2 < s.stamp - held.newest /\ s.stamp - held.newest <= l - held.lag
                    \/ 4 + (l - held.lag) <= s.stamp - held.newest /\ s.stamp - held.newest <= 2 }
    BY <1>3 DEF Minutes!Astray, Minutes!CounterTrusted, Minutes!Second, Minutes!Slip
  <1>7. new = IF w.samples = {} THEN held
              ELSE IF fresh = {} THEN [held EXCEPT !.counter = reply.count]
              ELSE [ counter |-> reply.count, newest |-> Minutes!Max({ s.stamp : s \in fresh }), lag |-> l,
                     ids |-> held.ids \cup Minutes!IdsOf(fresh) ]
    BY <1>3 DEF Minutes!Ingested
  <1> HIDE DEF w, fresh, new, l
  <1>8. \A s \in w.samples : /\ s.k \in Nat /\ s.stamp \in Int /\ s.k < reply.count /\ s.stamp <= top
                             /\ s.stamp = top - 4 * (reply.count - 1 - s.k)
    <2> TAKE s \in w.samples
    <2>1. s.k \in Nat /\ s.k < reply.count
      <3>1. Minutes!Identity(s) \in SampleIds /\ Minutes!Identity(s).k = s.k /\ RingHolds(reply, Minutes!Identity(s))
        BY <1>3
      <3>2. Minutes!Identity(s).k \in Nat
        BY <1>1, <3>1, PlacesAre
      <3> QED BY <3>1, <3>2 DEF RingHolds
    <2>2. s.stamp = 4 * reply.at + l - 4 * (reply.count - 1 - s.k)
      BY <1>3
    <2>3. s.stamp \in Int /\ s.stamp <= top /\ s.stamp = top - 4 * (reply.count - 1 - s.k)
      BY <1>2, <2>1, <2>2
    <2> QED BY <2>1, <2>3
  (* What is taken again.                                                        *)
  <1>9. ASSUME NEW s \in fresh, Minutes!Identity(s) \in held.ids
        PROVE  s \in Minutes!Astray(w, held)
    <2> DEFINE id == Minutes!Identity(s)
    <2>1. s \in w.samples /\ id.boot = reply.boot /\ id.k = s.k /\ s.stamp = Minutes!Moment(id) + l
      BY <1>3, <1>5a
    <2>2. /\ Minutes!Moment(id) + held.lag <= held.newest /\ 0 < held.newest
          /\ held.counter > 0 => s.k < held.counter
          /\ Minutes!Moment(id) \in Nat /\ s.k \in Nat
      BY <1>4, <1>9, <2>1
    <2>3. ~(held.counter > 0 /\ reply.count >= held.counter)
      <3> SUFFICES ASSUME held.counter > 0, reply.count >= held.counter PROVE FALSE
        OBVIOUS
      <3>1. s.k >= held.counter
        BY <1>5
      <3> QED BY <1>1, <2>2, <3>1
    <2>4. s.stamp > held.newest + 2
      BY <1>1, <1>5, <2>2, <2>3
    <2>5. s.stamp - held.newest <= l - held.lag /\ 2 < s.stamp - held.newest
      <3>1. s.stamp \in Int
        BY <1>8, <2>1
      <3> QED BY <1>1, <1>2, <2>1, <2>2, <2>4, <3>1
    <2> QED BY <1>1, <1>6, <2>1, <2>2, <2>3, <2>5
  <1>10. held.ids \cap Minutes!IdsOf(fresh) \subseteq Minutes!IdsOf(Minutes!Astray(w, held))
    BY <1>9 DEF Minutes!IdsOf
  (* What is held stands below the ring's count in the boot that runs.           *)
  <1>11. ASSUME reply.count > 0, NEW id \in held.ids, id.boot = boot PROVE id.k < reply.count
    <2>1. /\ Minutes!Moment(id) <= 4 * reply.at /\ Minutes!Moment(id) = 4 * (first[boot] + id.k)
          /\ id.k \in Nat /\ first[boot] \in Nat
      <3>1. /\ Minutes!Moment(id) + held.lag <= held.newest /\ held.newest <= 4 * reply.at + held.lag
            /\ Minutes!Moment(id) \in Nat
        BY <1>4, <1>11
      <3>2. Minutes!Moment(id) <= 4 * reply.at
        BY <1>1, <1>2, <3>1
      <3> QED BY <1>4, <1>11, <3>2
    <2>2. first[boot] + id.k <= reply.at
      BY <1>2, <2>1
    <2>3. count > 0
      BY <1>1, <1>4, <1>11, <2>1 DEF Seen
    <2>4. reply.boot = boot
      BY <1>1, <1>2, <2>1, <2>2, <2>3 DEF RingType
    <2>5. first[boot] + reply.count = reply.at + 1
      BY <1>1, <1>11, <2>4 DEF RingType
    <2> QED BY <1>2, <2>1, <2>2, <2>5
  <1>12. CASE w.samples = {}
    <2>1. new = held
      BY <1>7, <1>12
    <2>2. held.newest <= 4 * now + held.lag
      BY <1>1 DEF SeriesKnows
    <2> QED BY <1>1, <1>4, <1>10, <2>1, <2>2 DEF w, fresh, new
  <1>13. w.samples # {} => reply.count > 0
    BY <1>2, <1>8
  <1>14. CASE w.samples # {} /\ fresh = {}
    <2>1. new = [held EXCEPT !.counter = reply.count]
      BY <1>7, <1>14
    <2>2. /\ new \in HeldSeries /\ new.counter = reply.count /\ new.newest = held.newest /\ new.lag = held.lag
          /\ new.ids = held.ids
      BY <1>1, <1>2, <2>1 DEF HeldSeries
    <2>3. held.newest <= 4 * now + held.lag
      BY <1>1 DEF SeriesKnows
    <2>4. \A id \in held.ids : id.boot = boot => id.k < reply.count
      BY <1>11, <1>13, <1>14
    <2> QED BY <1>4, <1>10, <2>2, <2>3, <2>4 DEF w, fresh, new
  <1>15. CASE fresh # {}
    <2>1. w.samples # {} /\ reply.count > 0
      BY <1>5a, <1>13, <1>15
    <2>2. PICK last \in fresh : last.stamp = top
      <3>1. PICK s \in fresh : TRUE
        BY <1>15
      <3>2. s \in w.samples /\ Minutes!Identity(s) \in SampleIds /\ RingHolds(reply, Minutes!Identity(s))
        BY <1>3, <1>5a
      <3>3. PICK id \in SampleIds : id.boot = reply.boot /\ id.k = reply.count - 1 /\ RingHolds(reply, id)
        <4>1. reply.boot \in 0 .. MaxBoots /\ reply.count - 1 \in 0 .. MaxRecorded
          <5>1. MaxRecorded \in Nat
            BY RecorderIsSized
          <5>2. reply.boot \in 0 .. MaxBoots /\ reply.count \in 0 .. MaxRecorded + 1
            BY <1>1 DEF RingType
          <5> QED BY <2>1, <5>1, <5>2
        <4>2. [boot |-> reply.boot, k |-> reply.count - 1] \in SampleIds
          BY <4>1 DEF SampleIds, Minutes!Ids, Minutes!Boots
        <4>3. RingHolds(reply, [boot |-> reply.boot, k |-> reply.count - 1])
          <5>1. reply.count - 1 < reply.count /\ reply.count <= reply.count - 1 + RingSize
            <6>1. RingSize \in Nat \ {0}
              BY RecorderIsSized
            <6> QED BY <1>2, <6>1
          <5> QED BY <5>1 DEF RingHolds
        <4> QED BY <4>2, <4>3
      <3>4. PICK z \in w.samples : Minutes!Identity(z) = id
        BY <1>3, <3>3
      <3>5. z.k = reply.count - 1
        BY <1>3, <3>3, <3>4
      <3>6. z.stamp = top /\ z.k >= s.k /\ z.stamp >= s.stamp /\ z.stamp \in Int /\ s.stamp \in Int /\ s.k \in Nat
            /\ z.k \in Nat
        <4>1. s.k \in Nat /\ s.k < reply.count /\ s.stamp <= top /\ s.stamp \in Int
          BY <1>8, <3>2
        <4>2. z.stamp = top - 4 * (reply.count - 1 - z.k) /\ z.stamp \in Int /\ z.k \in Nat
          BY <1>8
        <4>3. z.stamp = top
          BY <1>2, <3>5, <4>2
        <4> QED BY <1>2, <3>5, <4>1, <4>2, <4>3
      <3>7. z \in fresh
        <4>1. CASE held.counter > 0 /\ reply.count >= held.counter
          <5>1. s.k >= held.counter
            BY <1>5, <4>1
          <5>2. z.k >= held.counter
            BY <1>1, <3>6, <5>1
          <5> QED BY <1>5, <4>1, <5>2
        <4>2. CASE ~(held.counter > 0 /\ reply.count >= held.counter)
          <5>1. held.newest = 0 \/ s.stamp > held.newest + 2
            BY <1>5, <4>2
          <5>2. held.newest = 0 \/ z.stamp > held.newest + 2
            BY <1>1, <3>6, <5>1
          <5> QED BY <1>5, <4>2, <5>2
        <4> QED BY <4>1, <4>2
      <3> QED BY <3>6, <3>7
    <2> DEFINE stamps == { s.stamp : s \in fresh }
    <2>3. Minutes!Max(stamps) = top
      <3>1. top \in Int
        BY <1>2
      <3>2. \A s \in fresh : s.stamp \in Int /\ s.stamp <= top
        BY <1>5a, <1>8
      <3>3. stamps \in SUBSET Int /\ top \in stamps /\ \A x \in stamps : x <= top
        BY <2>2, <3>2
      <3> HIDE DEF stamps, top
      <3>4. Minutes!Max(stamps) \in stamps /\ \A x \in stamps : x <= Minutes!Max(stamps)
        BY <3>1, <3>3, HighestIs
      <3>5. Minutes!Max(stamps) \in Int /\ Minutes!Max(stamps) <= top /\ top <= Minutes!Max(stamps)
        BY <3>3, <3>4
      <3> QED BY <3>1, <3>5
    <2>4. new = [counter |-> reply.count, newest |-> top, lag |-> l, ids |-> held.ids \cup Minutes!IdsOf(fresh)]
      BY <1>7, <1>15, <2>1, <2>3
    <2>5. ASSUME NEW id \in Minutes!IdsOf(fresh)
          PROVE  /\ id \in SampleIds /\ Seen(id) /\ Minutes!Moment(id) + l <= top /\ id.k < reply.count
      <3>1. PICK s \in fresh : id = Minutes!Identity(s)
        BY DEF Minutes!IdsOf
      <3>2. s \in w.samples
        BY <1>5a
      <3> QED BY <1>3, <1>8, <3>1, <3>2
    <2>6. ASSUME NEW id \in held.ids
          PROVE  Seen(id) /\ Minutes!Moment(id) + l <= top /\ (id.boot = boot => id.k < reply.count)
      <3>1. /\ Minutes!Moment(id) + held.lag <= held.newest /\ held.newest <= 4 * reply.at + held.lag
            /\ Minutes!Moment(id) \in Nat /\ Seen(id)
        BY <1>4
      <3>2. Minutes!Moment(id) + l <= top
        BY <1>1, <1>2, <3>1
      <3> QED BY <1>11, <2>1, <3>1, <3>2
    <2>7. new \in HeldSeries
      BY <1>1, <1>2, <2>4, <2>5 DEF HeldSeries
    <2>8. 0 < top /\ top <= 4 * now + l
      BY <1>2
    <2> HIDE DEF top
    <2>9. \A id \in new.ids : /\ Seen(id) /\ Minutes!Moment(id) + new.lag <= new.newest /\ 0 < new.newest
                              /\ id.boot = boot /\ new.counter > 0 => id.k < new.counter
      BY <2>4, <2>5, <2>6, <2>8
    <2>10. new.newest <= 4 * now + new.lag
      BY <2>4, <2>8
    <2> QED BY <1>10, <2>7, <2>9, <2>10 DEF w, fresh, new
  <1> QED BY <1>12, <1>14, <1>15

(* What a poll had found over is on record, if the ring asked about had it then. *)
LEMMA BelowIsKept ==
    ASSUME MinuteInv, NEW ring, Backfilled(ring), NEW id \in SampleIds, RingHolds(ring, id),
           NEW m \in Nat, \A b \in lags : Minutes!PlaceAt(id, b) = m,
           (up /\ m <= lastWritten) \/ \E r \in Filed : m <= r.minute
    PROVE  Kept(id)
  <1>1. lastWritten \in Minutes!Minutes \cup {-1} /\ Minutes!Minutes \subseteq Nat
    BY MinutesAre DEF MinuteInv, MinuteType
  <1>2. \E b \in lags : TRUE
    <2>1. CASE up /\ m <= lastWritten
      <3>1. lastWritten # -1
        BY <2>1
      <3> QED BY <2>1, <3>1 DEF MinuteInv, Running, FoundOver
    <2>2. CASE \E r \in Filed : m <= r.minute
      BY <2>2 DEF MinuteInv, FileInPlace, FoundOver
    <2> QED BY <2>1, <2>2
  <1>3. Reached(id) /\ ~Minutes!Astride(id)
    BY <1>2 DEF Reached, Minutes!Astride
  <1> QED BY <1>3 DEF Backfilled

LEMMA CutIs ==
    ASSUME NEW Row, NEW log \in Logs(Row), NEW rows, NEW n, NEW tear \in Minutes!Tears,
           SubSeq(rows, 1, n) \in Seq(Row)
    PROVE  /\ Minutes!CutAfter(log, rows, n, tear) \in Logs(Row)
           /\ Minutes!CutAfter(log, rows, n, tear).rows = Minutes!Appended(log, SubSeq(rows, 1, n)).rows
  <1> DEFINE whole == Minutes!Appended(log, SubSeq(rows, 1, n))
  <1>1. Minutes!CutAfter(log, rows, n, tear) = [whole EXCEPT !.torn = @ \/ tear]
    BY DEF Minutes!CutAfter
  <1>2. whole \in Logs(Row)
    BY AppendedIs
  <1>3. tear \in BOOLEAN
    BY InstancesSuit DEF Minutes!Tears
  <1> HIDE DEF whole
  <1>4. [whole EXCEPT !.torn = @ \/ tear] \in Logs(Row) /\ [whole EXCEPT !.torn = @ \/ tear].rows = whole.rows
    BY <1>2, <1>3 DEF Logs
  <1> QED BY <1>1, <1>4 DEF whole

LEMMA MinutesReachDown ==
    ASSUME NEW m \in Minutes!Minutes, NEW n \in Nat, n <= m
    PROVE  n \in Minutes!Minutes
  <1>1. MaxRecorded + 1 + Jitter \in Nat
    BY RecorderIsSized
  <1>2. (MaxRecorded + 1 + Jitter) \div MinuteLen \in Nat
    BY <1>1, RecorderIsSized, QuotientIs
  <1>3. PICK top \in Nat : Minutes!Minutes = 0..top
    BY <1>2 DEF Minutes!Minutes
  <1> QED BY <1>3

(* A sample the dish wrote after a poll's answer lies no earlier than that poll. *)
LEMMA LaterLiesLater ==
    ASSUME MinuteInv, reply # None, NEW phase \in PollPhases,
           NEW id \in SampleIds, RingHolds(Minutes!Ring, id), ~RingHolds(reply, id)
    PROVE  Minutes!Current(phase) <= Minutes!PlaceAt(id, Minutes!Lag(phase))
  <1> DEFINE l == Minutes!Lag(phase)
  <1>1. MinuteType /\ RingType(reply)
    BY DEF MinuteInv, ReplyInLife
  <1>2. /\ l \in Nat /\ reply.at \in Nat /\ 4 * reply.at + l \in Nat
        /\ Minutes!Current(phase) = Minutes!MinuteOf(4 * reply.at + l, MinuteLen)
    BY PollLagIs
  <1>3. /\ reply.count \in Nat /\ count \in Nat /\ boot \in Nat /\ RingSize \in Nat
    BY <1>1, RecorderIsSized DEF MinuteType, RingType
  <1>4. id.k \in Nat /\ first[id.boot] \in Nat /\ Minutes!Moment(id) = 4 * (first[id.boot] + id.k)
    BY <1>1, PlacesAre
  <1>5. id.boot = boot /\ id.k < count /\ count <= id.k + RingSize
    BY DEF RingHolds, Minutes!Ring
  <1>6. reply.at < first[boot] + id.k
    <2>1. CASE (reply.boot # boot) \/ reply.count = 0
      <3>1. reply.at < first[boot]
        BY <1>1, <1>3, <1>4, <1>5, <2>1 DEF RingType
      <3> QED BY <1>2, <1>4, <1>5, <3>1
    <2>2. CASE reply.boot = boot /\ reply.count > 0
      <3>1. reply.count <= count /\ first[boot] + reply.count = reply.at + 1
        BY <1>1, <2>2 DEF RingType
      <3>2. ~(id.k < reply.count /\ reply.count <= id.k + RingSize)
        BY <1>5, <2>2 DEF RingHolds
      <3>3. reply.count <= id.k
        BY <1>3, <1>4, <1>5, <3>1, <3>2
      <3> QED BY <1>2, <1>3, <1>4, <1>5, <3>1, <3>3
    <2> QED BY <1>3, <2>1, <2>2
  <1>7. Minutes!Moment(id) + l \in Nat /\ 4 * reply.at + l <= Minutes!Moment(id) + l
    <2>1. reply.at < first[id.boot] + id.k
      BY <1>5, <1>6
    <2> HIDE DEF l
    <2> QED BY <1>2, <1>4, <2>1
  <1> QED BY <1>2, <1>7, MinutesGrow DEF Minutes!PlaceAt

LEMMA PollFiles ==
    ASSUME MinuteInv, NEW phase \in PollPhases, Minutes!Poll(phase)
    PROVE  /\ reply # None /\ reply' = None /\ up' = up
           /\ held' = Minutes!Ingested(Minutes!Decoded(phase))
           /\ lastWritten' = Minutes!Max({lastWritten} \cup Finished(phase))
           /\ open' = [ m \in Minutes!Minutes |->
                          IF m \in Finished(phase) THEN {} ELSE Minutes!Opened(Minutes!Decoded(phase))[m] ]
           /\ UNCHANGED <<now, boot, count, first, archive, snapshot>>
           /\ \E ms \in Minutes!Ascending(Finished(phase)) :
                 /\ file' \in Logs(MinuteRows) /\ Len(ms) \in 0..Len(ms)
                 /\ file'.rows = Minutes!Appended(file, RowsFiled(phase, ms, Len(ms))).rows
                 /\ Minutes!FilingHistory(Minutes!Decoded(phase), RowsFiled(phase, ms, Len(ms)))
  <1> DEFINE w  == Minutes!Decoded(phase)
             op == Minutes!Opened(w)
             done == Finished(phase)
  <1>1. /\ reply # None /\ reply' = None /\ up' = up
        /\ held' = Minutes!Ingested(w)
        /\ lastWritten' = Minutes!Max({lastWritten} \cup done)
        /\ open' = [ m \in Minutes!Minutes |-> IF m \in done THEN {} ELSE op[m] ]
        /\ UNCHANGED <<now, boot, count, first, archive, snapshot>>
    BY DEF Minutes!Poll, Finished, Minutes!dish
  <1>2. PICK ms \in Minutes!Ascending(done) :
           /\ file' = Minutes!Appended(file, Minutes!RowsOf(w, ms))
           /\ Minutes!FilingHistory(w, Minutes!RowsOf(w, ms))
    BY DEF Minutes!Poll, Finished
  <1>3. DOMAIN ms = 1 .. Len(ms) /\ Len(ms) \in Nat /\ Len(ms) \in 0 .. Len(ms)
    BY <1>1, FinishedIs
  <1>4. RowsFiled(phase, ms, Len(ms)) = Minutes!RowsOf(w, ms)
    <2> DEFINE all == Minutes!RowsOf(w, ms)
    <2>1. all = [ i \in 1..Len(ms) |-> [minute |-> ms[i], ids |-> op[ms[i]]] ]
      BY <1>3 DEF Minutes!RowsOf
    <2> HIDE DEF op
    <2>2. \E S : all \in Seq(S)
      <3> DEFINE S == { [minute |-> ms[i], ids |-> op[ms[i]]] : i \in 1..Len(ms) }
      <3>1. all \in Seq(S)
        BY <1>3, <2>1
      <3> QED BY <3>1
    <2>3. Len(all) = Len(ms)
      BY <1>3, <2>1
    <2> HIDE DEF all
    <2>4. SubSeq(all, 1, Len(all)) = all
      BY <2>2
    <2> QED BY <2>3, <2>4 DEF RowsFiled, all
  <1>5. file' \in Logs(MinuteRows)
    <2>1. FiledAre(RowsFiled(phase, ms, Len(ms)), op, ms, Len(ms))
      BY <1>1, <1>3, RowsFiledAre
    <2>2. RowsFiled(phase, ms, Len(ms)) \in Seq(MinuteRows)
      BY <2>1 DEF FiledAre
    <2>3. file \in Logs(MinuteRows)
      BY DEF MinuteInv, MinuteType
    <2> QED BY <1>2, <1>4, <2>2, <2>3, AppendedIs
  <1> HIDE DEF op, done
  <1>6. /\ file'.rows = Minutes!Appended(file, RowsFiled(phase, ms, Len(ms))).rows
        /\ Minutes!FilingHistory(w, RowsFiled(phase, ms, Len(ms)))
    BY <1>2, <1>4
  <1> QED BY <1>1, <1>3, <1>5, <1>6 DEF op, done

LEMMA PollRecords ==
    ASSUME MinuteInv, NEW phase \in PollPhases, Minutes!Poll(phase)
    PROVE  /\ MinuteInv'
           /\ \A id \in SampleIds, m \in Minutes!Minutes :
                 /\ RingHolds(reply, id) /\ Minutes!PlaceAt(id, Minutes!Lag(phase)) = m
                 /\ m < Minutes!Current(phase) /\ ~Minutes!Astride(id)'
                 => Kept(id)'
           /\ \A id : Kept(id) => Kept(id)'
  <1> DEFINE w    == Minutes!Decoded(phase)
             op   == Minutes!Opened(w)
             l    == Minutes!Lag(phase)
             cur  == Minutes!Current(phase)
             done == Finished(phase)
  <1>1. /\ reply # None /\ reply' = None /\ up' = up
        /\ held' = Minutes!Ingested(w)
        /\ lastWritten' = Minutes!Max({lastWritten} \cup done)
        /\ open' = [ m \in Minutes!Minutes |-> IF m \in done THEN {} ELSE op[m] ]
        /\ UNCHANGED <<now, boot, count, first, archive, snapshot>>
    BY PollFiles
  <1>2. PICK ms \in Minutes!Ascending(done) :
           /\ file' \in Logs(MinuteRows) /\ Len(ms) \in 0..Len(ms)
           /\ file'.rows = Minutes!Appended(file, RowsFiled(phase, ms, Len(ms))).rows
           /\ Minutes!FilingHistory(w, RowsFiled(phase, ms, Len(ms)))
    BY PollFiles
  <1>3. /\ MinuteType /\ ReplyInLife /\ up /\ Running /\ Backfilled(Minutes!Ring) /\ Backfilled(reply)
        /\ FileInPlace /\ SeriesKnows(snapshot) /\ doubled \subseteq astray
    BY <1>1 DEF MinuteInv, ReplyInLife
  <1>4. /\ lastWritten \in Int /\ lastWritten \in Minutes!Minutes \cup {-1} /\ Minutes!Minutes \subseteq Nat
        /\ lags \subseteq Nat /\ snapshot \in HeldSeries /\ archive \in Logs(MonthRows)
    <2>1. lastWritten \in Minutes!Minutes \cup {-1} /\ lags \subseteq Nat /\ snapshot \in HeldSeries
          /\ archive \in Logs(MonthRows)
      BY <1>3 DEF MinuteType
    <2> QED BY <2>1, MinutesAre
  <1>5. /\ done = { m \in Minutes!Minutes : m < cur /\ op[m] # {} }
        /\ \A i \in 1..Len(ms) : ms[i] \in done
        /\ \A m \in done : \E i \in 1..Len(ms) : ms[i] = m
    BY <1>1, FinishedIs
  <1>6. /\ l \in Nat /\ 4 * reply.at + l \in Nat /\ reply.at \in Nat /\ now \in Nat /\ reply.at <= now
        /\ cur = Minutes!MinuteOf(4 * reply.at + l, MinuteLen) /\ cur \in Nat
    BY <1>1, PollLagIs
  <1>7. /\ Onward /\ lags' = lags \cup {l} /\ lags' \subseteq Nat
        /\ FileInPlace' /\ ArchiveInPlace' /\ FileBesideArchive'
        /\ \A r \in Filed' : Minutes!MonthOf(r.minute) \in Minutes!ArchivedMonths' => r.ids \subseteq late'
        /\ \A r \in Filed' : r \in Filed \/ \E i \in 1..Len(ms) : r.minute = ms[i]
        /\ \A i \in 1..Len(ms) : \A id \in op[ms[i]] : Kept(id)'
        /\ \A id : Kept(id) => Kept(id)'
    BY <1>1, <1>2, RowsAreFiled
  <1>8. /\ op \in [Minutes!Minutes -> SUBSET SampleIds]
        /\ \A m \in Minutes!Minutes : op[m] # {} => lastWritten < m
        /\ \A m \in Minutes!Minutes : \A id \in op[m] :
              Seen(id) /\ \E b \in lags \cup {l} : Minutes!PlaceAt(id, b) = m
        /\ \A id \in SampleIds, m \in Minutes!Minutes :
              RingHolds(reply, id) /\ Minutes!PlaceAt(id, l) = m /\ lastWritten < m => id \in op[m]
    BY <1>1, OpenedIs
  <1>9. /\ held' \in HeldSeries /\ SeriesKnows(held)'
        /\ held.ids \cap Minutes!IdsOf(Minutes!Fresh(w, held)) \subseteq Minutes!IdsOf(Minutes!Astray(w, held))
    <2> DEFINE h == Minutes!Ingested(w)
    <2>1. /\ h \in HeldSeries /\ h.newest <= 4 * now + h.lag
          /\ \A id \in h.ids : /\ Seen(id) /\ Minutes!Moment(id) + h.lag <= h.newest /\ 0 < h.newest
                               /\ id.boot = boot /\ h.counter > 0 => id.k < h.counter
          /\ held.ids \cap Minutes!IdsOf(Minutes!Fresh(w, held)) \subseteq Minutes!IdsOf(Minutes!Astray(w, held))
      BY <1>1, SeriesIsIngested
    <2> HIDE DEF h, w
    <2>2. \A id : (Seen(id)' <=> Seen(id)) /\ Minutes!Moment(id)' = Minutes!Moment(id)
      BY <1>1 DEF Seen, Minutes!Moment, Minutes!Second
    <2>3. held' = h
      BY <1>1 DEF h
    <2>4. SeriesKnows(held)'
      BY <1>1, <2>1, <2>2, <2>3 DEF SeriesKnows
    <2> QED BY <2>1, <2>3, <2>4
  <1>10. doubled' \subseteq astray'
    BY <1>2, <1>3, <1>9 DEF Minutes!FilingHistory
  <1> HIDE DEF op, done, l, cur, w
  <1>11. /\ lastWritten' \in Minutes!Minutes \cup {-1} /\ lastWritten' \in {lastWritten} \cup done
         /\ lastWritten <= lastWritten' /\ \A m \in done : m <= lastWritten'
    <2> DEFINE S   == {lastWritten} \cup done
               top == IF lastWritten < cur THEN cur ELSE lastWritten
    <2>1. done \subseteq Minutes!Minutes /\ done \subseteq Nat /\ \A m \in done : m < cur
      BY <1>4, <1>5
    <2>2. S \in SUBSET Int /\ S # {} /\ top \in Int /\ \A m \in S : m <= top
      BY <1>4, <1>6, <2>1
    <2>3. Minutes!Max(S) \in S /\ \A m \in S : m <= Minutes!Max(S)
      <3> HIDE DEF S, top
      <3> QED BY <2>2, HighestIs
    <2> QED BY <1>1, <1>4, <2>1, <2>3
  <1>12. lastWritten' \in Int /\ (lastWritten' = lastWritten \/ lastWritten' < cur)
    BY <1>4, <1>5, <1>11
  <1>13. \A r \in Filed' : r.minute <= lastWritten'
    <2> TAKE r \in Filed'
    <2>1. CASE r \in Filed
      <3>1. r.minute <= lastWritten
        BY <1>3, <2>1 DEF Running
      <3>2. file \in Logs(MinuteRows)
        BY <1>3 DEF MinuteType
      <3>3. r.minute \in Int
        BY <2>1, <3>2, RowsReadAre DEF Filed
      <3> QED BY <1>4, <1>11, <1>12, <3>1, <3>3
    <2>2. ASSUME NEW i \in 1..Len(ms), r.minute = ms[i] PROVE r.minute <= lastWritten'
      BY <1>5, <1>11, <2>2
    <2> QED BY <1>7, <2>1, <2>2
  <1>14. lastWritten' # -1 => FoundOver(lastWritten)'
    <2> SUFFICES ASSUME lastWritten' # -1 PROVE FoundOver(lastWritten)'
      OBVIOUS
    <2>1. CASE lastWritten' = lastWritten
      <3>1. FoundOver(lastWritten) /\ lastWritten \in Nat
        BY <1>3, <1>4, <2>1 DEF Running
      <3>2. FoundOver(lastWritten)'
        BY <1>3, <1>7, <2>1, <3>1, PlacesStay DEF FoundOver
      <3> QED BY <3>2
    <2>2. CASE lastWritten' < cur
      <3>1. 4 * now + l \in Nat /\ 4 * reply.at + l <= 4 * now + l
        BY <1>6, StampsGrow
      <3>2. cur <= Minutes!MinuteOf(4 * now + l, MinuteLen) /\ Minutes!MinuteOf(4 * now + l, MinuteLen) \in Nat
        BY <1>6, <3>1, MinutesGrow
      <3>3. lastWritten' < Minutes!MinuteOf(4 * now + l, MinuteLen)
        BY <1>6, <1>12, <2>2, <3>2
      <3>4. \E b \in lags' : lastWritten' < Minutes!MinuteOf(4 * now' + b, MinuteLen)
        BY <1>1, <1>7, <3>3
      <3> QED BY <3>4 DEF FoundOver, Minutes!MinuteOf
    <2> QED BY <1>12, <2>1, <2>2
  <1>15. Running'
    BY <1>7, <1>13, <1>14 DEF Running, Minutes!MonthOf
  <1>16. \A m \in Minutes!Minutes : open'[m] = IF m \in done THEN {} ELSE op[m]
    BY <1>1
  <1>17. OpenInPlace'
    <2>1. ASSUME NEW m \in Minutes!Minutes, open'[m] # {} PROVE lastWritten' < m
      <3>1. m \notin done /\ op[m] # {} /\ lastWritten < m /\ m \in Nat
        BY <1>4, <1>8, <1>16, <2>1
      <3>2. ~(m < cur)
        BY <1>5, <3>1
      <3> QED BY <1>6, <1>12, <3>1, <3>2
    <2>2. ASSUME NEW m \in Minutes!Minutes, NEW id \in open'[m] PROVE LiesAt(id, m)'
      <3>1. id \in op[m]
        BY <1>16, <2>2
      <3>2. Seen(id) /\ \E b \in lags' : Minutes!PlaceAt(id, b) = m
        BY <1>7, <1>8, <3>1
      <3>3. Seen(id)' /\ \A b : Minutes!PlaceAt(id, b)' = Minutes!PlaceAt(id, b)
        BY <1>1, <3>2 DEF Seen, Minutes!PlaceAt, Minutes!MinuteOf, Minutes!Moment, Minutes!Second
      <3> QED BY <3>2, <3>3 DEF LiesAt
    <2> QED BY <1>1, <1>3, <2>1, <2>2 DEF OpenInPlace, Minutes!Minutes
  (* A sample in reach of a poll by a minute it has filed, or will have.         *)
  <1>18. ASSUME NEW id \in SampleIds, ~Minutes!Astride(id)', Minutes!PlaceAt(id, l) <= lastWritten,
                RingHolds(reply, id) \/ RingHolds(Minutes!Ring, id)
         PROVE  Kept(id)'
    <2>1. Minutes!PlaceAt(id, l) \in Nat
      BY <1>3, <1>6, PlacesAre
    <2>2. \A a \in lags : Minutes!PlaceAt(id, a) = Minutes!PlaceAt(id, l)
      <3>1. \A a : Minutes!PlaceAt(id, a)' = Minutes!PlaceAt(id, a)
        BY <1>1 DEF Minutes!PlaceAt, Minutes!MinuteOf, Minutes!Moment, Minutes!Second
      <3> QED BY <1>7, <1>18, <3>1 DEF Minutes!Astride
    <2>3. Kept(id)
      BY <1>3, <1>18, <2>1, <2>2, BelowIsKept
    <2> QED BY <1>7, <2>3
  <1>19. ASSUME NEW id \in SampleIds, ~Minutes!Astride(id)', RingHolds(reply, id),
                Minutes!PlaceAt(id, l) \in Minutes!Minutes, Minutes!PlaceAt(id, l) < cur
         PROVE  Kept(id)'
    <2> DEFINE m == Minutes!PlaceAt(id, l)
    <2>1. CASE m <= lastWritten
      BY <1>18, <1>19, <2>1
    <2>2. CASE lastWritten < m
      <3>1. id \in op[m]
        BY <1>8, <1>19, <2>2
      <3>2. m \in done
        BY <1>5, <1>19, <3>1
      <3>3. PICK i \in 1..Len(ms) : ms[i] = m
        BY <1>5, <3>2
      <3> QED BY <1>7, <3>1, <3>3
    <2>3. m \in Nat
      BY <1>3, <1>6, PlacesAre
    <2> QED BY <1>4, <2>1, <2>2, <2>3
  <1>20. Backfilled(Minutes!Ring)'
    <2> SUFFICES ASSUME NEW id \in SampleIds, RingHolds(Minutes!Ring, id), Reached(id)', ~Minutes!Astride(id)'
                 PROVE  Kept(id)'
      BY <1>1 DEF Backfilled, RingHolds, Minutes!Ring, SampleIds, Minutes!Ids, Minutes!Boots
    <2> DEFINE m == Minutes!PlaceAt(id, l)
    <2>1. m \in Nat
      BY <1>3, <1>6, PlacesAre
    <2>2. m <= lastWritten'
      <3>1. PICK a \in lags' : \/ up' /\ Minutes!PlaceAt(id, a)' <= lastWritten'
                               \/ \E r \in Filed' : Minutes!PlaceAt(id, a)' <= r.minute
        BY DEF Reached
      <3>2. Minutes!PlaceAt(id, a)' = m
        <4>1. \A b : Minutes!PlaceAt(id, b)' = Minutes!PlaceAt(id, b)
          BY <1>1 DEF Minutes!PlaceAt, Minutes!MinuteOf, Minutes!Moment, Minutes!Second
        <4> QED BY <1>7, <4>1 DEF Minutes!Astride
      <3>3. \A r \in Filed' : r.minute \in Int
        BY <1>2, RowsReadAre DEF Filed, Minutes!Readable, Minutes!RowsIn
      <3> HIDE DEF m
      <3> QED BY <1>12, <1>13, <2>1, <3>1, <3>2, <3>3
    <2>3. CASE m <= lastWritten
      BY <1>18, <2>3
    <2>4. CASE ~(m <= lastWritten)
      <3>1. lastWritten' < cur /\ m < cur
        BY <1>6, <1>12, <2>1, <2>2, <2>4
      <3>2. RingHolds(reply, id)
        <4> SUFFICES ASSUME ~RingHolds(reply, id) PROVE FALSE
          OBVIOUS
        <4>1. cur <= m
          BY <1>1, LaterLiesLater DEF cur, l
        <4> QED BY <1>6, <2>1, <3>1, <4>1
      <3>3. m \in Minutes!Minutes
        <4>1. lastWritten' \in Minutes!Minutes
          BY <1>11, <2>1, <2>2
        <4> QED BY <2>1, <2>2, <4>1, MinutesReachDown
      <3> QED BY <1>19, <3>1, <3>2, <3>3
    <2> QED BY <2>3, <2>4
  <1>21. SeriesKnows(snapshot)'
    <2>1. \A id : (Seen(id)' <=> Seen(id)) /\ Minutes!Moment(id)' = Minutes!Moment(id)
      BY <1>1 DEF Seen, Minutes!Moment, Minutes!Second
    <2> QED BY <1>1, <1>3, <2>1 DEF SeriesKnows
  <1>22. MinuteType'
    <2>1. open' \in [Minutes!Minutes -> SUBSET SampleIds]
      BY <1>1, <1>8
    <2>2. /\ now' \in 1 .. MaxRecorded + 1 /\ boot' \in 0 .. MaxBoots /\ up' \in BOOLEAN
          /\ count' \in 0 .. MaxRecorded + 1 /\ count' <= now' /\ first' \in [0 .. MaxBoots -> Nat]
      BY <1>1, <1>3 DEF MinuteType
    <2> QED BY <1>1, <1>2, <1>4, <1>7, <1>9, <1>11, <2>1, <2>2
            DEF MinuteType, Minutes!Minutes, SampleIds, Minutes!Ids, Minutes!Boots
  <1>23. ReplyInLife' /\ DishIsTimed'
    BY <1>1 DEF MinuteInv, ReplyInLife, DishIsTimed
  <1>24. MinuteInv'
    BY <1>1, <1>7, <1>9, <1>10, <1>15, <1>17, <1>20, <1>21, <1>22, <1>23 DEF MinuteInv
  <1>25. \A id \in SampleIds, m \in Minutes!Minutes :
            /\ RingHolds(reply, id) /\ Minutes!PlaceAt(id, Minutes!Lag(phase)) = m
            /\ m < Minutes!Current(phase) /\ ~Minutes!Astride(id)'
            => Kept(id)'
    BY <1>19 DEF l, cur
  <1> QED BY <1>7, <1>24, <1>25

LEMMA PollIsCut ==
    ASSUME MinuteInv, NEW phase \in PollPhases, Minutes!PollCut(phase)
    PROVE  MinuteInv' /\ \A id : Kept(id) => Kept(id)'
  <1> DEFINE w    == Minutes!Decoded(phase)
             op   == Minutes!Opened(w)
             l    == Minutes!Lag(phase)
             cur  == Minutes!Current(phase)
             done == Finished(phase)
  <1>1. reply # None /\ up /\ Minutes!Down /\ UNCHANGED <<now, boot, count, first, archive, snapshot>>
    BY DEF Minutes!PollCut, Minutes!Killed, Minutes!dish
  <1>2. PICK ms \in Minutes!Ascending(done) :
           \E n \in 0..Len(ms) - 1, tear \in Minutes!Tears :
               /\ file' = Minutes!CutAfter(file, Minutes!RowsOf(w, ms), n, tear)
               /\ Minutes!FilingHistory(w, SubSeq(Minutes!RowsOf(w, ms), 1, n))
    BY DEF Minutes!PollCut, Finished
  <1>3. PICK n \in 0..Len(ms) - 1, tear \in Minutes!Tears :
               /\ file' = Minutes!CutAfter(file, Minutes!RowsOf(w, ms), n, tear)
               /\ Minutes!FilingHistory(w, SubSeq(Minutes!RowsOf(w, ms), 1, n))
    BY <1>2
  <1>4. /\ done = { m \in Minutes!Minutes : m < cur /\ op[m] # {} }
        /\ Len(ms) \in Nat
        /\ \A i \in 1 .. Len(ms) : ms[i] \in done /\ ms[i] \in Minutes!Minutes /\ ms[i] \in Nat
        /\ \A i, j \in 1..Len(ms) : i < j => ms[i] < ms[j]
        /\ \A m \in done : \E i \in 1..Len(ms) : ms[i] = m
    BY <1>1, FinishedIs
  <1>5. n \in 0 .. Len(ms) /\ n \in Nat
    BY <1>4
  <1>6. MinuteType /\ file \in Logs(MinuteRows) /\ archive \in Logs(MonthRows) /\ lags \subseteq Nat
    BY DEF MinuteInv, MinuteType
  <1>7. /\ file' \in Logs(MinuteRows)
        /\ file'.rows = Minutes!Appended(file, RowsFiled(phase, ms, n)).rows
    <2>1. FiledAre(RowsFiled(phase, ms, n), op, ms, n)
      BY <1>1, <1>5, RowsFiledAre
    <2>2. RowsFiled(phase, ms, n) \in Seq(MinuteRows)
      BY <2>1 DEF FiledAre
    <2> QED BY <1>3, <1>6, <2>2, CutIs DEF RowsFiled
  <1>8. Minutes!FilingHistory(w, RowsFiled(phase, ms, n))
    BY <1>3 DEF RowsFiled
  <1>9. /\ Onward /\ lags' = lags \cup {l} /\ lags \subseteq lags' /\ lags' \subseteq Nat
        /\ FileInPlace' /\ ArchiveInPlace' /\ FileBesideArchive'
        /\ \A r \in Filed' : r \in Filed \/ \E i \in 1..n : r.minute = ms[i]
        /\ \A i \in 1..n : \A id \in op[ms[i]] : Kept(id)'
        /\ \A id : Kept(id) => Kept(id)'
    BY <1>1, <1>5, <1>7, <1>8, RowsAreFiled
  <1>10. /\ l \in Nat /\ cur \in Nat
         /\ \A id \in SampleIds, m \in Minutes!Minutes :
               RingHolds(reply, id) /\ Minutes!PlaceAt(id, l) = m /\ lastWritten < m => id \in op[m]
    BY <1>1, PollLagIs, OpenedIs
  <1>11. doubled' \subseteq astray'
    <2>1. held.ids \cap Minutes!IdsOf(Minutes!Fresh(w, held)) \subseteq Minutes!IdsOf(Minutes!Astray(w, held))
      BY <1>1, SeriesIsIngested
    <2> QED BY <1>8, <2>1 DEF Minutes!FilingHistory, MinuteInv
  <1>12. Backfilled(Minutes!Ring) /\ Backfilled(reply) /\ lastWritten \in Int /\ Minutes!Minutes \subseteq Nat
    <2>1. lastWritten \in Minutes!Minutes \cup {-1}
      BY <1>6 DEF MinuteType
    <2> QED BY <1>1, <2>1, MinutesAre DEF MinuteInv
  <1> HIDE DEF op, done, l, cur, w
  <1>13. ASSUME NEW id \in SampleIds, RingHolds(Minutes!Ring, id), ~Minutes!Astride(id)',
                NEW a \in lags', NEW r \in Filed', Minutes!PlaceAt(id, a) <= r.minute
         PROVE  Kept(id)'
    <2> DEFINE m == Minutes!PlaceAt(id, l)
    <2>1. m \in Nat
      BY <1>6, <1>10, PlacesAre
    <2>2. \A b \in lags' : Minutes!PlaceAt(id, b) = m
      <3>1. \A b : Minutes!PlaceAt(id, b)' = Minutes!PlaceAt(id, b)
        BY <1>1 DEF Minutes!PlaceAt, Minutes!MinuteOf, Minutes!Moment, Minutes!Second
      <3> QED BY <1>9, <1>13, <3>1 DEF Minutes!Astride
    <2>3. m <= r.minute /\ \A b \in lags : Minutes!PlaceAt(id, b) = m
      BY <1>9, <1>13, <2>2
    <2> HIDE DEF m
    <2>4. CASE r \in Filed \/ m <= lastWritten
      <3>1. Kept(id)
        BY <1>1, <1>12, <1>13, <2>1, <2>3, <2>4, BelowIsKept
      <3> QED BY <1>9, <3>1
    <2>5. CASE r \notin Filed /\ lastWritten < m
      <3>1. PICK i \in 1..n : r.minute = ms[i]
        BY <1>9, <1>13, <2>5
      <3>2. i \in 1 .. Len(ms) /\ ms[i] \in Nat /\ ms[i] \in Minutes!Minutes /\ ms[i] < cur
        BY <1>4, <1>5
      <3>3. m < cur /\ m <= ms[i]
        BY <1>10, <2>1, <2>3, <3>1, <3>2
      <3>4. RingHolds(reply, id)
        <4> SUFFICES ASSUME ~RingHolds(reply, id) PROVE FALSE
          OBVIOUS
        <4>1. cur <= m
          BY <1>1, <1>13, LaterLiesLater DEF cur, l, m
        <4> QED BY <1>10, <2>1, <3>3, <4>1
      <3>5. m \in Minutes!Minutes
        BY <2>1, <3>2, <3>3, MinutesReachDown
      <3>6. id \in op[m]
        BY <1>10, <1>13, <2>5, <3>4, <3>5 DEF m
      <3>7. m \in done
        BY <1>4, <3>3, <3>5, <3>6
      <3>8. PICK j \in 1..Len(ms) : ms[j] = m
        BY <1>4, <3>7
      <3>9. ~(i < j)
        BY <1>4, <2>1, <3>2, <3>3, <3>8
      <3>10. j \in 1..n
        BY <1>4, <1>5, <3>9
      <3> QED BY <1>9, <3>6, <3>8, <3>10
    <2> QED BY <1>12, <2>1, <2>4, <2>5
  <1>14. \A id \in SampleIds :
            /\ RingHolds(Minutes!Ring, id) /\ ~Minutes!Astride(id)'
            /\ \E a \in lags', r \in Filed' : Minutes!PlaceAt(id, a) <= r.minute
            => Kept(id)'
    BY <1>13
  <1>15. archive' \in Logs(MonthRows)
    BY <1>1, <1>6
  <1>16. MinuteInv'
    BY <1>1, <1>7, <1>9, <1>11, <1>14, <1>15, ProcessEnds
  <1> QED BY <1>9, <1>16

MonthIds(m) == Minutes!SamplesIn({ r \in Minutes!Expired : Minutes!MonthOf(r.minute) = m })

LEMMA ExpiredAre ==
    ASSUME MinuteInv
    PROVE  /\ now \div YearLen \in Nat
           /\ \A r \in Filed : Minutes!MonthOf(r.minute) \in Nat /\ r.ids \subseteq SampleIds
           /\ Minutes!Expired = { r \in Filed : Minutes!MonthOf(r.minute) < now \div YearLen }
           /\ IsFiniteSet(Minutes!Unarchived)
           /\ \A m \in Minutes!Unarchived :
                 m \in Nat /\ m < now \div YearLen /\ m \notin Minutes!ArchivedMonths
  <1>1. now \div YearLen \in Nat
    BY RecorderIsSized, QuotientIs DEF MinuteInv, MinuteType
  <1>2. \A r \in Filed : r.minute \in Nat /\ r.ids \subseteq SampleIds
    BY RowsReadAre DEF MinuteInv, MinuteType, Filed
  <1>3. \A r \in Filed : Minutes!MonthOf(r.minute) \in Nat
    BY <1>2, MonthsAre
  <1>4. Minutes!Expired = { r \in Filed : Minutes!MonthOf(r.minute) < now \div YearLen }
    BY DEF Minutes!Expired, Minutes!IsPast, Filed
  <1>5. \A m \in Minutes!Unarchived : m \in Nat /\ m < now \div YearLen /\ m \notin Minutes!ArchivedMonths
    BY <1>3, <1>4 DEF Minutes!Unarchived
  <1>6. IsFiniteSet(Minutes!Unarchived)
    <2>1. IsFiniteSet(0..now \div YearLen)
      BY <1>1, FS_Interval
    <2>2. Minutes!Unarchived \subseteq 0..now \div YearLen
      BY <1>1, <1>5
    <2> QED BY <2>1, <2>2, FS_Subset
  <1> QED BY <1>1, <1>2, <1>3, <1>4, <1>5, <1>6

LEMMA MonthsAreFolded ==
    ASSUME MinuteInv, NEW ms \in Minutes!Ascending(Minutes!Unarchived), NEW n \in 0..Len(ms)
    PROVE  LET rows == SubSeq(Minutes!Folded(ms), 1, n) IN
           /\ Len(ms) \in Nat /\ n = Len(ms) => rows = Minutes!Folded(ms)
           /\ rows \in Seq(MonthRows) /\ \A p, q \in DOMAIN rows : p < q => rows[p].month # rows[q].month
           /\ \A a \in Minutes!RowsIn(rows) : a.month \in Minutes!Unarchived /\ a.ids = MonthIds(a.month)
           /\ n = Len(ms) => \A m \in Minutes!Unarchived :
                                \E a \in Minutes!RowsIn(rows) : a.month = m /\ a.ids = MonthIds(m)
  <1> DEFINE all  == Minutes!Folded(ms)
             rows == SubSeq(all, 1, n)
             Row(i) == [month |-> ms[i], ids |-> MonthIds(ms[i])]
  <1>1. /\ DOMAIN ms = 1 .. Len(ms) /\ Len(ms) \in Nat /\ n \in Nat
        /\ \A i \in 1 .. Len(ms) : ms[i] \in Minutes!Unarchived /\ ms[i] \in Nat
        /\ \A i, j \in 1..Len(ms) : i < j => ms[i] < ms[j]
        /\ \A m \in Minutes!Unarchived : \E i \in 1..Len(ms) : ms[i] = m
    BY ExpiredAre, AscendingIs
  <1>2. all = [ i \in 1..Len(ms) |-> Row(i) ]
    BY <1>1 DEF Minutes!Folded, MonthIds
  <1>3. \A m : MonthIds(m) \subseteq SampleIds
    BY ExpiredAre DEF MonthIds, Minutes!SamplesIn
  <1>4. \A i \in 1..Len(ms) : Row(i) \in MonthRows
    BY <1>1, <1>3 DEF MonthRows
  <1>5. all \in Seq(MonthRows) /\ Len(all) = Len(ms)
    BY <1>1, <1>2, <1>4
  <1> HIDE DEF all
  <1>6. rows \in Seq(MonthRows) /\ Len(rows) = n /\ DOMAIN rows = 1..n
    BY <1>1, <1>5
  <1>7. \A i \in 1..n : rows[i] = Row(i)
    BY <1>1, <1>2, <1>5
  <1>8. n = Len(ms) => rows = all
    BY <1>5
  <1> HIDE DEF rows
  <1>9. \A i \in 1 .. n : /\ rows[i].month = ms[i] /\ rows[i].ids = MonthIds(ms[i])
                          /\ rows[i] \in Minutes!RowsIn(rows)
    BY <1>6, <1>7 DEF Minutes!RowsIn
  <1>10. ASSUME NEW p \in DOMAIN rows, NEW q \in DOMAIN rows, p < q PROVE rows[p].month # rows[q].month
    <2>1. p \in 1 .. n /\ q \in 1 .. n /\ p \in 1 .. Len(ms) /\ q \in 1 .. Len(ms)
      BY <1>1, <1>6
    <2>2. ms[p] < ms[q] /\ ms[p] \in Nat
      BY <1>1, <1>10, <2>1
    <2> QED BY <1>9, <2>1, <2>2
  <1>11. \A a \in Minutes!RowsIn(rows) : a.month \in Minutes!Unarchived /\ a.ids = MonthIds(a.month)
    <2> SUFFICES ASSUME NEW i \in 1..n
                 PROVE  rows[i].month \in Minutes!Unarchived /\ rows[i].ids = MonthIds(rows[i].month)
      BY <1>6 DEF Minutes!RowsIn
    <2> QED BY <1>1, <1>9
  <1>12. n = Len(ms) => \A m \in Minutes!Unarchived :
                            \E a \in Minutes!RowsIn(rows) : a.month = m /\ a.ids = MonthIds(m)
    BY <1>1, <1>9
  <1> QED BY <1>1, <1>6, <1>8, <1>10, <1>11, <1>12 DEF rows, all

(* What a compaction, whole or cut short, leaves in the archive, while the file  *)
(* still has its minutes.                                                        *)
LEMMA MonthsAreArchived ==
    ASSUME MinuteInv, NEW ms \in Minutes!Ascending(Minutes!Unarchived), NEW n \in 0..Len(ms),
           archive'.rows = Minutes!Appended(archive, SubSeq(Minutes!Folded(ms), 1, n)).rows,
           spoiled' = spoiled \cup Minutes!SamplesIn(Minutes!Spoiled(archive, SubSeq(Minutes!Folded(ms), 1, n))),
           UNCHANGED <<now, boot, count, first, late, lags>>
    PROVE  /\ spoiled \subseteq spoiled' /\ ArchiveInPlace'
           /\ Minutes!SamplesIn(Archives) \subseteq Minutes!SamplesIn(Archives')
           /\ \A r \in Filed : Minutes!MonthOf(r.minute) \in Minutes!ArchivedMonths' =>
                                  r.ids \subseteq late \cup spoiled' \cup Minutes!SamplesIn(Archives')
           /\ n = Len(ms) => \A r \in Minutes!Expired :
                                r.ids \subseteq late \cup spoiled' \cup Minutes!SamplesIn(Archives')
  <1> DEFINE rows == SubSeq(Minutes!Folded(ms), 1, n)
             new  == Minutes!RowsIn(rows)
  <1>1. archive \in Logs(MonthRows)
    BY DEF MinuteInv, MinuteType
  <1>2. /\ rows \in Seq(MonthRows) /\ \A p, q \in DOMAIN rows : p < q => rows[p].month # rows[q].month
        /\ \A a \in new : a.month \in Minutes!Unarchived /\ a.ids = MonthIds(a.month)
        /\ n = Len(ms) => \A m \in Minutes!Unarchived : \E a \in new : a.month = m /\ a.ids = MonthIds(m)
    BY MonthsAreFolded
  <1>3. spoiled' = spoiled \cup Minutes!SamplesIn(Minutes!Spoiled(archive, rows))
        /\ archive'.rows = Minutes!Appended(archive, rows).rows
    OBVIOUS
  <1> HIDE DEF rows
  <1>4. /\ Archives \subseteq Archives' /\ Archives' \subseteq Archives \cup new
        /\ new \subseteq Archives' \cup Minutes!Spoiled(archive, rows)
        /\ \A i, j \in DOMAIN archive'.rows : i < j => InTurn(archive, rows, archive'.rows[i], archive'.rows[j])
    <2>1. Archives' = Minutes!Readable(Minutes!Appended(archive, rows))
      BY <1>3 DEF Archives, Minutes!Readable
    <2> QED BY <1>1, <1>2, <1>3, <2>1, AppendedIs DEF Archives
  <1> HIDE DEF new
  <1>5. ASSUME NEW a \in new, NEW id \in a.ids
        PROVE  \E r \in Minutes!Expired : r \in Filed /\ Minutes!MonthOf(r.minute) = a.month /\ id \in r.ids
    BY <1>2, <1>5, ExpiredAre DEF MonthIds, Minutes!SamplesIn
  <1>6. \A a \in new : a.ids \subseteq spoiled' \cup Minutes!SamplesIn(Archives')
    BY <1>3, <1>4 DEF Minutes!SamplesIn
  <1>7. Minutes!SamplesIn(Archives) \subseteq Minutes!SamplesIn(Archives') /\ spoiled \subseteq spoiled'
    BY <1>3, <1>4 DEF Minutes!SamplesIn
  <1>8. ArchiveInPlace'
    <2>1. ASSUME NEW i \in DOMAIN archive'.rows, NEW j \in DOMAIN archive'.rows, i < j
          PROVE  archive'.rows[i].month # archive'.rows[j].month
      <3> DEFINE x == archive'.rows[i]
                 y == archive'.rows[j]
      <3>1. InTurn(archive, rows, x, y)
        BY <1>4, <2>1
      <3> HIDE DEF x, y
      <3>2. ASSUME x \in Archives, y \in new PROVE x.month # y.month
        <4>1. x.month \in Minutes!ArchivedMonths /\ y.month \in Minutes!Unarchived
          BY <1>2, <3>2 DEF Archives, Minutes!ArchivedMonths
        <4> QED BY <4>1 DEF Minutes!Unarchived
      <3>3. ASSUME NEW p \in DOMAIN archive.rows, NEW q \in DOMAIN archive.rows, p < q,
                   x = archive.rows[p], y = archive.rows[q]
            PROVE  x.month # y.month
        BY <3>3 DEF MinuteInv, ArchiveInPlace
      <3>4. ASSUME NEW p \in DOMAIN rows, NEW q \in DOMAIN rows, p < q, x = rows[p], y = rows[q]
            PROVE  x.month # y.month
        BY <1>2, <3>4
      <3>5. x.month # y.month
        BY <3>1, <3>2, <3>3, <3>4 DEF InTurn, Archives, new
      <3> QED BY <3>5 DEF x, y
    <2>2. ASSUME NEW a \in Archives' PROVE a.month < now \div YearLen /\ \A id \in a.ids : LiesIn(id, a.month)
      <3>1. CASE a \in Archives
        BY <3>1 DEF MinuteInv, ArchiveInPlace
      <3>2. CASE a \in new
        <4>1. a.month < now \div YearLen
          BY <1>2, <3>2, ExpiredAre
        <4>2. ASSUME NEW id \in a.ids PROVE LiesIn(id, a.month)
          <5>1. PICK r \in Filed : Minutes!MonthOf(r.minute) = a.month /\ id \in r.ids
            BY <1>5, <3>2
          <5>2. LiesAt(id, r.minute)
            BY <5>1 DEF MinuteInv, FileInPlace
          <5> QED BY <5>1, <5>2 DEF LiesAt, LiesIn
        <4> QED BY <4>1, <4>2
      <3> QED BY <3>1, <3>2, <1>4
    <2>3. \A id, y : LiesIn(id, y)' <=> LiesIn(id, y)
      BY DEF LiesIn, Seen, Minutes!PlaceAt, Minutes!MinuteOf, Minutes!MonthOf, Minutes!Moment, Minutes!Second
    <2> QED BY <2>1, <2>2, <2>3 DEF ArchiveInPlace
  <1>9. ASSUME NEW r \in Filed, NEW a \in new, Minutes!MonthOf(r.minute) = a.month
        PROVE  r.ids \subseteq spoiled' \cup Minutes!SamplesIn(Archives')
    <2>1. r \in Minutes!Expired
      BY <1>2, <1>9, ExpiredAre
    <2>2. r.ids \subseteq a.ids
      BY <1>2, <1>9, <2>1 DEF MonthIds, Minutes!SamplesIn
    <2> QED BY <1>6, <2>2
  <1>10. ASSUME NEW r \in Filed, Minutes!MonthOf(r.minute) \in Minutes!ArchivedMonths'
         PROVE  r.ids \subseteq late \cup spoiled' \cup Minutes!SamplesIn(Archives')
    <2>1. PICK a \in Archives' : a.month = Minutes!MonthOf(r.minute)
      BY <1>10 DEF Minutes!ArchivedMonths, Archives
    <2>2. CASE a \in Archives
      <3>1. Minutes!MonthOf(r.minute) \in Minutes!ArchivedMonths
        BY <2>1, <2>2 DEF Minutes!ArchivedMonths, Archives
      <3> QED BY <3>1, <1>7 DEF MinuteInv, FileBesideArchive
    <2>3. CASE a \in new
      BY <1>9, <2>1, <2>3
    <2> QED BY <2>2, <2>3, <1>4
  <1>11. ASSUME n = Len(ms), NEW r \in Minutes!Expired
         PROVE  r.ids \subseteq late \cup spoiled' \cup Minutes!SamplesIn(Archives')
    <2>1. r \in Filed
      BY ExpiredAre
    <2>2. CASE Minutes!MonthOf(r.minute) \in Minutes!ArchivedMonths
      BY <2>1, <2>2, <1>7 DEF MinuteInv, FileBesideArchive
    <2>3. CASE Minutes!MonthOf(r.minute) \notin Minutes!ArchivedMonths
      <3>1. Minutes!MonthOf(r.minute) \in Minutes!Unarchived
        BY <2>3 DEF Minutes!Unarchived
      <3>2. PICK a \in new : a.month = Minutes!MonthOf(r.minute)
        BY <1>2, <1>11, <3>1
      <3> QED BY <1>9, <2>1, <3>2
    <2> QED BY <2>2, <2>3
  <1> QED BY <1>7, <1>8, <1>10, <1>11

LEMMA MinutesRemain ==
    ASSUME MinuteInv, Minutes!MinutesCompacted
    PROVE  /\ file' \in Logs(MinuteRows)
           /\ \A i, j \in DOMAIN file'.rows : i < j => file'.rows[i].minute # file'.rows[j].minute
           /\ Filed' = { r \in Filed : ~(Minutes!MonthOf(r.minute) < now \div YearLen) }
  <1>1. /\ file \in Logs(MinuteRows) /\ \A i, j \in DOMAIN file.rows : i < j => file.rows[i].minute # file.rows[j].minute
        /\ file.rows \in Seq(MinuteRows) /\ DOMAIN file.rows = 1 .. Len(file.rows) /\ Len(file.rows) \in Nat
    BY DEF MinuteInv, MinuteType, FileInPlace, Logs
  <1>2. Minutes!Expired = { r \in Filed : Minutes!MonthOf(r.minute) < now \div YearLen }
    BY ExpiredAre
  <1>3. CASE Minutes!Expired = {}
    <2>1. file' = file
      BY <1>3 DEF Minutes!MinutesCompacted
    <2>2. Filed' = Filed
      BY <2>1 DEF Filed, Minutes!Readable, Minutes!RowsIn
    <2> QED BY <1>1, <1>2, <1>3, <2>1, <2>2
  <1>4. CASE Minutes!Expired # {}
    <2> DEFINE at == Minutes!Remaining
    <2>1. PICK is \in Minutes!Ascending(at) :
             file' = [rows |-> [ j \in DOMAIN is |-> file.rows[is[j]] ], torn |-> FALSE]
      BY <1>4 DEF Minutes!MinutesCompacted, Minutes!Rewritten
    <2>2. at = { i \in 1..Len(file.rows) :
                   ~(Minutes!MonthOf(file.rows[i].minute) < now \div YearLen) }
      BY <1>1 DEF Minutes!Remaining, Minutes!IsPast
    <2> HIDE DEF at
    <2>3. IsFiniteSet(at)
      <3>1. IsFiniteSet(1..Len(file.rows))
        BY <1>1, FS_Interval
      <3> QED BY <2>2, <3>1, FS_Subset
    <2>4. /\ DOMAIN is = 1 .. Len(is) /\ Len(is) \in Nat
          /\ \A j \in 1..Len(is) : is[j] \in at
          /\ \A i, j \in 1..Len(is) : i < j => is[i] < is[j]
          /\ \A i \in at : \E j \in 1..Len(is) : is[j] = i
      BY <2>3, AscendingIs
    <2>5. \A j \in 1 .. Len(is) : is[j] \in 1 .. Len(file.rows) /\ file.rows[is[j]] \in MinuteRows
      BY <1>1, <2>2, <2>4
    <2>6. /\ file'.rows = [ j \in 1..Len(is) |-> file.rows[is[j]] ]
          /\ file'.torn = FALSE
      BY <2>1, <2>4
    <2>7. file'.rows \in Seq(MinuteRows) /\ DOMAIN file'.rows = 1..Len(is)
      BY <2>4, <2>5, <2>6
    <2>8. file' \in Logs(MinuteRows)
      BY <2>1, <2>6, <2>7 DEF Logs
    <2>9. ASSUME NEW i \in DOMAIN file'.rows, NEW j \in DOMAIN file'.rows, i < j
          PROVE  file'.rows[i].minute # file'.rows[j].minute
      <3>1. i \in 1 .. Len(is) /\ j \in 1 .. Len(is)
        BY <2>7
      <3>2. is[i] < is[j] /\ is[i] \in DOMAIN file.rows /\ is[j] \in DOMAIN file.rows
        BY <1>1, <2>4, <2>5, <2>9, <3>1
      <3>3. file.rows[is[i]].minute # file.rows[is[j]].minute
        BY <1>1, <3>2
      <3> QED BY <2>6, <3>1, <3>3
    <2>10. ASSUME NEW r \in Filed'
           PROVE  r \in Filed /\ ~(Minutes!MonthOf(r.minute) < now \div YearLen)
      <3>1. PICK j \in 1..Len(is) : r = file.rows[is[j]]
        BY <2>6, <2>7 DEF Filed, Minutes!Readable, Minutes!RowsIn
      <3> QED BY <1>1, <2>2, <2>4, <2>5, <3>1 DEF Filed, Minutes!Readable, Minutes!RowsIn
    <2>11. ASSUME NEW r \in Filed, ~(Minutes!MonthOf(r.minute) < now \div YearLen)
           PROVE  r \in Filed'
      <3>1. PICK i \in 1..Len(file.rows) : r = file.rows[i]
        BY <1>1 DEF Filed, Minutes!Readable, Minutes!RowsIn
      <3>2. i \in at
        BY <2>2, <2>11, <3>1
      <3>3. PICK j \in 1..Len(is) : is[j] = i
        BY <2>4, <3>2
      <3>4. file'.rows[j] = r
        BY <2>6, <3>1, <3>3
      <3> QED BY <2>7, <3>4 DEF Filed, Minutes!Readable, Minutes!RowsIn
    <2> QED BY <2>8, <2>9, <2>10, <2>11
  <1> QED BY <1>3, <1>4

(* After a compaction the file holds nothing of an archived month, and nothing   *)
(* is lost to both but what came late or a torn line swallowed.                  *)
LEMMA CompactedIs ==
    ASSUME MinuteInv, Minutes!Compacted, UNCHANGED <<now, boot, count, first, late, lags>>
    PROVE  /\ file' \in Logs(MinuteRows) /\ archive' \in Logs(MonthRows)
           /\ Filed' = Filed \ Minutes!Expired
           /\ FileInPlace' /\ ArchiveInPlace' /\ FileBesideArchive'
           /\ \A r \in Filed' : Minutes!MonthOf(r.minute) \notin Minutes!ArchivedMonths'
           /\ \A id : Kept(id) => Kept(id)'
  <1>1. PICK ms \in Minutes!Ascending(Minutes!Unarchived) :
           /\ archive' = Minutes!Appended(archive, Minutes!Folded(ms))
           /\ spoiled' = spoiled \cup Minutes!SamplesIn(Minutes!Spoiled(archive, Minutes!Folded(ms)))
    BY DEF Minutes!Compacted
  <1> DEFINE n == Len(ms)
  <1>2. Len(ms) \in Nat /\ n \in 0..Len(ms)
    BY ExpiredAre, AscendingIs
  <1>3. SubSeq(Minutes!Folded(ms), 1, n) = Minutes!Folded(ms) /\ Minutes!Folded(ms) \in Seq(MonthRows)
    BY <1>2, MonthsAreFolded
  <1>4. archive' \in Logs(MonthRows)
    BY <1>1, <1>3, AppendedIs DEF MinuteInv, MinuteType
  <1>5. /\ spoiled \subseteq spoiled' /\ ArchiveInPlace'
        /\ Minutes!SamplesIn(Archives) \subseteq Minutes!SamplesIn(Archives')
        /\ \A r \in Minutes!Expired : r.ids \subseteq late \cup spoiled' \cup Minutes!SamplesIn(Archives')
    <2>1. archive'.rows = Minutes!Appended(archive, SubSeq(Minutes!Folded(ms), 1, n)).rows
      BY <1>1, <1>3
    <2>2. spoiled' = spoiled \cup
             Minutes!SamplesIn(Minutes!Spoiled(archive, SubSeq(Minutes!Folded(ms), 1, n)))
      BY <1>1, <1>3
    <2> QED BY <1>2, <2>1, <2>2, MonthsAreArchived
  <1>6. /\ file' \in Logs(MinuteRows)
        /\ \A i, j \in DOMAIN file'.rows : i < j => file'.rows[i].minute # file'.rows[j].minute
        /\ Filed' = { r \in Filed : ~(Minutes!MonthOf(r.minute) < now \div YearLen) }
    BY MinutesRemain DEF Minutes!Compacted
  <1>7. Filed' = Filed \ Minutes!Expired
    BY <1>6, ExpiredAre
  <1>8. FileInPlace'
    <2>1. \A m : FoundOver(m)' <=> FoundOver(m)
      BY DEF FoundOver, Minutes!MinuteOf
    <2>2. \A id, m : LiesAt(id, m)' <=> LiesAt(id, m)
      BY DEF LiesAt, Seen, Minutes!PlaceAt, Minutes!MinuteOf, Minutes!Moment, Minutes!Second
    <2>3. \A r \in Filed' : FoundOver(r.minute) /\ \A id \in r.ids : LiesAt(id, r.minute)
      BY <1>7 DEF MinuteInv, FileInPlace
    <2>4. \A r \in Filed' : FoundOver(r.minute)' /\ \A id \in r.ids : LiesAt(id, r.minute)'
      BY <2>2, <2>3 DEF FoundOver, Minutes!MinuteOf
    <2> QED BY <1>6, <2>4 DEF FileInPlace
  <1>9. \A r \in Filed' : Minutes!MonthOf(r.minute) \notin Minutes!ArchivedMonths'
    <2>1. \A a \in Archives' : a.month < now \div YearLen
      BY <1>5 DEF ArchiveInPlace
    <2> QED BY <1>6, <2>1 DEF Minutes!ArchivedMonths, Archives
  <1>10. FileBesideArchive'
    BY <1>9 DEF FileBesideArchive, Minutes!MonthOf
  <1>11. ASSUME NEW id, Kept(id) PROVE Kept(id)'
    <2>1. CASE id \in late \cup spoiled \cup Minutes!SamplesIn(Archives)
      BY <1>5, <2>1 DEF Kept, Minutes!OnRecord, Archives
    <2>2. ASSUME NEW r \in Filed, id \in r.ids PROVE Kept(id)'
      <3>1. CASE r \in Filed'
        BY <2>2, <3>1 DEF Kept, Minutes!OnRecord, Filed, Minutes!SamplesIn
      <3>2. CASE r \in Minutes!Expired
        BY <1>5, <2>2, <3>2 DEF Kept, Minutes!OnRecord, Archives
      <3> QED BY <1>7, <3>1, <3>2
    <2> QED BY <1>11, <2>1, <2>2 DEF Kept, Minutes!OnRecord, Filed, Archives, Minutes!SamplesIn
  <1> QED BY <1>4, <1>5, <1>6, <1>7, <1>8, <1>9, <1>10, <1>11

(* What has been reached, and what the series know, is as before a compaction or *)
(* a start that keeps these.                                                     *)
LEMMA StandsStill ==
    ASSUME MinuteType, UNCHANGED <<now, boot, count, first, reply, lags>>
    PROVE  /\ \A id, m : LiesAt(id, m)' <=> LiesAt(id, m)
           /\ \A id, l : Minutes!PlaceAt(id, l)' = Minutes!PlaceAt(id, l)
           /\ \A id : Minutes!Astride(id)' <=> Minutes!Astride(id)
           /\ \A h : SeriesKnows(h) <=> /\ h.newest <= 4 * now' + h.lag
                                        /\ reply' # None => h.newest <= 4 * reply'.at + h.lag
                                        /\ \A id \in h.ids :
                                              /\ Seen(id)' /\ Minutes!Moment(id)' + h.lag <= h.newest /\ 0 < h.newest
                                              /\ id.boot = boot' /\ h.counter > 0 => id.k < h.counter
                                              /\ reply' # None /\ id.boot = reply'.boot /\ h.counter > 0 =>
                                                    id.k < h.counter
  <1>1. \A id : (Seen(id)' <=> Seen(id)) /\ Minutes!Moment(id)' = Minutes!Moment(id)
    BY DEF Seen, Minutes!Moment, Minutes!Second
  <1>2. \A id, l : Minutes!PlaceAt(id, l)' = Minutes!PlaceAt(id, l)
    BY <1>1 DEF Minutes!PlaceAt, Minutes!MinuteOf, Minutes!Second
  <1>3. \A id, m : LiesAt(id, m)' <=> LiesAt(id, m)
    BY <1>1, <1>2 DEF LiesAt
  <1>4. \A id : Minutes!Astride(id)' <=> Minutes!Astride(id)
    BY <1>2 DEF Minutes!Astride
  <1> QED BY <1>1, <1>2, <1>3, <1>4 DEF SeriesKnows

LEMMA FilesAreCompacted ==
    ASSUME MinuteInv, Minutes!Compact
    PROVE  MinuteInv' /\ \A id : Kept(id) => Kept(id)'
  <1>1. /\ up /\ Minutes!Compacted
        /\ UNCHANGED <<now, boot, count, first, late, lags>>
        /\ UNCHANGED <<up, reply, open, lastWritten, held, snapshot, doubled, astray>>
    BY DEF Minutes!Compact, Minutes!dish, Minutes!process
  <1>2. /\ file' \in Logs(MinuteRows) /\ archive' \in Logs(MonthRows)
        /\ Filed' = Filed \ Minutes!Expired
        /\ FileInPlace' /\ ArchiveInPlace' /\ FileBesideArchive'
        /\ \A r \in Filed' : Minutes!MonthOf(r.minute) \notin Minutes!ArchivedMonths'
        /\ \A id : Kept(id) => Kept(id)'
    BY <1>1, CompactedIs
  <1>3. MinuteType /\ SeriesKnows(held) /\ SeriesKnows(snapshot)
    BY DEF MinuteInv
  <1>4. MinuteType'
    BY <1>1, <1>2, <1>3 DEF MinuteType, Minutes!Minutes, SampleIds, Minutes!Ids, Minutes!Boots
  <1>5. SeriesKnows(held)' /\ SeriesKnows(snapshot)'
    BY <1>1, <1>3, StandsStill DEF SeriesKnows
  <1>6. /\ \A id, m : LiesAt(id, m)' <=> LiesAt(id, m)
        /\ \A id, l : Minutes!PlaceAt(id, l)' = Minutes!PlaceAt(id, l)
        /\ \A id : Minutes!Astride(id)' <=> Minutes!Astride(id)
    BY <1>1, <1>3, StandsStill
  <1>7. OpenInPlace'
    BY <1>1, <1>6 DEF MinuteInv, OpenInPlace, Minutes!Minutes
  <1>8. Running'
    <2>1. lastWritten # -1 => FoundOver(lastWritten)'
      BY <1>1 DEF MinuteInv, Running, FoundOver, Minutes!MinuteOf
    <2>2. \A r \in Filed' : r.minute <= lastWritten
      BY <1>1, <1>2 DEF MinuteInv, Running
    <2> QED BY <1>1, <1>2, <2>1, <2>2 DEF Running, Minutes!MonthOf
  <1>9. ASSUME NEW ring, Backfilled(ring)
        PROVE  \A id \in SampleIds : RingHolds(ring, id) /\ Reached(id)' /\ ~Minutes!Astride(id)' => Kept(id)'
    <2> SUFFICES ASSUME NEW id \in SampleIds, RingHolds(ring, id), Reached(id)', ~Minutes!Astride(id)'
                 PROVE  Kept(id)'
      OBVIOUS
    <2>1. Reached(id) /\ ~Minutes!Astride(id)
      BY <1>1, <1>2, <1>6 DEF Reached
    <2> QED BY <1>2, <1>9, <2>1 DEF Backfilled
  <1>10. Backfilled(Minutes!Ring)' /\ (reply # None => Backfilled(reply))'
    <2>1. Backfilled(Minutes!Ring) /\ (reply # None => Backfilled(reply))
      BY DEF MinuteInv
    <2>2. \A id \in SampleIds :
             RingHolds(Minutes!Ring, id) /\ Reached(id)' /\ ~Minutes!Astride(id)' => Kept(id)'
      BY <1>9, <2>1
    <2>3. reply # None => \A id \in SampleIds :
             RingHolds(reply, id) /\ Reached(id)' /\ ~Minutes!Astride(id)' => Kept(id)'
      BY <1>9, <2>1
    <2> QED BY <1>1, <2>2, <2>3 DEF Backfilled, RingHolds, Minutes!Ring, SampleIds, Minutes!Ids, Minutes!Boots
  <1>11. ReplyInLife' /\ DishIsTimed' /\ doubled' \subseteq astray'
    BY <1>1 DEF MinuteInv, ReplyInLife, RingType, DishIsTimed
  <1>12. MinuteInv'
    BY <1>1, <1>2, <1>4, <1>5, <1>7, <1>8, <1>10, <1>11 DEF MinuteInv
  <1> QED BY <1>2, <1>12

LEMMA CompactionIsCut ==
    ASSUME MinuteInv, Minutes!CompactionCut
    PROVE  MinuteInv' /\ \A id : Kept(id) => Kept(id)'
  <1>1. /\ Minutes!Down /\ UNCHANGED <<now, boot, count, first, snapshot, late, doubled, astray, lags>>
    BY DEF Minutes!CompactionCut, Minutes!dish
  <1>2. PICK ms \in Minutes!Ascending(Minutes!Unarchived) :
           \E n \in 0..Len(ms), tear \in Minutes!Tears :
               /\ Minutes!CutInCompaction(Minutes!Folded(ms), n, tear)
               /\ spoiled' = spoiled \cup
                     Minutes!SamplesIn(Minutes!Spoiled(archive, SubSeq(Minutes!Folded(ms), 1, n)))
    BY DEF Minutes!CompactionCut
  <1>3. PICK n \in 0..Len(ms), tear \in Minutes!Tears :
               /\ archive' = Minutes!CutAfter(archive, Minutes!Folded(ms), n, tear) /\ file' = file
               /\ spoiled' = spoiled \cup
                     Minutes!SamplesIn(Minutes!Spoiled(archive, SubSeq(Minutes!Folded(ms), 1, n)))
    BY <1>2 DEF Minutes!CutInCompaction
  <1>4. /\ archive' \in Logs(MonthRows)
        /\ archive'.rows = Minutes!Appended(archive, SubSeq(Minutes!Folded(ms), 1, n)).rows
    <2>1. archive \in Logs(MonthRows) /\ SubSeq(Minutes!Folded(ms), 1, n) \in Seq(MonthRows)
      BY MonthsAreFolded DEF MinuteInv, MinuteType
    <2> QED BY <1>3, <2>1, CutIs
  <1>5. /\ spoiled \subseteq spoiled' /\ ArchiveInPlace'
        /\ Minutes!SamplesIn(Archives) \subseteq Minutes!SamplesIn(Archives')
        /\ \A r \in Filed : Minutes!MonthOf(r.minute) \in Minutes!ArchivedMonths' =>
                               r.ids \subseteq late \cup spoiled' \cup Minutes!SamplesIn(Archives')
    BY <1>1, <1>3, <1>4, MonthsAreArchived
  <1>6. MinuteType /\ lags \subseteq Nat /\ file' \in Logs(MinuteRows) /\ Filed' = Filed
    BY <1>3 DEF MinuteInv, MinuteType, Filed, Minutes!Readable, Minutes!RowsIn
  <1>7. Onward
    BY <1>1, <1>6, StandingIsOnward
  <1>8. FileInPlace'
    BY <1>3, <1>7, FileStays
  <1>9. FileBesideArchive'
    BY <1>1, <1>5, <1>6 DEF FileBesideArchive, Minutes!MonthOf, Minutes!SamplesIn
  <1>10. \A id : Kept(id) => Kept(id)'
    BY <1>1, <1>5, <1>6 DEF Kept, Minutes!OnRecord, Minutes!SamplesIn, Filed, Archives
  <1>11. ASSUME NEW id \in SampleIds, RingHolds(Minutes!Ring, id), ~Minutes!Astride(id)',
                NEW l \in lags', NEW r \in Filed', Minutes!PlaceAt(id, l) <= r.minute
         PROVE  Kept(id)'
    <2>1. l \in lags /\ Reached(id)
      BY <1>1, <1>6, <1>11 DEF Reached
    <2>2. Seen(id)
      BY <1>11 DEF RingHolds, Minutes!Ring, Seen
    <2>3. ~Minutes!Astride(id)
      BY <1>6, <1>7, <1>11, <2>2, PlacesStay
    <2>4. Kept(id)
      BY <1>11, <2>1, <2>3 DEF MinuteInv, Backfilled
    <2> QED BY <1>10, <2>4
  <1>12. doubled' \subseteq astray'
    BY <1>1 DEF MinuteInv
  <1>13. MinuteInv'
    BY <1>1, <1>4, <1>5, <1>6, <1>8, <1>9, <1>11, <1>12, ProcessEnds
  <1> QED BY <1>10, <1>13

LEMMA ProcessStarts ==
    ASSUME MinuteInv, Minutes!Start
    PROVE  MinuteInv' /\ \A id : Kept(id) => Kept(id)'
  <1>1. /\ ~up /\ up' = TRUE /\ Minutes!Compacted
        /\ lastWritten' = Minutes!Max({-1} \cup { r.minute : r \in Filed \ Minutes!Expired })
        /\ open' = [m \in Minutes!Minutes |-> {}] /\ held' = snapshot
        /\ UNCHANGED <<now, boot, count, first, reply, snapshot, doubled, astray, late, lags>>
    BY DEF Minutes!Start, Minutes!dish, Filed
  <1>2. /\ file' \in Logs(MinuteRows) /\ archive' \in Logs(MonthRows)
        /\ Filed' = Filed \ Minutes!Expired
        /\ FileInPlace' /\ ArchiveInPlace' /\ FileBesideArchive'
        /\ \A r \in Filed' : Minutes!MonthOf(r.minute) \notin Minutes!ArchivedMonths'
        /\ \A id : Kept(id) => Kept(id)'
    BY <1>1, CompactedIs
  <1>3. MinuteType /\ SeriesKnows(snapshot) /\ snapshot \in HeldSeries /\ reply = None /\ lags \subseteq Nat
    BY <1>1 DEF MinuteInv, MinuteType, ReplyInLife
  <1>4. \A r \in Filed' : r.minute \in Minutes!Minutes /\ r.minute \in Nat
    <2>1. file \in Logs(MinuteRows)
      BY <1>3 DEF MinuteType
    <2> QED BY <1>2, <2>1, RowsReadAre DEF Filed
  <1>5. /\ lastWritten' \in Int /\ \A r \in Filed' : r.minute <= lastWritten'
        /\ (lastWritten' = -1) \/ \E r \in Filed' : lastWritten' = r.minute
    <2> DEFINE Written == { r.minute : r \in Filed' }
               S == {-1} \cup Written
    <2>1. PICK top \in Nat : Minutes!Minutes = 0..top
      <3>1. MaxRecorded + 1 + Jitter \in Nat
        BY RecorderIsSized
      <3>2. (MaxRecorded + 1 + Jitter) \div MinuteLen \in Nat
        BY <3>1, RecorderIsSized, QuotientIs
      <3> QED BY <3>2 DEF Minutes!Minutes
    <2>2. S \in SUBSET Int /\ S # {} /\ \A m \in S : m <= top
      BY <1>4, <2>1
    <2>3. lastWritten' = Minutes!Max(S)
      BY <1>1, <1>2
    <2>4. lastWritten' \in S /\ \A m \in S : m <= lastWritten'
      <3>0. top \in Int
        OBVIOUS
      <3> HIDE DEF S, Written
      <3>1. Minutes!Max(S) \in S /\ \A m \in S : m <= Minutes!Max(S)
        BY <2>2, <3>0, HighestIs
      <3> QED BY <2>3, <3>1
    <2> QED BY <2>2, <2>4
  <1>6. MinuteType'
    <2>1. lastWritten' \in Minutes!Minutes \cup {-1}
      BY <1>4, <1>5
    <2>2. open' \in [Minutes!Minutes -> SUBSET SampleIds] /\ held' \in HeldSeries
      BY <1>1, <1>3
    <2> QED BY <1>1, <1>2, <1>3, <2>1, <2>2 DEF MinuteType, Minutes!Minutes, SampleIds, Minutes!Ids, Minutes!Boots
  <1>7. SeriesKnows(held)' /\ SeriesKnows(snapshot)'
    BY <1>1, <1>3, StandsStill DEF SeriesKnows
  <1>8. OpenInPlace' /\ ReplyInLife'
    BY <1>1, <1>3 DEF OpenInPlace, ReplyInLife, Minutes!Minutes
  <1>9. Running'
    <2>1. \A r \in Filed' : FoundOver(r.minute)'
      BY <1>2 DEF FileInPlace
    <2>2. lastWritten' # -1 => FoundOver(lastWritten)'
      BY <1>5, <2>1 DEF FoundOver
    <2> QED BY <1>2, <1>5, <2>2 DEF Running, Minutes!MonthOf
  <1>10. Backfilled(Minutes!Ring)'
    <2> SUFFICES ASSUME NEW id \in SampleIds, RingHolds(Minutes!Ring, id), Reached(id)', ~Minutes!Astride(id)'
                 PROVE  Kept(id)'
      BY <1>1 DEF Backfilled, RingHolds, Minutes!Ring, SampleIds, Minutes!Ids, Minutes!Boots
    <2>1. /\ \A l : Minutes!PlaceAt(id, l)' = Minutes!PlaceAt(id, l)
          /\ ~Minutes!Astride(id)
      BY <1>1, <1>3, StandsStill
    <2>2. PICK l \in lags : \/ Minutes!PlaceAt(id, l) <= lastWritten'
                            \/ \E r \in Filed' : Minutes!PlaceAt(id, l) <= r.minute
      BY <1>1, <2>1 DEF Reached
    <2>3. Minutes!PlaceAt(id, l) \in Nat
      BY <1>3, PlacesAre
    <2>4. \E r \in Filed' : Minutes!PlaceAt(id, l) <= r.minute
      BY <1>5, <2>2, <2>3
    <2>5. Kept(id)
      BY <1>2, <2>1, <2>4 DEF MinuteInv, Backfilled, Reached
    <2> QED BY <1>2, <2>5
  <1>11. DishIsTimed' /\ doubled' \subseteq astray' /\ reply' = None
    BY <1>1, <1>3 DEF MinuteInv, DishIsTimed
  <1>12. MinuteInv'
    BY <1>2, <1>6, <1>7, <1>8, <1>9, <1>10, <1>11 DEF MinuteInv
  <1> QED BY <1>2, <1>12

LEMMA RecorderSteps ==
    ASSUME MinuteInv, Minutes!Next \/ UNCHANGED <<dish, minuteVars>>
    PROVE  MinuteInv' /\ \A id : Kept(id) => Kept(id)'
  <1>1. CASE Minutes!Tick \/ Minutes!Reboot
    <2>1. UNCHANGED <<file, archive, late, spoiled>>
      BY <1>1 DEF Minutes!Tick, Minutes!Reboot, Minutes!disk, Minutes!history
    <2> QED BY <1>1, <2>1, RecordOutlivesTheDish, RecordStands
  <1>2. ASSUME NEW phase \in PollPhases, Minutes!Poll(phase) \/ Minutes!PollCut(phase)
        PROVE  MinuteInv' /\ \A id : Kept(id) => Kept(id)'
    BY <1>2, PollRecords, PollIsCut
  <1>3. CASE Minutes!Fetch \/ Minutes!Snapshot \/ UNCHANGED <<dish, minuteVars>>
    BY <1>3, RecorderStands, RecordStands
  <1>4. CASE Minutes!Kill
    BY <1>4, ProcessIsKilled, RecordStands
  <1>5. CASE Minutes!Compact \/ Minutes!CompactionCut \/ Minutes!Start
    BY <1>5, FilesAreCompacted, CompactionIsCut, ProcessStarts
  <1> QED BY <1>1, <1>2, <1>3, <1>4, <1>5 DEF Minutes!Next

(* Until the recorder's own steps are taken no poll holds an answer.             *)
RecordInv == IF part = "minutes" THEN MinuteInv ELSE reply = None

LEMMA RecordInvStep ==
    ASSUME RecordInv, UNCHANGED part, StoresNext \/ UNCHANGED storesVars
    PROVE  RecordInv' /\ (\A id : Kept(id) => Kept(id)')
  <1>1. CASE part = "minutes"
    <2>1. Minutes!Next \/ UNCHANGED <<dish, minuteVars>>
      BY <1>1 DEF StoresNext, storesVars
    <2> QED BY <1>1, <2>1, RecorderSteps DEF RecordInv
  <1>2. CASE part # "minutes"
    <2>1. UNCHANGED minuteVars
      BY <1>2 DEF StoresNext, storesVars
    <2> QED BY <1>2, <2>1, RecordStands DEF RecordInv, minuteVars
  <1> QED BY <1>1, <1>2

(* However polls overlap, however long each waits before it stamps its answer,   *)
(* and wherever the dish reboots or the process is killed, a sample that no two  *)
(* polls' stamps place apart is summed in one minute and in one month, in both   *)
(* only if it came too late; the window holds a sample once unless a slip of the *)
(* clock made it look new; the files lose nothing but what came too late for its *)
(* month's row or a torn line swallowed; and a poll brings every such sample of  *)
(* a finished minute its answer has (historian.mts poll, EnergyStore.compact,    *)
(* TelemetryAccumulator).                                                        *)
THEOREM RecordOutlivesKills == StoresSpec => MinutesAreKept
  <1>1. StoresInit => RecordInv
    BY MinutesStart DEF RecordInv, StoresInit, Minutes!Init
  <1>2. RecordInv /\ [UNCHANGED part /\ StoresNext]_storesVars => RecordInv'
    BY RecordInvStep DEF storesVars
  <1>3. RecordInv => (part = "minutes" => Minutes!CountedOnce /\ Minutes!SeriesHoldsOnce)
    BY MinuteInvCounts DEF RecordInv, MinuteInv, Minutes!SeriesHoldsOnce
  <1>4. RecordInv /\ [UNCHANGED part /\ StoresNext]_storesVars =>
           [Minutes!OnRecord \ Minutes!OnRecord' \subseteq late' \cup spoiled']_Minutes!vars
    <2> SUFFICES ASSUME RecordInv, UNCHANGED part, StoresNext \/ UNCHANGED storesVars
                 PROVE  Minutes!OnRecord \ Minutes!OnRecord' \subseteq late' \cup spoiled'
      BY DEF storesVars
    <2> QED BY RecordInvStep DEF Kept, StoresNext, storesVars
  <1>5. RecordInv /\ [UNCHANGED part /\ StoresNext]_storesVars =>
           [\A phase \in PollPhases : Minutes!Poll(phase) =>
               { id \in Minutes!IdsOf(Minutes!Decoded(phase).samples) :
                   /\ \E m \in Minutes!Minutes :
                         m < Minutes!Current(phase) /\ id \in Minutes!InMinute(Minutes!Decoded(phase), m)
                   /\ ~Minutes!Astride(id)' }
               \subseteq Minutes!OnRecord' \cup late' \cup spoiled']_Minutes!vars
    <2> SUFFICES ASSUME RecordInv, NEW phase \in PollPhases, Minutes!Poll(phase),
                        NEW id \in Minutes!IdsOf(Minutes!Decoded(phase).samples),
                        NEW m \in Minutes!Minutes, m < Minutes!Current(phase),
                        id \in Minutes!InMinute(Minutes!Decoded(phase), m), ~Minutes!Astride(id)'
                 PROVE  Kept(id)'
      BY DEF Kept
    <2>1. reply # None
      BY DEF Minutes!Poll
    <2>2. MinuteInv
      BY <2>1 DEF RecordInv
    <2>3. id \in SampleIds /\ RingHolds(reply, id) /\ Minutes!PlaceAt(id, Minutes!Lag(phase)) = m
      BY <2>1, <2>2, InMinuteIs
    <2> QED BY <2>2, <2>3, PollRecords
  <1>6. StoresSpec => [](part = "minutes" => Minutes!CountedOnce /\ Minutes!SeriesHoldsOnce)
    BY <1>1, <1>2, <1>3, PTL DEF StoresSpec
  <1>7. StoresSpec => Minutes!ErasesOnlyTheLate
    BY <1>1, <1>2, <1>4, PTL DEF StoresSpec, Minutes!ErasesOnlyTheLate
  <1>8. StoresSpec => Minutes!BackfillIsLossless
    BY <1>1, <1>2, <1>5, PTL DEF StoresSpec, Minutes!BackfillIsLossless
  <1> QED BY <1>6, <1>7, <1>8, PTL DEF MinutesAreKept
================================================================================
