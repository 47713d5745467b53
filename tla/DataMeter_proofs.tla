--------------------------- MODULE DataMeter_proofs ----------------------------
(***************************************************************************)
(* Proofs about metering, for any devices, terms, lengths and bounds.      *)
(***************************************************************************)
EXTENDS DataMeter, TLAPS, WellFoundedInduction

--------------------------------------------------------------------------------
(* Cycles and timetables.                                                      *)

LEMMA DivIsNat ==
    ASSUME NEW t \in Nat
    PROVE  /\ t \div DayLength \in Nat
           /\ DayLength * (t \div DayLength) <= t
           /\ t < DayLength * (t \div DayLength) + DayLength
BY DaysPass

LEMMA PeriodEndTyped ==
    ASSUME NEW cycle, NEW t \in Nat
    PROVE  /\ PeriodEnd(cycle, t) \in OrNone(Nat)
           /\ PeriodEnd(cycle, t) # None => PeriodEnd(cycle, t) > t
<1>1. (t \div DayLength + 1) * DayLength \in Nat
  BY DivIsNat, DaysPass
<1>2. (t \div DayLength + 1) * DayLength > t
  BY DivIsNat, DaysPass
<1> QED BY <1>1, <1>2 DEF PeriodEnd, OrNone

\* Two moments with no boundary between them have the same one ahead.
LEMMA SamePeriodEnd ==
    ASSUME NEW cycle, NEW p \in Nat, NEW t \in Nat, p <= t, ~Past(PeriodEnd(cycle, p), t)
    PROVE  PeriodEnd(cycle, t) = PeriodEnd(cycle, p)
<1>1. CASE cycle = "once"
  BY <1>1 DEF PeriodEnd
<1>2. CASE cycle # "once"
  <2>1. (p \div DayLength + 1) * DayLength \in Nat
    BY DivIsNat, DaysPass
  <2>2. t < (p \div DayLength + 1) * DayLength
    BY <1>2, <2>1, NoneIsNoNumber DEF PeriodEnd, Past
  <2>3. t \div DayLength = p \div DayLength
    BY <2>2, DivIsNat, DaysPass
  <2> QED BY <2>3 DEF PeriodEnd
<1> QED BY <1>1, <1>2

LEMMA LeastNat ==
    ASSUME NEW S \in SUBSET Nat, S # {}
    PROVE  \E b \in S : \A c \in S : b <= c
<1>1. PICK b \in S : \A c \in S : ~(<<c, b>> \in OpToRel(<, Nat))
  BY NatLessThanWellFounded, WFMin
<1>2. ASSUME NEW c \in S PROVE b <= c
  <2>1. <<c, b>> \in Nat \X Nat
    OBVIOUS
  <2>2. ~(c < b)
    BY <1>1, <2>1 DEF OpToRel
  <2> QED BY <2>2
<1> QED BY <1>2

\* The timetable's answer stands until the end of its stretch.
LEMMA SegmentEndBounds ==
    ASSUME NEW schedule, NEW t \in Nat
    PROVE  /\ SegmentEnd(schedule, t) \in Nat
           /\ SegmentEnd(schedule, t) > t
           /\ \A b \in Nat : t <= b /\ b < SegmentEnd(schedule, t)
                => (BlockedAt(schedule, b) <=> BlockedAt(schedule, t))
<1> DEFINE turns == {b \in t + 1 .. t + DayLength :
                       BlockedAt(schedule, b) # BlockedAt(schedule, t)}
<1>1. turns \in SUBSET Nat
  BY DaysPass
<1>2. ASSUME NEW b \in Nat, b \notin turns, t <= b, b <= t + DayLength
      PROVE  BlockedAt(schedule, b) = BlockedAt(schedule, t)
  <2>1. b = t \/ b \in t + 1 .. t + DayLength
    BY <1>2, DaysPass
  <2> QED BY <1>2, <2>1
<1>3. CASE turns = {}
  <2>1. SegmentEnd(schedule, t) = t + DayLength
    BY <1>3 DEF SegmentEnd
  <2> HIDE DEF turns
  <2> QED BY <1>2, <1>3, <2>1, DaysPass
<1>4. CASE turns # {}
  <2>1. \E b \in turns : \A c \in turns : b <= c
    BY <1>1, <1>4, LeastNat
  <2>2. SegmentEnd(schedule, t) = CHOOSE b \in turns : \A c \in turns : b <= c
    BY <1>4 DEF SegmentEnd
  <2>3. /\ SegmentEnd(schedule, t) \in turns
        /\ \A c \in turns : SegmentEnd(schedule, t) <= c
    BY <2>1, <2>2
  <2>4. SegmentEnd(schedule, t) \in t + 1 .. t + DayLength
    BY <2>3
  <2> HIDE DEF turns
  <2> QED BY <1>1, <1>2, <2>3, <2>4, DaysPass
<1> QED BY <1>3, <1>4

--------------------------------------------------------------------------------
(* What each step of a rule leaves a rule.                                     *)

LEMMA OpenWindowTyped ==
    ASSUME NEW r \in RuleFields, NEW t \in Nat,
           r.countdownStart = None <=> r.terms.countdown = None
    PROVE  OpenWindow(r, t) \in MeterRules
<1>1. SegmentEnd(r.terms.schedule, t) \in Nat
  BY SegmentEndBounds
<1>2. BlockedAt(r.terms.schedule, t) \in BOOLEAN
  BY DEF BlockedAt
<1>3. OpenWindow(r, t) \in RuleFields
  BY <1>1, <1>2 DEF OpenWindow, RuleFields, OrNone
<1>4. /\ OpenWindow(r, t).countdownStart = r.countdownStart
      /\ OpenWindow(r, t).terms = r.terms
  BY DEF OpenWindow, RuleFields
<1>5. OpenWindow(r, t).windowEnd = None <=> r.terms.schedule = None
  BY <1>1, NoneIsNoNumber DEF OpenWindow, RuleFields
<1> QED BY <1>3, <1>4, <1>5 DEF MeterRules

LEMMA OpenedTyped ==
    ASSUME NEW r \in MeterRules, NEW t \in Nat
    PROVE  Opened(r, t) \in MeterRules
BY PeriodEndTyped DEF Opened, MeterRules, RuleFields

LEMMA RolledTyped ==
    ASSUME NEW r \in MeterRules, NEW reading \in OrNone(Nat), NEW t \in Nat
    PROVE  Rolled(r, reading, t) \in MeterRules
<1> DEFINE read == IF reading = None THEN r ELSE [r EXCEPT !.observed = reading]
<1> DEFINE turned == IF r.terms.schedule # None /\ (r.windowEnd = None \/ t >= r.windowEnd)
                     THEN OpenWindow(read, t) ELSE read
<1>1. read \in MeterRules
  BY DEF MeterRules, RuleFields, OrNone
<1>2. turned \in MeterRules
  <2> HIDE DEF read
  <2>1. read \in RuleFields /\ (read.countdownStart = None <=> read.terms.countdown = None)
    BY <1>1 DEF MeterRules
  <2> QED BY <1>1, <2>1, OpenWindowTyped
<1> HIDE DEF turned
<1>3. Opened(turned, t) \in MeterRules
  BY <1>2, OpenedTyped
<1> QED BY <1>2, <1>3 DEF Rolled, turned

LEMMA EvaluatedTyped ==
    ASSUME NEW r \in MeterRules, NEW charged \in Nat, NEW t \in Nat
    PROVE  Evaluated(r, charged, t) \in MeterRules
<1>1. AllocationSpent(r, charged) \in BOOLEAN /\ CountdownSpent(r, t) \in BOOLEAN
  BY DEF AllocationSpent, CountdownSpent
<1>2. Stamp(r, charged, t) \in OrNone(Nat)
  BY DEF Stamp, MeterRules, RuleFields, OrNone
<1> QED BY <1>1, <1>2 DEF Evaluated, MeterRules, RuleFields, OrNone

LEMMA UsageIsNat ==
    ASSUME NEW r \in RuleFields
    PROVE  UsageBytes(r) \in Nat
BY DEF UsageBytes, RuleFields

LEMMA CreatedTyped ==
    ASSUME NEW terms \in RuleTerms, NEW c \in Nat, NEW t \in Nat
    PROVE  CreatedRule(terms, c, t) \in MeterRules
<1> DEFINE blank == [terms          |-> terms,
                     anchor         |-> c,
                     observed       |-> c,
                     periodEnd      |-> PeriodEnd(terms.cycle, t),
                     acted          |-> FALSE,
                     countdownStart |-> IF terms.countdown = None THEN None ELSE t,
                     countdownActed |-> FALSE,
                     windowEnd      |-> None,
                     windowBlocked  |-> FALSE,
                     reachedAt      |-> None,
                     updated        |-> t,
                     sent           |-> 0]
<1>1. blank \in RuleFields
  BY PeriodEndTyped DEF RuleFields, OrNone
<1>2. blank.countdownStart = None <=> blank.terms.countdown = None
  BY NoneIsNoNumber
<1> HIDE DEF blank
<1>3. OpenWindow(blank, t) \in MeterRules
  BY <1>1, <1>2, OpenWindowTyped
<1> QED BY <1>3 DEF CreatedRule, blank

LEMMA UpsertedTyped ==
    ASSUME NEW r \in MeterRules, NEW terms \in RuleTerms, NEW t \in Nat, NEW charged \in Nat
    PROVE  Upserted(r, terms, t, charged) \in MeterRules
<1> DEFINE edited == [r EXCEPT !.terms = terms,
                               !.updated = t,
                               !.periodEnd = IF terms.cycle = r.terms.cycle THEN @
                                             ELSE PeriodEnd(terms.cycle, t),
                               !.countdownStart = IF terms.countdown = None THEN None ELSE t,
                               !.countdownActed = FALSE,
                               !.acted = @ /\ ~(charged < terms.allocation)]
<1>1. edited \in RuleFields
  BY PeriodEndTyped DEF MeterRules, RuleFields, OrNone
<1>2. /\ edited.countdownStart = None <=> edited.terms.countdown = None
      /\ edited.windowEnd = r.windowEnd /\ edited.terms = terms
  BY NoneIsNoNumber DEF MeterRules, RuleFields
<1>3. r.windowEnd = None <=> r.terms.schedule = None
  BY DEF MeterRules
<1> HIDE DEF edited
<1>4. OpenWindow(edited, t) \in MeterRules
  BY <1>1, <1>2, OpenWindowTyped
<1>5. terms.schedule = r.terms.schedule => edited \in MeterRules
  BY <1>1, <1>2, <1>3 DEF MeterRules
<1> QED BY <1>4, <1>5 DEF Upserted, edited

LEMMA RestartedTyped ==
    ASSUME NEW r \in MeterRules, NEW t \in Nat
    PROVE  RestartedCycle(r, t) \in MeterRules
<1> DEFINE o == Opened(r, t)
<1> DEFINE fresh == [o EXCEPT
                        !.reachedAt = None,
                        !.countdownStart = IF r.terms.countdown = None THEN None ELSE t,
                        !.countdownActed = FALSE]
<1>1. o \in MeterRules /\ o.terms = r.terms
  BY OpenedTyped DEF Opened, MeterRules, RuleFields
<1> HIDE DEF o
<1>2. fresh \in RuleFields
  BY <1>1 DEF MeterRules, RuleFields, OrNone
<1>3. /\ fresh.terms = r.terms /\ fresh.windowEnd = o.windowEnd
      /\ fresh.countdownStart = IF r.terms.countdown = None THEN None ELSE t
  BY <1>1 DEF MeterRules, RuleFields
<1> HIDE DEF fresh
<1>4. fresh \in MeterRules
  BY <1>1, <1>2, <1>3, NoneIsNoNumber DEF MeterRules
<1>5. OpenWindow(fresh, t) \in MeterRules
  BY <1>4, OpenWindowTyped DEF MeterRules
<1> QED BY <1>4, <1>5 DEF RestartedCycle, fresh, o

LEMMA StorageTyped ==
    ASSUME NEW r \in MeterRules
    PROVE  Stored(r) \in MeterRules /\ RestoredRule(r) \in MeterRules
BY DEF Stored, RestoredRule, MeterRules, RuleFields, OrNone

--------------------------------------------------------------------------------
(* Type correctness.                                                           *)

LEMMA FoldTyped ==
    ASSUME TypeOK, NEW roster \in Rosters, NEW d \in Devices
    PROVE  /\ Folded(d, roster) \in OrNone(Nat)
           /\ Advance(d, roster) \in Nat
           /\ Folded(d, roster) # None =>
                 \/ counter[d] = None /\ Folded(d, roster) = 0
                 \/ counter[d] # None /\ Folded(d, roster) = counter[d] + Advance(d, roster)
           /\ counter[d] # None => Folded(d, roster) # None
<1>1. roster[d] \in OrNone(0 .. MaxAdvance)
  BY DEF Rosters
<1>2. roster[d] # None => roster[d] \in Nat
  BY <1>1, AdvanceIsBytes DEF OrNone
<1>3. counter[d] # None => counter[d] \in Nat
  BY DEF TypeOK, OrNone
<1>4. CASE roster[d] = None \/ alias[d] # d
  BY <1>3, <1>4 DEF Folded, Advance, OrNone
<1>5. CASE ~(roster[d] = None \/ alias[d] # d) /\ counter[d] = None
  <2>1. Folded(d, roster) = 0 /\ Advance(d, roster) = 0
    BY <1>5 DEF Folded, Advance
  <2> QED BY <1>5, <2>1, NoneIsNoNumber DEF OrNone
<1>6. CASE ~(roster[d] = None \/ alias[d] # d) /\ counter[d] # None
  <2>1. Folded(d, roster) = counter[d] + roster[d]
    BY <1>6 DEF Folded
  <2>2. Advance(d, roster) = roster[d]
    BY <1>2, <1>3, <1>6, <2>1 DEF Advance
  <2> QED BY <1>2, <1>3, <1>6, <2>1, <2>2, NoneIsNoNumber DEF OrNone
<1> QED BY <1>4, <1>5, <1>6

LEMMA SentTyped ==
    ASSUME NEW r \in OrNone(MeterRules), NEW bytes \in Nat
    PROVE  Sent(r, bytes) \in OrNone(MeterRules)
BY DEF Sent, OrNone, MeterRules, RuleFields

LEMMA OnDiskTyped ==
    ASSUME NEW rs \in [Devices -> OrNone(MeterRules)]
    PROVE  OnDisk(rs) \in [Devices -> OrNone(MeterRules)]
BY StorageTyped DEF OnDisk, OrNone

LEMMA ResolvedTyped ==
    ASSUME TypeOK, NEW roster \in Rosters, NEW from \in Resolutions
    PROVE  Resolved(from, roster) \in [Devices -> OrNone(MeterRules)]
<1>1. ASSUME NEW d \in Devices, from[d] # None
      PROVE  Sent(rules[from[d]], Advance(d, roster)) \in OrNone(MeterRules)
  <2>1. from[d] \in Devices
    BY <1>1 DEF Resolutions, OrNone
  <2> QED BY <2>1, FoldTyped, SentTyped DEF TypeOK
<1> QED BY <1>1 DEF Resolved, OrNone

LEMMA ObservedTyped ==
    ASSUME NEW rs \in [Devices -> OrNone(MeterRules)],
           NEW counters \in [Devices -> OrNone(Nat)], now \in Nat
    PROVE  Observed(rs, counters) \in [Devices -> OrNone(MeterRules)]
<1>1. ASSUME NEW d \in Devices, rs[d] # None
      PROVE  Evaluated(Rolled(rs[d], counters[d], now),
                       UsageBytes(Rolled(rs[d], counters[d], now)), now) \in MeterRules
  <2>1. Rolled(rs[d], counters[d], now) \in MeterRules
    BY <1>1, RolledTyped DEF OrNone
  <2>2. UsageBytes(Rolled(rs[d], counters[d], now)) \in Nat
    BY <2>1, UsageIsNat DEF MeterRules
  <2> QED BY <2>1, <2>2, EvaluatedTyped
<1> QED BY <1>1 DEF Observed, OrNone

LEMMA RestartedRuleTyped ==
    ASSUME TypeOK, NEW d \in Devices, Metered(d)
    PROVE  RestartedRule(d) \in MeterRules
<1>1. rules[d] \in MeterRules
  BY DEF TypeOK, Metered, OrNone
<1>2. Unread(d) \in Nat
  BY <1>1 DEF Unread, TypeOK, OrNone, MeterRules, RuleFields
<1>3. RestartedCycle(rules[d], now) \in MeterRules
  BY <1>1, RestartedTyped DEF TypeOK
<1> QED BY <1>2, <1>3 DEF RestartedRule, MeterRules, RuleFields

LEMMA PollTyped == TypeOK /\ Poll => TypeOK'
<1> SUFFICES ASSUME TypeOK, NEW roster \in Rosters, NEW from \in Resolutions,
                    counter' = [d \in Devices |-> Folded(d, roster)],
                    rules' = Observed(Resolved(from, roster),
                                      [d \in Devices |-> Folded(d, roster)]),
                    rulesDisk' \in {[d \in Devices |-> Sent(rulesDisk[d], Advance(alias[d], roster))],
                                    OnDisk(Resolved(from, roster)), OnDisk(rules')},
                    written' \in {now, written},
                    polled' = TRUE,
                    UNCHANGED <<now, counterDisk, alias, edits, crashes>>
             PROVE  TypeOK'
  BY DEF Poll
<1>1. [d \in Devices |-> Folded(d, roster)] \in [Devices -> OrNone(Nat)]
  BY FoldTyped
<1>2. Resolved(from, roster) \in [Devices -> OrNone(MeterRules)]
  BY ResolvedTyped
<1>3. rules' \in [Devices -> OrNone(MeterRules)]
  BY <1>1, <1>2, ObservedTyped DEF TypeOK
<1>4. [d \in Devices |-> Sent(rulesDisk[d], Advance(alias[d], roster))]
        \in [Devices -> OrNone(MeterRules)]
  <2>1. ASSUME NEW d \in Devices
        PROVE  Sent(rulesDisk[d], Advance(alias[d], roster)) \in OrNone(MeterRules)
    <3>1. alias[d] \in Devices /\ rulesDisk[d] \in OrNone(MeterRules)
      BY DEF TypeOK
    <3> QED BY <3>1, FoldTyped, SentTyped
  <2> QED BY <2>1
<1>5. rulesDisk' \in [Devices -> OrNone(MeterRules)]
  BY <1>2, <1>3, <1>4, OnDiskTyped
<1> QED BY <1>1, <1>3, <1>5 DEF TypeOK, OrNone

LEMMA RequestCounts ==
    ASSUME TypeOK, NEW d \in Devices, Request(d)
    PROVE  /\ now' \in Nat /\ edits' \in Nat /\ crashes' \in Nat
           /\ written' \in OrNone(Nat)
           /\ polled' \in BOOLEAN
<1>1. edits' = edits + 1 /\ polled' = FALSE
  BY DEF Request
<1>2. now' = now /\ written' = written /\ crashes' = crashes
  BY DEF Request
<1>3. now' \in Nat /\ edits' \in Nat /\ crashes' \in Nat
  BY <1>1, <1>2 DEF TypeOK
<1>4. written' \in OrNone(Nat)
  BY <1>2 DEF TypeOK
<1>5. polled' \in BOOLEAN
  BY <1>1
<1> QED BY <1>3, <1>4, <1>5

LEMMA RequestTyped ==
    ASSUME TypeOK, NEW d \in Devices,
           \/ \E terms \in Terms : SetRule(d, terms)
           \/ RestartRule(d) \/ ResetTotals(d) \/ RemoveRule(d) \/ DeleteRecord(d)
    PROVE  TypeOK'
<1>1. Metered(d) => rules[d] \in MeterRules
  BY DEF TypeOK, Metered, OrNone
<1>2. /\ rules \in [Devices -> OrNone(MeterRules)]
      /\ rulesDisk \in [Devices -> OrNone(MeterRules)]
      /\ counter \in [Devices -> OrNone(Nat)]
      /\ counterDisk \in [Devices -> OrNone(Nat)]
      /\ alias \in [Devices -> Devices]
      /\ now \in Nat
  BY DEF TypeOK
<1>3. ASSUME Request(d),
             rules' \in [Devices -> OrNone(MeterRules)],
             Persist \/ rulesDisk' = rulesDisk,
             counter' \in [Devices -> OrNone(Nat)],
             counterDisk' \in [Devices -> OrNone(Nat)],
             alias' = alias
      PROVE  TypeOK'
  <2>1. rulesDisk' \in [Devices -> OrNone(MeterRules)]
    BY <1>2, <1>3, OnDiskTyped DEF Persist
  <2> QED BY <1>2, <1>3, <2>1, RequestCounts DEF TypeOK
<1>4. ASSUME NEW r \in MeterRules
      PROVE  [rules EXCEPT ![d] = r] \in [Devices -> OrNone(MeterRules)]
  BY <1>2 DEF OrNone
<1>5. [rules EXCEPT ![d] = None] \in [Devices -> OrNone(MeterRules)]
  BY <1>2 DEF OrNone
<1>6. Metered(d) => [rules EXCEPT ![d] = RestartedRule(d)] \in [Devices -> OrNone(MeterRules)]
  BY <1>4, RestartedRuleTyped
<1>7. ASSUME NEW terms \in Terms, SetRule(d, terms) PROVE TypeOK'
  <2>1. terms \in RuleTerms
    BY TermsAreAsked
  <2> DEFINE upserted == Upserted(rules[d], terms, now, UsageBytes(rules[d]))
             created  == CreatedRule(terms, IF counter[d] = None THEN 0 ELSE counter[d], now)
  <2>2. Metered(d) => upserted \in MeterRules
    BY <1>1, <1>2, <2>1, UsageIsNat, UpsertedTyped DEF MeterRules
  <2>3. created \in MeterRules
    <3>1. (IF counter[d] = None THEN 0 ELSE counter[d]) \in Nat
      BY <1>2 DEF OrNone
    <3> QED BY <1>2, <2>1, <3>1, CreatedTyped
  <2>4. rules' = [rules EXCEPT ![d] = IF Metered(d) THEN upserted ELSE created]
    BY <1>2, <1>7 DEF SetRule
  <2> HIDE DEF upserted, created
  <2>5. rules' \in [Devices -> OrNone(MeterRules)]
    BY <1>4, <2>2, <2>3, <2>4
  <2> QED BY <1>2, <1>3, <1>7, <2>5 DEF SetRule
<1>8. CASE RestartRule(d)
  BY <1>2, <1>3, <1>6, <1>8 DEF RestartRule
<1>9. CASE ResetTotals(d)
  BY <1>2, <1>3, <1>6, <1>9 DEF ResetTotals
<1>10. CASE RemoveRule(d)
  BY <1>2, <1>3, <1>5, <1>10 DEF RemoveRule
<1>11. CASE DeleteRecord(d)
  <2>1. counter' \in [Devices -> OrNone(Nat)]
    BY <1>2, <1>11 DEF DeleteRecord, OrNone
  <2> QED BY <1>2, <1>3, <1>5, <1>11, <2>1 DEF DeleteRecord
<1> QED BY <1>7, <1>8, <1>9, <1>10, <1>11

LEMMA OtherStepTyped ==
    ASSUME TypeOK,
           \/ Tick \/ SnapshotTotals \/ Crash \/ ClearRecords
           \/ \E from, to \in Devices : Merge(from, to)
    PROVE  TypeOK'
<1>0. /\ rules \in [Devices -> OrNone(MeterRules)]
      /\ rulesDisk \in [Devices -> OrNone(MeterRules)]
      /\ counter \in [Devices -> OrNone(Nat)]
      /\ counterDisk \in [Devices -> OrNone(Nat)]
      /\ alias \in [Devices -> Devices]
      /\ now \in Nat /\ edits \in Nat /\ crashes \in Nat
  BY DEF TypeOK
<1>1. CASE Tick
  <2>1. now' \in Nat
    BY <1>0, <1>1 DEF Tick
  <2>2. polled' \in BOOLEAN
    BY <1>1 DEF Tick
  <2> QED BY <1>1, <2>1, <2>2 DEF Tick, TypeOK
<1>2. CASE SnapshotTotals
  BY <1>2 DEF SnapshotTotals, TypeOK
<1>3. CASE Crash
  <2>1. rules' \in [Devices -> OrNone(MeterRules)]
    BY <1>0, <1>3, StorageTyped DEF Crash, OrNone
  <2>2. crashes' \in Nat
    BY <1>0, <1>3 DEF Crash
  <2>3. written' \in OrNone(Nat)
    BY <1>3 DEF Crash, OrNone
  <2>4. polled' \in BOOLEAN
    BY <1>3 DEF Crash
  <2> QED BY <1>3, <2>1, <2>2, <2>3, <2>4 DEF Crash, TypeOK
<1>4. CASE ClearRecords
  <2>1. /\ rules' \in [Devices -> OrNone(MeterRules)]
        /\ counter' \in [Devices -> OrNone(Nat)]
    BY <1>4 DEF ClearRecords, OrNone
  <2>2. rulesDisk' \in [Devices -> OrNone(MeterRules)]
    BY <1>0, <1>4, <2>1, OnDiskTyped DEF ClearRecords, Persist
  <2>3. /\ now' \in Nat /\ edits' \in Nat /\ crashes' \in Nat
        /\ written' \in OrNone(Nat) /\ polled' \in BOOLEAN
    BY <1>4, RequestCounts DEF ClearRecords
  <2> QED BY <1>0, <1>4, <2>1, <2>2, <2>3 DEF ClearRecords, TypeOK
<1>5. ASSUME NEW from \in Devices, NEW to \in Devices, Merge(from, to) PROVE TypeOK'
  <2>1. counter[from] \in Nat /\ counter[to] \in Nat
    BY <1>0, <1>5 DEF Merge, OrNone
  <2>2. counter' \in [Devices -> OrNone(Nat)]
    BY <1>0, <1>5, <2>1 DEF Merge, OrNone
  <2>3. alias' \in [Devices -> Devices]
    BY <1>0, <1>5 DEF Merge
  <2>4. /\ now' \in Nat /\ edits' \in Nat /\ crashes' \in Nat
        /\ written' \in OrNone(Nat) /\ polled' \in BOOLEAN
    BY <1>5, RequestCounts DEF Merge
  <2> QED BY <1>0, <1>5, <2>2, <2>3, <2>4 DEF Merge, TypeOK
<1> QED BY <1>1, <1>2, <1>3, <1>4, <1>5

LEMMA StepTyped == TypeOK /\ [Next]_vars => TypeOK'
<1> SUFFICES ASSUME TypeOK, [Next]_vars PROVE TypeOK'
  OBVIOUS
<1>1. CASE UNCHANGED vars
  BY <1>1 DEF vars, TypeOK
<1> QED BY <1>1, PollTyped, RequestTyped, OtherStepTyped DEF Next

LEMMA StartTyped == Init => TypeOK
<1> SUFFICES ASSUME Init PROVE TypeOK
  OBVIOUS
<1>1. /\ counter \in [Devices -> OrNone(Nat)] /\ counterDisk \in [Devices -> OrNone(Nat)]
      /\ rules \in [Devices -> OrNone(MeterRules)]
      /\ rulesDisk \in [Devices -> OrNone(MeterRules)]
      /\ written \in OrNone(Nat)
  BY DEF Init, OrNone
<1>2. alias \in [Devices -> Devices]
  BY DEF Init
<1>3. now \in Nat /\ edits \in Nat /\ crashes \in Nat /\ polled \in BOOLEAN
  BY DEF Init
<1> QED BY <1>1, <1>2, <1>3 DEF TypeOK

\* Every rule keeps its shape, in memory and on disk: it has a running clock and
\* a judged window just when its terms ask for them (TypeOK).
THEOREM TypeCorrect == Spec => []TypeOK
<1> QED BY StartTyped, StepTyped, PTL DEF Spec

--------------------------------------------------------------------------------
(* Where no identity is merged, a rule charges no byte that was not sent, and  *)
(* holds no latch that was not earned.                                         *)

\* The sent bytes cover what a rule reads now and what it would read from the
\* counter c, and its latches were earned by t.
Honest(r, c, t) ==
    /\ r.observed - r.anchor <= r.sent
    /\ c # None => c - r.anchor <= r.sent
    /\ r.acted /\ r.terms.allocation > 0 => r.sent >= r.terms.allocation
    /\ r.countdownActed => /\ r.terms.countdown # None
                           /\ r.countdownStart + r.terms.countdown <= t

AllHonest(rs, counters, t) ==
    \A d \in Devices : rs[d] # None => Honest(rs[d], counters[d], t)

\* The odometer's file lags its counters and holds no bucket they lack.
DiskBehind ==
    \A d \in Devices :
        counterDisk[d] # None => counter[d] # None /\ counterDisk[d] <= counter[d]

HonestInv ==
    /\ TypeOK
    /\ \A d \in Devices : alias[d] = d
    /\ DiskBehind
    /\ AllHonest(rules, counter, now)
    /\ AllHonest(rulesDisk, counter, now)

LEMMA RuleTypes ==
    ASSUME NEW r \in MeterRules
    PROVE  /\ r.anchor \in Nat /\ r.observed \in Nat /\ r.sent \in Nat
           /\ r.terms \in RuleTerms /\ r.terms.allocation \in Nat
           /\ r.acted \in BOOLEAN /\ r.countdownActed \in BOOLEAN
           /\ r.terms.countdown # None => r.terms.countdown \in Nat /\ r.countdownStart \in Nat
           /\ r \in RuleFields
BY DEF MeterRules, RuleFields, RuleTerms, OrNone

\* Only these fields matter.
LEMMA SameHonesty ==
    ASSUME NEW r, NEW s, NEW c, NEW t, Honest(r, c, t),
           s.terms = r.terms, s.anchor = r.anchor, s.observed = r.observed, s.sent = r.sent,
           s.acted = r.acted, s.countdownActed = r.countdownActed,
           s.countdownStart = r.countdownStart
    PROVE  Honest(s, c, t)
BY DEF Honest

LEMMA OpenWindowKeeps ==
    ASSUME NEW r \in RuleFields, NEW c, NEW t, NEW u, Honest(r, c, t)
    PROVE  Honest(OpenWindow(r, u), c, t)
<1> DEFINE s == OpenWindow(r, u)
<1>1. /\ s.terms = r.terms /\ s.anchor = r.anchor /\ s.observed = r.observed
      /\ s.sent = r.sent /\ s.acted = r.acted /\ s.countdownActed = r.countdownActed
      /\ s.countdownStart = r.countdownStart
  BY DEF OpenWindow, RuleFields
<1> HIDE DEF s
<1>2. Honest(s, c, t)
  BY <1>1, SameHonesty
<1> QED BY <1>2 DEF s

LEMMA StorageKeeps ==
    ASSUME NEW r \in RuleFields, NEW c, NEW t, Honest(r, c, t)
    PROVE  Honest(Stored(r), c, t) /\ Honest(RestoredRule(r), c, t)
BY SameHonesty DEF Stored, RestoredRule, RuleFields

\* A counter that fell back, or a clock that went on.
LEMMA LaterHonest ==
    ASSUME NEW r \in MeterRules, NEW c \in OrNone(Nat), NEW e \in OrNone(Nat),
           NEW t \in Nat, NEW u \in Nat, t <= u,
           e # None => e = 0 \/ (c # None /\ e <= c),
           Honest(r, c, t)
    PROVE  Honest(r, e, u)
<1>1. e # None => e - r.anchor <= r.sent
  BY RuleTypes, NoneIsNoNumber DEF Honest, OrNone
<1>2. r.countdownActed => r.countdownStart + r.terms.countdown <= u
  BY RuleTypes DEF Honest
<1> QED BY <1>1, <1>2 DEF Honest

\* Bytes a device sends are counted before its rule reads them.
LEMMA SentKeeps ==
    ASSUME NEW r \in MeterRules, r # None,
           NEW c \in OrNone(Nat), NEW e \in OrNone(Nat), NEW n \in Nat, NEW t,
           e # None => e = 0 \/ (c # None /\ e = c + n),
           Honest(r, c, t)
    PROVE  Honest(Sent(r, n), e, t)
<1> DEFINE s == Sent(r, n)
<1>1. /\ s.terms = r.terms /\ s.anchor = r.anchor /\ s.observed = r.observed
      /\ s.sent = r.sent + n /\ s.acted = r.acted /\ s.countdownActed = r.countdownActed
      /\ s.countdownStart = r.countdownStart
  BY DEF Sent, MeterRules, RuleFields
<1> HIDE DEF s
<1>2. Honest(s, e, t)
  BY <1>1, RuleTypes DEF Honest, OrNone
<1> QED BY <1>2 DEF s

LEMMA OpenedKeeps ==
    ASSUME NEW r \in MeterRules, NEW c \in OrNone(Nat), NEW t, NEW u,
           c # None => c <= r.observed,
           Honest(r, c, t)
    PROVE  Honest(Opened(r, u), c, t)
<1> DEFINE o == Opened(r, u)
<1>1. /\ o.terms = r.terms /\ o.anchor = r.observed /\ o.observed = r.observed
      /\ o.sent = 0 /\ o.acted = FALSE /\ o.countdownActed = r.countdownActed
      /\ o.countdownStart = r.countdownStart
  BY DEF Opened, MeterRules, RuleFields
<1> HIDE DEF o
<1>2. Honest(o, c, t)
  BY <1>1, RuleTypes DEF Honest, OrNone
<1> QED BY <1>2 DEF o

LEMMA RolledKeeps ==
    ASSUME NEW r \in MeterRules, NEW c \in OrNone(Nat), NEW t \in Nat, NEW u,
           Honest(r, c, u)
    PROVE  Honest(Rolled(r, c, t), c, u)
<1> DEFINE read == IF c = None THEN r ELSE [r EXCEPT !.observed = c]
<1> DEFINE turned == IF r.terms.schedule # None /\ (r.windowEnd = None \/ t >= r.windowEnd)
                     THEN OpenWindow(read, t) ELSE read
<1>1. read \in MeterRules
  BY DEF MeterRules, RuleFields, OrNone
<1>2. Honest(read, c, u) /\ (c # None => read.observed = c)
  BY DEF Honest, MeterRules, RuleFields
<1> HIDE DEF read
<1>3. /\ read \in RuleFields
      /\ read.countdownStart = None <=> read.terms.countdown = None
  BY <1>1 DEF MeterRules
<1>4. turned \in MeterRules
  BY <1>1, <1>3, OpenWindowTyped
<1>5. Honest(turned, c, u)
  BY <1>2, <1>3, OpenWindowKeeps
<1>6. turned.observed = read.observed
  BY <1>3 DEF OpenWindow, RuleFields
<1> HIDE DEF turned
<1>7. c # None => c <= turned.observed
  BY <1>2, <1>6 DEF OrNone
<1>8. Honest(Opened(turned, t), c, u)
  BY <1>4, <1>5, <1>7, OpenedKeeps
<1> QED BY <1>5, <1>8 DEF Rolled, turned, read

LEMMA EvaluatedKeeps ==
    ASSUME NEW r \in MeterRules, NEW c, NEW t \in Nat, Honest(r, c, t)
    PROVE  Honest(Evaluated(r, UsageBytes(r), t), c, t)
<1> DEFINE s == Evaluated(r, UsageBytes(r), t)
<1>1. /\ s.terms = r.terms /\ s.anchor = r.anchor /\ s.observed = r.observed
      /\ s.sent = r.sent /\ s.countdownStart = r.countdownStart
      /\ s.acted = (r.acted \/ AllocationSpent(r, UsageBytes(r)))
      /\ s.countdownActed = (r.countdownActed \/ CountdownSpent(r, t))
  BY DEF Evaluated, MeterRules, RuleFields
<1>2. UsageBytes(r) <= r.sent
  BY RuleTypes DEF UsageBytes, Honest
<1>3. AllocationSpent(r, UsageBytes(r)) => r.sent >= r.terms.allocation
  BY <1>2, RuleTypes, UsageIsNat DEF AllocationSpent
<1>4. CountdownSpent(r, t) => /\ r.terms.countdown # None
                              /\ r.countdownStart + r.terms.countdown <= t
  BY RuleTypes DEF CountdownSpent
<1> HIDE DEF s
<1>5. Honest(s, c, t)
  BY <1>1, <1>3, <1>4 DEF Honest
<1> QED BY <1>5 DEF s

LEMMA CreatedIsHonest ==
    ASSUME NEW terms \in RuleTerms, NEW c \in Nat, NEW e, NEW t \in Nat, e \in {None, c}
    PROVE  Honest(CreatedRule(terms, c, t), e, t)
<1> DEFINE blank == [terms          |-> terms,
                     anchor         |-> c,
                     observed       |-> c,
                     periodEnd      |-> PeriodEnd(terms.cycle, t),
                     acted          |-> FALSE,
                     countdownStart |-> IF terms.countdown = None THEN None ELSE t,
                     countdownActed |-> FALSE,
                     windowEnd      |-> None,
                     windowBlocked  |-> FALSE,
                     reachedAt      |-> None,
                     updated        |-> t,
                     sent           |-> 0]
<1>1. blank \in RuleFields
  BY PeriodEndTyped DEF RuleFields, OrNone
<1>2. Honest(blank, e, t)
  BY DEF Honest
<1> HIDE DEF blank
<1>3. Honest(OpenWindow(blank, t), e, t)
  BY <1>1, <1>2, OpenWindowKeeps
<1> QED BY <1>3 DEF CreatedRule, blank

LEMMA UpsertedKeeps ==
    ASSUME NEW r \in MeterRules, NEW terms \in RuleTerms, NEW c, NEW t \in Nat,
           Honest(r, c, t)
    PROVE  Honest(Upserted(r, terms, t, UsageBytes(r)), c, t)
<1> DEFINE charged == UsageBytes(r)
<1> DEFINE edited == [r EXCEPT !.terms = terms,
                               !.updated = t,
                               !.periodEnd = IF terms.cycle = r.terms.cycle THEN @
                                             ELSE PeriodEnd(terms.cycle, t),
                               !.countdownStart = IF terms.countdown = None THEN None ELSE t,
                               !.countdownActed = FALSE,
                               !.acted = @ /\ ~(charged < terms.allocation)]
<1>1. charged \in Nat /\ charged <= r.sent
  BY RuleTypes DEF UsageBytes, Honest
<1> HIDE DEF charged
<1>2. edited \in RuleFields
  BY PeriodEndTyped DEF MeterRules, RuleFields, OrNone
<1>3. /\ edited.terms = terms /\ edited.anchor = r.anchor /\ edited.observed = r.observed
      /\ edited.sent = r.sent /\ edited.countdownActed = FALSE
      /\ edited.acted => ~(charged < terms.allocation)
  BY DEF MeterRules, RuleFields
<1> HIDE DEF edited
<1>4. edited.acted => edited.sent >= edited.terms.allocation
  <2>1. terms.allocation \in Nat
    BY DEF RuleTerms
  <2> QED BY <1>1, <1>3, <2>1, RuleTypes
<1>5. Honest(edited, c, t)
  BY <1>3, <1>4 DEF Honest
<1>6. Honest(OpenWindow(edited, t), c, t)
  BY <1>2, <1>5, OpenWindowKeeps
<1> QED BY <1>5, <1>6 DEF Upserted, edited, charged

LEMMA RestartedIsHonest ==
    ASSUME TypeOK, NEW d \in Devices, Metered(d)
    PROVE  Honest(RestartedRule(d), counter[d], now)
<1> DEFINE r == rules[d]
           o == Opened(r, now)
           fresh == [o EXCEPT
                        !.reachedAt = None,
                        !.countdownStart = IF r.terms.countdown = None THEN None ELSE now,
                        !.countdownActed = FALSE]
           restarted == RestartedCycle(r, now)
           s == RestartedRule(d)
<1>1. r \in MeterRules /\ now \in Nat /\ counter[d] \in OrNone(Nat)
  BY DEF TypeOK, Metered, OrNone
<1> HIDE DEF r
<1>2. /\ o \in MeterRules /\ o.anchor = r.observed /\ o.observed = r.observed
      /\ o.acted = FALSE
  BY <1>1, OpenedTyped DEF Opened, MeterRules, RuleFields
<1> HIDE DEF o
<1>3. /\ fresh \in RuleFields
      /\ fresh.anchor = r.observed /\ fresh.observed = r.observed
      /\ fresh.acted = FALSE /\ fresh.countdownActed = FALSE
  BY <1>1, <1>2 DEF MeterRules, RuleFields, OrNone
<1> HIDE DEF fresh
<1>4. restarted = IF r.terms.schedule = None THEN fresh ELSE OpenWindow(fresh, now)
  BY DEF RestartedCycle, fresh, o
<1>5. /\ restarted.anchor = r.observed /\ restarted.observed = r.observed
      /\ restarted.acted = FALSE /\ restarted.countdownActed = FALSE
  BY <1>3, <1>4 DEF OpenWindow, RuleFields
<1>6. restarted \in MeterRules
  BY <1>1, RestartedTyped
<1> HIDE DEF restarted
<1>7. s = [restarted EXCEPT !.sent = Unread(d)]
  BY DEF RestartedRule, restarted, r
<1>8. /\ s.anchor = r.observed /\ s.observed = r.observed /\ s.sent = Unread(d)
      /\ s.acted = FALSE /\ s.countdownActed = FALSE
  BY <1>5, <1>6, <1>7 DEF MeterRules, RuleFields
<1>9. /\ Unread(d) \in Nat
      /\ counter[d] # None => counter[d] - r.observed <= Unread(d)
  BY <1>1, RuleTypes DEF Unread, r, OrNone
<1> HIDE DEF s
<1>10. Honest(s, counter[d], now)
  BY <1>1, <1>8, <1>9, RuleTypes DEF Honest
<1> QED BY <1>10 DEF s

LEMMA OnDiskHonest ==
    ASSUME NEW rs \in [Devices -> OrNone(MeterRules)],
           NEW counters, NEW t, AllHonest(rs, counters, t)
    PROVE  AllHonest(OnDisk(rs), counters, t)
<1> SUFFICES ASSUME NEW d \in Devices, OnDisk(rs)[d] # None
             PROVE  Honest(OnDisk(rs)[d], counters[d], t)
  BY DEF AllHonest
<1>1. rs[d] # None /\ OnDisk(rs)[d] = Stored(rs[d])
  BY DEF OnDisk
<1>2. rs[d] \in RuleFields /\ Honest(rs[d], counters[d], t)
  BY <1>1 DEF AllHonest, OrNone, MeterRules
<1> QED BY <1>1, <1>2, StorageKeeps

\* What one request does to one rule, and the writing of it.
LEMMA RequestHonest ==
    ASSUME HonestInv, NEW d \in Devices, NEW r, TypeOK',
           now' = now, alias' = alias, counter' = counter, DiskBehind',
           rules' = [rules EXCEPT ![d] = r],
           r # None => Honest(r, counter[d], now),
           Persist
    PROVE  HonestInv'
<1>1. AllHonest(rules', counter, now)
  BY DEF AllHonest, HonestInv, TypeOK
<1>2. AllHonest(OnDisk(rules'), counter, now)
  BY <1>1, OnDiskHonest DEF TypeOK
<1>3. AllHonest(rulesDisk', counter, now)
  BY <1>2 DEF Persist, HonestInv
<1> QED BY <1>1, <1>3 DEF HonestInv

LEMMA EditsKeep ==
    ASSUME HonestInv, NEW d \in Devices,
           \/ \E terms \in Terms : SetRule(d, terms)
           \/ RestartRule(d) \/ ResetTotals(d) \/ RemoveRule(d)
    PROVE  HonestInv'
<1>1. TypeOK /\ TypeOK'
  BY RequestTyped DEF HonestInv
<1>2. now' = now
  BY DEF SetRule, RestartRule, ResetTotals, RemoveRule, Request
<1>3. DiskBehind /\ \A e \in Devices : rules[e] # None => Honest(rules[e], counter[e], now)
  BY DEF HonestInv, AllHonest
<1>4. counter \in [Devices -> OrNone(Nat)] /\ rules \in [Devices -> OrNone(MeterRules)]
      /\ now \in Nat
  BY <1>1 DEF TypeOK
<1>5. ASSUME NEW terms \in Terms, SetRule(d, terms) PROVE HonestInv'
  <2> DEFINE upserted == Upserted(rules[d], terms, now, UsageBytes(rules[d]))
             created  == CreatedRule(terms, IF counter[d] = None THEN 0 ELSE counter[d], now)
             r        == IF Metered(d) THEN upserted ELSE created
  <2>1. terms \in RuleTerms
    BY TermsAreAsked
  <2>2. Metered(d) => Honest(upserted, counter[d], now)
    BY <1>3, <1>4, <2>1, UpsertedKeeps DEF Metered, OrNone
  <2>3. Honest(created, counter[d], now)
    <3> DEFINE c == IF counter[d] = None THEN 0 ELSE counter[d]
    <3>1. c \in Nat /\ counter[d] \in {None, c}
      BY <1>4 DEF OrNone
    <3> QED BY <1>4, <2>1, <3>1, CreatedIsHonest
  <2>4. rules' = [rules EXCEPT ![d] = r]
    BY <1>4, <1>5 DEF SetRule
  <2> HIDE DEF upserted, created
  <2>5. Honest(r, counter[d], now)
    BY <2>2, <2>3
  <2> HIDE DEF r
  <2>6. /\ Persist /\ counter' = counter /\ counterDisk' = counterDisk /\ alias' = alias
    BY <1>5 DEF SetRule
  <2>7. DiskBehind'
    BY <1>3, <2>6 DEF DiskBehind
  <2> QED BY <1>1, <1>2, <2>4, <2>5, <2>6, <2>7, RequestHonest
<1>6. CASE RestartRule(d)
  <2>1. Honest(RestartedRule(d), counter[d], now)
    BY <1>1, <1>6, RestartedIsHonest DEF RestartRule
  <2>2. /\ Persist /\ counter' = counter /\ counterDisk' = counterDisk /\ alias' = alias
        /\ rules' = [rules EXCEPT ![d] = RestartedRule(d)]
    BY <1>6 DEF RestartRule
  <2>3. DiskBehind'
    BY <1>3, <2>2 DEF DiskBehind
  <2> QED BY <1>1, <1>2, <2>1, <2>2, <2>3, RequestHonest
<1>7. CASE ResetTotals(d)
  <2>1. counter' = counter /\ counterDisk' = counter /\ alias' = alias
    BY <1>7 DEF ResetTotals
  <2>2. DiskBehind'
    BY <1>4, <2>1 DEF DiskBehind, OrNone
  <2>3. CASE Metered(d)
    <3>1. Honest(RestartedRule(d), counter[d], now)
      BY <1>1, <2>3, RestartedIsHonest
    <3>2. rules' = [rules EXCEPT ![d] = RestartedRule(d)] /\ Persist
      BY <1>7, <2>3 DEF ResetTotals
    <3> QED BY <1>1, <1>2, <2>1, <2>2, <3>1, <3>2, RequestHonest
  <2>4. CASE ~Metered(d)
    <3>1. rules' = rules /\ rulesDisk' = rulesDisk
      BY <1>7, <2>4 DEF ResetTotals
    <3> QED BY <1>1, <1>2, <2>1, <2>2, <3>1 DEF HonestInv
  <2> QED BY <2>3, <2>4
<1>8. CASE RemoveRule(d)
  <2>1. /\ Persist /\ counter' = counter /\ counterDisk' = counterDisk /\ alias' = alias
        /\ rules' = [rules EXCEPT ![d] = None]
    BY <1>8 DEF RemoveRule
  <2>2. DiskBehind'
    BY <1>3, <2>1 DEF DiskBehind
  <2> QED BY <1>1, <1>2, <2>1, <2>2, RequestHonest
<1> QED BY <1>5, <1>6, <1>7, <1>8

\* Fewer counters, or a later clock, leave every rule honest.
LEMMA AllLaterHonest ==
    ASSUME NEW rs \in [Devices -> OrNone(MeterRules)],
           NEW cs \in [Devices -> OrNone(Nat)], NEW es \in [Devices -> OrNone(Nat)],
           NEW t \in Nat, NEW u \in Nat, t <= u,
           \A d \in Devices : es[d] # None => cs[d] # None /\ es[d] <= cs[d],
           AllHonest(rs, cs, t)
    PROVE  AllHonest(rs, es, u)
<1> SUFFICES ASSUME NEW d \in Devices, rs[d] # None PROVE Honest(rs[d], es[d], u)
  BY DEF AllHonest
<1>1. /\ rs[d] \in MeterRules /\ cs[d] \in OrNone(Nat) /\ es[d] \in OrNone(Nat)
      /\ Honest(rs[d], cs[d], t)
  BY DEF AllHonest, OrNone
<1> QED BY <1>1, LaterHonest

LEMMA RecordsKeep ==
    ASSUME HonestInv,
           \/ Tick \/ SnapshotTotals \/ Crash \/ ClearRecords
           \/ \E d \in Devices : DeleteRecord(d)
    PROVE  HonestInv'
<1>1. TypeOK /\ TypeOK'
  BY RequestTyped, OtherStepTyped DEF HonestInv
<1>2. /\ counter \in [Devices -> OrNone(Nat)] /\ counter' \in [Devices -> OrNone(Nat)]
      /\ rules \in [Devices -> OrNone(MeterRules)] /\ rules' \in [Devices -> OrNone(MeterRules)]
      /\ rulesDisk \in [Devices -> OrNone(MeterRules)]
      /\ rulesDisk' \in [Devices -> OrNone(MeterRules)]
      /\ now \in Nat /\ now' \in Nat
  BY <1>1 DEF TypeOK
<1>3. /\ DiskBehind /\ AllHonest(rules, counter, now) /\ AllHonest(rulesDisk, counter, now)
      /\ \A d \in Devices : alias[d] = d
  BY DEF HonestInv
<1>4. \A d \in Devices : counter[d] # None => counter[d] <= counter[d]
  BY <1>2 DEF OrNone
<1>5. CASE Tick
  <2>1. now <= now' /\ UNCHANGED <<counter, counterDisk, rules, rulesDisk, alias>>
    BY <1>2, <1>5 DEF Tick
  <2>2. AllHonest(rules, counter, now') /\ AllHonest(rulesDisk, counter, now')
    BY <1>2, <1>3, <1>4, <2>1, AllLaterHonest
  <2> QED BY <1>1, <1>3, <2>1, <2>2 DEF HonestInv, DiskBehind
<1>6. CASE SnapshotTotals
  <2>1. counterDisk' = counter /\ UNCHANGED <<now, counter, rules, rulesDisk, alias>>
    BY <1>6 DEF SnapshotTotals
  <2> QED BY <1>1, <1>3, <1>4, <2>1 DEF HonestInv, DiskBehind
<1>7. CASE Crash
  <2>1. /\ counter' = counterDisk /\ counterDisk' = counterDisk
        /\ UNCHANGED <<now, rulesDisk, alias>>
        /\ rules' = [d \in Devices |->
                       IF rulesDisk[d] = None THEN None ELSE RestoredRule(rulesDisk[d])]
    BY <1>7 DEF Crash
  <2>2. now <= now
    BY <1>2
  <2>3. AllHonest(rulesDisk, counter', now)
    BY <1>2, <1>3, <2>1, <2>2, AllLaterHonest DEF DiskBehind
  <2>4. AllHonest(rules', counter', now)
    <3> SUFFICES ASSUME NEW d \in Devices, rules'[d] # None
                 PROVE  Honest(rules'[d], counter'[d], now)
      BY DEF AllHonest
    <3>1. rulesDisk[d] # None /\ rules'[d] = RestoredRule(rulesDisk[d])
      BY <2>1
    <3>2. rulesDisk[d] \in RuleFields
      BY <1>2, <3>1 DEF OrNone, MeterRules
    <3>3. Honest(rulesDisk[d], counter'[d], now)
      BY <2>3, <3>1 DEF AllHonest
    <3> QED BY <3>1, <3>2, <3>3, StorageKeeps
  <2>5. DiskBehind'
    BY <1>2, <2>1 DEF DiskBehind, OrNone
  <2> QED BY <1>1, <1>3, <2>1, <2>3, <2>4, <2>5 DEF HonestInv
<1>8. CASE ClearRecords
  <2>1. /\ counter' = [d \in Devices |-> None] /\ counterDisk' = counter'
        /\ rules' = [d \in Devices |-> None] /\ Persist /\ alias' = alias /\ now' = now
    BY <1>8 DEF ClearRecords, Request
  <2>2. AllHonest(rules', counter', now) /\ DiskBehind'
    BY <2>1 DEF AllHonest, DiskBehind
  <2>3. AllHonest(OnDisk(rules'), counter', now)
    BY <1>2, <2>2, OnDiskHonest
  <2>4. AllHonest(rulesDisk, counter', now)
    <3>1. now <= now /\ \A d \in Devices : counter'[d] = None
      BY <1>2, <2>1
    <3> QED BY <1>2, <1>3, <3>1, AllLaterHonest
  <2> QED BY <1>1, <1>3, <2>1, <2>2, <2>3, <2>4 DEF HonestInv, Persist
<1>9. ASSUME NEW d \in Devices, DeleteRecord(d) PROVE HonestInv'
  <2>1. /\ counter' = [counter EXCEPT ![d] = None] /\ counterDisk' = counter'
        /\ rules' = [rules EXCEPT ![d] = None] /\ alias' = alias /\ now' = now
        /\ Persist \/ rulesDisk' = rulesDisk
    BY <1>9 DEF DeleteRecord, Request
  <2>2. now <= now
        /\ \A e \in Devices : counter'[e] # None => counter[e] # None /\ counter'[e] <= counter[e]
    BY <1>2, <1>4, <2>1
  <2>3. AllHonest(rules, counter', now) /\ AllHonest(rulesDisk, counter', now)
    BY <1>2, <1>3, <2>2, AllLaterHonest
  <2>4. AllHonest(rules', counter', now)
    BY <1>2, <2>1, <2>3 DEF AllHonest
  <2>5. AllHonest(OnDisk(rules'), counter', now)
    BY <1>2, <2>4, OnDiskHonest
  <2>6. DiskBehind'
    BY <1>2, <2>1 DEF DiskBehind, OrNone
  <2> QED BY <1>1, <1>3, <2>1, <2>3, <2>4, <2>5, <2>6 DEF HonestInv, Persist
<1> QED BY <1>5, <1>6, <1>7, <1>8, <1>9

LEMMA PollKeeps ==
    ASSUME HonestInv, Poll
    PROVE  HonestInv'
<1>1. TypeOK /\ TypeOK'
  BY PollTyped DEF HonestInv
<1>2. PICK roster \in Rosters, from \in Resolutions :
        /\ counter' = [d \in Devices |-> Folded(d, roster)]
        /\ rules' = Observed(Resolved(from, roster),
                             [d \in Devices |-> Folded(d, roster)])
        /\ rulesDisk' \in {[d \in Devices |-> Sent(rulesDisk[d], Advance(alias[d], roster))],
                           OnDisk(Resolved(from, roster)), OnDisk(rules')}
        /\ UNCHANGED <<now, counterDisk, alias>>
  BY DEF Poll
<1> DEFINE resolved == Resolved(from, roster)
           onDisk   == [d \in Devices |-> Sent(rulesDisk[d], Advance(alias[d], roster))]
<1>3. /\ counter \in [Devices -> OrNone(Nat)] /\ counter' \in [Devices -> OrNone(Nat)]
      /\ counterDisk \in [Devices -> OrNone(Nat)]
      /\ rules \in [Devices -> OrNone(MeterRules)] /\ rules' \in [Devices -> OrNone(MeterRules)]
      /\ rulesDisk \in [Devices -> OrNone(MeterRules)]
      /\ now \in Nat
  BY <1>1 DEF TypeOK
<1>4. /\ DiskBehind /\ AllHonest(rules, counter, now) /\ AllHonest(rulesDisk, counter, now)
      /\ \A d \in Devices : alias[d] = d
  BY DEF HonestInv
<1>5. ASSUME NEW d \in Devices, NEW r \in MeterRules, r # None, Honest(r, counter[d], now)
      PROVE  Honest(Sent(r, Advance(d, roster)), counter'[d], now)
  <2>1. Advance(d, roster) \in Nat
    BY <1>1, FoldTyped
  <2>2. counter'[d] # None => \/ counter'[d] = 0
                              \/ counter[d] # None /\ counter'[d] = counter[d] + Advance(d, roster)
    BY <1>1, <1>2, FoldTyped
  <2>3. counter[d] \in OrNone(Nat) /\ counter'[d] \in OrNone(Nat)
    BY <1>3
  <2> QED BY <1>3, <1>5, <2>1, <2>2, <2>3, SentKeeps
<1>6. AllHonest(onDisk, counter', now)
  <2> SUFFICES ASSUME NEW d \in Devices, onDisk[d] # None
               PROVE  Honest(onDisk[d], counter'[d], now)
    BY DEF AllHonest
  <2>1. onDisk[d] = Sent(rulesDisk[d], Advance(d, roster))
    BY <1>4
  <2>2. rulesDisk[d] # None
    BY <2>1 DEF Sent
  <2>3. rulesDisk[d] \in MeterRules /\ Honest(rulesDisk[d], counter[d], now)
    BY <1>3, <1>4, <2>2 DEF AllHonest, OrNone
  <2> HIDE DEF onDisk
  <2> QED BY <1>5, <2>1, <2>2, <2>3
<1>7. resolved \in [Devices -> OrNone(MeterRules)]
  BY <1>1, ResolvedTyped
<1>8. AllHonest(resolved, counter', now)
  <2> SUFFICES ASSUME NEW d \in Devices, resolved[d] # None
               PROVE  Honest(resolved[d], counter'[d], now)
    BY DEF AllHonest
  <2>1. from[d] # None /\ resolved[d] = Sent(rules[from[d]], Advance(d, roster))
    BY DEF Resolved
  <2>2. from[d] \in Claimants(d)
    BY <2>1 DEF Resolutions, Standing
  <2>3. from[d] = d /\ rules[d] # None
    BY <1>4, <2>2 DEF Claimants, Metered
  <2>4. rules[d] \in MeterRules /\ Honest(rules[d], counter[d], now)
    BY <1>3, <1>4, <2>3 DEF AllHonest, OrNone
  <2>5. resolved[d] = Sent(rules[d], Advance(d, roster))
    BY <2>1, <2>3
  <2> HIDE DEF resolved
  <2> QED BY <1>5, <2>3, <2>4, <2>5
<1> HIDE DEF onDisk, resolved
<1>9. rules' = Observed(resolved, counter')
  BY <1>2 DEF resolved
<1>10. AllHonest(rules', counter', now)
  <2> SUFFICES ASSUME NEW d \in Devices, rules'[d] # None
               PROVE  Honest(rules'[d], counter'[d], now)
    BY DEF AllHonest
  <2> DEFINE rolled == Rolled(resolved[d], counter'[d], now)
  <2>1. resolved[d] # None /\ rules'[d] = Evaluated(rolled, UsageBytes(rolled), now)
    BY <1>9 DEF Observed
  <2>2. /\ resolved[d] \in MeterRules /\ counter'[d] \in OrNone(Nat)
        /\ Honest(resolved[d], counter'[d], now)
    BY <1>3, <1>7, <1>8, <2>1 DEF AllHonest, OrNone
  <2>3. rolled \in MeterRules /\ Honest(rolled, counter'[d], now)
    BY <1>3, <2>2, RolledTyped, RolledKeeps
  <2> HIDE DEF rolled
  <2>4. Honest(Evaluated(rolled, UsageBytes(rolled), now), counter'[d], now)
    BY <1>3, <2>3, EvaluatedKeeps
  <2> QED BY <2>1, <2>4
<1>11. AllHonest(rulesDisk', counter', now)
  <2>1. AllHonest(OnDisk(resolved), counter', now)
    BY <1>7, <1>8, OnDiskHonest
  <2>2. AllHonest(OnDisk(rules'), counter', now)
    BY <1>3, <1>10, OnDiskHonest
  <2> QED BY <1>2, <1>6, <2>1, <2>2 DEF onDisk, resolved
<1>12. DiskBehind'
  <2> SUFFICES ASSUME NEW d \in Devices, counterDisk[d] # None
               PROVE  counter'[d] # None /\ counterDisk[d] <= counter'[d]
    BY <1>2 DEF DiskBehind
  <2>1. counter[d] # None /\ counterDisk[d] <= counter[d]
    BY <1>4 DEF DiskBehind
  <2>2. /\ counter'[d] # None /\ Advance(d, roster) \in Nat
        /\ counter'[d] = counter[d] + Advance(d, roster)
    BY <1>1, <1>2, <2>1, FoldTyped
  <2>3. counter[d] \in Nat /\ counterDisk[d] \in Nat
    BY <1>3, <2>1 DEF OrNone
  <2> QED BY <2>1, <2>2, <2>3
<1> QED BY <1>1, <1>2, <1>4, <1>10, <1>11, <1>12 DEF HonestInv

LEMMA StepKeeps ==
    ASSUME Merging = FALSE
    PROVE  HonestInv /\ [Next]_vars => HonestInv'
<1> SUFFICES ASSUME HonestInv, [Next]_vars PROVE HonestInv'
  OBVIOUS
<1>1. CASE UNCHANGED vars
  BY <1>1 DEF vars, HonestInv, TypeOK, DiskBehind
<1>2. ~\E from, to \in Devices : Merge(from, to)
  BY DEF Merge
<1> QED BY <1>1, <1>2, PollKeeps, EditsKeep, RecordsKeep DEF Next

LEMMA StartHonest == Init => HonestInv
<1> SUFFICES ASSUME Init PROVE HonestInv
  OBVIOUS
<1>1. TypeOK
  BY StartTyped
<1>2. /\ \A d \in Devices : rules[d] = None /\ rulesDisk[d] = None
                            /\ counterDisk[d] = None /\ alias[d] = d
  BY DEF Init
<1> QED BY <1>1, <1>2 DEF HonestInv, AllHonest, DiskBehind

LEMMA HonestCharges == HonestInv => NeverOvercharged /\ HeldOnlyWhenDue
<1> SUFFICES ASSUME HonestInv, NEW d \in Devices, rules[d] # None
             PROVE  /\ UsageBytes(rules[d]) <= rules[d].sent
                    /\ rules[d].acted /\ rules[d].terms.allocation > 0
                         => rules[d].sent >= rules[d].terms.allocation
                    /\ rules[d].countdownActed
                         => /\ rules[d].terms.countdown # None
                            /\ rules[d].countdownStart + rules[d].terms.countdown <= now
  BY DEF NeverOvercharged, HeldOnlyWhenDue, Ruled, Metered
<1>1. Honest(rules[d], counter[d], now) /\ rules[d] \in MeterRules
  BY DEF HonestInv, AllHonest, TypeOK, OrNone
<1>2. UsageBytes(rules[d]) <= rules[d].sent
  BY <1>1, RuleTypes DEF Honest, UsageBytes
<1> QED BY <1>1, <1>2 DEF Honest

\* While no identity is merged, no rule ever charges a byte its device did not
\* send in the cycle (NeverOvercharged), whatever is edited, lost or restarted.
THEOREM ChargesOnlyWhatWasSent ==
    ASSUME Merging = FALSE
    PROVE  Spec => []NeverOvercharged
<1>1. Init => HonestInv
  BY StartHonest
<1>2. HonestInv /\ [Next]_vars => HonestInv'
  BY StepKeeps
<1>3. HonestInv => NeverOvercharged
  BY HonestCharges
<1> QED BY <1>1, <1>2, <1>3, PTL DEF Spec

\* While no identity is merged, no latch is held that was not earned
\* (HeldOnlyWhenDue).
THEOREM LatchesAreEarned ==
    ASSUME Merging = FALSE
    PROVE  Spec => []HeldOnlyWhenDue
<1>1. Init => HonestInv
  BY StartHonest
<1>2. HonestInv /\ [Next]_vars => HonestInv'
  BY StepKeeps
<1>3. HonestInv => HeldOnlyWhenDue
  BY HonestCharges
<1> QED BY <1>1, <1>2, <1>3, PTL DEF Spec

--------------------------------------------------------------------------------
(* Until a process is killed a rule misses no byte: it has always read the     *)
(* counter as it stands, and charges all of it since the cycle opened.         *)

CounterRead(c) == IF c = None THEN 0 ELSE c

\* What r charges is what was sent, and it has read the counter c.
Exact(r, c) ==
    /\ r.anchor <= r.observed /\ r.sent = r.observed - r.anchor
    /\ r.observed = CounterRead(c)

ExactInv ==
    /\ TypeOK
    /\ \A d \in Devices : alias[d] = d
    /\ crashes = 0 => \A d \in Devices : rules[d] # None => Exact(rules[d], counter[d])

LEMMA OpenWindowCounts ==
    ASSUME NEW r \in RuleFields, NEW t
    PROVE  LET s == OpenWindow(r, t)
           IN  s.anchor = r.anchor /\ s.observed = r.observed /\ s.sent = r.sent
BY DEF OpenWindow, RuleFields

\* A reading is folded in before the cycle turns over, so a new cycle misses none.
LEMMA RolledCounts ==
    ASSUME NEW r \in MeterRules, NEW reading \in OrNone(Nat), NEW t \in Nat
    PROVE  LET s == Rolled(r, reading, t)
           IN  /\ s.observed = IF reading = None THEN r.observed ELSE reading
               /\ \/ s.anchor = r.anchor /\ s.sent = r.sent
                  \/ s.anchor = s.observed /\ s.sent = 0
<1> DEFINE read == IF reading = None THEN r ELSE [r EXCEPT !.observed = reading]
           turned == IF r.terms.schedule # None /\ (r.windowEnd = None \/ t >= r.windowEnd)
                     THEN OpenWindow(read, t) ELSE read
           o == Opened(turned, t)
<1>1. /\ read \in MeterRules /\ read.anchor = r.anchor /\ read.sent = r.sent
      /\ read.observed = IF reading = None THEN r.observed ELSE reading
  BY DEF MeterRules, RuleFields, OrNone
<1> HIDE DEF read
<1>2. read \in RuleFields /\ (read.countdownStart = None <=> read.terms.countdown = None)
  BY <1>1 DEF MeterRules
<1>3. turned \in MeterRules
  BY <1>1, <1>2, OpenWindowTyped
<1>4. /\ turned.anchor = read.anchor /\ turned.observed = read.observed
      /\ turned.sent = read.sent
  BY <1>2, OpenWindowCounts
<1> HIDE DEF turned
<1>5. o.anchor = turned.observed /\ o.observed = turned.observed /\ o.sent = 0
  BY <1>3 DEF Opened, MeterRules, RuleFields
<1> HIDE DEF o
<1>6. Rolled(r, reading, t) = o \/ Rolled(r, reading, t) = turned
  BY DEF Rolled, o, turned, read
<1> QED BY <1>1, <1>4, <1>5, <1>6

LEMMA EvaluatedCounts ==
    ASSUME NEW r \in MeterRules, NEW charged, NEW t
    PROVE  LET s == Evaluated(r, charged, t)
           IN  s.anchor = r.anchor /\ s.observed = r.observed /\ s.sent = r.sent
BY DEF Evaluated, MeterRules, RuleFields

\* An edit leaves what is counted alone, a rule made new starts at the counter,
\* and one restarted starts at the counter as it last read it.
LEMMA UpsertedCounts ==
    ASSUME NEW r \in MeterRules, NEW terms, NEW t, NEW charged
    PROVE  LET s == Upserted(r, terms, t, charged)
           IN  s.anchor = r.anchor /\ s.observed = r.observed /\ s.sent = r.sent
BY DEF Upserted, OpenWindow, MeterRules, RuleFields

LEMMA CreatedCounts ==
    ASSUME NEW terms, NEW c, NEW t
    PROVE  LET s == CreatedRule(terms, c, t)
           IN  s.anchor = c /\ s.observed = c /\ s.sent = 0
BY DEF CreatedRule, OpenWindow

LEMMA RestartedCounts ==
    ASSUME NEW r \in MeterRules, NEW t
    PROVE  LET s == RestartedCycle(r, t)
           IN  s.anchor = r.observed /\ s.observed = r.observed
BY DEF RestartedCycle, Opened, OpenWindow, MeterRules, RuleFields

LEMMA PollCounts ==
    ASSUME ExactInv, Poll
    PROVE  ExactInv'
<1>1. TypeOK /\ TypeOK' /\ \A d \in Devices : alias[d] = d
  BY PollTyped DEF ExactInv
<1>2. PICK roster \in Rosters, from \in Resolutions :
        /\ counter' = [d \in Devices |-> Folded(d, roster)]
        /\ rules' = Observed(Resolved(from, roster),
                             [d \in Devices |-> Folded(d, roster)])
        /\ UNCHANGED <<now, alias, crashes>>
  BY DEF Poll
<1> SUFFICES ASSUME crashes = 0, NEW d \in Devices, rules'[d] # None
             PROVE  Exact(rules'[d], counter'[d])
  BY <1>1, <1>2 DEF ExactInv
<1> DEFINE s == Sent(rules[d], Advance(d, roster))
           rolled == Rolled(s, counter'[d], now)
<1>3. /\ counter[d] \in OrNone(Nat) /\ counter'[d] \in OrNone(Nat) /\ now \in Nat
      /\ rules[d] \in OrNone(MeterRules) /\ counter'[d] = Folded(d, roster)
  BY <1>1, <1>2 DEF TypeOK
<1>4. rules[d] # None /\ rules'[d] = Evaluated(rolled, UsageBytes(rolled), now)
  <2>1. Resolved(from, roster)[d] # None
    BY <1>2 DEF Observed
  <2>2. from[d] # None /\ from[d] \in Claimants(d)
    BY <2>1 DEF Resolved, Resolutions, Standing
  <2>3. from[d] = d /\ rules[d] # None
    BY <1>1, <2>2 DEF Claimants, Metered
  <2>4. Resolved(from, roster)[d] = s
    BY <2>2, <2>3 DEF Resolved
  <2> HIDE DEF s
  <2> QED BY <1>2, <2>1, <2>3, <2>4 DEF Observed
<1>5. Exact(rules[d], counter[d]) /\ rules[d] \in MeterRules
  BY <1>3, <1>4 DEF ExactInv, OrNone
<1>6. /\ Advance(d, roster) \in Nat
      /\ counter'[d] # None =>
             CounterRead(counter'[d]) = CounterRead(counter[d]) + Advance(d, roster)
      /\ counter'[d] = None => counter[d] = None /\ Advance(d, roster) = 0
  <2>1. counter[d] = None => Advance(d, roster) = 0
    BY DEF Advance
  <2> QED BY <1>1, <1>3, <2>1, FoldTyped DEF CounterRead, OrNone
<1>7. /\ s \in MeterRules /\ s.anchor = rules[d].anchor /\ s.observed = rules[d].observed
      /\ s.sent = rules[d].sent + Advance(d, roster)
  BY <1>4, <1>5, <1>6 DEF Sent, MeterRules, RuleFields
<1> HIDE DEF s
<1>8. /\ rolled \in MeterRules
      /\ rolled.observed = IF counter'[d] = None THEN s.observed ELSE counter'[d]
      /\ \/ rolled.anchor = s.anchor /\ rolled.sent = s.sent
         \/ rolled.anchor = rolled.observed /\ rolled.sent = 0
  BY <1>3, <1>7, RolledTyped, RolledCounts
<1> HIDE DEF rolled
<1>9. Exact(rolled, counter'[d])
  BY <1>3, <1>5, <1>6, <1>7, <1>8, RuleTypes DEF Exact, CounterRead, OrNone
<1>10. /\ rules'[d].anchor = rolled.anchor /\ rules'[d].observed = rolled.observed
       /\ rules'[d].sent = rolled.sent
  BY <1>4, <1>8, EvaluatedCounts
<1> QED BY <1>9, <1>10 DEF Exact

\* A request that leaves every rule exact, or that has none left.
LEMMA RequestsCount ==
    ASSUME ExactInv, NEW d \in Devices,
           \/ \E terms \in Terms : SetRule(d, terms)
           \/ RestartRule(d) \/ ResetTotals(d) \/ RemoveRule(d) \/ DeleteRecord(d)
    PROVE  ExactInv'
<1>1. TypeOK /\ TypeOK' /\ \A e \in Devices : alias[e] = e
  BY RequestTyped DEF ExactInv
<1>2. crashes' = crashes /\ alias' = alias
  BY DEF SetRule, RestartRule, ResetTotals, RemoveRule, DeleteRecord, Request
<1> SUFFICES ASSUME crashes = 0, NEW e \in Devices, rules'[e] # None
             PROVE  Exact(rules'[e], counter'[e])
  BY <1>1, <1>2 DEF ExactInv
<1>3. /\ rules[e] # None => Exact(rules[e], counter[e]) /\ rules[e] \in MeterRules
      /\ counter[e] \in OrNone(Nat) /\ now \in Nat
      /\ rules \in [Devices -> OrNone(MeterRules)] /\ counter \in [Devices -> OrNone(Nat)]
  BY <1>1 DEF ExactInv, TypeOK, OrNone
<1>4. ASSUME Metered(e) PROVE Exact(RestartedRule(e), counter[e])
  <2> DEFINE s == RestartedCycle(rules[e], now)
  <2>1. Unread(e) = 0
    BY <1>3, <1>4 DEF Unread, Exact, CounterRead, Metered, OrNone
  <2>2. /\ s \in MeterRules /\ s.anchor = rules[e].observed
        /\ s.observed = rules[e].observed
    BY <1>3, <1>4, RestartedTyped, RestartedCounts DEF Metered
  <2> HIDE DEF s
  <2>3. RestartedRule(e) = [s EXCEPT !.sent = 0]
    BY <2>1 DEF RestartedRule, s
  <2>4. /\ RestartedRule(e).anchor = s.anchor /\ RestartedRule(e).observed = s.observed
        /\ RestartedRule(e).sent = 0
    BY <2>2, <2>3 DEF MeterRules, RuleFields
  <2>5. rules[e].observed \in Nat
    BY <1>3, <1>4, RuleTypes DEF Metered
  <2> QED BY <1>3, <1>4, <2>2, <2>4, <2>5 DEF Exact, Metered
<1>5. CASE \E terms \in Terms : SetRule(d, terms)
  <2>1. PICK terms \in Terms : SetRule(d, terms)
    BY <1>5
  <2>3. counter' = counter
    BY <2>1 DEF SetRule
  <2>4. CASE e # d
    BY <1>3, <2>1, <2>3, <2>4 DEF SetRule
  <2>5. CASE e = d /\ Metered(e)
    <3>1. rules'[e] = Upserted(rules[e], terms, now, UsageBytes(rules[e]))
      BY <1>3, <2>1, <2>5 DEF SetRule
    <3>2. /\ rules'[e].anchor = rules[e].anchor /\ rules'[e].observed = rules[e].observed
          /\ rules'[e].sent = rules[e].sent
      BY <1>3, <2>5, <3>1, UpsertedCounts DEF Metered
    <3> QED BY <1>3, <2>3, <2>5, <3>2 DEF Exact, Metered
  <2>6. CASE e = d /\ ~Metered(e)
    <3> DEFINE c == IF counter[e] = None THEN 0 ELSE counter[e]
    <3>1. rules'[e] = CreatedRule(terms, c, now)
      BY <1>3, <2>1, <2>6 DEF SetRule
    <3>2. c \in Nat /\ c = CounterRead(counter[e])
      BY <1>3 DEF OrNone, CounterRead
    <3> HIDE DEF c
    <3>3. rules'[e].anchor = c /\ rules'[e].observed = c /\ rules'[e].sent = 0
      BY <3>1, CreatedCounts
    <3> QED BY <2>3, <3>2, <3>3 DEF Exact
  <2> QED BY <2>4, <2>5, <2>6
<1>6. CASE RestartRule(d)
  BY <1>3, <1>4, <1>6 DEF RestartRule
<1>7. CASE ResetTotals(d)
  BY <1>3, <1>4, <1>7 DEF ResetTotals
<1>8. CASE RemoveRule(d)
  BY <1>3, <1>8 DEF RemoveRule
<1>9. CASE DeleteRecord(d)
  BY <1>3, <1>9 DEF DeleteRecord
<1> QED BY <1>5, <1>6, <1>7, <1>8, <1>9

LEMMA OthersCount ==
    ASSUME ExactInv, Tick \/ SnapshotTotals \/ Crash \/ ClearRecords \/ UNCHANGED vars
    PROVE  ExactInv'
<1>1. TypeOK /\ TypeOK' /\ \A d \in Devices : alias[d] = d
  BY StepTyped DEF ExactInv, Next
<1>2. CASE Crash
  <2>1. crashes \in Nat /\ crashes' = crashes + 1 /\ alias' = alias
    BY <1>1, <1>2 DEF Crash, TypeOK
  <2> QED BY <1>1, <2>1 DEF ExactInv
<1>3. CASE ClearRecords
  BY <1>1, <1>3 DEF ClearRecords, Request, ExactInv
<1>4. CASE Tick \/ SnapshotTotals \/ UNCHANGED vars
  BY <1>1, <1>4 DEF Tick, SnapshotTotals, vars, ExactInv
<1> QED BY <1>2, <1>3, <1>4

\* While no identity is merged and until a process is killed, a rule charges every
\* byte of its cycle (CountsEveryByte): no roll, edit or restart forgets one.
THEOREM NoByteIsMissed ==
    ASSUME Merging = FALSE
    PROVE  Spec => []CountsEveryByte
<1>1. Init => ExactInv
  <2> SUFFICES ASSUME Init PROVE ExactInv
    OBVIOUS
  <2>1. \A d \in Devices : rules[d] = None /\ alias[d] = d
    BY DEF Init
  <2> QED BY <2>1, StartTyped DEF ExactInv
<1>2. ExactInv /\ [Next]_vars => ExactInv'
  BY PollCounts, RequestsCount, OthersCount DEF Next, Merge
<1>3. ExactInv => CountsEveryByte
  <2> SUFFICES ASSUME ExactInv, crashes = 0, NEW d \in Devices, rules[d] # None
               PROVE  UsageBytes(rules[d]) = rules[d].sent
    BY DEF CountsEveryByte, Ruled, Metered
  <2>1. Exact(rules[d], counter[d]) /\ rules[d] \in MeterRules
    BY DEF ExactInv, TypeOK, OrNone
  <2> QED BY <2>1, RuleTypes DEF Exact, UsageBytes
<1> QED BY <1>1, <1>2, <1>3, PTL DEF Spec

--------------------------------------------------------------------------------
(* No rule lives past a boundary: why comparing the clock with the stored ends *)
(* of the cycle and of the window is enough, over edits, merges, restarts and  *)
(* rules read back from disk.  From that, what a poll leaves of each rule, and *)
(* the identity it leaves it with.                                             *)

\* The ends a rule holds were computed from its own terms at some time up to t.
Placed(r, t) ==
    /\ \E p \in 0 .. t : r.periodEnd = PeriodEnd(r.terms.cycle, p)
    /\ r.terms.schedule # None =>
         \E p \in 0 .. t : /\ r.windowEnd = SegmentEnd(r.terms.schedule, p)
                           /\ r.windowBlocked = BlockedAt(r.terms.schedule, p)
    /\ r.terms.schedule = None => r.windowBlocked = FALSE

Current(r, t) ==
    /\ r.periodEnd = PeriodEnd(r.terms.cycle, t)
    /\ r.windowBlocked <=> (r.terms.schedule # None /\ BlockedAt(r.terms.schedule, t))

\* A rule on disk is placed as it will be read back.
PlacedInv ==
    /\ TypeOK
    /\ \A d \in Devices : rules[d] # None => Placed(rules[d], now)
    /\ \A d \in Devices : rulesDisk[d] # None => Placed(RestoredRule(rulesDisk[d]), now)
    /\ BoundariesAreCurrent

--------------------------------------------------------------------------------
(* What each step of a rule does to its ends.                                  *)

LEMMA SamePlace ==
    ASSUME NEW r, NEW s, NEW t, Placed(r, t),
           s.terms = r.terms, s.periodEnd = r.periodEnd,
           s.windowEnd = r.windowEnd, s.windowBlocked = r.windowBlocked
    PROVE  Placed(s, t)
BY DEF Placed

LEMMA LaterPlaced ==
    ASSUME NEW r, NEW t \in Nat, NEW u \in Nat, t <= u, Placed(r, t)
    PROVE  Placed(r, u)
<1>1. \A p \in 0 .. t : p \in 0 .. u
  OBVIOUS
<1> QED BY <1>1 DEF Placed

LEMMA OpenWindowPlaces ==
    ASSUME NEW r \in RuleFields, NEW t \in Nat,
           \E p \in 0 .. t : r.periodEnd = PeriodEnd(r.terms.cycle, p)
    PROVE  Placed(OpenWindow(r, t), t)
<1> DEFINE s == OpenWindow(r, t)
<1>1. /\ s.terms = r.terms /\ s.periodEnd = r.periodEnd
      /\ r.terms.schedule # None => /\ s.windowEnd = SegmentEnd(r.terms.schedule, t)
                                    /\ s.windowBlocked = BlockedAt(r.terms.schedule, t)
      /\ r.terms.schedule = None => s.windowBlocked = FALSE
  BY DEF OpenWindow, RuleFields
<1> HIDE DEF s
<1>2. t \in 0 .. t
  OBVIOUS
<1>3. Placed(s, t)
  BY <1>1, <1>2 DEF Placed
<1> QED BY <1>3 DEF s

LEMMA CreatedPlaced ==
    ASSUME NEW terms \in RuleTerms, NEW c \in Nat, NEW t \in Nat
    PROVE  Placed(CreatedRule(terms, c, t), t)
<1> DEFINE blank == [terms          |-> terms,
                     anchor         |-> c,
                     observed       |-> c,
                     periodEnd      |-> PeriodEnd(terms.cycle, t),
                     acted          |-> FALSE,
                     countdownStart |-> IF terms.countdown = None THEN None ELSE t,
                     countdownActed |-> FALSE,
                     windowEnd      |-> None,
                     windowBlocked  |-> FALSE,
                     reachedAt      |-> None,
                     updated        |-> t,
                     sent           |-> 0]
<1>1. blank \in RuleFields
  BY PeriodEndTyped DEF RuleFields, OrNone
<1>2. t \in 0 .. t /\ blank.periodEnd = PeriodEnd(blank.terms.cycle, t)
  OBVIOUS
<1> HIDE DEF blank
<1>3. Placed(OpenWindow(blank, t), t)
  BY <1>1, <1>2, OpenWindowPlaces
<1> QED BY <1>3 DEF CreatedRule, blank

LEMMA UpsertedPlaced ==
    ASSUME NEW r \in MeterRules, NEW terms \in RuleTerms, NEW t \in Nat, NEW charged \in Nat,
           Placed(r, t)
    PROVE  Placed(Upserted(r, terms, t, charged), t)
<1> DEFINE edited == [r EXCEPT !.terms = terms,
                               !.updated = t,
                               !.periodEnd = IF terms.cycle = r.terms.cycle THEN @
                                             ELSE PeriodEnd(terms.cycle, t),
                               !.countdownStart = IF terms.countdown = None THEN None ELSE t,
                               !.countdownActed = FALSE,
                               !.acted = @ /\ ~(charged < terms.allocation)]
<1>1. edited \in RuleFields
  BY PeriodEndTyped DEF MeterRules, RuleFields, OrNone
<1>2. /\ edited.terms = terms
      /\ edited.windowEnd = r.windowEnd /\ edited.windowBlocked = r.windowBlocked
      /\ edited.periodEnd = IF terms.cycle = r.terms.cycle THEN r.periodEnd
                            ELSE PeriodEnd(terms.cycle, t)
  BY DEF MeterRules, RuleFields
<1> HIDE DEF edited
<1>3. \E p \in 0 .. t : edited.periodEnd = PeriodEnd(edited.terms.cycle, p)
  <2>1. t \in 0 .. t
    OBVIOUS
  <2> QED BY <1>2, <2>1 DEF Placed
<1>4. Placed(OpenWindow(edited, t), t)
  BY <1>1, <1>3, OpenWindowPlaces
<1>5. terms.schedule = r.terms.schedule => Placed(edited, t)
  BY <1>2, <1>3 DEF Placed
<1> QED BY <1>4, <1>5 DEF Upserted, edited

LEMMA RestartedPlaced ==
    ASSUME TypeOK, NEW d \in Devices, Metered(d), Placed(rules[d], now)
    PROVE  Placed(RestartedRule(d), now)
<1> DEFINE r == rules[d]
           o == Opened(r, now)
           fresh == [o EXCEPT
                        !.reachedAt = None,
                        !.countdownStart = IF r.terms.countdown = None THEN None ELSE now,
                        !.countdownActed = FALSE]
           restarted == RestartedCycle(r, now)
           s == RestartedRule(d)
<1>1. r \in MeterRules /\ now \in Nat
  BY DEF TypeOK, Metered, OrNone
<1>2. Placed(r, now)
  OBVIOUS
<1> HIDE DEF r
<1>3. /\ o \in MeterRules /\ o.terms = r.terms
      /\ o.periodEnd = PeriodEnd(r.terms.cycle, now)
      /\ o.windowEnd = r.windowEnd /\ o.windowBlocked = r.windowBlocked
  BY <1>1, OpenedTyped DEF Opened, MeterRules, RuleFields
<1> HIDE DEF o
<1>4. /\ fresh \in RuleFields /\ fresh.terms = r.terms
      /\ fresh.periodEnd = PeriodEnd(r.terms.cycle, now)
      /\ fresh.windowEnd = r.windowEnd /\ fresh.windowBlocked = r.windowBlocked
  BY <1>1, <1>3 DEF MeterRules, RuleFields, OrNone
<1> HIDE DEF fresh
<1>5. now \in 0 .. now
  BY <1>1
<1>6. Placed(OpenWindow(fresh, now), now)
  BY <1>1, <1>4, <1>5, OpenWindowPlaces
<1>7. Placed(fresh, now)
  BY <1>2, <1>4, <1>5 DEF Placed
<1>8. Placed(restarted, now)
  BY <1>6, <1>7 DEF RestartedCycle, fresh, o
<1>9. restarted \in MeterRules
  BY <1>1, RestartedTyped
<1> HIDE DEF restarted
<1>10. s = [restarted EXCEPT !.sent = Unread(d)]
  BY DEF RestartedRule, restarted, r
<1>11. /\ s.terms = restarted.terms /\ s.periodEnd = restarted.periodEnd
       /\ s.windowEnd = restarted.windowEnd /\ s.windowBlocked = restarted.windowBlocked
  BY <1>9, <1>10 DEF MeterRules, RuleFields
<1> HIDE DEF s
<1>12. Placed(s, now)
  BY <1>8, <1>11, SamePlace
<1> QED BY <1>12 DEF s

\* The null a one-off cycle's end is written as reads back as its end.
LEMMA StoragePlaces ==
    ASSUME NEW r \in MeterRules, NEW t \in Nat, Placed(r, t)
    PROVE  Placed(RestoredRule(Stored(r)), t)
<1>1. r.periodEnd = None \/ r.periodEnd > 0
  <2>1. PICK p \in 0 .. t : r.periodEnd = PeriodEnd(r.terms.cycle, p)
    BY DEF Placed
  <2>2. p \in Nat
    OBVIOUS
  <2>3. r.periodEnd \in OrNone(Nat) /\ (r.periodEnd # None => r.periodEnd > p)
    BY <2>1, <2>2, PeriodEndTyped
  <2> QED BY <2>2, <2>3 DEF OrNone
<1> DEFINE s == RestoredRule(Stored(r))
<1>2. /\ s.terms = r.terms /\ s.periodEnd = r.periodEnd
      /\ s.windowEnd = r.windowEnd /\ s.windowBlocked = r.windowBlocked
  BY <1>1, NoneIsNoNumber DEF RestoredRule, Stored, MeterRules, RuleFields
<1> HIDE DEF s
<1>3. Placed(s, t)
  BY <1>2, SamePlace
<1> QED BY <1>3 DEF s

LEMMA SentPlaces ==
    ASSUME NEW r \in MeterRules, r # None, NEW n \in Nat, NEW t
    PROVE  /\ Placed(r, t) => Placed(Sent(r, n), t)
           /\ Placed(RestoredRule(r), t) => Placed(RestoredRule(Sent(r, n)), t)
<1> DEFINE s == Sent(r, n)
<1>1. /\ s \in MeterRules /\ s.terms = r.terms /\ s.periodEnd = r.periodEnd
      /\ s.windowEnd = r.windowEnd /\ s.windowBlocked = r.windowBlocked
  BY DEF Sent, MeterRules, RuleFields
<1> HIDE DEF s
<1>2. /\ RestoredRule(s).terms = RestoredRule(r).terms
      /\ RestoredRule(s).periodEnd = RestoredRule(r).periodEnd
      /\ RestoredRule(s).windowEnd = RestoredRule(r).windowEnd
      /\ RestoredRule(s).windowBlocked = RestoredRule(r).windowBlocked
  BY <1>1 DEF RestoredRule, MeterRules, RuleFields
<1>3. Placed(r, t) => Placed(s, t)
  BY <1>1, SamePlace
<1>4. Placed(RestoredRule(r), t) => Placed(RestoredRule(s), t)
  BY <1>2, SamePlace
<1> QED BY <1>3, <1>4 DEF s

\* A poll brings both ends up to date.
LEMMA RolledCurrent ==
    ASSUME NEW r \in MeterRules, NEW reading \in OrNone(Nat), NEW t \in Nat, Placed(r, t)
    PROVE  Placed(Rolled(r, reading, t), t) /\ Current(Rolled(r, reading, t), t)
<1> DEFINE read == IF reading = None THEN r ELSE [r EXCEPT !.observed = reading]
<1> DEFINE turned == IF r.terms.schedule # None /\ (r.windowEnd = None \/ t >= r.windowEnd)
                     THEN OpenWindow(read, t) ELSE read
<1> DEFINE o == Opened(turned, t)
<1>1. /\ read \in MeterRules /\ read.terms = r.terms /\ read.periodEnd = r.periodEnd
      /\ read.windowEnd = r.windowEnd /\ read.windowBlocked = r.windowBlocked
  BY DEF MeterRules, RuleFields, OrNone
<1> HIDE DEF read
<1>2. read \in RuleFields /\ (read.countdownStart = None <=> read.terms.countdown = None)
  BY <1>1 DEF MeterRules
<1>3. Placed(read, t)
  BY <1>1, SamePlace
<1>4. turned \in MeterRules
  BY <1>1, <1>2, OpenWindowTyped
<1>5. Placed(turned, t)
  BY <1>2, <1>3, OpenWindowPlaces DEF Placed
<1>6. turned.terms = r.terms
  BY <1>1, <1>2 DEF OpenWindow, RuleFields
<1>7. turned.windowBlocked <=> (r.terms.schedule # None /\ BlockedAt(r.terms.schedule, t))
  <2>1. CASE r.terms.schedule = None
    BY <1>3, <1>1, <2>1 DEF Placed
  <2>2. CASE r.terms.schedule # None /\ (r.windowEnd = None \/ t >= r.windowEnd)
    BY <1>1, <1>2, <2>2 DEF OpenWindow, RuleFields
  <2>3. CASE r.terms.schedule # None /\ ~(r.windowEnd = None \/ t >= r.windowEnd)
    <3>1. PICK p \in 0 .. t : /\ r.windowEnd = SegmentEnd(r.terms.schedule, p)
                              /\ r.windowBlocked = BlockedAt(r.terms.schedule, p)
      BY <2>3 DEF Placed
    <3>2. p \in Nat /\ p <= t
      OBVIOUS
    <3>3. SegmentEnd(r.terms.schedule, p) \in Nat /\ ~(t >= SegmentEnd(r.terms.schedule, p))
      BY <2>3, <3>1, <3>2, SegmentEndBounds
    <3>4. t < SegmentEnd(r.terms.schedule, p)
      BY <3>3
    <3>5. BlockedAt(r.terms.schedule, t) <=> BlockedAt(r.terms.schedule, p)
      BY <3>2, <3>4, SegmentEndBounds
    <3> QED BY <1>1, <2>3, <3>1, <3>5
  <2> QED BY <2>1, <2>2, <2>3
<1> HIDE DEF turned
<1>8. CASE Past(turned.periodEnd, t)
  <2>1. /\ o.terms = turned.terms /\ o.periodEnd = PeriodEnd(turned.terms.cycle, t)
        /\ o.windowEnd = turned.windowEnd /\ o.windowBlocked = turned.windowBlocked
    BY <1>4 DEF Opened, MeterRules, RuleFields
  <2> HIDE DEF o
  <2>2. t \in 0 .. t
    OBVIOUS
  <2>3. Placed(o, t)
    BY <1>5, <2>1, <2>2 DEF Placed
  <2>4. Current(o, t)
    BY <1>6, <1>7, <2>1 DEF Current
  <2> QED BY <1>8, <2>3, <2>4 DEF Rolled, read, turned, o
<1>9. CASE ~Past(turned.periodEnd, t)
  <2>1. PICK p \in 0 .. t : turned.periodEnd = PeriodEnd(turned.terms.cycle, p)
    BY <1>5 DEF Placed
  <2>2. PeriodEnd(turned.terms.cycle, t) = turned.periodEnd
    BY <1>9, <2>1, SamePeriodEnd
  <2>3. Current(turned, t)
    BY <1>6, <1>7, <2>2 DEF Current
  <2> QED BY <1>5, <1>9, <2>3 DEF Rolled, read, turned
<1> QED BY <1>8, <1>9

LEMMA EvaluatedCurrent ==
    ASSUME NEW r \in MeterRules, NEW charged, NEW t, Placed(r, t), Current(r, t)
    PROVE  Placed(Evaluated(r, charged, t), t) /\ Current(Evaluated(r, charged, t), t)
<1> DEFINE s == Evaluated(r, charged, t)
<1>1. /\ s.terms = r.terms /\ s.periodEnd = r.periodEnd
      /\ s.windowEnd = r.windowEnd /\ s.windowBlocked = r.windowBlocked
  BY DEF Evaluated, MeterRules, RuleFields
<1> HIDE DEF s
<1>2. Placed(s, t) /\ Current(s, t)
  BY <1>1, SamePlace DEF Current
<1> QED BY <1>2 DEF s

--------------------------------------------------------------------------------
(* What each step of the system does.                                          *)

AllPlaced(rs, t)  == \A d \in Devices : rs[d] # None => Placed(rs[d], t)
DiskPlaced(rs, t) == \A d \in Devices : rs[d] # None => Placed(RestoredRule(rs[d]), t)

LEMMA OnDiskPlaced ==
    ASSUME NEW rs \in [Devices -> OrNone(MeterRules)], NEW t \in Nat, AllPlaced(rs, t)
    PROVE  DiskPlaced(OnDisk(rs), t)
<1> SUFFICES ASSUME NEW d \in Devices, OnDisk(rs)[d] # None
             PROVE  Placed(RestoredRule(OnDisk(rs)[d]), t)
  BY DEF DiskPlaced
<1>1. rs[d] # None /\ OnDisk(rs)[d] = Stored(rs[d])
  BY DEF OnDisk
<1>2. rs[d] \in MeterRules /\ Placed(rs[d], t)
  BY <1>1 DEF AllPlaced, OrNone
<1> QED BY <1>1, <1>2, StoragePlaces

\* A request leaves the next poll to bring the boundaries up to date.
LEMMA RequestPlaces ==
    ASSUME PlacedInv, TypeOK', now' = now, polled' = FALSE,
           AllPlaced(rules', now),
           Persist \/ rulesDisk' = rulesDisk
    PROVE  PlacedInv'
<1>1. DiskPlaced(OnDisk(rules'), now)
  BY OnDiskPlaced DEF TypeOK, PlacedInv
<1>2. DiskPlaced(rulesDisk', now)
  BY <1>1 DEF Persist, PlacedInv, DiskPlaced
<1> QED BY <1>2 DEF PlacedInv, AllPlaced, DiskPlaced, BoundariesAreCurrent

LEMMA OneRulePlaces ==
    ASSUME PlacedInv, NEW d \in Devices, NEW r, r = None \/ Placed(r, now)
    PROVE  AllPlaced([rules EXCEPT ![d] = r], now)
BY DEF AllPlaced, PlacedInv, TypeOK

LEMMA RequestsPlace ==
    ASSUME PlacedInv, NEW d \in Devices,
           \/ \E terms \in Terms : SetRule(d, terms)
           \/ RestartRule(d) \/ ResetTotals(d) \/ RemoveRule(d) \/ DeleteRecord(d)
    PROVE  PlacedInv'
<1>1. TypeOK /\ TypeOK'
  BY RequestTyped DEF PlacedInv
<1>2. now' = now /\ polled' = FALSE
  BY DEF SetRule, RestartRule, ResetTotals, RemoveRule, DeleteRecord, Request
<1>3. /\ counter \in [Devices -> OrNone(Nat)] /\ rules \in [Devices -> OrNone(MeterRules)]
      /\ now \in Nat
  BY <1>1 DEF TypeOK
<1>4. Metered(d) => rules[d] \in MeterRules /\ Placed(rules[d], now)
  BY <1>3 DEF Metered, OrNone, PlacedInv
<1>5. Metered(d) => AllPlaced([rules EXCEPT ![d] = RestartedRule(d)], now)
  BY <1>1, <1>4, RestartedPlaced, OneRulePlaces
<1>6. AllPlaced([rules EXCEPT ![d] = None], now)
  BY OneRulePlaces
<1>7. AllPlaced(rules, now)
  BY DEF PlacedInv, AllPlaced
<1>8. ASSUME NEW terms \in Terms, SetRule(d, terms) PROVE PlacedInv'
  <2> DEFINE upserted == Upserted(rules[d], terms, now, UsageBytes(rules[d]))
             created  == CreatedRule(terms, IF counter[d] = None THEN 0 ELSE counter[d], now)
             r        == IF Metered(d) THEN upserted ELSE created
  <2>1. terms \in RuleTerms
    BY TermsAreAsked
  <2>2. Metered(d) => Placed(upserted, now)
    BY <1>3, <1>4, <2>1, UpsertedPlaced, UsageIsNat, RuleTypes
  <2>3. (IF counter[d] = None THEN 0 ELSE counter[d]) \in Nat
    BY <1>3 DEF OrNone
  <2>4. Placed(created, now)
    BY <1>3, <2>1, <2>3, CreatedPlaced
  <2>5. rules' = [rules EXCEPT ![d] = r] /\ Persist
    BY <1>3, <1>8 DEF SetRule
  <2> HIDE DEF upserted, created
  <2>6. AllPlaced([rules EXCEPT ![d] = r], now)
    BY <2>2, <2>4, OneRulePlaces
  <2> QED BY <1>1, <1>2, <2>5, <2>6, RequestPlaces
<1>9. CASE RestartRule(d)
  BY <1>1, <1>2, <1>5, <1>9, RequestPlaces DEF RestartRule
<1>10. CASE ResetTotals(d)
  BY <1>1, <1>2, <1>5, <1>7, <1>10, RequestPlaces DEF ResetTotals
<1>11. CASE RemoveRule(d)
  BY <1>1, <1>2, <1>6, <1>11, RequestPlaces DEF RemoveRule
<1>12. CASE DeleteRecord(d)
  BY <1>1, <1>2, <1>6, <1>12, RequestPlaces DEF DeleteRecord
<1> QED BY <1>8, <1>9, <1>10, <1>11, <1>12

LEMMA OthersPlace ==
    ASSUME PlacedInv,
           \/ Tick \/ SnapshotTotals \/ Crash \/ ClearRecords
           \/ \E from, to \in Devices : Merge(from, to)
    PROVE  PlacedInv'
<1>1. TypeOK /\ TypeOK'
  BY OtherStepTyped DEF PlacedInv
<1>2. AllPlaced(rules, now) /\ DiskPlaced(rulesDisk, now)
  BY DEF PlacedInv, AllPlaced, DiskPlaced
<1>3. CASE Tick
  <2>1. /\ now \in Nat /\ now' \in Nat /\ now <= now' /\ polled' = FALSE
        /\ rules' = rules /\ rulesDisk' = rulesDisk
    BY <1>1, <1>3 DEF Tick, TypeOK
  <2>2. AllPlaced(rules, now') /\ DiskPlaced(rulesDisk, now')
    BY <1>2, <2>1, LaterPlaced DEF AllPlaced, DiskPlaced
  <2> QED BY <1>1, <2>1, <2>2 DEF PlacedInv, AllPlaced, DiskPlaced, BoundariesAreCurrent
<1>4. CASE SnapshotTotals
  BY <1>1, <1>4 DEF SnapshotTotals, PlacedInv, BoundariesAreCurrent, Ruled, Metered
<1>5. CASE Crash
  <2>1. /\ now' = now /\ polled' = FALSE /\ rulesDisk' = rulesDisk
        /\ rules' = [d \in Devices |->
                       IF rulesDisk[d] = None THEN None ELSE RestoredRule(rulesDisk[d])]
    BY <1>5 DEF Crash
  <2>2. AllPlaced(rules', now)
    BY <1>2, <2>1 DEF AllPlaced, DiskPlaced
  <2> QED BY <1>1, <2>1, <2>2, RequestPlaces
<1>6. CASE ClearRecords
  <2>1. /\ now' = now /\ polled' = FALSE /\ Persist
        /\ rules' = [d \in Devices |-> None]
    BY <1>6 DEF ClearRecords, Request
  <2>2. AllPlaced(rules', now)
    BY <2>1 DEF AllPlaced
  <2> QED BY <1>1, <2>1, <2>2, RequestPlaces
<1>7. ASSUME NEW from \in Devices, NEW to \in Devices, Merge(from, to) PROVE PlacedInv'
  <2>1. now' = now /\ polled' = FALSE /\ rules' = rules /\ rulesDisk' = rulesDisk
    BY <1>7 DEF Merge, Request
  <2> QED BY <1>1, <1>2, <2>1, RequestPlaces
<1> QED BY <1>3, <1>4, <1>5, <1>6, <1>7

LEMMA PollPlaces ==
    ASSUME PlacedInv, Poll
    PROVE  PlacedInv'
<1>1. TypeOK /\ TypeOK'
  BY PollTyped DEF PlacedInv
<1>2. PICK roster \in Rosters, from \in Resolutions :
        /\ counter' = [d \in Devices |-> Folded(d, roster)]
        /\ rules' = Observed(Resolved(from, roster),
                             [d \in Devices |-> Folded(d, roster)])
        /\ rulesDisk' \in {[d \in Devices |-> Sent(rulesDisk[d], Advance(alias[d], roster))],
                           OnDisk(Resolved(from, roster)), OnDisk(rules')}
        /\ now' = now
  BY DEF Poll
<1> DEFINE resolved == Resolved(from, roster)
           onDisk   == [d \in Devices |-> Sent(rulesDisk[d], Advance(alias[d], roster))]
<1>3. /\ counter' \in [Devices -> OrNone(Nat)]
      /\ rules \in [Devices -> OrNone(MeterRules)] /\ rules' \in [Devices -> OrNone(MeterRules)]
      /\ rulesDisk \in [Devices -> OrNone(MeterRules)]
      /\ alias \in [Devices -> Devices] /\ now \in Nat
  BY <1>1 DEF TypeOK
<1>4. \A d \in Devices : Advance(d, roster) \in Nat
  BY <1>1, FoldTyped
<1>5. DiskPlaced(onDisk, now)
  <2> SUFFICES ASSUME NEW d \in Devices, onDisk[d] # None
               PROVE  Placed(RestoredRule(onDisk[d]), now)
    BY DEF DiskPlaced
  <2>1. onDisk[d] = Sent(rulesDisk[d], Advance(alias[d], roster))
    OBVIOUS
  <2>2. rulesDisk[d] # None
    BY <2>1 DEF Sent
  <2>3. rulesDisk[d] \in MeterRules /\ Placed(RestoredRule(rulesDisk[d]), now)
    BY <1>3, <2>2 DEF PlacedInv, OrNone
  <2>4. Advance(alias[d], roster) \in Nat
    BY <1>3, <1>4
  <2> HIDE DEF onDisk
  <2> QED BY <2>1, <2>2, <2>3, <2>4, SentPlaces
<1>6. resolved \in [Devices -> OrNone(MeterRules)]
  BY <1>1, ResolvedTyped
<1>7. AllPlaced(resolved, now)
  <2> SUFFICES ASSUME NEW d \in Devices, resolved[d] # None
               PROVE  Placed(resolved[d], now)
    BY DEF AllPlaced
  <2>1. from[d] # None /\ resolved[d] = Sent(rules[from[d]], Advance(d, roster))
    BY DEF Resolved
  <2>2. from[d] \in Devices /\ rules[from[d]] # None
    BY <2>1 DEF Resolutions, Standing, Claimants, Metered
  <2>3. rules[from[d]] \in MeterRules /\ Placed(rules[from[d]], now)
    BY <1>3, <2>2 DEF PlacedInv, OrNone
  <2> HIDE DEF resolved
  <2> QED BY <1>4, <2>1, <2>2, <2>3, SentPlaces
<1> HIDE DEF onDisk, resolved
<1>8. rules' = Observed(resolved, counter')
  BY <1>2 DEF resolved
<1>9. ASSUME NEW d \in Devices, rules'[d] # None
      PROVE  Placed(rules'[d], now) /\ Current(rules'[d], now)
  <2> DEFINE rolled == Rolled(resolved[d], counter'[d], now)
  <2>1. resolved[d] # None /\ rules'[d] = Evaluated(rolled, UsageBytes(rolled), now)
    BY <1>8, <1>9 DEF Observed
  <2>2. /\ resolved[d] \in MeterRules /\ counter'[d] \in OrNone(Nat)
        /\ Placed(resolved[d], now)
    BY <1>3, <1>6, <1>7, <2>1 DEF AllPlaced, OrNone
  <2>3. rolled \in MeterRules /\ Placed(rolled, now) /\ Current(rolled, now)
    BY <1>3, <2>2, RolledTyped, RolledCurrent
  <2> HIDE DEF rolled
  <2> QED BY <2>1, <2>3, EvaluatedCurrent
<1>10. AllPlaced(rules', now)
  BY <1>9 DEF AllPlaced
<1>11. DiskPlaced(rulesDisk', now)
  <2>1. DiskPlaced(OnDisk(resolved), now) /\ DiskPlaced(OnDisk(rules'), now)
    BY <1>3, <1>6, <1>7, <1>10, OnDiskPlaced
  <2> QED BY <1>2, <1>5, <2>1 DEF onDisk, resolved
<1>12. BoundariesAreCurrent'
  BY <1>2, <1>9 DEF BoundariesAreCurrent, Current, Ruled, Metered
<1> QED BY <1>1, <1>2, <1>10, <1>11, <1>12 DEF PlacedInv, AllPlaced, DiskPlaced

LEMMA StartPlaced == Init => PlacedInv
<1> SUFFICES ASSUME Init PROVE PlacedInv
  OBVIOUS
<1>1. /\ \A d \in Devices : rules[d] = None /\ rulesDisk[d] = None
      /\ polled = FALSE
  BY DEF Init
<1> QED BY <1>1, StartTyped DEF PlacedInv, BoundariesAreCurrent

LEMMA StepPlaces == PlacedInv /\ [Next]_vars => PlacedInv'
<1> SUFFICES ASSUME PlacedInv, [Next]_vars PROVE PlacedInv'
  OBVIOUS
<1>1. CASE UNCHANGED vars
  BY <1>1 DEF vars, PlacedInv, TypeOK, BoundariesAreCurrent, Ruled, Metered
<1> QED BY <1>1, PollPlaces, RequestsPlace, OthersPlace DEF Next

\* After a poll every rule's cycle is the one the clock is in, and its window
\* says what its timetable says (BoundariesAreCurrent).
THEOREM NoBoundaryIsMissed == Spec => []BoundariesAreCurrent
<1>1. PlacedInv => BoundariesAreCurrent
  BY DEF PlacedInv
<1> QED BY <1>1, StartPlaced, StepPlaces, PTL DEF Spec

--------------------------------------------------------------------------------
(* What a poll leaves of each rule.                                            *)

\* A rule over its allowance, out of time or in shut hours holds its device, and
\* its announcement is younger than its minute.
Settled(r, t) ==
    /\ 0 < r.terms.allocation /\ r.terms.allocation <= UsageBytes(r) => r.acted
    /\ r.terms.countdown # None /\ r.countdownStart + r.terms.countdown <= t
          => r.countdownActed
    /\ r.reachedAt # None => t - r.reachedAt < AnnounceHold

LEMMA EvaluatedSettles ==
    ASSUME NEW r \in MeterRules, NEW t \in Nat
    PROVE  Settled(Evaluated(r, UsageBytes(r), t), t)
<1> DEFINE charged == UsageBytes(r)
           s == Evaluated(r, charged, t)
           stamp == Stamp(r, charged, t)
<1>1. /\ s.terms = r.terms /\ s.countdownStart = r.countdownStart
      /\ s.anchor = r.anchor /\ s.observed = r.observed
      /\ s.acted <=> r.acted \/ AllocationSpent(r, charged)
      /\ s.countdownActed <=> r.countdownActed \/ CountdownSpent(r, t)
      /\ s.reachedAt = IF Expires(r, charged, t) THEN None ELSE stamp
  BY DEF Evaluated, MeterRules, RuleFields
<1>2. UsageBytes(s) = charged
  BY <1>1 DEF UsageBytes
<1>3. charged \in Nat
  BY UsageIsNat DEF MeterRules
<1>4. stamp # None => stamp \in Nat
  BY DEF Stamp, MeterRules, RuleFields, OrNone
<1>5. Expires(r, charged, t) <=> stamp # None /\ t - stamp >= AnnounceHold
  BY DEF Expires
<1> HIDE DEF s, stamp, charged
<1>6. 0 < s.terms.allocation /\ s.terms.allocation <= UsageBytes(s) => s.acted
  BY <1>1, <1>2, <1>3, RuleTypes DEF AllocationSpent
<1>7. s.terms.countdown # None /\ s.countdownStart + s.terms.countdown <= t
        => s.countdownActed
  BY <1>1, RuleTypes DEF CountdownSpent
<1>8. s.reachedAt # None => t - s.reachedAt < AnnounceHold
  BY <1>1, <1>4, <1>5, AnnouncementsEnd
<1>9. Settled(s, t)
  BY <1>6, <1>7, <1>8 DEF Settled
<1> QED BY <1>9 DEF s, charged

LEMMA RolledUpdated ==
    ASSUME NEW r \in MeterRules, NEW reading \in OrNone(Nat), NEW t
    PROVE  Rolled(r, reading, t).updated = r.updated
<1> DEFINE read == IF reading = None THEN r ELSE [r EXCEPT !.observed = reading]
           turned == IF r.terms.schedule # None /\ (r.windowEnd = None \/ t >= r.windowEnd)
                     THEN OpenWindow(read, t) ELSE read
<1>1. read \in RuleFields /\ read.updated = r.updated
  BY DEF MeterRules, RuleFields, OrNone
<1> HIDE DEF read
<1>2. DOMAIN turned = DOMAIN read /\ turned.updated = read.updated
  BY <1>1 DEF OpenWindow, RuleFields
<1>3. "updated" \in DOMAIN turned
  BY <1>1, <1>2 DEF RuleFields
<1> HIDE DEF turned
<1>4. Opened(turned, t).updated = turned.updated
  BY <1>3 DEF Opened
<1> QED BY <1>1, <1>2, <1>4 DEF Rolled, turned, read

\* What a poll writes for an identity comes of the rule that stands for it.
LEMMA PollValue ==
    ASSUME TypeOK, Poll
    PROVE  \E from \in Resolutions : \A d \in Devices :
              /\ rules'[d] = None <=> from[d] = None
              /\ from[d] # None =>
                    /\ Settled(rules'[d], now)
                    /\ rules'[d].updated = rules[from[d]].updated
<1>1. PICK roster \in Rosters, from \in Resolutions :
         rules' = Observed(Resolved(from, roster), [d \in Devices |-> Folded(d, roster)])
  BY DEF Poll
<1> DEFINE counters == [d \in Devices |-> Folded(d, roster)]
<1>2. /\ now \in Nat /\ counters \in [Devices -> OrNone(Nat)]
      /\ rules \in [Devices -> OrNone(MeterRules)]
  BY FoldTyped DEF TypeOK
<1>3. ASSUME NEW d \in Devices, from[d] = None PROVE rules'[d] = None
  BY <1>1, <1>3 DEF Resolved, Observed
<1>4. ASSUME NEW d \in Devices, from[d] # None
      PROVE  /\ rules'[d] # None
             /\ Settled(rules'[d], now)
             /\ rules'[d].updated = rules[from[d]].updated
  <2> DEFINE r == rules[from[d]]
             s == Sent(r, Advance(d, roster))
             rolled == Rolled(s, counters[d], now)
             v == Evaluated(rolled, UsageBytes(rolled), now)
  <2>1. from[d] \in Devices /\ r # None
    BY <1>4 DEF Resolutions, Standing, Claimants, Metered
  <2>2. r \in MeterRules /\ Advance(d, roster) \in Nat
    BY <1>2, <2>1, FoldTyped DEF OrNone
  <2>3. s \in MeterRules /\ s.updated = r.updated
    BY <2>1, <2>2 DEF Sent, MeterRules, RuleFields
  <2>4. s # None
    BY <2>3, <1>4, <2>1, NoneIsNoRule
  <2>5. rules'[d] = v
    BY <1>1, <1>4, <2>4 DEF Resolved, Observed
  <2> HIDE DEF s
  <2>6. rolled \in MeterRules /\ rolled.updated = s.updated
    BY <1>2, <2>3, RolledTyped, RolledUpdated
  <2> HIDE DEF rolled
  <2>7. v \in MeterRules /\ v.updated = rolled.updated
    <3>1. UsageBytes(rolled) \in Nat
      BY <2>6, UsageIsNat DEF MeterRules
    <3>2. v.updated = rolled.updated
      BY <2>6 DEF Evaluated, MeterRules, RuleFields
    <3> HIDE DEF v
    <3>3. v \in MeterRules
      BY <1>2, <2>6, <3>1, EvaluatedTyped DEF v
    <3> QED BY <3>2, <3>3
  <2>8. Settled(v, now)
    BY <1>2, <2>6, EvaluatedSettles
  <2> HIDE DEF v
  <2>9. v # None
    BY <2>7, NoneIsNoRule
  <2> QED BY <2>3, <2>5, <2>6, <2>7, <2>8, <2>9
<1> QED BY <1>3, <1>4

SettledInv ==
    /\ PlacedInv
    /\ polled => \A d \in Devices : rules[d] # None => Settled(rules[d], now)

LEMMA StepSettles == SettledInv /\ [Next]_vars => SettledInv'
<1> SUFFICES ASSUME SettledInv, [Next]_vars PROVE SettledInv'
  OBVIOUS
<1>1. PlacedInv' /\ TypeOK
  BY StepPlaces DEF SettledInv, PlacedInv
<1>2. CASE Poll
  BY <1>1, <1>2, PollValue DEF SettledInv, Poll
<1>3. CASE SnapshotTotals \/ UNCHANGED vars
  BY <1>1, <1>3 DEF SettledInv, SnapshotTotals, vars
<1>4. CASE ~(Poll \/ SnapshotTotals \/ UNCHANGED vars)
  <2>1. polled' = FALSE
    BY <1>4 DEF Next, Tick, Crash, ClearRecords, SetRule, RestartRule, ResetTotals, RemoveRule,
                DeleteRecord, Merge, Request
  <2> QED BY <1>1, <2>1 DEF SettledInv
<1> QED BY <1>2, <1>3, <1>4

LEMMA StaysSettled == Spec => []SettledInv
<1>1. Init => SettledInv
  BY StartPlaced DEF SettledInv, Init
<1> QED BY <1>1, StepSettles, PTL DEF Spec

\* After a poll a device over its allowance, out of time or in shut hours is held
\* (HeldWhenDue), whatever was edited, merged, lost or read back from disk before.
THEOREM EveryDueRuleHolds == Spec => []HeldWhenDue
<1>1. SettledInv => HeldWhenDue
  <2> SUFFICES ASSUME SettledInv, polled, NEW d \in Devices, rules[d] # None
               PROVE  LET r == rules[d] IN
                      (\/ 0 < r.terms.allocation /\ r.terms.allocation <= UsageBytes(r)
                       \/ r.terms.countdown # None /\ r.countdownStart + r.terms.countdown <= now
                       \/ r.terms.schedule # None /\ BlockedAt(r.terms.schedule, now))
                      => RuleHoldsDevice(r)
    BY DEF HeldWhenDue, Ruled, Metered
  <2>1. Settled(rules[d], now)
    BY DEF SettledInv
  <2>2. rules[d].terms.schedule # None /\ BlockedAt(rules[d].terms.schedule, now)
           => rules[d].windowBlocked
    BY DEF SettledInv, PlacedInv, BoundariesAreCurrent, Ruled, Metered
  <2> QED BY <2>1, <2>2 DEF Settled, RuleHoldsDevice
<1> QED BY <1>1, StaysSettled, PTL

\* After a poll no announcement is older than its minute (AnnouncementsRetire).
THEOREM AnnouncementsEndInTime == Spec => []AnnouncementsRetire
<1>1. SettledInv => AnnouncementsRetire
  BY DEF SettledInv, AnnouncementsRetire, Settled, Ruled, Metered
<1> QED BY <1>1, StaysSettled, PTL

--------------------------------------------------------------------------------
(* Rules follow the identity their device answers to.                          *)

\* An identity another answers to answers to itself.
AliasInv == TypeOK /\ \A d \in Devices : alias[alias[d]] = alias[d]

LEMMA StaysResolved == Spec => []AliasInv
<1>1. Init => AliasInv
  BY StartTyped DEF Init, AliasInv
<1>2. AliasInv /\ [Next]_vars => AliasInv'
  <2> SUFFICES ASSUME AliasInv, [Next]_vars PROVE AliasInv'
    OBVIOUS
  <2>1. TypeOK' /\ alias \in [Devices -> Devices]
    BY StepTyped DEF AliasInv, TypeOK
  <2>2. CASE \E from, to \in Devices : Merge(from, to)
    <3>1. PICK from \in Devices, to \in Devices : Merge(from, to)
      BY <2>2
    <3>2. /\ alias[to] = to /\ from # to
          /\ alias' = [d \in Devices |-> IF alias[d] = from THEN to ELSE alias[d]]
      BY <3>1 DEF Merge, Request
    <3> QED BY <2>1, <3>2 DEF AliasInv
  <2>3. CASE alias' = alias
    BY <2>1, <2>3 DEF AliasInv
  <2>4. alias' = alias \/ \E from, to \in Devices : Merge(from, to)
    BY DEF Next, Poll, Tick, SnapshotTotals, Crash, ClearRecords, SetRule, RestartRule,
           ResetTotals, RemoveRule, DeleteRecord, vars
  <2> QED BY <2>2, <2>3, <2>4
<1> QED BY <1>1, <1>2, PTL DEF Spec

\* A poll leaves every rule with the identity its device answers to now, and where
\* two meet the one set last stands (StandingTermsFollow).
THEOREM RulesFollowTheirDevice == Spec => StandingTermsFollow
<1>1. AliasInv /\ [Next]_vars
        => [Poll => \A d \in Ruled :
              /\ rules'[alias[d]] # None
              /\ rules'[alias[d]].updated >= rules[d].updated
              /\ alias[d] # d => rules'[d] = None]_vars
  <2> SUFFICES ASSUME AliasInv, Poll, NEW d \in Ruled
               PROVE  /\ rules'[alias[d]] # None
                      /\ rules'[alias[d]].updated >= rules[d].updated
                      /\ alias[d] # d => rules'[d] = None
    OBVIOUS
  <2>1. PICK from \in Resolutions : \A e \in Devices :
              /\ rules'[e] = None <=> from[e] = None
              /\ from[e] # None => rules'[e].updated = rules[from[e]].updated
    BY PollValue DEF AliasInv
  <2>2. d \in Devices /\ rules[d] # None /\ alias[d] \in Devices /\ d \in Claimants(alias[d])
    BY DEF Ruled, Metered, Claimants, AliasInv, TypeOK
  <2>3. from[alias[d]] \in Standing(alias[d])
    BY <2>2 DEF Resolutions
  <2>4. from[alias[d]] # None /\ rules[from[alias[d]]].updated >= rules[d].updated
    BY <2>2, <2>3, NoneIsNoDevice DEF Standing, Claimants
  <2>5. ASSUME alias[d] # d PROVE from[d] = None
    <3>1. Claimants(d) = {}
      BY <2>2, <2>5 DEF Claimants, AliasInv
    <3> QED BY <2>2, <3>1 DEF Resolutions
  <2> QED BY <2>1, <2>2, <2>4, <2>5
<1> QED BY <1>1, StaysResolved, PTL DEF Spec, StandingTermsFollow
================================================================================
