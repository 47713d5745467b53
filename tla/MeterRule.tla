------------------------------- MODULE MeterRule -------------------------------
(***************************************************************************)
(* A metering rule and what moves it: core/dataMeter.ts, with the          *)
(* timetable of core/schedule.ts.                                          *)
(*                                                                         *)
(* A rule measures up to three things, and holds its device once any of    *)
(* them runs out: bytes against an allowance that starts over each cycle,  *)
(* a countdown, and a timetable.  Time is counted in ticks.  A cycle is    *)
(* "daily", DayLength ticks on fixed boundaries, or "once"; weekly,        *)
(* monthly, billing and custom cycles differ only in where the boundaries  *)
(* fall.  A timetable is the set of a day's ticks it holds the device      *)
(* shut, or None.  Download and upload are one counter.                    *)
(*                                                                         *)
(* sent is not the program's: it is what the odometer counted for the      *)
(* device since the rule's cycle opened, whatever of it a restart then     *)
(* forgot, to compare with what the rule charges.                          *)
(***************************************************************************)
EXTENDS Integers

CONSTANTS
    None,           \* an absent field; as the end of a cycle, Infinity
    DayLength,      \* ticks in a day
    AnnounceHold    \* METER_ALERT_HOLD_MS

ASSUME NoneIsNoNumber   == None \notin Int
ASSUME DaysPass         == DayLength \in Nat \ {0}
ASSUME AnnouncementsEnd == AnnounceHold \in Nat \ {0}

Cycles    == {"daily", "once"}
OrNone(S) == S \cup {None}
Timetable == SUBSET (0 .. DayLength - 1)

RuleTerms == [allocation : Nat,              \* 0: no allowance
              cycle      : Cycles,
              countdown  : OrNone(Nat \ {0}),
              schedule   : OrNone(Timetable)]

RuleFields ==
    [terms          : RuleTerms,
     anchor         : Nat,               \* the counter when the cycle opened
     observed       : Nat,               \* the counter as last seen
     periodEnd      : OrNone(Nat),
     acted          : BOOLEAN,           \* actedThisCycle
     countdownStart : OrNone(Nat),
     countdownActed : BOOLEAN,
     windowEnd      : OrNone(Nat),
     windowBlocked  : BOOLEAN,
     reachedAt      : OrNone(Nat),
     updated        : Nat,
     sent           : Nat]

\* A rule has a running clock and a judged window just when its terms ask.
MeterRules ==
    {r \in RuleFields : /\ r.countdownStart = None <=> r.terms.countdown = None
                        /\ r.windowEnd = None <=> r.terms.schedule = None}

ASSUME NoneIsNoRule == None \notin MeterRules

--------------------------------------------------------------------------------
(* Cycles and timetables.                                                      *)

PeriodEnd(cycle, t) ==
    IF cycle = "once" THEN None ELSE (t \div DayLength + 1) * DayLength

Past(end, t) == end # None /\ t >= end

BlockedAt(schedule, t) == t % DayLength \in schedule

\* Where the stretch t is in ends: where the answer changes, or a day on.
SegmentEnd(schedule, t) ==
    LET turns == {b \in t + 1 .. t + DayLength :
                    BlockedAt(schedule, b) # BlockedAt(schedule, t)}
    IN  IF turns = {} THEN t + DayLength
        ELSE CHOOSE b \in turns : \A c \in turns : b <= c

\* Judges the timetable at t, or forgets the window of a rule that has none.
OpenWindow(r, t) ==
    LET schedule == r.terms.schedule IN
    IF schedule = None
    THEN [r EXCEPT !.windowEnd = None, !.windowBlocked = FALSE]
    ELSE [r EXCEPT !.windowEnd = SegmentEnd(schedule, t),
                   !.windowBlocked = BlockedAt(schedule, t)]

--------------------------------------------------------------------------------
(* What a rule measures, and whether it holds its device.                      *)

UsageBytes(r) == IF r.observed > r.anchor THEN r.observed - r.anchor ELSE 0

\* [mutant] An allowance is spent by the byte after its last.
AllocationExceeded(r, charged) == r.terms.allocation > 0 /\ charged > r.terms.allocation

AllocationSpent(r, charged) == r.terms.allocation > 0 /\ charged >= r.terms.allocation

CountdownSpent(r, t) ==
    r.terms.countdown # None /\ t >= r.countdownStart + r.terms.countdown

RuleHoldsDevice(r) == r.acted \/ r.countdownActed \/ r.windowBlocked

--------------------------------------------------------------------------------
(* evaluateMeters: Rolled folds a reading and turns the cycle and the window   *)
(* over, Evaluated then tests what is charged, sets latches and announces.     *)

\* [mutant] A cycle that rolls leaves the anchor where it was.
OpenedWithoutAnchor(r, t) ==
    [r EXCEPT !.periodEnd = PeriodEnd(r.terms.cycle, t), !.acted = FALSE, !.sent = 0]

\* [mutant] A cycle that rolls keeps its latch.
OpenedStillActed(r, t) ==
    [r EXCEPT !.anchor = r.observed, !.periodEnd = PeriodEnd(r.terms.cycle, t),
              !.sent = 0]

\* A new cycle from the counter as it reads.
Opened(r, t) ==
    [r EXCEPT !.anchor = r.observed,
              !.periodEnd = PeriodEnd(r.terms.cycle, t),
              !.acted = FALSE,
              !.sent = 0]

\* [mutant] The cycle rolls off the counter of the poll before.
RolledBeforeReading(r, reading, t) ==
    LET turned == IF r.terms.schedule # None /\ (r.windowEnd = None \/ t >= r.windowEnd)
                  THEN OpenWindow(r, t) ELSE r
        opened == IF Past(turned.periodEnd, t) THEN Opened(turned, t) ELSE turned
    IN  IF reading = None THEN opened ELSE [opened EXCEPT !.observed = reading]

\* [mutant] A shut window's end is not looked for while the device is away.
RolledOnlyWithReading(r, reading, t) ==
    LET read   == IF reading = None THEN r ELSE [r EXCEPT !.observed = reading]
        turned == IF /\ reading # None
                     /\ r.terms.schedule # None
                     /\ r.windowEnd = None \/ t >= r.windowEnd
                  THEN OpenWindow(read, t) ELSE read
    IN  IF Past(turned.periodEnd, t) THEN Opened(turned, t) ELSE turned

Rolled(r, reading, t) ==
    LET read   == IF reading = None THEN r ELSE [r EXCEPT !.observed = reading]
        turned == IF r.terms.schedule # None /\ (r.windowEnd = None \/ t >= r.windowEnd)
                  THEN OpenWindow(read, t) ELSE read
    IN  IF Past(turned.periodEnd, t) THEN Opened(turned, t) ELSE turned

Spends(r, charged) == ~r.acted /\ AllocationSpent(r, charged)
RunsOut(r, t)      == ~r.countdownActed /\ CountdownSpent(r, t)

\* "reached" is announced by the first of the two latches alone.
Reaches(r, charged, t) ==
    ~(r.acted \/ r.countdownActed) /\ (Spends(r, charged) \/ RunsOut(r, t))

Stamp(r, charged, t) == IF Reaches(r, charged, t) THEN t ELSE r.reachedAt

Expires(r, charged, t) ==
    LET stamp == Stamp(r, charged, t) IN stamp # None /\ t - stamp >= AnnounceHold

Transits(r, charged, t) == Reaches(r, charged, t) \/ Expires(r, charged, t)

\* [mutant] An announcement stands for as long as its rule holds the device.
EvaluatedStanding(r, charged, t) ==
    [r EXCEPT !.acted = @ \/ AllocationSpent(r, charged),
              !.countdownActed = @ \/ CountdownSpent(r, t),
              !.reachedAt = Stamp(r, charged, t)]

Evaluated(r, charged, t) ==
    [r EXCEPT !.acted = @ \/ AllocationSpent(r, charged),
              !.countdownActed = @ \/ CountdownSpent(r, t),
              !.reachedAt = IF Expires(r, charged, t) THEN None
                            ELSE Stamp(r, charged, t)]

--------------------------------------------------------------------------------
(* createRule, upsertRule, restartCycle and storage.                           *)

CreatedRule(terms, counter, t) ==
    OpenWindow(
        [terms          |-> terms,
         anchor         |-> counter,
         observed       |-> counter,
         periodEnd      |-> PeriodEnd(terms.cycle, t),
         acted          |-> FALSE,
         countdownStart |-> IF terms.countdown = None THEN None ELSE t,
         countdownActed |-> FALSE,
         windowEnd      |-> None,
         windowBlocked  |-> FALSE,
         reachedAt      |-> None,
         updated        |-> t,
         sent           |-> 0], t)

\* An edit.  The anchor stands; a changed cycle moves its boundary; a countdown
\* restarts, if only saved again; a changed timetable is judged anew; and the
\* allowance arms again if what is charged falls short of it.
Upserted(r, terms, t, charged) ==
    LET edited == [r EXCEPT !.terms = terms,
                            !.updated = t,
                            !.periodEnd = IF terms.cycle = r.terms.cycle THEN @
                                          ELSE PeriodEnd(terms.cycle, t),
                            !.countdownStart = IF terms.countdown = None THEN None ELSE t,
                            !.countdownActed = FALSE,
                            !.acted = @ /\ ~(charged < terms.allocation)]
    IN  IF terms.schedule = r.terms.schedule THEN edited ELSE OpenWindow(edited, t)

RestartedCycle(r, t) ==
    LET fresh == [Opened(r, t) EXCEPT
                      !.reachedAt = None,
                      !.countdownStart = IF r.terms.countdown = None THEN None ELSE t,
                      !.countdownActed = FALSE]
    IN  IF r.terms.schedule = None THEN fresh ELSE OpenWindow(fresh, t)

\* JSON writes Infinity as null, which compares as 0.  No cycle ends at 0.
Stored(r) == IF r.periodEnd = None THEN [r EXCEPT !.periodEnd = 0] ELSE r

RestoredRule(r) == IF r.periodEnd = 0 THEN [r EXCEPT !.periodEnd = None] ELSE r
================================================================================
