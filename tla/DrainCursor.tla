------------------------------- MODULE DrainCursor -------------------------------
(* The extension's record of the dish: a worker that wakes, reads the ring,     *)
(* adds what is past its persisted cursor to the minutes in IndexedDB, and may  *)
(* be ended at any wait (applyDrain, planDrain, commit, putSamples,             *)
(* compactEnergy).  singleFlight lets one drain run at a time; compaction has   *)
(* an alarm of its own.  The dish counts, reboots and counts again.             *)
EXTENDS SampleRing, Functions

CONSTANTS
    MinuteLen,      \* seconds of a minute
    YearLen         \* seconds of a calendar year, a whole number of minutes

DrainAssumption ==
    /\ RingAssumption
    /\ {MinuteLen, YearLen} \subseteq Nat \ {0}
    /\ YearLen % MinuteLen = 0

VARIABLES
    cursor,         \* the persisted SampleCursor
    minutes,        \* MINUTES: samples per minute row; 0 is no row
    months,         \* MONTHS: samples per archived row, one to a year here
    raw,            \* SAMPLES: rows keyed by stamp
    worker,         \* the drain under way
    taken,          \* history: samples some commit has added
    twice,          \* history: samples added by two commits
    missed,         \* history: samples left out by a drain that trusted its counter
    lost,           \* history: samples left out by one that judged by stamps
    astray,         \* history: samples a slip of the clock carried across the line
    peak            \* history: the highest count a commit has seen of each boot

history == <<taken, twice, missed, lost, astray, peak>>
vars    == <<dish, cursor, minutes, months, raw, worker, history>>

Rows    == 0 .. (MaxTime + 1 + Jitter) \div MinuteLen
Years   == 0 .. (MaxTime + 1 + Jitter) \div YearLen

Idle              == [at |-> "idle"]
Read(w, c)        == [at |-> "read", window |-> w, cursor |-> c]
Committed(w, c)   == [at |-> "committed", window |-> w, cursor |-> c]

TypeOK ==
    /\ DishTypeOK
    /\ cursor.counter \in 0 .. MaxTime /\ cursor.newest \in Nat /\ cursor.lag \in 0 .. Jitter
    /\ minutes \in [Rows -> Nat] /\ months \in [Years -> Nat]
    /\ \A r \in raw : Identity(r) \in Ids
    /\ worker.at \in {"idle", "read", "committed"}
    /\ twice \subseteq taken /\ taken \cup missed \cup lost \cup astray \subseteq Ids
    /\ peak \in [Boots -> 0 .. MaxTime]

Init ==
    /\ DishInit
    /\ cursor = NoCursor
    /\ minutes = [m \in Rows |-> 0] /\ months = [y \in Years |-> 0]
    /\ raw = {} /\ worker = Idle
    /\ taken = {} /\ twice = {} /\ missed = {} /\ lost = {} /\ astray = {}
    /\ peak = [b \in Boots |-> 0]

--------------------------------------------------------------------------------
Tick   == DishTick   /\ UNCHANGED <<cursor, minutes, months, raw, worker, history>>
Reboot == DishReboot /\ UNCHANGED <<cursor, minutes, months, raw, worker, history>>

--------------------------------------------------------------------------------
(* One drain.                                                                   *)

(* The history is fetched and decoded, and the cursor read.                     *)
ReadWindow ==
    /\ worker = Idle
    /\ \E phase \in Phases : worker' = Read(Stamped(Ring, phase), cursor)
    /\ UNCHANGED <<dish, cursor, minutes, months, raw, history>>

(* planDrain's cursor: the counter never moves back.                            *)
Advanced(w, c) ==
    [ counter |-> Max({c.counter, w.count}),
      newest  |-> NewestStamp(c, Fresh(w, c)),
      lag     |-> LagOfNewest(w, c) ]

(* addMinuteBucket over foldSamplesToMinutes: each fresh sample onto its row.   *)
Added(rows, fresh) ==
    [ m \in Rows |-> rows[m] + Cardinality({ s \in fresh : MinuteOf(s.stamp, MinuteLen) = m }) ]

(* IndexedDbHistory.commit: rows and cursor in one transaction.                 *)
Commit ==
    /\ worker.at = "read"
    /\ LET w     == worker.window
           c     == worker.cursor
           fresh == Fresh(w, c)
           ids   == IdsOf(fresh)
           left  == IdsOf(w.samples) \ (taken \cup ids)
           sure  == CounterTrusted(w, c)
       IN  /\ minutes' = Added(minutes, fresh)
           /\ cursor' = Advanced(w, c)
           /\ worker' = Committed(w, c)
           /\ taken' = taken \cup ids
           /\ twice' = twice \cup (taken \cap ids)
           /\ missed' = IF sure THEN missed \cup (left \ lost) ELSE missed
           /\ lost' = IF sure THEN lost ELSE lost \cup (left \ missed)
           /\ astray' = astray \cup IdsOf(Astray(w, c))
           /\ peak' = [b \in Boots |-> Max({peak[b]} \cup { s.k + 1 : s \in { x \in w.samples : x.boot = b } })]
    /\ UNCHANGED <<dish, months, raw>>

(* What applyDrain stores of the raw series once the commit is in.              *)
RawRows(w, c) == Fresh(w, c)

(* A row of the same stamp is replaced, its key being the stamp.                *)
PutSamples ==
    /\ worker.at = "committed"
    /\ LET put == RawRows(worker.window, worker.cursor)
       IN  raw' = put \cup { r \in raw : \A s \in put : r.stamp # s.stamp }
    /\ worker' = Idle
    /\ UNCHANGED <<dish, cursor, minutes, months, history>>

(* The browser ends the worker; what it had read is gone.                       *)
Teardown ==
    /\ worker # Idle
    /\ worker' = Idle
    /\ UNCHANGED <<dish, cursor, minutes, months, raw, history>>

--------------------------------------------------------------------------------
(* compactEnergy: minutes before this year onto their months' rows.             *)
YearOf(m)  == (m * MinuteLen) \div YearLen
Expired    == { m \in Rows : YearOf(m) < now \div YearLen }

(* addMonthBucket onto the row there is.                                        *)
Archived(year) ==
    months[year] + SumFunctionOnSet(minutes, { m \in Expired : YearOf(m) = year })

CompactEnergy ==
    /\ months' = [y \in Years |-> Archived(y)]
    /\ minutes' = [m \in Rows |-> IF m \in Expired THEN 0 ELSE minutes[m]]
    /\ UNCHANGED <<dish, cursor, raw, worker, history>>

Next ==
    \/ Tick \/ Reboot
    \/ ReadWindow \/ Commit \/ PutSamples \/ Teardown
    \/ CompactEnergy

Spec == Init /\ [][Next]_vars

--------------------------------------------------------------------------------
(* A sample is added to the minutes by two drains, or left out by one that      *)
(* judges by stamps, only if a slip of the clock carried it across the line of  *)
(* half a second: none is over repeats of a drain cut short, nor while the      *)
(* counter is trusted (selectFreshSamples, planDrain).                          *)
StraysOnlyBySlips == twice \subseteq astray /\ lost \subseteq astray

(* A sample in reach of a drain that trusts its counter is on record, unless    *)
(* the dish has rebooted and the sample's place is one an earlier boot had been *)
(* read up to: in a boot that has passed every earlier one it skips nothing.    *)
SkipsOnlyBelowAnEarlierBoot ==
    \A id \in missed : \E b \in 0 .. id.boot - 1 : id.k < peak[b]

(* Every sample added is in one row, of a minute or of a month, whatever        *)
(* compaction runs between a drain's steps and however late a minute arrives.   *)
EverySampleOnFile ==
    twice = {} =>
        Cardinality(taken) = SumFunction(minutes) + SumFunction(months)

(* The raw series holds a sample once although every wake decodes the ring to   *)
(* other stamps, which are its keys, but for a sample that strayed; and nothing *)
(* the minutes do not hold.                                                     *)
RawSeriesIsOneHertz ==
    /\ \A r, s \in raw : Identity(r) = Identity(s) => r = s \/ Identity(r) \in astray
    /\ \A r \in raw : Identity(r) \in taken

(* core/telemetry.ts 421-424 of selectFreshSamples: "the record neither stores  *)
(* a sample twice nor skips one", and core/drain.ts 9-10: "a repeat wake or a   *)
(* re-read after teardown re-derives the same answer rather than                *)
(* double-counting".  Neither holds: stamps of one sample differ by more than   *)
(* the half second allowed, and a lower boot's counter passes for its own.      *)
NothingTwice == twice = {}
SkipsNothing == missed = {} /\ lost = {}
================================================================================
