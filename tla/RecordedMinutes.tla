----------------------------- MODULE RecordedMinutes -----------------------------
(* The recorder's record of the dish: historian.mts poll, the EnergyStore it    *)
(* files minutes in (energyStore.mts; latencyStore.mts is the same store over   *)
(* another bucket) and the sample window it serves (TelemetryAccumulator).      *)
(* A process polls, compacts and snapshots without an await that matters; it    *)
(* may be killed at any write, and started again from the files.                *)
(*                                                                              *)
(* A row is the set of samples summed in it: the program keeps their sum.       *)
EXTENDS SampleRing, Sequences

CONSTANTS
    MinuteLen,      \* seconds of a minute
    YearLen,        \* seconds of a calendar year, of one month here
    ViewLen,        \* seconds the longest view reaches back: twelve weeks in the program
    None,
    Tearing,        \* whether a kill may leave half a line at a log's end
    MaxAwait,       \* bound: seconds the router's log is awaited
    MaxKills        \* bound

RecorderAssumption ==
    /\ RingAssumption
    /\ {MinuteLen, YearLen, ViewLen} \subseteq Nat \ {0}
    /\ YearLen % MinuteLen = 0
    /\ Tearing \in BOOLEAN /\ {MaxAwait, MaxKills} \subseteq Nat
    /\ None \notin [boot : Nat, count : Nat, at : Nat]

VARIABLES
    up,             \* the process runs
    reply,          \* the dish's answer, held by a poll while it awaits the router; or None
    kills,
    open,           \* openMinuteBuckets
    lastWritten,    \* EnergyStore.maxWrittenMinute
    held,           \* sampleWindow: its counter, its newest stamp, the samples held
    file,           \* the minute log: its lines, the last perhaps torn
    archive,        \* the monthly log
    snapshot,       \* the sample snapshot file
    late,           \* history: samples filed for a month already archived
    spoiled,        \* history: samples whose line was appended to a torn one
    doubled,        \* history: samples the window has held twice
    astray,         \* history: samples a slip of the clock carried across the line
    lags            \* history: how long after the dish's second polls stamped its ring

process == <<up, reply, open, lastWritten, held>>
disk    == <<file, archive, snapshot>>
history == <<late, spoiled, doubled, astray, lags>>
vars    == <<dish, process, kills, disk, history>>

Lags    == 0 .. Second * MaxAwait + Jitter
Minutes == 0 .. (MaxTime + 1 + Jitter) \div MinuteLen
MonthOf(minute) == (minute * MinuteLen) \div YearLen

--------------------------------------------------------------------------------
(* The members of S, a set of numbers, in order.                                *)
Ascending(S) ==
    { ms \in [1 .. Cardinality(S) -> S] :
        /\ \A i, j \in DOMAIN ms : i < j => ms[i] < ms[j]
        /\ \A s \in S : \E i \in DOMAIN ms : ms[i] = s }

RowsIn(rows) == { rows[i] : i \in DOMAIN rows }

(* jsonLinesFile.mts.  A log is its readable lines and whether half a line      *)
(* stands at its end.                                                           *)
EmptyLog == [rows |-> <<>>, torn |-> FALSE]

Readable(log) == RowsIn(log.rows)                      \* readJsonLines

(* appendJsonLines: the first row of an append continues the torn line, and     *)
(* neither can be read.                                                         *)
Appended(log, rows) ==
    IF rows = <<>> THEN log
    ELSE [rows |-> log.rows \o (IF log.torn THEN Tail(rows) ELSE rows), torn |-> FALSE]

Spoiled(log, rows) == IF log.torn /\ rows # <<>> THEN {Head(rows)} ELSE {}

(* An append cut short by a kill after n whole rows, and perhaps inside the     *)
(* next.                                                                        *)
Tears == IF Tearing THEN BOOLEAN ELSE {FALSE}
CutAfter(log, rows, n, tear) ==
    LET whole == Appended(log, SubSeq(rows, 1, n))
    IN  [whole EXCEPT !.torn = @ \/ tear]

(* writeJsonLinesAtomically: a rename over the log.                             *)
Rewritten(rows) == [rows |-> rows, torn |-> FALSE]

SamplesIn(rows) == UNION { r.ids : r \in rows }
OnRecord == SamplesIn(Readable(file)) \cup SamplesIn(Readable(archive))

--------------------------------------------------------------------------------
NoSeries == [counter |-> 0, newest |-> 0, lag |-> 0, ids |-> {}]

(* What a process that is not running has in memory.                            *)
Down ==
    /\ up' = FALSE /\ reply' = None
    /\ open' = [m \in Minutes |-> {}] /\ lastWritten' = -1 /\ held' = NoSeries

Killed == kills < MaxKills /\ kills' = kills + 1 /\ Down

TypeOK ==
    /\ DishTypeOK
    /\ up \in BOOLEAN /\ kills \in 0 .. MaxKills
    /\ reply # None => reply.boot \in Boots /\ reply.at \in 1 .. now
    /\ open \in [Minutes -> SUBSET Ids] /\ lastWritten \in {-1} \cup Minutes
    /\ held.counter \in 0 .. MaxTime /\ held.ids \subseteq Ids
    /\ \A r \in Readable(file) : r.minute \in Minutes /\ r.ids \subseteq Ids
    /\ \A r \in Readable(archive) : r.ids \subseteq Ids
    /\ snapshot.ids \subseteq Ids
    /\ late \cup spoiled \cup doubled \cup astray \subseteq Ids /\ lags \subseteq Lags

Init ==
    /\ DishInit
    /\ up = TRUE /\ reply = None /\ kills = 0
    /\ open = [m \in Minutes |-> {}] /\ lastWritten = -1 /\ held = NoSeries
    /\ file = EmptyLog /\ archive = EmptyLog /\ snapshot = NoSeries
    /\ late = {} /\ spoiled = {} /\ doubled = {} /\ astray = {} /\ lags = {}

Tick ==
    /\ reply # None => now < reply.at + MaxAwait
    /\ DishTick /\ UNCHANGED <<process, kills, disk, history>>
Reboot == DishReboot /\ UNCHANGED <<process, kills, disk, history>>

--------------------------------------------------------------------------------
(* One poll that reached the dish: getHistory, then getWifiHistory awaited      *)
(* whether or not it is answered, and only then the stamp.                      *)
Fetch ==
    /\ up /\ reply = None
    /\ reply' = Ring
    /\ UNCHANGED <<dish, up, open, lastWritten, held, kills, disk, history>>

(* What the poll has decoded when it stamps the ring, and the minute it is then.*)
Lag(phase)     == (now - reply.at) * Second + phase
Decoded(phase) == Stamped(reply, Lag(phase))
Current(phase) == MinuteOf(now * Second + phase, MinuteLen)

(* TelemetryAccumulator.ingest: an empty ring changes nothing, the counter is   *)
(* the dish's own, back to where a reboot put it, and the newest stamp is that  *)
(* of the sample last appended.                                                 *)
Ingested(w) ==
    LET fresh == Fresh(w, held)
    IN  IF w.samples = {} THEN held
        ELSE IF fresh = {} THEN [held EXCEPT !.counter = w.count]
        ELSE [ counter |-> w.count,
               newest  |-> Max({ s.stamp : s \in fresh }), lag |-> w.lag,
               ids     |-> held.ids \cup IdsOf(fresh) ]

InMinute(w, m) == IdsOf({ s \in w.samples : MinuteOf(s.stamp, MinuteLen) = m })

(* The buckets after the poll: each minute the ring holds is replaced by what   *)
(* the ring says of it now, unless it has been filed.                           *)
Opened(w) ==
    [ m \in Minutes |-> IF m > lastWritten /\ InMinute(w, m) # {} THEN InMinute(w, m) ELSE open[m] ]

Completed(w, current) == { m \in Minutes : m < current /\ Opened(w)[m] # {} }

(* The rows of the minutes ms.                                                  *)
RowsOf(w, ms) == [ i \in DOMAIN ms |-> [minute |-> ms[i], ids |-> Opened(w)[ms[i]]] ]

ArchivedMonths == { r.month : r \in Readable(archive) }

FilingHistory(w, rows) ==
    /\ late' = late \cup SamplesIn({ r \in RowsIn(rows) : MonthOf(r.minute) \in ArchivedMonths })
    /\ spoiled' = spoiled \cup SamplesIn(Spoiled(file, rows))
    /\ doubled' = doubled \cup (held.ids \cap IdsOf(Fresh(w, held)))
    /\ astray' = astray \cup IdsOf(Astray(w, held))
    /\ lags' = lags \cup {w.lag}

Poll(phase) ==
    LET w       == Decoded(phase)
        current == Current(phase)
    IN  /\ up /\ reply # None
        /\ reply' = None
        /\ held' = Ingested(w)
        /\ \E ms \in Ascending(Completed(w, current)) :
               /\ file' = Appended(file, RowsOf(w, ms))
               /\ FilingHistory(w, RowsOf(w, ms))
        /\ lastWritten' = Max({lastWritten} \cup Completed(w, current))
        /\ open' = [ m \in Minutes |-> IF m \in Completed(w, current) THEN {} ELSE Opened(w)[m] ]
        /\ UNCHANGED <<dish, up, kills, archive, snapshot>>

(* Killed while it appends.                                                     *)
PollCut(phase) ==
    LET w       == Decoded(phase)
        current == Current(phase)
    IN  /\ up /\ reply # None /\ Killed
        /\ \E ms \in Ascending(Completed(w, current)) :
           \E n \in 0 .. Len(ms) - 1, tear \in Tears :
               /\ file' = CutAfter(file, RowsOf(w, ms), n, tear)
               /\ FilingHistory(w, SubSeq(RowsOf(w, ms), 1, n))
        /\ UNCHANGED <<dish, archive, snapshot>>

(* writeSampleSnapshot, each minute and at an orderly end.                      *)
Snapshot ==
    /\ up /\ held.ids # {}
    /\ snapshot' = [held EXCEPT !.counter = 0]
    /\ UNCHANGED <<dish, process, kills, file, archive, history>>

Kill == up /\ Killed /\ UNCHANGED <<dish, disk, history>>

--------------------------------------------------------------------------------
(* EnergyStore.compact, at the start and once a day.                            *)
IsPast(row) == MonthOf(row.minute) < now \div YearLen
Expired     == { r \in Readable(file) : IsPast(r) }
Remaining   == { i \in DOMAIN file.rows : ~IsPast(file.rows[i]) }

(* The months appended to the archive, those not there yet, and their rows.     *)
Unarchived == { MonthOf(r.minute) : r \in Expired } \ ArchivedMonths

Folded(ms) ==
    [ i \in DOMAIN ms |->
        [month |-> ms[i], ids |-> SamplesIn({ r \in Expired : MonthOf(r.minute) = ms[i] })] ]

MinutesCompacted ==
    IF Expired = {} THEN file' = file
    ELSE \E is \in Ascending(Remaining) :
             file' = Rewritten([ j \in DOMAIN is |-> file.rows[is[j]] ])

Compacted ==
    /\ \E ms \in Ascending(Unarchived) :
           /\ archive' = Appended(archive, Folded(ms))
           /\ spoiled' = spoiled \cup SamplesIn(Spoiled(archive, Folded(ms)))
    /\ MinutesCompacted

(* [mutant] The minutes rewritten before their months are appended.             *)
CutInCompactionLate(rows, n, tear) == archive' = archive /\ MinutesCompacted

(* Where a kill in a compaction leaves the two files: the archive as far as it  *)
(* was appended, the minutes untouched.                                         *)
CutInCompaction(rows, n, tear) ==
    archive' = CutAfter(archive, rows, n, tear) /\ file' = file

CompactionCut ==
    /\ Expired # {} /\ kills < MaxKills /\ kills' = kills + 1
    /\ \E ms \in Ascending(Unarchived) :
       \E n \in 0 .. Len(ms), tear \in Tears :
           /\ n = Len(ms) => ~tear
           /\ CutInCompaction(Folded(ms), n, tear)
           /\ spoiled' = spoiled \cup SamplesIn(Spoiled(archive, SubSeq(Folded(ms), 1, n)))
    /\ Down
    /\ UNCHANGED <<dish, snapshot, late, doubled, astray, lags>>

Compact ==
    /\ up
    /\ Compacted
    /\ UNCHANGED <<dish, process, kills, snapshot, late, doubled, astray, lags>>

(* The store's constructor and loadSampleSnapshot.                              *)
Start ==
    /\ ~up /\ up' = TRUE
    /\ Compacted
    /\ lastWritten' = Max({-1} \cup { r.minute : r \in Readable(file) \ Expired })
    /\ open' = [m \in Minutes |-> {}]
    /\ held' = snapshot
    /\ UNCHANGED <<dish, reply, kills, snapshot, late, doubled, astray, lags>>

Next ==
    \/ Tick \/ Reboot \/ Fetch
    \/ \E phase \in Phases : Poll(phase) \/ PollCut(phase)
    \/ Snapshot \/ Compact \/ CompactionCut
    \/ Kill \/ Start

Spec == Init /\ [][Next]_vars

--------------------------------------------------------------------------------
(* A sample astride: the lags of the polls so far put it in two minutes.        *)
PlaceAt(id, lag) == MinuteOf(Moment(id) + lag, MinuteLen)
Astride(id)      == \E a, b \in lags : PlaceAt(id, a) # PlaceAt(id, b)

Apart(some, others) == \A id \in some \cap others : Astride(id)
RowsApart(rows)     == \A i, j \in DOMAIN rows : i # j => Apart(rows[i].ids, rows[j].ids)

(* However polls overlap, and wherever a kill falls in a poll or a compaction,  *)
(* a sample is summed in one minute, filed or open, and in one month, unless    *)
(* the polls' own stamps put it in two minutes; in both a minute and a month    *)
(* only if its minute was filed after its month was archived.                   *)
CountedOnce ==
    /\ RowsApart(file.rows) /\ RowsApart(archive.rows)
    /\ \A m \in Minutes : Apart(open[m], SamplesIn(Readable(file)))
    /\ up => Apart(SamplesIn(Readable(file)) \ late, SamplesIn(Readable(archive)))

(* Nothing recorded is erased, by a rollover of the year or a kill within it,   *)
(* but minutes that come too late for their month's row and rows a torn line    *)
(* swallows (energyStore.mts 46-50).                                            *)
ErasesOnlyTheLate == [][OnRecord \ OnRecord' \subseteq late' \cup spoiled']_vars

(* historian.mts 11-12 and 1088-1091: after a poll, every sample its ring has   *)
(* of a finished minute is on record, over kills anywhere before it, unless the *)
(* polls' stamps put it in two minutes.                                         *)
BackfillIsLossless ==
    [][\A phase \in Phases : Poll(phase) =>
          { id \in IdsOf(Decoded(phase).samples) :
              /\ \E m \in Minutes : m < Current(phase) /\ id \in InMinute(Decoded(phase), m)
              /\ ~Astride(id)' }
          \subseteq OnRecord' \cup late' \cup spoiled']_vars

(* The window the charts are drawn from holds a sample once, over overlapping   *)
(* polls, reboots and starts from the snapshot, unless a slip of the clock      *)
(* carried it across the line of half a second.                                 *)
SeriesHoldsOnce == doubled \subseteq astray

(* historian.mts 1544: "Replace (not accumulate) so re-seeing a minute across   *)
(* overlapping polls is idempotent".  It is not when the stamps move: a sample  *)
(* by a minute's edge is filed in both minutes, or in neither.                  *)
ReplacingIsIdempotent ==
    \A i, j \in DOMAIN file.rows : i # j => file.rows[i].ids \cap file.rows[j].ids = {}

(* energyStore.mts 9-12: minutes older than the calendar year are folded "and   *)
(* nothing any view can draw is lost".  The views read minutes (energySummary.ts*)
(* 41-54), and the longest reach past the start of the year.                    *)
DrawableMinutesStay ==
    [][\A r \in Readable(file) :
          r.minute * MinuteLen >= now' - ViewLen => r \in Readable(file')]_vars
================================================================================
