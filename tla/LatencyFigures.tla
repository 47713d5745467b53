----------------------------- MODULE LatencyFigures -----------------------------
(* The latency figures of a span: the readings of each minute folded into a      *)
(* histogram and running sums, minutes that are old folded into their month, and *)
(* percentiles read back off any mixture of the two (core/latencyBuckets.ts,     *)
(* core/latencySummary.ts; which minutes go, and when, is RecordedMinutes').     *)
(*                                                                               *)
(* One source of the two; sums of squares, losses, scores and bars are left out. *)
(* A percentile is a fraction, exact here, and rounded in the code.              *)
EXTENDS Naturals, Sequences, FiniteSets, Functions

CONSTANTS
    Edges,          \* LATENCY_BIN_UPPER_EDGES_MS
    Values,         \* the latencies a second can have; 0 is no reading
    Percents,       \* the percentiles read, in hundredths
    None,
    MaxReadings, MaxMinutes     \* bounds

VARIABLES
    minutes,        \* the minutes' buckets on file and the one still open, last
    month,          \* the archive's row, or None
    heard           \* history: every reading, in order

vars == <<minutes, month, heard>>

Bins == 1..(Len(Edges) + 1)

(* LatencySourceStats.                                                                *)
Sources == [count : Nat, sum : Nat, min : Nat \cup {None}, max : Nat \cup {None}, bins : [Bins -> Nat]]

FiguresAssumption ==
    /\ Edges \in Seq(Nat) /\ Edges # <<>> /\ Edges[1] > 0
    /\ \A i \in 1..(Len(Edges) - 1) : Edges[i] < Edges[i + 1]
    /\ Values \subseteq Nat /\ Percents \subseteq 1..99
    /\ None \notin Nat \cup Sources

--------------------------------------------------------------------------------
(* latencyBuckets.ts.                                                            *)

NoSource == [count |-> 0, sum |-> 0, min |-> None, max |-> None, bins |-> [i \in Bins |-> 0]]

(* [mutant] An edge belongs to the bin below it.                                 *)
BinIndexInclusive(v) ==
    CHOOSE i \in Bins : /\ i > Len(Edges) \/ v <= Edges[i]
                        /\ \A j \in 1..(i - 1) : v > Edges[j]

(* binIndexFor: an edge is the bin's own upper end, exclusive.                   *)
BinIndexFor(v) ==
    CHOOSE i \in Bins : /\ i > Len(Edges) \/ v < Edges[i]
                        /\ \A j \in 1..(i - 1) : v >= Edges[j]

Least(a, b) == IF a = None THEN b ELSE IF b = None THEN a ELSE IF a < b THEN a ELSE b
Most(a, b)  == IF a = None THEN b ELSE IF b = None THEN a ELSE IF a > b THEN a ELSE b

(* isReading, addReading.                                                        *)
AddReading(s, v) ==
    IF v = 0 THEN s
    ELSE [count |-> s.count + 1, sum |-> s.sum + v, min |-> Least(s.min, v), max |-> Most(s.max, v),
          bins  |-> [s.bins EXCEPT ![BinIndexFor(v)] = @ + 1]]

(* addSource, which the archive's months are folded with.                        *)
AddSource(s, t) ==
    [count |-> s.count + t.count, sum |-> s.sum + t.sum,
     min |-> Least(s.min, t.min), max |-> Most(s.max, t.max),
     bins |-> [i \in Bins |-> s.bins[i] + t.bins[i]]]

Folded(buckets) ==
    LET upTo[n \in 0..Len(buckets)] == IF n = 0 THEN NoSource ELSE AddSource(upTo[n - 1], buckets[n])
    IN  upTo[Len(buckets)]

(* mergeBuckets, which figures are read off: it adds up counts, sums and bins as *)
(* addSource does, and leaves min and max empty.                                 *)
MergeBuckets(buckets) == [Folded(buckets) EXCEPT !.min = None, !.max = None]

--------------------------------------------------------------------------------
(* latencySummary.ts.                                                            *)

Lower(i) == IF i = 1 THEN 0 ELSE Edges[i - 1]
Upper(i) == IF i > Len(Edges) THEN Edges[Len(Edges)] ELSE Edges[i]

Total(bins)     == SumFunction(bins)
UpTo(bins, i)   == SumFunctionOnSet(bins, 1..i)

(* percentile: the bin it lands in.                                              *)
LandsIn(bins, p) ==
    CHOOSE i \in Bins : /\ bins[i] > 0 /\ p * Total(bins) <= 100 * UpTo(bins, i)
                        /\ \A j \in 1..(i - 1) : bins[j] = 0 \/ p * Total(bins) > 100 * UpTo(bins, j)

(* percentile, interpolated within the bin: over / under.                        *)
Percentile(bins, p) ==
    LET i == LandsIn(bins, p)
        n == 100 * bins[i]
    IN  [under |-> n,
         over  |-> Lower(i) * n + (p * Total(bins) - 100 * UpTo(bins, i - 1)) * (Upper(i) - Lower(i))]

--------------------------------------------------------------------------------
(* The store's minutes.                                                          *)

Open   == Len(minutes)
Months == IF month = None THEN <<>> ELSE <<month>>

(* foldSamplesToLatencyMinutes, whose recount replaces the open minute.          *)
Second(v) ==
    /\ Len(heard) < MaxReadings
    /\ heard' = Append(heard, v)
    /\ minutes' = [minutes EXCEPT ![Open] = AddReading(@, v)]
    /\ UNCHANGED month

NextMinute ==
    /\ Open < MaxMinutes /\ minutes' = Append(minutes, NoSource)
    /\ UNCHANGED <<month, heard>>

(* foldLatencyMinutesToMonths, addLatencyMonthBucket: minutes that have expired. *)
Compact ==
    /\ Open > 1
    /\ \E n \in 1..(Open - 1) :
          /\ month' = IF month = None THEN Folded(SubSeq(minutes, 1, n))
                      ELSE AddSource(month, Folded(SubSeq(minutes, 1, n)))
          /\ minutes' = SubSeq(minutes, n + 1, Open)
    /\ UNCHANGED heard

Init == minutes = <<NoSource>> /\ month = None /\ heard = <<>>

Next == (\E v \in Values : Second(v)) \/ NextMinute \/ Compact

Spec == Init /\ [][Next]_vars

--------------------------------------------------------------------------------
Readings == { i \in 1..Len(heard) : heard[i] > 0 }

(* The reading of this rank, counted rather than sorted for.                     *)
Ranked(p) ==
    CHOOSE v \in Values :
        /\ 100 * Cardinality({ i \in Readings : heard[i] <= v }) >= p * Cardinality(Readings)
        /\ 100 * Cardinality({ i \in Readings : heard[i] < v }) < p * Cardinality(Readings)

(* However a span is split into minutes and months, its figures are those of the *)
(* readings: none is lost, no edge of a bin lies between a percentile and the    *)
(* reading of that rank, and a higher percentile is no lower (sourceMetrics).    *)
(* The least and the greatest are kept on file (addSource), and no figure is     *)
(* made of them.                                                                 *)
FiguresAreOfTheReadings ==
    LET kept  == Folded(Months \o minutes)
        all   == MergeBuckets(Months \o minutes)
        at(p) == Percentile(all.bins, p)
    IN  /\ all.count = Cardinality(Readings)
        /\ all.sum = SumFunctionOnSet(heard, Readings)
        /\ Readings # {} => /\ kept.min = heard[CHOOSE i \in Readings : \A j \in Readings : heard[i] <= heard[j]]
                            /\ kept.max = heard[CHOOSE i \in Readings : \A j \in Readings : heard[i] >= heard[j]]
        /\ Readings # {} => \A p \in Percents :
              /\ \A i \in 1..Len(Edges) :
                    IF Edges[i] <= Ranked(p) THEN Edges[i] * at(p).under <= at(p).over
                                             ELSE Edges[i] * at(p).under >= at(p).over
              /\ \A q \in Percents : p < q => at(p).over * at(q).under <= at(q).over * at(p).under
================================================================================
