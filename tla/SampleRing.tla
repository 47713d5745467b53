------------------------------- MODULE SampleRing -------------------------------
(* The dish with its ring of one-second samples, and the choice of the new ones *)
(* in it: decodeHistoryWindow and selectFreshSamples of core/telemetry.ts,      *)
(* which the recorder and the extension share.                                  *)
(*                                                                              *)
(* A sample is its place in the dish's life: [boot, k] is the k-th since boot   *)
(* `boot`.  The program sees neither; it sees the ring, the since-boot counter  *)
(* and the stamps it gives.  Stamps are quarter seconds.  A reply is pinned to  *)
(* the clock when it is read, its lag after the dish wrote its newest sample.   *)
EXTENDS Integers, FiniteSets, FiniteSetsExt

CONSTANTS
    RingSize,       \* samples the dish keeps: 900 in the program
    Phases,         \* quarter seconds from the dish's second to a reply
    Jitter,         \* bound: the most they are
    MaxTime,        \* bound: seconds
    MaxBoots        \* bound: reboots

VARIABLES
    now,            \* seconds since the recording began
    boot, count,    \* the dish: its boot, and samples written since
    first           \* history: the second at which each boot wrote its first sample

dish == <<now, boot, count, first>>

RingAssumption ==
    /\ RingSize \in Nat \ {0}
    /\ {Jitter, MaxTime, MaxBoots} \subseteq Nat
    /\ Phases \subseteq 0 .. Jitter

Second == 4
Boots  == 0 .. MaxBoots
Ids    == [boot : Boots, k : 0 .. MaxTime]

(* When the dish wrote a sample, by a clock the program does not see.           *)
Moment(id) == Second * (first[id.boot] + id.k)

DishTypeOK ==
    /\ now \in 1 .. MaxTime /\ boot \in Boots /\ count \in 0 .. MaxTime
    /\ first \in [Boots -> 0 .. MaxTime]

DishInit == now = 1 /\ boot = 0 /\ count = 1 /\ first = [b \in Boots |-> IF b = 0 THEN 1 ELSE 0]

(* A sample a second.  A booting dish writes none for as long as it takes.      *)
DishTick ==
    /\ now < MaxTime
    /\ now' = now + 1
    /\ \/ count > 0 /\ count' = count + 1 /\ UNCHANGED first
       \/ count = 0 /\ count' = 1 /\ first' = [first EXCEPT ![boot] = now']
       \/ count = 0 /\ UNCHANGED <<count, first>>
    /\ UNCHANGED boot

DishReboot ==
    /\ boot < MaxBoots /\ count > 0
    /\ boot' = boot + 1 /\ count' = 0
    /\ UNCHANGED <<now, first>>

(* What get_history answers: the ring as it stands.                             *)
Ring == [boot |-> boot, count |-> count, at |-> now]

(* decodeHistoryWindow: the newest sample pinned to the clock at the reply, each *)
(* before it a second earlier.  The program does not know the lag.              *)
Stamped(ring, lag) ==
    [ count   |-> ring.count,
      lag     |-> lag,
      samples |-> { [boot |-> ring.boot, k |-> k,
                     stamp |-> (ring.at - (ring.count - 1 - k)) * Second + lag]
                        : k \in { i \in 0 .. ring.count - 1 : i >= ring.count - RingSize } } ]

Identity(s) == [boot |-> s.boot, k |-> s.k]
IdsOf(samples) == { Identity(s) : s \in samples }

(* SampleCursor; a counter and a stamp of 0 are "unknown".  `lag`, which the     *)
(* program does not have, is that of the reply the newest stamp came from.      *)
NoCursor == [counter |-> 0, newest |-> 0, lag |-> 0]

CounterTrusted(window, cursor) ==
    cursor.counter > 0 /\ window.count >= cursor.counter

(* [mutant] The counter taken for the position of the last sample, not the next.*)
FreshPastCounter(window, cursor) ==
    IF CounterTrusted(window, cursor)
    THEN { s \in window.samples : s.k > cursor.counter }
    ELSE { s \in window.samples :
               cursor.newest = 0 \/ s.stamp > cursor.newest + Second \div 2 }

(* selectFreshSamples: by position while the counter can be trusted, otherwise  *)
(* by stamp with half a second's allowance.                                     *)
Fresh(window, cursor) ==
    IF CounterTrusted(window, cursor)
    THEN { s \in window.samples : s.k >= cursor.counter }
    ELSE { s \in window.samples :
               cursor.newest = 0 \/ s.stamp > cursor.newest + Second \div 2 }

(* The newest stamp among those held and those just taken.                      *)
NewestStamp(cursor, fresh) == Max({cursor.newest} \cup { s.stamp : s \in fresh })

LagOfNewest(window, cursor) ==
    IF NewestStamp(cursor, Fresh(window, cursor)) = cursor.newest THEN cursor.lag ELSE window.lag

(* The samples the clock carries across the line of half a second: a reply that *)
(* slipped by more than that, later or earlier than the one the newest stamp is *)
(* from, makes held samples look new or new ones held.  Of a slip under a       *)
(* second it is one sample, and none while the counter is trusted.              *)
Slip(window, cursor) == window.lag - cursor.lag

Astray(window, cursor) ==
    IF CounterTrusted(window, cursor) \/ cursor.newest = 0 THEN {}
    ELSE { s \in window.samples :
             LET past == s.stamp - cursor.newest
             IN  \/ Second \div 2 < past /\ past <= Slip(window, cursor)
                 \/ Second + Slip(window, cursor) <= past /\ past <= Second \div 2 }

(* foldSamplesToMinutes: how many samples fall in each minute.                  *)
MinuteOf(stamp, minuteLen) == (stamp \div Second) \div minuteLen
================================================================================
