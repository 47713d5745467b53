------------------------------- MODULE UsageTotals -------------------------------
(* The odometer of each device and the identities it follows: the whole of      *)
(* ClientTotalsCore in core/clientTotals.ts, and what surrounds it in the two   *)
(* hosts (polls, requests, the snapshot, a start from it, the opening seed).    *)
(*                                                                              *)
(* Download and upload are one figure.  A bucket also carries what the program  *)
(* does not have: `ids`, the identities whose bytes went into it, and `doubt`,  *)
(* that it holds a seed laid beside a known device, or the reports of an        *)
(* identity merged away.  Left out are the pairs a person called different       *)
(* devices, which only filter the merges proposed, and what the recorder takes  *)
(* off its own machine's counter for its own polling.                           *)
EXTENDS Integers, FiniteSets, Sequences, Functions, FiniteSetsExt

CONSTANTS
    Ids, Macs, None,
    MacOf,          \* the address the router lists each id with
    HashOf,         \* captiveClientId: the router's hash, or None
    MaxGap,         \* MAX_GAP_MS, in ticks
    Rate,           \* MAX_BYTES_PER_MS, in bytes a tick
    MonthLen,       \* ticks of a month
    MonthsKept,
    Returning,      \* superseded identities the router may list again: "merged", "adopted",
                    \* and "stray", merged into a bucket that has been dropped since
    Hosts,          \* the hosts, and how far each goes
    MaxLife, MaxTime    \* bounds

(* The identities a host comes to see; whether it seeds at every start, as the   *)
(* recorder does and the extension never; and the bounds of its behaviours, the  *)
(* bytes that stale replies may repeat among them.                               *)
HostType == [ids : SUBSET Ids, seeds : BOOLEAN,
             maxSent : Nat, maxAgain : Nat, maxRequests : Nat, maxStarts : Nat]

TotalsAssumption ==
    /\ IsFiniteSet(Ids) /\ IsFiniteSet(Macs)
    /\ MacOf \in [Ids -> Macs] /\ DOMAIN HashOf = Ids
    /\ None \notin Ids \cup Macs /\ Ids \cap Macs = {}
    /\ {MaxGap, Rate, MonthsKept, MaxLife, MaxTime} \subseteq Nat
    /\ MonthLen \in Nat \ {0}
    /\ Returning \subseteq {"merged", "adopted", "stray"}
    /\ Hosts \subseteq HostType

VARIABLES
    host,
    totals,         \* ClientTotalsCore: its five private fields
    disk,           \* the snapshot
    counter,        \* the router: each id's counter, which a re-association restarts
    highest,        \* the highest each has stood at, which a stale reply may bring back
    sent,           \* the bytes each id has carried in truth
    again,          \* what the stale replies about it may have had counted again
    before,         \* of both, what there was before this month
    rows,           \* the bytes the minute log holds of each address this month
    clock, requests, starts

world == <<counter, highest, sent, again, before>>
spent == <<requests, starts>>
vars  == <<host, totals, disk, world, rows, clock, spent>>

Keys == Ids \cup Macs
KeyOf(id, mac) == IF id = None THEN mac ELSE id
KeyIn(b) == KeyOf(b.id, b.mac)
Month(t) == t \div MonthLen

Empty == [buckets |-> <<>>, shared |-> {}, aliases |-> <<>>, userMerged |-> {}]

Put(f, k, v) == [x \in DOMAIN f \cup {k} |-> IF x = k THEN v ELSE f[x]]
Drop(f, ks)  == Restrict(f, DOMAIN f \ ks)

Bucket(id, mac, life, t) ==
    [ id |-> id, mac |-> mac, hash |-> None, life |-> life, anchor |-> 0, filed |-> 0,
      month |-> Month(t), prev |-> 0, polled |-> None, seen |-> t, ids |-> {}, doubt |-> FALSE ]

Monthly(b) == Max({0, b.life - b.anchor})

--------------------------------------------------------------------------------
(* resolveKey: the walk along the aliases, which stops at a key that has none   *)
(* or is its own.                                                               *)
Resolve(T, key) ==
    LET walk[n \in 0 .. Cardinality(Keys)] ==
            IF n = 0 THEN key
            ELSE IF walk[n - 1] \in DOMAIN T.aliases THEN T.aliases[walk[n - 1]] ELSE walk[n - 1]
    IN  walk[Cardinality(Keys)]

(* Every alias that ends at `from` is turned to `to`, and `from` joins them.    *)
Repointed(aliases, from, to) ==
    Put([k \in DOMAIN aliases |-> IF aliases[k] = from THEN to ELSE aliases[k]], from, to)

(* notePoll: an address seen on two devices at once is shared from then on, and *)
(* what it held without an id is dropped.                                       *)
NewlyShared(T, roster) ==
    { m \in Macs \ T.shared : Cardinality({ i \in roster : MacOf[i] = m }) > 1 }

NotePoll(T, roster) ==
    [T EXCEPT !.shared = @ \cup NewlyShared(T, roster), !.buckets = Drop(@, NewlyShared(T, roster))]

(* reanchor: the orphan's bucket takes the identity now reported.               *)
Reanchor(T, orphan, id, key) ==
    LET old == KeyIn(T.buckets[orphan])
    IN  [T EXCEPT !.buckets = Put(Drop(@, {old}), key,
                                  [T.buckets[orphan] EXCEPT !.id = id, !.mac = MacOf[id], !.polled = None]),
                  !.aliases = IF old = key THEN @ ELSE Repointed(@, old, key)]

(* adoptOrCreate: the one bucket, not live, that carries the router's hash;     *)
(* else the one bucket, not live, on an address no two devices have shared.     *)
Holders(T, id, key) ==
    { k \in DOMAIN T.buckets :
        HashOf[id] # None /\ T.buckets[k].hash = HashOf[id] /\ KeyIn(T.buckets[k]) # key }
OnMac(T, id, key) ==
    { k \in DOMAIN T.buckets : T.buckets[k].mac = MacOf[id] /\ KeyIn(T.buckets[k]) # key }
Adoptable(T, ks, live) ==
    Cardinality(ks) = 1 /\ \A k \in ks : KeyIn(T.buckets[k]) \notin live

AdoptOrCreate(T, id, key, live, t) ==
    IF Adoptable(T, Holders(T, id, key), live)
    THEN Reanchor(T, CHOOSE k \in Holders(T, id, key) : TRUE, id, key)
    ELSE IF MacOf[id] \notin T.shared /\ Adoptable(T, OnMac(T, id, key), live)
    THEN Reanchor(T, CHOOSE k \in OnMac(T, id, key) : TRUE, id, key)
    ELSE [T EXCEPT !.buckets = Put(@, key, Bucket(id, MacOf[id], 0, t))]

--------------------------------------------------------------------------------
(* [mutant] A counter that went back is added whole, whatever the link carries. *)
AdvanceWhole(reading, previous, ceiling) ==
    IF reading >= previous THEN reading - previous ELSE reading

(* advance: what one counter adds since the last reading.                       *)
Advance(reading, previous, ceiling) ==
    IF reading >= previous THEN reading - previous
    ELSE IF reading <= ceiling THEN reading ELSE 0

(* observe on the bucket: a month that ended is filed and the reading only      *)
(* re-baselines; so does one across a gap; any other is measured.               *)
Folded(b, id, reading, t, late) ==
    LET newMonth == Month(t) # b.month
        measured == ~newMonth /\ b.polled # None /\ t - b.polled <= MaxGap
    IN  [ b EXCEPT
            !.hash   = IF HashOf[id] = None THEN @ ELSE HashOf[id],
            !.filed  = IF newMonth THEN @ + Monthly(b) ELSE @,
            !.anchor = IF newMonth THEN b.life ELSE @,
            !.month  = Month(t),
            !.life   = IF measured THEN @ + Advance(reading, b.prev, (t - b.polled) * Rate) ELSE @,
            !.prev   = reading, !.polled = t, !.seen = t, !.ids = @ \cup {id}, !.doubt = @ \/ late ]

(* observe: an identity merged away by a person reports into its survivor.      *)
KeyFor(T, id) == IF id \in T.userMerged THEN Resolve(T, id) ELSE id

Observe(T, id, reading, live, t) ==
    LET key   == KeyFor(T, id)
        known == IF key \in DOMAIN T.buckets THEN T ELSE AdoptOrCreate(T, id, key, live, t)
    IN  [known EXCEPT !.buckets[key] = Folded(@, id, reading, t, id \in T.userMerged)]

--------------------------------------------------------------------------------
(* merge, on the two buckets: bytes of another month are history on arrival.    *)
Merged(source, survivor) ==
    [ survivor EXCEPT
        !.life = @ + source.life, !.filed = @ + source.filed, !.polled = None,
        !.seen = Max({@, source.seen}), !.ids = @ \cup source.ids, !.doubt = @ \/ source.doubt,
        !.anchor = @ + (IF source.month = survivor.month THEN source.anchor ELSE source.life) ]

(* A key that holds a bucket names that bucket; any other is resolved.          *)
At(T, key) == IF key \in DOMAIN T.buckets THEN key ELSE Resolve(T, key)

Mergeable(T, from, to) == from # to /\ {from, to} \subseteq DOMAIN T.buckets

(* The survivor takes the bucket, and every key that led to the one folded in.  *)
Merge(T, from, to) ==
    [T EXCEPT
        !.buckets    = Drop(Put(@, to, Merged(T.buckets[from], T.buckets[to])), {from}),
        !.aliases    = Repointed(@, from, to),
        !.userMerged = @ \cup {from}]

(* loadSnapshot: a bucket is keyed by what it carries.                          *)
Loaded(T) ==
    [T EXCEPT !.buckets =
        [k \in { KeyIn(T.buckets[x]) : x \in DOMAIN T.buckets } |->
            T.buckets[CHOOSE x \in DOMAIN T.buckets : KeyIn(T.buckets[x]) = k]]]

(* seedClientTotals: an opening bucket for every address with rows this month   *)
(* that no bucket carries.  It is in doubt once any device was polled.          *)
Unseen(T) ==
    { m \in Macs : rows[m] > 0 /\ \A k \in DOMAIN T.buckets : T.buckets[k].mac # m }

SeededBucket(m) ==
    [Bucket(None, m, rows[m], clock) EXCEPT
        !.ids = { i \in Ids : MacOf[i] = m }, !.doubt = TRUE]

Seeded(T) ==
    [T EXCEPT !.buckets =
        [k \in DOMAIN @ \cup Unseen(T) |-> IF k \in Unseen(T) THEN SeededBucket(k) ELSE @[k]]]

--------------------------------------------------------------------------------
MayReport(id) ==
    \/ id \notin DOMAIN totals.aliases
    \/ IF id \in totals.userMerged THEN "merged" \in Returning ELSE "adopted" \in Returning

Init ==
    /\ host \in Hosts
    /\ totals = Empty /\ disk = Empty
    /\ counter = [i \in Ids |-> 0] /\ highest = [i \in Ids |-> 0]
    /\ sent = [i \in Ids |-> 0] /\ again = [i \in Ids |-> 0] /\ before = [i \in Ids |-> 0]
    /\ rows = [m \in Macs |-> 0]
    /\ clock = 0 /\ requests = 0 /\ starts = 0

Traffic(id) ==
    /\ SumFunction(sent) < host.maxSent
    /\ counter' = [counter EXCEPT ![id] = @ + 1]
    /\ sent' = [sent EXCEPT ![id] = @ + 1]
    /\ UNCHANGED <<host, totals, disk, highest, again, before, rows, clock, spent>>

(* The device joins again: the router starts its counter afresh.                *)
Reassociate(id) ==
    /\ counter[id] > 0
    /\ counter' = [counter EXCEPT ![id] = 0]
    /\ highest' = IF SumFunction(again) < host.maxAgain
                  THEN [highest EXCEPT ![id] = Max({@, counter[id]})] ELSE highest
    /\ UNCHANGED <<host, totals, disk, sent, again, before, rows, clock, spent>>

(* What there is to charge: the bytes carried, and those a stale reply may have  *)
(* had counted again.                                                            *)
Chargeable == [i \in Ids |-> sent[i] + again[i]]

Tick ==
    /\ clock < MaxTime
    /\ clock' = clock + 1
    /\ before' = IF Month(clock + 1) = Month(clock) THEN before ELSE Chargeable
    /\ rows'   = IF Month(clock + 1) = Month(clock) THEN rows ELSE [m \in Macs |-> 0]
    /\ UNCHANGED <<host, totals, disk, counter, highest, sent, again, spent>>

(* What the router says of the counters: what they stand at, or of one device a *)
(* figure it has stood at before, a stale or reordered reply.                    *)
Late(roster) ==
    UNION { { [counter EXCEPT ![i] = old] : old \in 0 .. Max({highest[i], counter[i]}) } : i \in Range(roster) }
Replies(roster) == {counter} \cup (IF SumFunction(again) < host.maxAgain THEN Late(roster) ELSE {})

(* A counter believed to go from one figure to another adds the difference, or,  *)
(* when it goes back, the whole figure if the link could carry it across the     *)
(* widest gap that is measured; a stale reply takes it there and back.           *)
Believed(from, to) ==
    IF to >= from THEN to - from ELSE IF to <= MaxGap * Rate THEN to ELSE 0
Repeated(said) ==
    [i \in Ids |-> again[i] + Believed(counter[i], said[i]) + Believed(said[i], counter[i])]

(* pollClients: the whole roster is noted, then each device is read in turn.    *)
(* What a reading adds is what the minute log gets on the address it came from. *)
Life(T) == SumFunction([k \in DOMAIN T.buckets |-> T.buckets[k].life])

Reading(id, said, live, done) ==
    LET next == Observe(done.totals, id, said[id], live, clock)
    IN  [ totals |-> next,
          rows   |-> [done.rows EXCEPT ![MacOf[id]] = @ + Life(next) - Life(done.totals)],
          stray  |-> done.stray \/ KeyFor(done.totals, id) \notin DOMAIN done.totals.buckets \cup {id} ]

Polled(roster, said) ==
    LET live == Range(roster)
        after[n \in 0 .. Len(roster)] ==
            IF n = 0 THEN [totals |-> NotePoll(totals, live), rows |-> rows, stray |-> FALSE]
                     ELSE Reading(roster[n], said, live, after[n - 1])
    IN  after[Len(roster)]

Poll(roster, said) ==
    LET done == Polled(roster, said)
    IN  /\ \A i \in Range(roster) : MayReport(i)
        /\ done.stray => "stray" \in Returning
        /\ Life(done.totals) <= MaxLife
        /\ totals' = done.totals /\ rows' = IF host.seeds THEN done.rows ELSE rows
        /\ again' = IF said = counter THEN again ELSE Repeated(said)
        /\ UNCHANGED <<host, disk, counter, highest, sent, before, clock, spent>>

--------------------------------------------------------------------------------
(* The file is followed while a start may still read it.                        *)
Saved(T) == IF starts < host.maxStarts THEN T ELSE Empty

(* The requests, each of which is saved before it is answered.                  *)
Answered(T) ==
    /\ requests < host.maxRequests /\ requests' = requests + 1
    /\ totals' = T /\ disk' = Saved(T)
    /\ UNCHANGED <<host, world, rows, clock, starts>>

(* reset: the month's anchor is brought up to the counter.                      *)
ResetTotal(k) ==
    /\ k \in DOMAIN totals.buckets
    /\ Answered([totals EXCEPT !.buckets[k].anchor = totals.buckets[k].life])

RemoveTotal(k) ==
    /\ k \in DOMAIN totals.buckets
    /\ Answered([totals EXCEPT !.buckets = Drop(@, {k})])

ClearTotals == Answered([totals EXCEPT !.buckets = <<>>])

MergeRequest(a, b) ==
    /\ Mergeable(totals, At(totals, a), At(totals, b))
    /\ Answered(Merge(totals, At(totals, a), At(totals, b)))

(* compact: buckets unseen since the month that far back.                       *)
Stale == { k \in DOMAIN totals.buckets :
             totals.buckets[k].seen < (Month(clock) - MonthsKept) * MonthLen }
Compact ==
    /\ Stale # {}
    /\ totals' = [totals EXCEPT !.buckets = Drop(@, Stale)] /\ disk' = Saved(totals')
    /\ UNCHANGED <<host, world, rows, clock, spent>>

(* The snapshot timer, and a process killed and started again.                  *)
Snapshot ==
    /\ disk' = Saved(totals)
    /\ UNCHANGED <<host, totals, world, rows, clock, spent>>

Start ==
    /\ starts < host.maxStarts /\ starts' = starts + 1
    /\ totals' = IF host.seeds THEN Seeded(Loaded(disk)) ELSE Loaded(disk)
    /\ disk' = IF starts + 1 < host.maxStarts THEN disk ELSE Empty
    /\ UNCHANGED <<host, world, rows, clock, requests>>

Rosters == { r \in UNION { [1..n -> host.ids] : n \in 1..2 } : IsInjective(r) }

Next ==
    \/ \E i \in host.ids : Traffic(i) \/ Reassociate(i)
    \/ Tick
    \/ \E r \in Rosters : \E said \in Replies(r) : Poll(r, said)
    \/ \E k \in Keys : ResetTotal(k) \/ RemoveTotal(k)
    \/ \E a, b \in Keys : MergeRequest(a, b)
    \/ ClearTotals \/ Compact \/ Snapshot \/ Start

Spec == Init /\ [][Next]_vars

--------------------------------------------------------------------------------
BucketType ==
    [ id : Ids \cup {None}, mac : Macs, hash : Range(HashOf) \cup {None},
      life : 0 .. MaxLife, anchor : 0 .. MaxLife, filed : 0 .. MaxLife, month : 0 .. MaxTime,
      prev : 0 .. host.maxSent, polled : 0 .. MaxTime \cup {None}, seen : 0 .. MaxTime,
      ids : SUBSET Ids, doubt : BOOLEAN ]
Sound == { k \in DOMAIN totals.buckets : ~totals.buckets[k].doubt }
Carried(of, I) == SumFunctionOnSet(of, I)

(* Buckets sit under identities and addresses, each with figures no larger than *)
(* the traffic there was, and every alias leads from one identity to another    *)
(* (TotalState, states and aliases of ClientTotalsCore).                        *)
TypeOK ==
    /\ DOMAIN totals.buckets \subseteq Keys
    /\ \A k \in Sound : totals.buckets[k] \in BucketType
    /\ totals.aliases \in [DOMAIN totals.aliases -> Keys]
    /\ DOMAIN totals.aliases \subseteq Keys
    /\ totals.userMerged \subseteq DOMAIN totals.aliases

(* No byte is in two odometers, or twice in one: any set of identities has been *)
(* charged, over all the buckets only they fed, no more than they carried and    *)
(* what stale replies may have had counted again, which the ceiling bounds.  Over *)
(* polls in any order, router counters that restart, adoptions, merges, resets   *)
(* and starts from an old snapshot (observe, advance, reanchor, merge).          *)
NoByteTwice(buckets, carried) ==
    \A I \in SUBSET Ids :
        SumFunctionOnSet([k \in buckets |-> totals.buckets[k].life],
                         { k \in buckets : totals.buckets[k].ids \subseteq I }) <= Carried(carried, I)
CountsNoByteTwice == NoByteTwice(Sound, Chargeable)

(* The same, seeds and the reports of identities merged away included.          *)
CountsNoByteTwiceAtAll == NoByteTwice(DOMAIN totals.buckets, Chargeable)

(* The same, stale replies included ("its counter has already been counted").    *)
StaleRepliesAddNothing == NoByteTwice(Sound, sent)

(* The figure of the month running holds no byte of an earlier month, whatever  *)
(* was merged into it and from which month (observe's roll, merge's anchors).   *)
MonthHoldsItsOwn ==
    \A k \in Sound :
        LET b == totals.buckets[k]
        IN  b.month = Month(clock) => Monthly(b) <= Carried(Chargeable, b.ids) - Carried(before, b.ids)

(* A closed month and the month running never share a byte: what is filed was   *)
(* under the anchor, and the anchor is under the odometer.                      *)
MonthsAreApart ==
    \A k \in DOMAIN totals.buckets :
        totals.buckets[k].filed <= totals.buckets[k].anchor
            /\ totals.buckets[k].anchor <= totals.buckets[k].life

(* A snapshot restores what was saved: each bucket stands under the identity it *)
(* carries, which is where loadSnapshot puts it (toSnapshot, "enough to resume  *)
(* exactly").                                                                   *)
RestoreResumes == Loaded(totals) = totals

(* A merge takes: the identity merged away answers from then on to the bucket    *)
(* that took its bytes, so its recorded rows and later reports go there.         *)
MergesTake ==
    [][\A k \in DOMAIN totals.buckets :
          k \in totals'.userMerged /\ k \notin DOMAIN totals'.buckets =>
              LET end == Resolve(totals', k)
              IN  /\ end \in DOMAIN totals'.buckets
                  /\ totals.buckets[k].ids \subseteq totals'.buckets[end].ids]_vars
================================================================================
