------------------------------- MODULE Odometers_proofs ------------------------
(* What Stores promises of the odometers (UsageTotals), for all identities,      *)
(* addresses, hosts and bounds.                                                  *)
EXTENDS Stores, SumTheorems, Integers, Sequences, TLAPS, FiniteSetTheorems, WellFoundedInduction

--------------------------------------------------------------------------------
(* The odometers.  A bucket's next reading can add what its device's counter has *)
(* gone up by, so the bytes a set of identities carried, and those its stale     *)
(* replies may repeat, are counted against both the odometers and what their     *)
(* next readings still bring; likewise, of this month's bytes, those the month's *)
(* figures hold and may yet be brought.  A stale reply is a counter that goes    *)
(* back and comes up again: it brings no more than it is believed to have gone.  *)

TotalBucket ==
    [ id : Identities \cup {None}, mac : Macs, hash : Totals!Range(HashOf) \cup {None},
      life : Int, anchor : Int, filed : Int, month : Int,
      prev : Nat, polled : Int \cup {None}, seen : Int, ids : SUBSET Identities, doubt : BOOLEAN ]

(* What the bytes are counted against: the devices' side, and the time.          *)
Carriage == [counter |-> counts, sent |-> Totals!Chargeable, before |-> sentBefore, clock |-> rolls]
Carriages ==
    { w \in [counter : [Identities -> Nat], sent : [Identities -> Nat], before : [Identities -> Nat], clock : Nat] :
        \A i \in Identities : w.before[i] <= w.sent[i] }

Awaited(w, b)   == IF b.polled = None THEN 0 ELSE Totals!Believed(b.prev, w.counter[b.id])
Charge(w, b)    == b.life + Awaited(w, b)
ThisMonth(w, b) == IF b.month = Totals!Month(w.clock) THEN Totals!Monthly(b) + Awaited(w, b) ELSE 0
Charges(w, B)   == [k \in DOMAIN B |-> Charge(w, B[k])]
ThisMonths(w, B) == [k \in DOMAIN B |-> ThisMonth(w, B[k])]

SoundOf(B)  == { k \in DOMAIN B : ~B[k].doubt }
FedBy(B, I) == { k \in SoundOf(B) : B[k].ids \subseteq I }

BucketsTyped(B) == IsFiniteSet(DOMAIN B) /\ \A k \in DOMAIN B : B[k] \in TotalBucket
FiguresInOrder(w, b) ==
    0 <= b.filed /\ b.filed <= b.anchor /\ b.anchor <= b.life /\ b.month <= Totals!Month(w.clock)
OwnKey(k, b) == k = b.id /\ b.id \in Identities /\ (b.polled # None => b.id \in b.ids)

ChargedOnce(w, B) ==
    \A I \in SUBSET Identities : SumFunctionOnSet(Charges(w, B), FedBy(B, I)) <= SumFunctionOnSet(w.sent, I)
MonthChargedOnce(w, B) ==
    \A I \in SUBSET Identities :
        SumFunctionOnSet(ThisMonths(w, B), FedBy(B, I))
            <= SumFunctionOnSet(w.sent, I) - SumFunctionOnSet(w.before, I)

InBooks(w, B) ==
    /\ BucketsTyped(B)
    /\ \A k \in DOMAIN B : FiguresInOrder(w, B[k])
    /\ \A k \in SoundOf(B) : OwnKey(k, B[k])
Books(w, B) == InBooks(w, B) /\ ChargedOnce(w, B) /\ MonthChargedOnce(w, B)

(* A core's record has its four fields, and its buckets are a function.            *)
Shaped(T) ==
    /\ T = [buckets |-> T.buckets, shared |-> T.shared, aliases |-> T.aliases, userMerged |-> T.userMerged]
    /\ T.buckets = [k \in DOMAIN T.buckets |-> T.buckets[k]]

InPlace(T) == \A k \in DOMAIN T.buckets : Totals!KeyIn(T.buckets[k]) = k

CoreIsKept(w, T) == Shaped(T) /\ Books(w, T.buckets) /\ ("stray" \notin Returning => InPlace(T))

OdometerInv ==
    /\ Carriage \in Carriages /\ logged \in [Macs -> Int]
    /\ sent \in [Identities -> Nat] /\ again \in [Identities -> Nat]
    /\ CoreIsKept(Carriage, totals) /\ CoreIsKept(Carriage, totalsFile)

(* The sums and the sizes of the odometers' model are those of the library.       *)
LEMMA TotalsCount ==
    \A S : (Totals!IsFiniteSet(S) <=> IsFiniteSet(S)) /\ Totals!Cardinality(S) = Cardinality(S)
  BY DEF Totals!IsFiniteSet, IsFiniteSet, Totals!Cardinality, Cardinality

LEMMA TotalsSum ==
    ASSUME NEW f
    PROVE  /\ \A I : Totals!SumFunctionOnSet(f, I) = SumFunctionOnSet(f, I)
           /\ Totals!SumFunction(f) = SumFunctionOnSet(f, DOMAIN f)
  BY DEF Totals!SumFunction, Totals!SumFunctionOnSet, Totals!FoldFunctionOnSet, Totals!MapThenFoldSet,
         SumFunctionOnSet, FoldFunctionOnSet, MapThenFoldSet

LEMMA OdometersSuit ==
    /\ IsFiniteSet(Identities) /\ IsFiniteSet(Macs)
    /\ MacOf \in [Identities -> Macs] /\ DOMAIN HashOf = Identities /\ None \notin Identities \cup Macs
    /\ MaxGap \in Nat /\ Rate \in Nat /\ MonthLen \in Nat \ {0} /\ Identities \cap Macs = {}
  BY InstancesSuit, TotalsCount DEF Totals!TotalsAssumption

LEMMA BeliefsAddUp ==
    ASSUME NEW x \in Nat, NEW y \in Nat
    PROVE  /\ Totals!Believed(x, y) \in Nat /\ Totals!Believed(x, x) = 0
           /\ Totals!Believed(x, 0) = 0 /\ Totals!Believed(x, x + 1) = 1
           /\ \A p \in Nat : Totals!Believed(p, y) <= Totals!Believed(p, x) + Totals!Believed(x, y)
  <1> DEFINE cap == MaxGap * Rate
  <1>1. cap \in Nat
    BY OdometersSuit
  <1>2. \A a, b : Totals!Believed(a, b) = IF b >= a THEN b - a ELSE IF b <= cap THEN b ELSE 0
    BY DEF Totals!Believed
  <1> HIDE DEF cap
  <1> QED BY <1>1, <1>2

LEMMA BeliefIsNat ==
    ASSUME NEW x \in Nat, NEW y \in Nat
    PROVE  Totals!Believed(x, y) \in Nat
  <1>1. Totals!Believed(x, y) \in Nat
    BY BeliefsAddUp
  <1> QED BY <1>1

LEMMA DetoursAddUp ==
    ASSUME NEW p \in Nat, NEW x \in Nat, NEW y \in Nat
    PROVE  Totals!Believed(p, y) <= Totals!Believed(p, x) + Totals!Believed(x, y)
  <1>1. \A q \in Nat : Totals!Believed(q, y) <= Totals!Believed(q, x) + Totals!Believed(x, y)
    BY BeliefsAddUp
  <1> QED BY <1>1

LEMMA MonthsGo ==
    /\ \A t \in Nat : Totals!Month(t) \in Nat
    /\ \A t, u \in Nat : t <= u => Totals!Month(t) <= Totals!Month(u)
  BY OdometersSuit, QuotientGrows DEF Totals!Month

LEMMA LargerIs ==
    ASSUME NEW a \in Int, NEW b \in Int
    PROVE  Totals!Max({a, b}) = IF a >= b THEN a ELSE b
  BY DEF Totals!Max

LEMMA MonthlyIs ==
    ASSUME NEW b, b.life \in Int, b.anchor \in Int
    PROVE  Totals!Monthly(b) = IF b.anchor <= b.life THEN b.life - b.anchor ELSE 0
  <1>1. Totals!Max({0, b.life - b.anchor}) = IF 0 >= b.life - b.anchor THEN 0 ELSE b.life - b.anchor
    BY LargerIs
  <1> QED BY <1>1 DEF Totals!Monthly

LEMMA BucketFields ==
    ASSUME NEW b \in TotalBucket
    PROVE  /\ b.id \in Identities \cup {None} /\ b.mac \in Macs /\ b.life \in Int /\ b.anchor \in Int
           /\ b.filed \in Int /\ b.month \in Int /\ b.prev \in Nat /\ b.polled \in Int \cup {None}
           /\ b.seen \in Int /\ b.ids \in SUBSET Identities /\ b.doubt \in BOOLEAN
           /\ b.hash \in Totals!Range(HashOf) \cup {None}
  BY DEF TotalBucket

(* What a sound bucket holds and may be brought is a number of bytes.            *)
LEMMA TermsAreBytes ==
    ASSUME NEW w \in Carriages, NEW k, NEW b \in TotalBucket, FiguresInOrder(w, b), OwnKey(k, b)
    PROVE  /\ Awaited(w, b) \in Nat /\ Charge(w, b) \in Nat /\ ThisMonth(w, b) \in Nat
           /\ Totals!Monthly(b) = b.life - b.anchor /\ Totals!Monthly(b) \in Nat /\ b.life \in Nat
           /\ w.counter[b.id] \in Nat
  <1>1. w.counter[b.id] \in Nat
    BY DEF Carriages, OwnKey
  <1>2. Awaited(w, b) \in Nat
    BY <1>1, BucketFields, BeliefsAddUp DEF Awaited
  <1>3. Totals!Monthly(b) = b.life - b.anchor /\ Totals!Monthly(b) \in Nat /\ b.life \in Nat
    BY BucketFields, MonthlyIs DEF FiguresInOrder
  <1> QED BY <1>1, <1>2, <1>3 DEF Charge, ThisMonth

LEMMA SoundTerms ==
    ASSUME NEW w \in Carriages, NEW B, InBooks(w, B)
    PROVE  /\ IsFiniteSet(SoundOf(B)) /\ SoundOf(B) \subseteq DOMAIN B
           /\ \A I : FedBy(B, I) \subseteq SoundOf(B) /\ IsFiniteSet(FedBy(B, I))
           /\ \A k \in SoundOf(B) : Charges(w, B)[k] \in Nat /\ ThisMonths(w, B)[k] \in Nat
  <1>1. SoundOf(B) \subseteq DOMAIN B /\ IsFiniteSet(SoundOf(B))
    BY FS_Subset DEF SoundOf, InBooks, BucketsTyped
  <1>2. \A I : FedBy(B, I) \subseteq SoundOf(B) /\ IsFiniteSet(FedBy(B, I))
    BY <1>1, FS_Subset DEF FedBy
  <1>3. ASSUME NEW k \in SoundOf(B)
        PROVE  Charges(w, B)[k] \in Nat /\ ThisMonths(w, B)[k] \in Nat
    <2>1. B[k] \in TotalBucket /\ FiguresInOrder(w, B[k]) /\ OwnKey(k, B[k])
      BY <1>1 DEF InBooks, BucketsTyped
    <2> QED BY <2>1, <1>1, TermsAreBytes DEF Charges, ThisMonths
  <1> QED BY <1>1, <1>2, <1>3

(* Sums over buckets one of which is made of others: what it was made of bounds  *)
(* it, and who fed it fed them.                                                  *)
LEMMA Refed ==
    ASSUME NEW S, IsFiniteSet(S), NEW f, \A k \in S : f[k] \in Nat,
           NEW R, IsFiniteSet(R), NEW g, \A k \in R : g[k] \in Nat,
           NEW Made \in SUBSET R, NEW From \in SUBSET S,
           \A k \in R \ Made : k \in S \ From /\ g[k] = f[k],
           \A k \in Made : Made = {k} /\ g[k] <= SumFunctionOnSet(f, From)
    PROVE  SumFunctionOnSet(g, R) <= SumFunctionOnSet(f, S)
  <1> DEFINE sum(h, T) == SumFunctionOnSet(h, T)
             Rest == R \ Made
  <1>1. /\ IsFiniteSet(Rest) /\ IsFiniteSet(Made) /\ IsFiniteSet(From) /\ IsFiniteSet(S \ From)
        /\ Rest \in SUBSET (S \ From) /\ R \ Made = Rest
    BY FS_Subset
  <1>2. sum(g, R) = sum(g, Made) + sum(g, Rest)
    <2>1. \A k \in R : g[k] \in Int
      OBVIOUS
    <2> QED BY <2>1, SumSplits
  <1>3. sum(f, S) = sum(f, From) + sum(f, S \ From)
    <2>1. \A k \in S : f[k] \in Int
      OBVIOUS
    <2> QED BY <2>1, SumSplits
  <1>4. sum(g, Rest) = sum(f, Rest)
    <2>1. \A k \in Rest : g[k] \in Int /\ f[k] \in Int /\ g[k] = f[k]
      OBVIOUS
    <2> QED BY <1>1, <2>1, SumsCompare
  <1>5. sum(f, Rest) <= sum(f, S \ From)
    <2>1. \A k \in S \ From : f[k] \in Nat
      OBVIOUS
    <2> QED BY <1>1, <2>1, SumIsNat
  <1>6. /\ sum(g, R) \in Nat /\ sum(g, Made) \in Nat /\ sum(g, Rest) \in Nat
        /\ sum(f, From) \in Nat /\ sum(f, S \ From) \in Nat /\ sum(f, S) \in Nat
    <2>1. \A T \in SUBSET R : IsFiniteSet(T) /\ sum(g, T) \in Nat
      <3>1. ASSUME NEW T \in SUBSET R PROVE IsFiniteSet(T) /\ sum(g, T) \in Nat
        <4>1. IsFiniteSet(T) /\ \A x \in T : g[x] \in Nat
          BY FS_Subset
        <4> QED BY <4>1, SumIsNat
      <3> QED BY <3>1
    <2>2. \A T \in SUBSET S : IsFiniteSet(T) /\ sum(f, T) \in Nat
      <3>1. ASSUME NEW T \in SUBSET S PROVE IsFiniteSet(T) /\ sum(f, T) \in Nat
        <4>1. IsFiniteSet(T) /\ \A x \in T : f[x] \in Nat
          BY FS_Subset
        <4> QED BY <4>1, SumIsNat
      <3> QED BY <3>1
    <2>3. R \in SUBSET R /\ Rest \in SUBSET R /\ S \in SUBSET S /\ S \ From \in SUBSET S
      OBVIOUS
    <2> HIDE DEF sum, Rest
    <2> QED BY <2>1, <2>2, <2>3
  <1>7. sum(g, Made) <= sum(f, From)
    <2>1. CASE Made = {}
      <3>1. sum(g, {}) = 0
        BY <1>1, SumUnfolds
      <3> QED BY <2>1, <3>1, <1>6
    <2>2. ASSUME NEW k \in Made PROVE sum(g, Made) <= sum(f, From)
      <3>1. Made = {k} /\ Made \ {k} = {} /\ g[k] \in Int
        OBVIOUS
      <3>2. sum(g, {}) = 0
        BY <1>1, SumUnfolds
      <3>3. sum(g, Made) = g[k] + sum(g, Made \ {k})
        <4>1. \A x \in Made : g[x] \in Int
          OBVIOUS
        <4> QED BY <1>1, <4>1, SumRemoves
      <3> QED BY <3>1, <3>2, <3>3
    <2> QED BY <2>1, <2>2
  <1>8. sum(g, R) <= sum(f, S)
    <2> HIDE DEF sum, Rest
    <2> QED BY <1>2, <1>3, <1>4, <1>5, <1>6, <1>7
  <1> QED BY <1>8

(* A step that makes at most one bucket, out of others it takes away, keeps the  *)
(* books when that bucket holds no more than they did.                           *)
LEMMA BooksCarry ==
    ASSUME NEW w \in Carriages, NEW B, Books(w, B), NEW C, InBooks(w, C),
           NEW Made \in SUBSET SoundOf(C), NEW From \in SUBSET SoundOf(B),
           \A k \in SoundOf(C) \ Made : k \in SoundOf(B) \ From /\ C[k] = B[k],
           \A k \in Made :
              /\ Made = {k} /\ \A j \in From : B[j].ids \subseteq C[k].ids
              /\ Charge(w, C[k]) <= SumFunctionOnSet(Charges(w, B), From)
              /\ ThisMonth(w, C[k]) <= SumFunctionOnSet(ThisMonths(w, B), From)
    PROVE  Books(w, C)
  <1>1. /\ IsFiniteSet(SoundOf(B)) /\ SoundOf(B) \subseteq DOMAIN B
        /\ \A I : FedBy(B, I) \subseteq SoundOf(B) /\ IsFiniteSet(FedBy(B, I))
        /\ \A k \in SoundOf(B) : Charges(w, B)[k] \in Nat /\ ThisMonths(w, B)[k] \in Nat
    BY SoundTerms DEF Books
  <1>2. /\ IsFiniteSet(SoundOf(C)) /\ SoundOf(C) \subseteq DOMAIN C
        /\ \A I : FedBy(C, I) \subseteq SoundOf(C) /\ IsFiniteSet(FedBy(C, I))
        /\ \A k \in SoundOf(C) : Charges(w, C)[k] \in Nat /\ ThisMonths(w, C)[k] \in Nat
    BY SoundTerms
  <1>3. ASSUME NEW k \in SoundOf(C)
        PROVE  Charges(w, C)[k] = Charge(w, C[k]) /\ ThisMonths(w, C)[k] = ThisMonth(w, C[k])
    BY <1>2 DEF Charges, ThisMonths
  <1>4. ASSUME NEW k \in SoundOf(B)
        PROVE  Charges(w, B)[k] = Charge(w, B[k]) /\ ThisMonths(w, B)[k] = ThisMonth(w, B[k])
    BY <1>1 DEF Charges, ThisMonths
  <1>5. ASSUME NEW I, NEW f, NEW g, \A k \in SoundOf(B) : f[k] \in Nat,
               \A k \in SoundOf(C) : g[k] \in Nat,
               \A k \in SoundOf(C) \ Made : g[k] = f[k],
               \A k \in Made : g[k] <= SumFunctionOnSet(f, From)
        PROVE  SumFunctionOnSet(g, FedBy(C, I)) <= SumFunctionOnSet(f, FedBy(B, I))
    <2> DEFINE fed == Made \cap FedBy(C, I)
               by == From \cap FedBy(B, I)
    <2>1. \A k \in fed : by = From /\ fed = {k}
      BY DEF FedBy
    <2>2. \A k \in FedBy(C, I) \ fed : k \in FedBy(B, I) \ by /\ g[k] = f[k]
      BY <1>2, <1>5 DEF FedBy
    <2>3. /\ \A k \in FedBy(B, I) : f[k] \in Nat
          /\ \A k \in FedBy(C, I) : g[k] \in Nat
      BY <1>1, <1>2, <1>5
    <2>4. \A k \in fed : fed = {k} /\ g[k] <= SumFunctionOnSet(f, by)
      <3>1. ASSUME NEW k \in fed PROVE fed = {k} /\ g[k] <= SumFunctionOnSet(f, by)
        <4>1. by = From /\ fed = {k} /\ k \in Made
          BY <2>1
        <4> QED BY <4>1, <1>5
      <3> QED BY <3>1
    <2>5. fed \in SUBSET FedBy(C, I) /\ by \in SUBSET FedBy(B, I)
      OBVIOUS
    <2> HIDE DEF fed, by
    <2> QED BY <1>1, <1>2, <2>2, <2>3, <2>4, <2>5, Refed
  <1>6. ASSUME NEW I \in SUBSET Identities
        PROVE  /\ SumFunctionOnSet(Charges(w, C), FedBy(C, I)) <= SumFunctionOnSet(Charges(w, B), FedBy(B, I))
               /\ SumFunctionOnSet(ThisMonths(w, C), FedBy(C, I))
                     <= SumFunctionOnSet(ThisMonths(w, B), FedBy(B, I))
    <2>1. \A k \in SoundOf(C) \ Made : Charges(w, C)[k] = Charges(w, B)[k]
                                       /\ ThisMonths(w, C)[k] = ThisMonths(w, B)[k]
      BY <1>3, <1>4
    <2>2. \A k \in Made : /\ Charges(w, C)[k] <= SumFunctionOnSet(Charges(w, B), From)
                          /\ ThisMonths(w, C)[k] <= SumFunctionOnSet(ThisMonths(w, B), From)
      BY <1>3
    <2>3. SumFunctionOnSet(Charges(w, C), FedBy(C, I)) <= SumFunctionOnSet(Charges(w, B), FedBy(B, I))
      BY <1>1, <1>2, <2>1, <2>2, <1>5
    <2>4. SumFunctionOnSet(ThisMonths(w, C), FedBy(C, I))
             <= SumFunctionOnSet(ThisMonths(w, B), FedBy(B, I))
      BY <1>1, <1>2, <2>1, <2>2, <1>5
    <2> QED BY <2>3, <2>4
  <1>7. ASSUME NEW I \in SUBSET Identities
        PROVE  /\ SumFunctionOnSet(Charges(w, C), FedBy(C, I)) \in Int
               /\ SumFunctionOnSet(Charges(w, B), FedBy(B, I)) \in Int
               /\ SumFunctionOnSet(ThisMonths(w, C), FedBy(C, I)) \in Int
               /\ SumFunctionOnSet(ThisMonths(w, B), FedBy(B, I)) \in Int
               /\ SumFunctionOnSet(w.sent, I) \in Int /\ SumFunctionOnSet(w.before, I) \in Int
    <2>1. IsFiniteSet(I) /\ \A i \in I : w.sent[i] \in Int /\ w.before[i] \in Int
      BY OdometersSuit, FS_Subset DEF Carriages
    <2>2. /\ \A k \in FedBy(C, I) : Charges(w, C)[k] \in Int /\ ThisMonths(w, C)[k] \in Int
          /\ \A k \in FedBy(B, I) : Charges(w, B)[k] \in Int /\ ThisMonths(w, B)[k] \in Int
      BY <1>1, <1>2
    <2>3. SumFunctionOnSet(w.sent, I) \in Int /\ SumFunctionOnSet(w.before, I) \in Int
      BY <2>1, SumIsInt
    <2>4. SumFunctionOnSet(Charges(w, C), FedBy(C, I)) \in Int
          /\ SumFunctionOnSet(ThisMonths(w, C), FedBy(C, I)) \in Int
      BY <1>2, <2>2, SumIsInt
    <2>5. SumFunctionOnSet(Charges(w, B), FedBy(B, I)) \in Int
          /\ SumFunctionOnSet(ThisMonths(w, B), FedBy(B, I)) \in Int
      BY <1>1, <2>2, SumIsInt
    <2> QED BY <2>3, <2>4, <2>5
  <1>8. ChargedOnce(w, C)
    <2> SUFFICES ASSUME NEW I \in SUBSET Identities
                 PROVE SumFunctionOnSet(Charges(w, C), FedBy(C, I)) <= SumFunctionOnSet(w.sent, I)
      BY DEF ChargedOnce
    <2>1. SumFunctionOnSet(Charges(w, B), FedBy(B, I)) <= SumFunctionOnSet(w.sent, I)
      BY DEF Books, ChargedOnce
    <2> QED BY <2>1, <1>6, <1>7
  <1>9. MonthChargedOnce(w, C)
    <2> SUFFICES ASSUME NEW I \in SUBSET Identities
                 PROVE SumFunctionOnSet(ThisMonths(w, C), FedBy(C, I))
                          <= SumFunctionOnSet(w.sent, I) - SumFunctionOnSet(w.before, I)
      BY DEF MonthChargedOnce
    <2>1. SumFunctionOnSet(ThisMonths(w, B), FedBy(B, I))
             <= SumFunctionOnSet(w.sent, I) - SumFunctionOnSet(w.before, I)
      BY DEF Books, MonthChargedOnce
    <2> QED BY <2>1, <1>6, <1>7
  <1> QED BY <1>8, <1>9 DEF Books

(* What one or two buckets were charged.                                         *)
LEMMA SumOfFew ==
    ASSUME NEW f
    PROVE  /\ SumFunctionOnSet(f, {}) = 0
           /\ \A a : f[a] \in Int => SumFunctionOnSet(f, {a}) = f[a]
           /\ \A a, b : a # b /\ f[a] \in Int /\ f[b] \in Int => SumFunctionOnSet(f, {a, b}) = f[a] + f[b]
  <1>1. SumFunctionOnSet(f, {}) = 0
    BY FS_EmptySet, SumUnfolds
  <1>2. ASSUME NEW a, f[a] \in Int PROVE SumFunctionOnSet(f, {a}) = f[a]
    <2>1. IsFiniteSet({a}) /\ \A x \in {a} : f[x] \in Int
      BY <1>2, FS_Singleton
    <2>2. SumFunctionOnSet(f, {a}) = f[a] + SumFunctionOnSet(f, {a} \ {a})
      BY <2>1, SumRemoves
    <2>3. {a} \ {a} = {}
      OBVIOUS
    <2> QED BY <1>1, <1>2, <2>2, <2>3
  <1>3. ASSUME NEW a, NEW b, a # b, f[a] \in Int, f[b] \in Int
        PROVE  SumFunctionOnSet(f, {a, b}) = f[a] + f[b]
    <2>1. IsFiniteSet({a, b}) /\ \A x \in {a, b} : f[x] \in Int
      <3>1. IsFiniteSet({a} \cup {b})
        BY FS_Singleton, FS_AddElement
      <3>2. {a} \cup {b} = {a, b}
        OBVIOUS
      <3> QED BY <1>3, <3>1, <3>2
    <2>2. SumFunctionOnSet(f, {a, b}) = f[a] + SumFunctionOnSet(f, {a, b} \ {a})
      BY <2>1, SumRemoves
    <2>3. {a, b} \ {a} = {b}
      BY <1>3
    <2> QED BY <1>2, <1>3, <2>2, <2>3
  <1> QED BY <1>1, <1>2, <1>3

(* A step that only takes buckets away keeps the books.                          *)
LEMMA BooksShrink ==
    ASSUME NEW w \in Carriages, NEW B, Books(w, B), NEW C, InBooks(w, C),
           \A k \in SoundOf(C) : k \in SoundOf(B) /\ C[k] = B[k]
    PROVE  Books(w, C)
  <1> DEFINE none == {}
  <1>1. none \in SUBSET SoundOf(C) /\ none \in SUBSET SoundOf(B)
    OBVIOUS
  <1>2. \A k \in SoundOf(C) \ none : k \in SoundOf(B) \ none /\ C[k] = B[k]
    OBVIOUS
  <1>3. \A k \in none :
           /\ none = {k} /\ \A j \in none : B[j].ids \subseteq C[k].ids
           /\ Charge(w, C[k]) <= SumFunctionOnSet(Charges(w, B), none)
           /\ ThisMonth(w, C[k]) <= SumFunctionOnSet(ThisMonths(w, B), none)
    OBVIOUS
  <1> HIDE DEF none
  <1> QED BY <1>1, <1>2, <1>3, BooksCarry

(* A step that makes one sound bucket, k, of one, j, or of none.                 *)
Remade(w, B, C, k, j) ==
    /\ \A x \in SoundOf(C) \ {k} : x \in SoundOf(B) \ {j} /\ C[x] = B[x]
    /\ k \in SoundOf(C) =>
          \/ Charge(w, C[k]) = 0 /\ ThisMonth(w, C[k]) = 0
          \/ /\ j \in SoundOf(B) /\ B[j].ids \subseteq C[k].ids
             /\ Charge(w, C[k]) <= Charge(w, B[j]) /\ ThisMonth(w, C[k]) <= ThisMonth(w, B[j])

LEMMA BooksRemake ==
    ASSUME NEW w \in Carriages, NEW B, Books(w, B), NEW C, InBooks(w, C), NEW k, NEW j,
           Remade(w, B, C, k, j)
    PROVE  Books(w, C)
  <1> USE DEF Remade
  <1> DEFINE Made == {k} \cap SoundOf(C)
  <1>1. CASE k \in SoundOf(C) /\ Charge(w, C[k]) = 0 /\ ThisMonth(w, C[k]) = 0
    <2>1. Made = {k} /\ Made \in SUBSET SoundOf(C) /\ {} \in SUBSET SoundOf(B)
      BY <1>1
    <2>2. SumFunctionOnSet(Charges(w, B), {}) = 0 /\ SumFunctionOnSet(ThisMonths(w, B), {}) = 0
      BY SumOfFew
    <2> HIDE DEF Made
    <2>3. \A x \in Made :
              /\ Made = {x} /\ \A i \in {} : B[i].ids \subseteq C[x].ids
              /\ Charge(w, C[x]) <= SumFunctionOnSet(Charges(w, B), {})
              /\ ThisMonth(w, C[x]) <= SumFunctionOnSet(ThisMonths(w, B), {})
      BY <1>1, <2>1, <2>2
    <2>4. \A x \in SoundOf(C) \ Made : x \in SoundOf(B) \ {} /\ C[x] = B[x]
      BY <2>1
    <2> QED BY <2>1, <2>3, <2>4, BooksCarry
  <1>2. CASE k \in SoundOf(C) /\ j \in SoundOf(B) /\ B[j].ids \subseteq C[k].ids
             /\ Charge(w, C[k]) <= Charge(w, B[j]) /\ ThisMonth(w, C[k]) <= ThisMonth(w, B[j])
    <2>1. Made = {k} /\ Made \in SUBSET SoundOf(C) /\ {j} \in SUBSET SoundOf(B)
      BY <1>2
    <2>2. SumFunctionOnSet(Charges(w, B), {j}) = Charge(w, B[j])
          /\ SumFunctionOnSet(ThisMonths(w, B), {j}) = ThisMonth(w, B[j])
      <3>1. /\ Charges(w, B)[j] \in Nat /\ ThisMonths(w, B)[j] \in Nat
            /\ Charges(w, B)[j] = Charge(w, B[j]) /\ ThisMonths(w, B)[j] = ThisMonth(w, B[j])
        <4>1. InBooks(w, B)
          BY DEF Books
        <4>2. SoundOf(B) \subseteq DOMAIN B
          BY DEF SoundOf
        <4>3. Charges(w, B)[j] \in Nat /\ ThisMonths(w, B)[j] \in Nat
          BY <1>2, <4>1, SoundTerms
        <4> QED BY <1>2, <4>2, <4>3 DEF Charges, ThisMonths
      <3>2. Charges(w, B)[j] \in Int /\ ThisMonths(w, B)[j] \in Int
        BY <3>1
      <3>3. SumFunctionOnSet(Charges(w, B), {j}) = Charges(w, B)[j]
        BY <3>2, SumOfFew
      <3>4. SumFunctionOnSet(ThisMonths(w, B), {j}) = ThisMonths(w, B)[j]
        BY <3>2, SumOfFew
      <3> QED BY <3>1, <3>3, <3>4
    <2> HIDE DEF Made
    <2>3. \A x \in Made :
              /\ Made = {x} /\ \A i \in {j} : B[i].ids \subseteq C[x].ids
              /\ Charge(w, C[x]) <= SumFunctionOnSet(Charges(w, B), {j})
              /\ ThisMonth(w, C[x]) <= SumFunctionOnSet(ThisMonths(w, B), {j})
      BY <1>2, <2>1, <2>2
    <2>4. \A x \in SoundOf(C) \ Made : x \in SoundOf(B) \ {j} /\ C[x] = B[x]
      BY <2>1
    <2> QED BY <2>1, <2>3, <2>4, BooksCarry
  <1>3. CASE k \notin SoundOf(C)
    <2>1. \A x \in SoundOf(C) : x \in SoundOf(B) /\ C[x] = B[x]
      BY <1>3
    <2> QED BY <2>1, BooksShrink
  <1> QED BY <1>1, <1>2, <1>3

LEMMA PutIs ==
    ASSUME NEW f, NEW k, NEW v
    PROVE  /\ DOMAIN Totals!Put(f, k, v) = DOMAIN f \cup {k} /\ Totals!Put(f, k, v)[k] = v
           /\ \A x \in DOMAIN f \ {k} : Totals!Put(f, k, v)[x] = f[x]
           /\ Totals!Put(f, k, v) = [x \in DOMAIN f \cup {k} |-> Totals!Put(f, k, v)[x]]
  BY DEF Totals!Put

LEMMA DropIs ==
    ASSUME NEW f, NEW ks
    PROVE  /\ DOMAIN Totals!Drop(f, ks) = DOMAIN f \ ks
           /\ \A x \in DOMAIN f \ ks : Totals!Drop(f, ks)[x] = f[x]
           /\ Totals!Drop(f, ks) = [x \in DOMAIN f \ ks |-> Totals!Drop(f, ks)[x]]
  BY DEF Totals!Drop, Totals!Restrict

(* A reading turns what was pending into bytes charged, or drops it.             *)
LEMMA FoldedIs ==
    ASSUME NEW w \in Carriages, NEW b \in TotalBucket, FiguresInOrder(w, b), NEW id \in Identities, NEW merged \in BOOLEAN
    PROVE  LET F == Totals!Folded(b, id, w.counter[id], w.clock, merged)
           IN  /\ F \in TotalBucket /\ FiguresInOrder(w, F)
               /\ F.id = b.id /\ F.mac = b.mac /\ F.ids = b.ids \cup {id} /\ F.doubt = (b.doubt \/ merged)
               /\ b.id = id => Charge(w, F) <= Charge(w, b) /\ ThisMonth(w, F) <= ThisMonth(w, b)
  <1> DEFINE reading == w.counter[id]
             t == w.clock
             newMonth == Totals!Month(t) # b.month
             measured == ~newMonth /\ b.polled # None /\ t - b.polled <= MaxGap
             added == IF measured THEN Totals!Advance(reading, b.prev, (t - b.polled) * Rate) ELSE 0
             F == Totals!Folded(b, id, reading, t, merged)
  <1>1. reading \in Nat /\ t \in Nat /\ Totals!Month(t) \in Nat /\ MaxGap \in Nat /\ Rate \in Nat
    BY OdometersSuit, MonthsGo DEF Carriages
  <1>2. /\ b.life \in Int /\ b.anchor \in Int /\ b.filed \in Int /\ b.month \in Int /\ b.prev \in Nat
        /\ b.polled \in Int \cup {None} /\ b.ids \in SUBSET Identities
    BY BucketFields
  <1>3. /\ 0 <= b.filed /\ b.filed <= b.anchor /\ b.anchor <= b.life /\ b.month <= Totals!Month(t)
        /\ Totals!Monthly(b) = b.life - b.anchor
    BY <1>2, MonthlyIs DEF FiguresInOrder
  <1>4. added \in Nat /\ (measured => added <= Totals!Believed(b.prev, reading)) /\ (~measured => added = 0)
    <2> DEFINE gap == t - b.polled
               ceiling == gap * Rate
               cap == MaxGap * Rate
    <2>1. measured => gap \in Int /\ gap <= MaxGap
      BY <1>1, <1>2
    <2>2. measured => ceiling \in Int /\ cap \in Nat /\ ceiling <= cap
      <3> HIDE DEF gap, measured
      <3> QED BY <1>1, <2>1
    <2>3. added = (IF measured THEN Totals!Advance(reading, b.prev, ceiling) ELSE 0)
      OBVIOUS
    <2>4. Totals!Believed(b.prev, reading) =
             IF reading >= b.prev THEN reading - b.prev ELSE IF reading <= cap THEN reading ELSE 0
      BY DEF Totals!Believed
    <2> HIDE DEF measured, added, ceiling, cap, reading
    <2> QED BY <1>1, <1>2, <2>2, <2>3, <2>4 DEF Totals!Advance
  <1>5. /\ F.life = b.life + added /\ F.month = Totals!Month(t) /\ F.prev = reading /\ F.polled = t
        /\ F.filed = (IF newMonth THEN b.filed + Totals!Monthly(b) ELSE b.filed)
        /\ F.anchor = (IF newMonth THEN b.life ELSE b.anchor)
        /\ F.id = b.id /\ F.mac = b.mac /\ F.ids = b.ids \cup {id} /\ F.doubt = (b.doubt \/ merged)
    BY <1>2 DEF TotalBucket, Totals!Folded
  <1>6. F \in TotalBucket
    <2>1. HashOf[id] \in Totals!Range(HashOf)
      BY OdometersSuit DEF Totals!Range
    <2>2. /\ F.life \in Int /\ F.anchor \in Int /\ F.filed \in Int /\ F.month \in Int
      <3> HIDE DEF F, added
      <3> QED BY <1>1, <1>2, <1>3, <1>4, <1>5
    <2>4. b.id \in Identities \cup {None} /\ b.mac \in Macs /\ b.doubt \in BOOLEAN /\ b.hash \in Totals!Range(HashOf) \cup {None}
      BY BucketFields
    <2>5. F = [b EXCEPT !.hash = F.hash, !.filed = F.filed, !.anchor = F.anchor, !.month = F.month,
                        !.life = F.life, !.prev = F.prev, !.polled = F.polled, !.seen = F.seen, !.ids = F.ids,
                        !.doubt = F.doubt]
      BY DEF TotalBucket, Totals!Folded
    <2>6. F.seen = t /\ F.hash = IF HashOf[id] = None THEN b.hash ELSE HashOf[id]
      BY DEF TotalBucket, Totals!Folded
    <2> HIDE DEF F
    <2>7. /\ F.hash \in Totals!Range(HashOf) \cup {None} /\ F.prev \in Nat /\ F.polled \in Int \cup {None}
          /\ F.seen \in Int /\ F.ids \in SUBSET Identities /\ F.doubt \in BOOLEAN
      BY <1>1, <1>2, <1>5, <2>1, <2>4, <2>6
    <2> QED BY <2>2, <2>5, <2>7 DEF TotalBucket
  <1>7. FiguresInOrder(w, F)
    <2> HIDE DEF F, added
    <2> QED BY <1>1, <1>2, <1>3, <1>4, <1>5 DEF FiguresInOrder
  <1>8. ASSUME b.id = id
        PROVE  Charge(w, F) <= Charge(w, b) /\ ThisMonth(w, F) <= ThisMonth(w, b)
    <2>1. Awaited(w, F) = 0
      <3> HIDE DEF F
      <3>1. w.counter[F.id] = reading
        BY <1>5, <1>8
      <3>2. Totals!Believed(reading, reading) = 0
        BY <1>1, BeliefsAddUp
      <3> QED BY <1>5, <3>1, <3>2 DEF Awaited
    <2>2. Awaited(w, b) \in Nat /\ (measured => Awaited(w, b) = Totals!Believed(b.prev, reading))
      BY <1>1, <1>2, <1>8, BeliefsAddUp DEF Awaited
    <2>3. Totals!Monthly(F) = F.life - F.anchor
      <3> HIDE DEF F, added
      <3>1. F.life \in Int /\ F.anchor \in Int /\ F.anchor <= F.life
        BY <1>2, <1>3, <1>4, <1>5
      <3> QED BY <3>1, MonthlyIs
    <2> HIDE DEF F, added
    <2>4. Charge(w, F) = b.life + added /\ Charge(w, b) = b.life + Awaited(w, b)
      BY <2>1, <1>2, <1>4, <1>5 DEF Charge
    <2>5. added <= Awaited(w, b)
      BY <1>4, <2>2
    <2>6. CASE newMonth
      <3>1. ~measured
        BY <2>6
      <3>2. ThisMonth(w, F) = 0 /\ ThisMonth(w, b) = 0
        BY <1>2, <1>3, <1>4, <1>5, <2>1, <2>3, <2>6, <3>1 DEF ThisMonth
      <3> QED BY <1>2, <1>4, <2>2, <2>4, <2>5, <3>2
    <2>7. CASE ~newMonth
      <3>1. ThisMonth(w, F) = (b.life + added) - b.anchor
        BY <1>2, <1>4, <1>5, <2>1, <2>3, <2>7 DEF ThisMonth
      <3>2. ThisMonth(w, b) = (b.life - b.anchor) + Awaited(w, b)
        BY <1>3, <2>7 DEF ThisMonth
      <3> HIDE DEF newMonth, measured
      <3> QED BY <1>2, <1>4, <2>2, <2>4, <2>5, <3>1, <3>2
    <2> QED BY <2>6, <2>7
  <1>9. /\ F \in TotalBucket /\ FiguresInOrder(w, F)
        /\ F.id = b.id /\ F.mac = b.mac /\ F.ids = b.ids \cup {id} /\ F.doubt = (b.doubt \/ merged)
        /\ b.id = id => Charge(w, F) <= Charge(w, b) /\ ThisMonth(w, F) <= ThisMonth(w, b)
    <2> HIDE DEF F
    <2> QED BY <1>5, <1>6, <1>7, <1>8
  <1> QED BY <1>9

(* Two buckets folded into one hold between them what it holds.                  *)
LEMMA MergedIs ==
    ASSUME NEW w \in Carriages, NEW s \in TotalBucket, NEW v \in TotalBucket,
           FiguresInOrder(w, s), FiguresInOrder(w, v)
    PROVE  LET M == Totals!Merged(s, v)
           IN  /\ M \in TotalBucket /\ FiguresInOrder(w, M) /\ M.polled = None
               /\ M.id = v.id /\ M.mac = v.mac /\ M.ids = v.ids \cup s.ids /\ M.doubt = (v.doubt \/ s.doubt)
               /\ Charge(w, M) = s.life + v.life
               /\ ThisMonth(w, M) <= (IF s.month = Totals!Month(w.clock) THEN Totals!Monthly(s) ELSE 0)
                                      + (IF v.month = Totals!Month(w.clock) THEN Totals!Monthly(v) ELSE 0)
  <1> DEFINE M == Totals!Merged(s, v)
             latest == Totals!Max({v.seen, s.seen})
  <1>1. /\ s.life \in Int /\ s.anchor \in Int /\ s.filed \in Int /\ s.month \in Int /\ s.ids \in SUBSET Identities
        /\ v.life \in Int /\ v.anchor \in Int /\ v.filed \in Int /\ v.month \in Int /\ v.ids \in SUBSET Identities
        /\ s.doubt \in BOOLEAN /\ v.doubt \in BOOLEAN /\ s.seen \in Int /\ v.seen \in Int
        /\ v.id \in Identities \cup {None} /\ v.mac \in Macs /\ v.hash \in Totals!Range(HashOf) \cup {None} /\ v.prev \in Nat
    BY BucketFields
  <1>2. latest \in Int
    BY <1>1, LargerIs
  <1>3. /\ M.life = v.life + s.life /\ M.filed = v.filed + s.filed /\ M.month = v.month /\ M.polled = None
        /\ M.anchor = v.anchor + (IF s.month = v.month THEN s.anchor ELSE s.life)
        /\ M.id = v.id /\ M.mac = v.mac /\ M.ids = v.ids \cup s.ids /\ M.doubt = (v.doubt \/ s.doubt)
    BY DEF TotalBucket, Totals!Merged
  <1>4. M \in TotalBucket
    <2>1. M = [v EXCEPT !.life = M.life, !.filed = M.filed, !.polled = M.polled, !.seen = M.seen,
                        !.ids = M.ids, !.doubt = M.doubt, !.anchor = M.anchor]
          /\ M.seen = latest
      BY DEF TotalBucket, Totals!Merged
    <2>2. M.life \in Int /\ M.anchor \in Int /\ M.filed \in Int
      BY <1>1, <1>3
    <2> HIDE DEF M, latest
    <2>3. M.polled \in Int \cup {None} /\ M.seen \in Int /\ M.ids \in SUBSET Identities /\ M.doubt \in BOOLEAN
      BY <1>1, <1>2, <1>3, <2>1
    <2> QED BY <2>1, <2>2, <2>3 DEF TotalBucket
  <1>5. /\ 0 <= s.filed /\ s.filed <= s.anchor /\ s.anchor <= s.life /\ s.month <= Totals!Month(w.clock)
        /\ 0 <= v.filed /\ v.filed <= v.anchor /\ v.anchor <= v.life /\ v.month <= Totals!Month(w.clock)
        /\ Totals!Month(w.clock) \in Nat
    BY MonthsGo DEF FiguresInOrder, Carriages
  <1> HIDE DEF M
  <1>6. FiguresInOrder(w, M)
    BY <1>1, <1>3, <1>5 DEF FiguresInOrder
  <1>7. Totals!Monthly(M) = M.life - M.anchor /\ Totals!Monthly(s) = s.life - s.anchor /\ Totals!Monthly(v) = v.life - v.anchor
    <2>1. M.life \in Int /\ M.anchor \in Int /\ M.anchor <= M.life
      BY <1>1, <1>3, <1>5
    <2> QED BY <2>1, <1>1, <1>5, MonthlyIs
  <1>8. Charge(w, M) = s.life + v.life
    BY <1>1, <1>3 DEF Charge, Awaited
  <1>9. ThisMonth(w, M) = IF v.month = Totals!Month(w.clock) THEN M.life - M.anchor ELSE 0
    BY <1>1, <1>3, <1>7 DEF ThisMonth, Awaited
  <1>10. ThisMonth(w, M) <= (IF s.month = Totals!Month(w.clock) THEN Totals!Monthly(s) ELSE 0)
                                + (IF v.month = Totals!Month(w.clock) THEN Totals!Monthly(v) ELSE 0)
    BY <1>1, <1>3, <1>5, <1>7, <1>9
  <1> QED BY <1>3, <1>4, <1>6, <1>8, <1>10 DEF M

LEMMA InBooksFrom ==
    ASSUME NEW w, NEW C, IsFiniteSet(DOMAIN C),
           \A k \in DOMAIN C : C[k] \in TotalBucket /\ FiguresInOrder(w, C[k]) /\ (~C[k].doubt => OwnKey(k, C[k]))
    PROVE  InBooks(w, C)
  BY DEF InBooks, BucketsTyped, SoundOf

LEMMA BooksSay ==
    ASSUME NEW w, NEW B, Books(w, B)
    PROVE  /\ IsFiniteSet(DOMAIN B)
           /\ \A k \in DOMAIN B : B[k] \in TotalBucket /\ FiguresInOrder(w, B[k]) /\ (~B[k].doubt => OwnKey(k, B[k]))
           /\ \A k : k \in SoundOf(B) <=> k \in DOMAIN B /\ ~B[k].doubt
  BY DEF Books, InBooks, BucketsTyped, SoundOf

(* The bucket a reading is about to go into is known, adopted from j, or new.    *)
Ready(w, B, D, key, j, id, merged) ==
    /\ IsFiniteSet(DOMAIN D) /\ key \in DOMAIN D /\ merged \in BOOLEAN
    /\ \A k \in DOMAIN D : D[k] \in TotalBucket /\ FiguresInOrder(w, D[k])
    /\ \A k \in SoundOf(D) \ {key} : k \in SoundOf(B) \ {j} /\ D[k] = B[k]
    /\ D[key].doubt \/ merged \/
         /\ key = id /\ D[key].id = id
         /\ \/ Charge(w, D[key]) = 0 /\ ThisMonth(w, D[key]) = 0
            \/ /\ j \in SoundOf(B) /\ B[j].ids \subseteq D[key].ids
               /\ Charge(w, D[key]) <= Charge(w, B[j]) /\ ThisMonth(w, D[key]) <= ThisMonth(w, B[j])

LEMMA ReadingIsBooked ==
    ASSUME NEW w \in Carriages, NEW B, Books(w, B), NEW id \in Identities, NEW key, NEW j, NEW D,
           NEW merged, Ready(w, B, D, key, j, id, merged)
    PROVE  LET G == Totals!Folded(D[key], id, w.counter[id], w.clock, merged)
           IN  /\ G \in TotalBucket /\ G.id = D[key].id /\ G.mac = D[key].mac
               /\ Books(w, [D EXCEPT ![key] = G])
  <1> USE DEF Ready
  <1> DEFINE b == D[key]
             G == Totals!Folded(b, id, w.counter[id], w.clock, merged)
             C == [D EXCEPT ![key] = G]
  <1>1. b \in TotalBucket /\ FiguresInOrder(w, b)
    OBVIOUS
  <1>3. /\ G \in TotalBucket /\ FiguresInOrder(w, G) /\ G.id = b.id /\ G.mac = b.mac /\ G.ids = b.ids \cup {id}
        /\ G.doubt = (b.doubt \/ merged)
        /\ b.id = id => Charge(w, G) <= Charge(w, b) /\ ThisMonth(w, G) <= ThisMonth(w, b)
    <2> HIDE DEF b
    <2> QED BY <1>1, FoldedIs
  <1> HIDE DEF G
  <1>4. /\ DOMAIN C = DOMAIN D /\ C[key] = G
        /\ \A k \in DOMAIN D \ {key} : C[k] = D[k]
    OBVIOUS
  <1> HIDE DEF C
  <1>5. ~G.doubt => key = id /\ b.id = id /\ ~b.doubt
    BY <1>3
  <1>6. \A k \in SoundOf(C) \ {key} : k \in SoundOf(B) \ {j} /\ C[k] = B[k]
    <2>1. \A k \in SoundOf(C) \ {key} : k \in SoundOf(D) \ {key} /\ C[k] = D[k]
      BY <1>4 DEF SoundOf
    <2> QED BY <2>1
  <1>7. \A k \in DOMAIN C : C[k] \in TotalBucket /\ FiguresInOrder(w, C[k]) /\ (~C[k].doubt => OwnKey(k, C[k]))
    <2> SUFFICES ASSUME NEW k \in DOMAIN C
                 PROVE  C[k] \in TotalBucket /\ FiguresInOrder(w, C[k]) /\ (~C[k].doubt => OwnKey(k, C[k]))
      OBVIOUS
    <2>1. CASE k = key
      BY <1>3, <1>4, <1>5, <2>1 DEF OwnKey
    <2>2. CASE k # key
      <3>1. C[k] = D[k] /\ k \in DOMAIN D
        BY <1>4, <2>2
      <3>2. ~C[k].doubt => k \in SoundOf(B) /\ C[k] = B[k]
        BY <1>6, <2>2 DEF SoundOf
      <3> QED BY <3>1, <3>2, BooksSay
    <2> QED BY <2>1, <2>2
  <1>8. InBooks(w, C)
    BY <1>4, <1>7, InBooksFrom
  <1>9. key \in SoundOf(C) =>
           \/ Charge(w, C[key]) = 0 /\ ThisMonth(w, C[key]) = 0
           \/ /\ j \in SoundOf(B) /\ B[j].ids \subseteq C[key].ids
              /\ Charge(w, C[key]) <= Charge(w, B[j]) /\ ThisMonth(w, C[key]) <= ThisMonth(w, B[j])
    <2> SUFFICES ASSUME key \in SoundOf(C)
                 PROVE  \/ Charge(w, G) = 0 /\ ThisMonth(w, G) = 0
                        \/ /\ j \in SoundOf(B) /\ B[j].ids \subseteq G.ids
                           /\ Charge(w, G) <= Charge(w, B[j]) /\ ThisMonth(w, G) <= ThisMonth(w, B[j])
      BY <1>4
    <2>1. ~G.doubt /\ ~b.doubt /\ ~merged /\ b.id = id /\ key = id
      BY <1>3, <1>4, <1>5 DEF SoundOf
    <2>2. Charge(w, G) <= Charge(w, b) /\ ThisMonth(w, G) <= ThisMonth(w, b) /\ b.ids \subseteq G.ids
      BY <1>3, <2>1
    <2>3. OwnKey(key, G)
      BY <1>3, <2>1 DEF OwnKey
    <2>4. Charge(w, G) \in Nat /\ ThisMonth(w, G) \in Nat
      BY <1>3, <2>3, TermsAreBytes
    <2>5. CASE Charge(w, b) = 0 /\ ThisMonth(w, b) = 0
      BY <2>2, <2>4, <2>5
    <2>6. CASE j \in SoundOf(B) /\ B[j].ids \subseteq b.ids
               /\ Charge(w, b) <= Charge(w, B[j]) /\ ThisMonth(w, b) <= ThisMonth(w, B[j])
      <3>1. B[j] \in TotalBucket /\ FiguresInOrder(w, B[j]) /\ OwnKey(j, B[j])
        BY <2>6, BooksSay
      <3>2. Charge(w, B[j]) \in Nat /\ ThisMonth(w, B[j]) \in Nat
        BY <3>1, TermsAreBytes
      <3>3. Charge(w, b) \in Int /\ ThisMonth(w, b) \in Int
        <4>1. OwnKey(j, B[j]) /\ w.counter[b.id] \in Nat
          BY <3>1, <2>1 DEF Carriages
        <4>2. Awaited(w, b) \in Int
          <5>1. b.prev \in Nat
            BY <1>1, BucketFields
          <5>2. Totals!Believed(b.prev, w.counter[b.id]) \in Nat
            BY <4>1, <5>1, BeliefIsNat
          <5> QED BY <5>2 DEF Awaited
        <4>3. Totals!Monthly(b) \in Int /\ b.life \in Int
          BY <1>1, BucketFields, MonthlyIs
        <4> QED BY <4>2, <4>3 DEF Charge, ThisMonth
      <3>4. Charge(w, G) <= Charge(w, B[j]) /\ ThisMonth(w, G) <= ThisMonth(w, B[j])
        BY <2>2, <2>4, <2>6, <3>2, <3>3
      <3> QED BY <2>2, <2>6, <3>4
    <2> QED BY <2>1, <2>5, <2>6
  <1>10. Books(w, C)
    <2>1. Remade(w, B, C, key, j)
      BY <1>6, <1>9 DEF Remade
    <2> QED BY <1>8, <2>1, BooksRemake
  <1> QED BY <1>3, <1>10 DEF C, G

LEMMA KnownIsReady ==
    ASSUME NEW w \in Carriages, NEW B, Books(w, B), NEW id \in Identities, NEW key \in DOMAIN B,
           NEW merged \in BOOLEAN, merged \/ key = id
    PROVE  Ready(w, B, B, key, key, id, merged)
  <1>1. /\ IsFiniteSet(DOMAIN B)
        /\ \A k \in DOMAIN B : B[k] \in TotalBucket /\ FiguresInOrder(w, B[k]) /\ (~B[k].doubt => OwnKey(k, B[k]))
        /\ \A k : k \in SoundOf(B) <=> k \in DOMAIN B /\ ~B[k].doubt
    BY BooksSay
  <1>2. ASSUME ~B[key].doubt PROVE B[key].id = key /\ Charge(w, B[key]) \in Nat /\ ThisMonth(w, B[key]) \in Nat
    BY <1>1, <1>2, TermsAreBytes DEF OwnKey
  <1> QED BY <1>1, <1>2 DEF Ready

LEMMA NewIsReady ==
    ASSUME NEW w \in Carriages, NEW B, Books(w, B), NEW id \in Identities, NEW key, key \notin DOMAIN B,
           NEW merged \in BOOLEAN, merged \/ key = id
    PROVE  Ready(w, B, Totals!Put(B, key, Totals!Bucket(id, MacOf[id], 0, w.clock)), key, key, id, merged)
  <1> DEFINE b == Totals!Bucket(id, MacOf[id], 0, w.clock)
             D == Totals!Put(B, key, b)
  <1>1. /\ IsFiniteSet(DOMAIN B)
        /\ \A k \in DOMAIN B : B[k] \in TotalBucket /\ FiguresInOrder(w, B[k]) /\ (~B[k].doubt => OwnKey(k, B[k]))
        /\ \A k : k \in SoundOf(B) <=> k \in DOMAIN B /\ ~B[k].doubt
    BY BooksSay
  <1>2. b \in TotalBucket /\ FiguresInOrder(w, b) /\ b.id = id /\ Charge(w, b) = 0 /\ ThisMonth(w, b) = 0
    <2>1. Totals!Month(w.clock) \in Nat /\ w.clock \in Nat /\ MacOf[id] \in Macs
      BY MonthsGo, OdometersSuit DEF Carriages
    <2>2. b \in TotalBucket
      BY <2>1 DEF Totals!Bucket, TotalBucket
    <2>3. b.life = 0 /\ b.anchor = 0 /\ b.filed = 0 /\ b.month = Totals!Month(w.clock) /\ b.polled = None /\ b.id = id
      BY DEF Totals!Bucket
    <2> HIDE DEF b
    <2>4. Totals!Monthly(b) = 0
      BY <2>3, MonthlyIs
    <2> QED BY <2>1, <2>2, <2>3, <2>4 DEF FiguresInOrder, Charge, ThisMonth, Awaited
  <1>3. DOMAIN D = DOMAIN B \cup {key} /\ D[key] = b /\ \A x \in DOMAIN B \ {key} : D[x] = B[x]
    <2> HIDE DEF b
    <2> QED BY DEF Totals!Put
  <1>4. IsFiniteSet(DOMAIN D)
    BY <1>1, <1>3, FS_AddElement
  <1> HIDE DEF b, D
  <1>5. \A k \in DOMAIN D : D[k] \in TotalBucket /\ FiguresInOrder(w, D[k])
    BY <1>1, <1>2, <1>3
  <1>6. \A k \in SoundOf(D) \ {key} : k \in SoundOf(B) \ {key} /\ D[k] = B[k]
    BY <1>3 DEF SoundOf
  <1>7. Ready(w, B, D, key, key, id, merged)
    BY <1>2, <1>3, <1>4, <1>5, <1>6 DEF Ready
  <1> QED BY <1>7 DEF D, b

(* reanchor: the orphan is taken away and its bytes go on under the new key.     *)
LEMMA AdoptedIsReady ==
    ASSUME NEW w \in Carriages, NEW B, Books(w, B), NEW id \in Identities, NEW key, key \notin DOMAIN B,
           NEW merged \in BOOLEAN, merged \/ key = id, NEW orphan \in DOMAIN B
    PROVE  Ready(w, B, Totals!Put(Totals!Drop(B, {Totals!KeyIn(B[orphan])}), key,
                           [B[orphan] EXCEPT !.id = id, !.mac = MacOf[id], !.polled = None]),
                 key, orphan, id, merged)
  <1> DEFINE old == Totals!KeyIn(B[orphan])
             o == B[orphan]
             b == [o EXCEPT !.id = id, !.mac = MacOf[id], !.polled = None]
             D == Totals!Put(Totals!Drop(B, {old}), key, b)
  <1>1. /\ IsFiniteSet(DOMAIN B)
        /\ \A k \in DOMAIN B : B[k] \in TotalBucket /\ FiguresInOrder(w, B[k]) /\ (~B[k].doubt => OwnKey(k, B[k]))
        /\ \A k : k \in SoundOf(B) <=> k \in DOMAIN B /\ ~B[k].doubt
    BY BooksSay
  <1>2. o \in TotalBucket /\ FiguresInOrder(w, o) /\ (~o.doubt => OwnKey(orphan, o))
    BY <1>1
  <1>3. ~o.doubt => old = orphan
    BY <1>2, OdometersSuit DEF OwnKey, Totals!KeyIn, Totals!KeyOf
  <1> HIDE DEF o, old
  <1>4. /\ b \in TotalBucket /\ b.id = id /\ b.doubt = o.doubt /\ b.ids = o.ids /\ b.life = o.life
        /\ b.anchor = o.anchor /\ b.filed = o.filed /\ b.month = o.month /\ b.polled = None
    <2>1. MacOf[id] \in Macs
      BY OdometersSuit
    <2> QED BY <1>2, <2>1 DEF TotalBucket
  <1> HIDE DEF b
  <1>5. FiguresInOrder(w, b)
    BY <1>2, <1>4 DEF FiguresInOrder
  <1>6. ASSUME ~b.doubt
        PROVE  orphan \in SoundOf(B) /\ Charge(w, b) <= Charge(w, o) /\ ThisMonth(w, b) <= ThisMonth(w, o)
    <2>1. orphan \in SoundOf(B)
      BY <1>1, <1>4, <1>6 DEF o
    <2>2. Awaited(w, o) \in Nat /\ o.life \in Nat /\ Totals!Monthly(o) \in Nat
      BY <1>2, <1>4, <1>6, TermsAreBytes
    <2>3. Awaited(w, b) = 0 /\ Totals!Monthly(b) = Totals!Monthly(o)
      BY <1>4 DEF Awaited, Totals!Monthly
    <2>4. Charge(w, b) = o.life + 0 /\ Charge(w, o) = o.life + Awaited(w, o)
      BY <1>4, <2>3 DEF Charge
    <2>5. ThisMonth(w, b) = (IF o.month = Totals!Month(w.clock) THEN Totals!Monthly(o) + 0 ELSE 0)
          /\ ThisMonth(w, o) = (IF o.month = Totals!Month(w.clock) THEN Totals!Monthly(o) + Awaited(w, o) ELSE 0)
      BY <1>4, <2>3 DEF ThisMonth
    <2> QED BY <2>1, <2>2, <2>4, <2>5
  <1>7. /\ DOMAIN D = (DOMAIN B \ {old}) \cup {key} /\ D[key] = b
        /\ \A x \in (DOMAIN B \ {old}) \ {key} : D[x] = B[x]
    <2>1. DOMAIN Totals!Drop(B, {old}) = DOMAIN B \ {old} /\ \A x \in DOMAIN B \ {old} : Totals!Drop(B, {old})[x] = B[x]
      BY DropIs
    <2> HIDE DEF b
    <2> QED BY <2>1 DEF Totals!Put
  <1> HIDE DEF D
  <1>8. IsFiniteSet(DOMAIN D)
    <2>1. IsFiniteSet(DOMAIN B \ {old})
      BY <1>1, FS_Subset
    <2> QED BY <1>7, <2>1, FS_AddElement
  <1>9. \A k \in DOMAIN D : D[k] \in TotalBucket /\ FiguresInOrder(w, D[k])
    BY <1>1, <1>4, <1>5, <1>7
  <1>10. \A k \in SoundOf(D) \ {key} : k \in SoundOf(B) \ {orphan} /\ D[k] = B[k]
    <2> SUFFICES ASSUME NEW k \in SoundOf(D) \ {key} PROVE k \in SoundOf(B) \ {orphan} /\ D[k] = B[k]
      OBVIOUS
    <2>1. k \in DOMAIN B /\ k # old /\ D[k] = B[k] /\ ~B[k].doubt
      BY <1>7 DEF SoundOf
    <2>2. k # orphan
      BY <1>3, <2>1 DEF o
    <2> QED BY <1>1, <2>1, <2>2
  <1>11. Ready(w, B, D, key, orphan, id, merged)
    <2>1. b.doubt \/ (b.id = id /\ orphan \in SoundOf(B) /\ B[orphan].ids \subseteq b.ids
                      /\ Charge(w, b) <= Charge(w, B[orphan]) /\ ThisMonth(w, b) <= ThisMonth(w, B[orphan]))
      BY <1>4, <1>6 DEF o
    <2> QED BY <1>7, <1>8, <1>9, <1>10, <2>1 DEF Ready
  <1> QED BY <1>11 DEF D, b, o, old

LEMMA ReadingIsKept ==
    ASSUME NEW w \in Carriages, NEW T, Shaped(T), Books(w, T.buckets), NEW id \in Identities, NEW live
    PROVE  LET N == Totals!Observe(T, id, w.counter[id], live, w.clock)
           IN  /\ Shaped(N) /\ Books(w, N.buckets)
               /\ InPlace(T) /\ Totals!KeyFor(T, id) \in DOMAIN T.buckets \cup {id} => InPlace(N)
  <1> DEFINE B == T.buckets
             key == Totals!KeyFor(T, id)
             merged == id \in T.userMerged
             K == IF key \in DOMAIN B THEN T ELSE Totals!AdoptOrCreate(T, id, key, live, w.clock)
             D == K.buckets
             G == Totals!Folded(D[key], id, w.counter[id], w.clock, merged)
             N == Totals!Observe(T, id, w.counter[id], live, w.clock)
             fresh == Totals!Put(B, key, Totals!Bucket(id, MacOf[id], 0, w.clock))
             claimed(o) == Totals!Put(Totals!Drop(B, {Totals!KeyIn(B[o])}), key,
                             [B[o] EXCEPT !.id = id, !.mac = MacOf[id], !.polled = None])
  <1>1. Shaped(T) /\ Books(w, B)
    BY DEF CoreIsKept
  <1>2. merged \in BOOLEAN /\ (merged \/ key = id)
    BY DEF Totals!KeyFor
  <1>5. N = [K EXCEPT !.buckets[key] = G]
    BY DEF Totals!Observe
  <1>3. CASE key \in DOMAIN B
    <2>1. K = T /\ D = B
      BY <1>3
    <2>2. Ready(w, B, D, key, key, id, merged)
      <3> HIDE DEF B, key, merged, K, D
      <3> QED BY <1>1, <1>2, <1>3, <2>1, KnownIsReady
    <2>3. (InPlace(T) => \A k \in DOMAIN D : Totals!KeyIn(D[k]) = k)
      BY <2>1 DEF InPlace
    <2>4. \E j : Ready(w, B, D, key, j, id, merged)
      <3> HIDE DEF B, key, merged, K, D
      <3> QED BY <2>2
    <2> QED
      <3> HIDE DEF B, key, merged, K, D
      <3>1. Shaped(K)
        BY <1>1, <2>1
      <3>2. PICK j : Ready(w, B, D, key, j, id, merged)
        BY <2>4
      <3>3. G \in TotalBucket /\ G.id = D[key].id /\ G.mac = D[key].mac /\ Books(w, [D EXCEPT ![key] = G])
        BY <1>1, <3>2, ReadingIsBooked
      <3> HIDE DEF G
      <3>4. N = [K EXCEPT !.buckets[key] = G]
        BY <1>5
      <3>5. N.buckets = [D EXCEPT ![key] = G] /\ Shaped(N)
        BY <3>1, <3>4 DEF Shaped, D
      <3>6. Totals!KeyIn(G) = Totals!KeyIn(D[key])
        BY <3>3 DEF Totals!KeyIn
      <3>7. InPlace(T) => InPlace(N)
        BY <2>3, <3>5, <3>6 DEF InPlace
      <3> HIDE DEF N
      <3>8. Shaped(N) /\ Books(w, N.buckets) /\ (InPlace(T) => InPlace(N))
        BY <3>3, <3>5, <3>7
      <3> QED BY <3>8 DEF N, B, key
  <1>4. CASE key \notin DOMAIN B
    <2>1. /\ K.buckets = fresh \/ \E o \in DOMAIN B : Totals!KeyIn(B[o]) # key /\ K.buckets = claimed(o)
          /\ Shaped(K)
      <3>1. K = Totals!AdoptOrCreate(T, id, key, live, w.clock)
        BY <1>4
      <3>2. ASSUME NEW o, o \in Totals!Holders(T, id, key) \/ o \in Totals!OnMac(T, id, key),
                   K = Totals!Reanchor(T, o, id, key)
            PROVE  (\E x \in DOMAIN B : Totals!KeyIn(B[x]) # key /\ K.buckets = claimed(x)) /\ Shaped(K)
        <4>1. o \in DOMAIN B /\ Totals!KeyIn(B[o]) # key
          BY <3>2 DEF Totals!Holders, Totals!OnMac
        <4> HIDE DEF K, D
        <4>2. K.buckets = claimed(o)
          BY <1>1, <3>2 DEF Shaped, Totals!Reanchor
        <4>3. claimed(o) = [x \in DOMAIN claimed(o) |-> claimed(o)[x]]
          BY DEF Totals!Put
        <4>4. K = [buckets |-> K.buckets, shared |-> K.shared, aliases |-> K.aliases, userMerged |-> K.userMerged]
          BY <1>1, <3>2 DEF Shaped, Totals!Reanchor
        <4> HIDE DEF claimed
        <4> QED BY <4>1, <4>2, <4>3, <4>4 DEF Shaped
      <3>3. ASSUME K = [T EXCEPT !.buckets = Totals!Put(@, key, Totals!Bucket(id, MacOf[id], 0, w.clock))]
            PROVE  K.buckets = fresh /\ Shaped(K)
        <4> HIDE DEF K, D
        <4>1. K.buckets = fresh
          BY <1>1, <3>3 DEF Shaped
        <4>2. fresh = [x \in DOMAIN fresh |-> fresh[x]]
          BY DEF Totals!Put
        <4>3. K = [buckets |-> K.buckets, shared |-> K.shared, aliases |-> K.aliases, userMerged |-> K.userMerged]
          BY <1>1, <3>3 DEF Shaped
        <4> HIDE DEF fresh
        <4> QED BY <4>1, <4>2, <4>3 DEF Shaped
      <3>4. Totals!Adoptable(T, Totals!Holders(T, id, key), live) => (CHOOSE k \in Totals!Holders(T, id, key) : TRUE) \in Totals!Holders(T, id, key)
        <4>1. Totals!Adoptable(T, Totals!Holders(T, id, key), live) => Totals!Holders(T, id, key) # {}
          BY FS_EmptySet, TotalsCount DEF Totals!Adoptable
        <4> QED BY <4>1
      <3>5. Totals!Adoptable(T, Totals!OnMac(T, id, key), live) => (CHOOSE k \in Totals!OnMac(T, id, key) : TRUE) \in Totals!OnMac(T, id, key)
        <4>1. Totals!Adoptable(T, Totals!OnMac(T, id, key), live) => Totals!OnMac(T, id, key) # {}
          BY FS_EmptySet, TotalsCount DEF Totals!Adoptable
        <4> QED BY <4>1
      <3> HIDE DEF K, D, key, B, claimed, fresh
      <3> QED BY <3>1, <3>2, <3>3, <3>4, <3>5 DEF Totals!AdoptOrCreate
    <2>2. \E j : Ready(w, B, D, key, j, id, merged)
      <3>1. CASE D = fresh
        <4> HIDE DEF B, key, merged, D, K
        <4> QED BY <1>1, <1>2, <1>4, <3>1, NewIsReady
      <3>2. ASSUME NEW o \in DOMAIN B, D = claimed(o) PROVE \E j : Ready(w, B, D, key, j, id, merged)
        <4> HIDE DEF B, key, merged, D, K
        <4>1. Ready(w, B, claimed(o), key, o, id, merged)
          BY <1>1, <1>2, <1>4, AdoptedIsReady
        <4> QED BY <3>2, <4>1
      <3> QED BY <2>1, <3>1, <3>2
    <2>3. D[key].id = id /\ \A k \in DOMAIN D \ {key} : k \in DOMAIN B /\ D[k] = B[k]
      <3>1. CASE D = fresh
        <4>1. Totals!Bucket(id, MacOf[id], 0, w.clock).id = id
          BY DEF Totals!Bucket
        <4> DEFINE b == Totals!Bucket(id, MacOf[id], 0, w.clock)
        <4>2. D = Totals!Put(B, key, b)
          BY <3>1
        <4> HIDE DEF key, B, D, K, b
        <4> QED BY <4>1, <4>2 DEF Totals!Put, b
      <3>2. ASSUME NEW o \in DOMAIN B, D = claimed(o)
            PROVE  D[key].id = id /\ \A k \in DOMAIN D \ {key} : k \in DOMAIN B /\ D[k] = B[k]
        <4> DEFINE b == [B[o] EXCEPT !.id = id, !.mac = MacOf[id], !.polled = None]
                   E == Totals!Drop(B, {Totals!KeyIn(B[o])})
        <4>1. b.id = id
          <5>1. B[o] \in TotalBucket
            BY <1>1, BooksSay
          <5> QED BY <5>1 DEF TotalBucket
        <4> HIDE DEF key, B, D, K, b
        <4>2. DOMAIN E \subseteq DOMAIN B /\ \A k \in DOMAIN E : E[k] = B[k]
          BY DEF Totals!Drop, Totals!Restrict
        <4>3. D = Totals!Put(E, key, b)
          BY <3>2 DEF b
        <4> HIDE DEF E
        <4> QED BY <4>1, <4>2, <4>3 DEF Totals!Put
      <3> QED BY <2>1, <3>1, <3>2
    <2> QED
      <3> HIDE DEF B, key, merged, K, D, fresh, claimed
      <3>2. PICK j : Ready(w, B, D, key, j, id, merged)
        BY <2>2
      <3>3. G \in TotalBucket /\ G.id = D[key].id /\ G.mac = D[key].mac /\ Books(w, [D EXCEPT ![key] = G])
        BY <1>1, <3>2, ReadingIsBooked
      <3> HIDE DEF G
      <3>4. N = [K EXCEPT !.buckets[key] = G]
        BY <1>5
      <3>5. N.buckets = [D EXCEPT ![key] = G] /\ Shaped(N)
        BY <2>1, <3>4 DEF Shaped, D
      <3>6. key = id => Totals!KeyIn(G) = key
        BY <2>3, <3>3, OdometersSuit DEF Totals!KeyIn, Totals!KeyOf
      <3>7. key = id /\ InPlace(T) => InPlace(N)
        BY <2>3, <3>5, <3>6 DEF InPlace, B
      <3> HIDE DEF N
      <3>8. Shaped(N) /\ Books(w, N.buckets) /\ (InPlace(T) /\ key \in DOMAIN B \cup {id} => InPlace(N))
        BY <1>4, <3>3, <3>5, <3>7
      <3> QED BY <3>8 DEF N, B, key
  <1> QED BY <1>3, <1>4

LEMMA BooksOfSome ==
    ASSUME NEW w \in Carriages, NEW B, Books(w, B), NEW C, DOMAIN C \subseteq DOMAIN B,
           \A k \in DOMAIN C : C[k] = B[k]
    PROVE  Books(w, C)
  <1>1. IsFiniteSet(DOMAIN C)
    BY BooksSay, FS_Subset
  <1>2. \A k \in DOMAIN C : C[k] \in TotalBucket /\ FiguresInOrder(w, C[k]) /\ (~C[k].doubt => OwnKey(k, C[k]))
    BY BooksSay
  <1>3. InBooks(w, C)
    BY <1>1, <1>2, InBooksFrom
  <1>4. \A k \in SoundOf(C) : k \in SoundOf(B) /\ C[k] = B[k]
    BY DEF SoundOf
  <1> QED BY <1>3, <1>4, BooksShrink

LEMMA KeptOfSome ==
    ASSUME NEW w \in Carriages, NEW T, CoreIsKept(w, T), NEW N, Shaped(N),
           DOMAIN N.buckets \subseteq DOMAIN T.buckets,
           \A k \in DOMAIN N.buckets : N.buckets[k] = T.buckets[k]
    PROVE  CoreIsKept(w, N) /\ (InPlace(T) => InPlace(N))
  <1>1. Books(w, N.buckets)
    BY BooksOfSome DEF CoreIsKept
  <1> QED BY <1>1 DEF CoreIsKept, InPlace

LEMMA DroppedIsKept ==
    ASSUME NEW w \in Carriages, NEW T, CoreIsKept(w, T), NEW ks, NEW shared, NEW N,
           N = [T EXCEPT !.buckets = Totals!Drop(@, ks)] \/ N = [T EXCEPT !.shared = shared, !.buckets = Totals!Drop(@, ks)]
    PROVE  CoreIsKept(w, N) /\ (InPlace(T) => InPlace(N))
  <1>1. Shaped(T)
    BY DEF CoreIsKept
  <1> DEFINE D == Totals!Drop(T.buckets, ks)
  <1>2. D = [x \in DOMAIN D |-> D[x]] /\ DOMAIN D \subseteq DOMAIN T.buckets
        /\ \A k \in DOMAIN D : D[k] = T.buckets[k]
    BY DEF Totals!Drop, Totals!Restrict
  <1> HIDE DEF D
  <1>3. /\ N.buckets = D
        /\ N = [buckets |-> N.buckets, shared |-> N.shared, aliases |-> N.aliases, userMerged |-> N.userMerged]
    BY <1>1 DEF D, Shaped
  <1>4. Shaped(N)
    BY <1>2, <1>3 DEF Shaped
  <1> QED BY <1>2, <1>3, <1>4, KeptOfSome

LEMMA EmptyIsKept == ASSUME NEW w \in Carriages PROVE CoreIsKept(w, Totals!Empty) /\ InPlace(Totals!Empty)
  <1> DEFINE B == Totals!Empty.buckets
  <1>1. DOMAIN B = {} /\ B = <<>>
    BY DEF Totals!Empty
  <1>2. Shaped(Totals!Empty)
    <2>1. B = [k \in DOMAIN B |-> B[k]]
      BY <1>1
    <2> QED BY <2>1 DEF Totals!Empty, Shaped
  <1> HIDE DEF B
  <1>3. InBooks(w, B)
    BY <1>1, FS_EmptySet DEF InBooks, BucketsTyped, SoundOf
  <1>4. \A I \in SUBSET Identities : FedBy(B, I) = {}
    BY <1>1 DEF FedBy, SoundOf
  <1>5. \A f : SumFunctionOnSet(f, {}) = 0
    BY SumOfFew
  <1>6. ASSUME NEW I \in SUBSET Identities
        PROVE  0 <= SumFunctionOnSet(w.sent, I) /\ 0 <= SumFunctionOnSet(w.sent, I) - SumFunctionOnSet(w.before, I)
    <2>1. IsFiniteSet(I) /\ \A i \in I : w.sent[i] \in Nat /\ w.before[i] \in Nat /\ w.before[i] <= w.sent[i]
      BY OdometersSuit, FS_Subset DEF Carriages
    <2>2. SumFunctionOnSet(w.sent, I) \in Nat /\ SumFunctionOnSet(w.before, I) \in Nat
      BY <2>1, SumIsNat
    <2>3. SumFunctionOnSet(w.before, I) <= SumFunctionOnSet(w.sent, I)
      <3>1. \A i \in I : w.sent[i] \in Int /\ w.before[i] \in Int
        BY <2>1
      <3> QED BY <2>1, <3>1, SumsCompare
    <2> QED BY <2>2, <2>3
  <1>7. ChargedOnce(w, B) /\ MonthChargedOnce(w, B)
    BY <1>4, <1>5, <1>6 DEF ChargedOnce, MonthChargedOnce
  <1>8. InPlace(Totals!Empty)
    BY <1>1 DEF InPlace, B
  <1> QED BY <1>2, <1>3, <1>7, <1>8 DEF CoreIsKept, Books, B

(* pollClients: each device of the roster in turn.                               *)
LEMMA LifeIsInt ==
    ASSUME NEW w, NEW T, Books(w, T.buckets)
    PROVE  Totals!Life(T) \in Int
  <1> DEFINE f == [k \in DOMAIN T.buckets |-> T.buckets[k].life]
  <1>1. IsFiniteSet(DOMAIN T.buckets) /\ \A k \in DOMAIN T.buckets : T.buckets[k].life \in Int
    BY BooksSay, BucketFields
  <1>2. DOMAIN f = DOMAIN T.buckets /\ \A k \in DOMAIN f : f[k] \in Int
    BY <1>1
  <1>3. Totals!Life(T) = SumFunctionOnSet(f, DOMAIN f)
    BY TotalsSum DEF Totals!Life
  <1> HIDE DEF f
  <1> QED BY <1>1, <1>2, <1>3, SumIsInt

(* The requests.                                                                 *)
LEMMA ResetIsKept ==
    ASSUME NEW w \in Carriages, NEW T, CoreIsKept(w, T), NEW k \in DOMAIN T.buckets
    PROVE  CoreIsKept(w, [T EXCEPT !.buckets[k].anchor = T.buckets[k].life])
  <1> DEFINE B == T.buckets
             b == [B[k] EXCEPT !.anchor = B[k].life]
             C == [B EXCEPT ![k] = b]
             N == [T EXCEPT !.buckets[k].anchor = T.buckets[k].life]
  <1>1. Shaped(T) /\ Books(w, B)
    BY DEF CoreIsKept
  <1>2. B[k] \in TotalBucket /\ FiguresInOrder(w, B[k])
    BY <1>1, BooksSay
  <1>3. /\ b \in TotalBucket /\ b.id = B[k].id /\ b.mac = B[k].mac /\ b.ids = B[k].ids /\ b.doubt = B[k].doubt
        /\ b.polled = B[k].polled /\ b.prev = B[k].prev /\ b.month = B[k].month /\ b.filed = B[k].filed
        /\ b.life = B[k].life /\ b.anchor = B[k].life
    BY <1>2 DEF TotalBucket
  <1>4. N.buckets = C /\ Shaped(N)
    BY <1>1 DEF Shaped
  <1>5. DOMAIN C = DOMAIN B /\ C[k] = b /\ \A x \in DOMAIN B \ {k} : C[x] = B[x]
    OBVIOUS
  <1> HIDE DEF b, C, B
  <1>6. FiguresInOrder(w, b)
    BY <1>2, <1>3, BucketFields DEF FiguresInOrder
  <1>7. InBooks(w, C)
    <2>1. \A x \in DOMAIN C : C[x] \in TotalBucket /\ FiguresInOrder(w, C[x]) /\ (~C[x].doubt => OwnKey(x, C[x]))
      <3>1. ~b.doubt => OwnKey(k, b)
        <4>1. k \in DOMAIN B
          BY DEF B
        <4> QED BY <1>1, <1>3, <4>1, BooksSay DEF OwnKey
      <3> QED BY <1>1, <1>3, <1>5, <1>6, <3>1, BooksSay
    <2>2. IsFiniteSet(DOMAIN C)
      BY <1>1, <1>5, BooksSay
    <2> QED BY <2>1, <2>2, InBooksFrom
  <1>8. Remade(w, B, C, k, k)
    <2>1. \A x \in SoundOf(C) \ {k} : x \in SoundOf(B) \ {k} /\ C[x] = B[x]
      BY <1>5 DEF SoundOf
    <2>2. ASSUME k \in SoundOf(C)
          PROVE  /\ k \in SoundOf(B) /\ Charge(w, b) <= Charge(w, B[k]) /\ ThisMonth(w, b) <= ThisMonth(w, B[k])
      <3>1. ~b.doubt /\ k \in SoundOf(B)
        BY <1>3, <1>5, <2>2 DEF SoundOf
      <3>2. OwnKey(k, B[k])
        BY <1>1, <3>1, BooksSay
      <3>3. Awaited(w, B[k]) \in Nat /\ Charge(w, B[k]) \in Nat /\ ThisMonth(w, B[k]) \in Nat /\ Totals!Monthly(B[k]) \in Nat
        BY <1>2, <3>2, TermsAreBytes
      <3>4. Awaited(w, b) = Awaited(w, B[k]) /\ Charge(w, b) = Charge(w, B[k])
        BY <1>3 DEF Awaited, Charge
      <3>5. Totals!Monthly(b) = 0
        BY <1>2, <1>3, BucketFields, MonthlyIs
      <3>6. ThisMonth(w, b) <= ThisMonth(w, B[k])
        BY <1>3, <3>3, <3>4, <3>5 DEF ThisMonth
      <3> QED BY <3>1, <3>3, <3>4, <3>6
    <2> QED BY <1>3, <1>5, <2>1, <2>2 DEF Remade
  <1>9. Books(w, C)
    BY <1>1, <1>7, <1>8, BooksRemake
  <1>10. InPlace(T) => InPlace(N)
    BY <1>3, <1>4, <1>5 DEF InPlace, Totals!KeyIn, B
  <1> QED BY <1>4, <1>9, <1>10 DEF CoreIsKept

LEMMA MergeIsKept ==
    ASSUME NEW w \in Carriages, NEW T, CoreIsKept(w, T), NEW from, NEW to, Totals!Mergeable(T, from, to)
    PROVE  CoreIsKept(w, Totals!Merge(T, from, to))
  <1> DEFINE B == T.buckets
             M == Totals!Merged(B[from], B[to])
             C == Totals!Drop(Totals!Put(B, to, M), {from})
             N == Totals!Merge(T, from, to)
  <1>1. Shaped(T) /\ Books(w, B) /\ from # to /\ from \in DOMAIN B /\ to \in DOMAIN B
    BY DEF CoreIsKept, Totals!Mergeable
  <1>2. /\ B[from] \in TotalBucket /\ FiguresInOrder(w, B[from]) /\ (~B[from].doubt => OwnKey(from, B[from]))
        /\ B[to] \in TotalBucket /\ FiguresInOrder(w, B[to]) /\ (~B[to].doubt => OwnKey(to, B[to]))
    BY <1>1, BooksSay
  <1>3. /\ M \in TotalBucket /\ FiguresInOrder(w, M) /\ M.polled = None
        /\ M.id = B[to].id /\ M.mac = B[to].mac /\ M.ids = B[to].ids \cup B[from].ids
        /\ M.doubt = (B[to].doubt \/ B[from].doubt)
        /\ Charge(w, M) = B[from].life + B[to].life
        /\ ThisMonth(w, M) <= (IF B[from].month = Totals!Month(w.clock) THEN Totals!Monthly(B[from]) ELSE 0)
                               + (IF B[to].month = Totals!Month(w.clock) THEN Totals!Monthly(B[to]) ELSE 0)
    <2> DEFINE s == B[from]
               v == B[to]
    <2>1. s \in TotalBucket /\ v \in TotalBucket /\ FiguresInOrder(w, s) /\ FiguresInOrder(w, v)
      BY <1>2
    <2> HIDE DEF s, v
    <2>2. LET m == Totals!Merged(s, v)
          IN  /\ m \in TotalBucket /\ FiguresInOrder(w, m) /\ m.polled = None
              /\ m.id = v.id /\ m.mac = v.mac /\ m.ids = v.ids \cup s.ids /\ m.doubt = (v.doubt \/ s.doubt)
              /\ Charge(w, m) = s.life + v.life
              /\ ThisMonth(w, m) <= (IF s.month = Totals!Month(w.clock) THEN Totals!Monthly(s) ELSE 0)
                                     + (IF v.month = Totals!Month(w.clock) THEN Totals!Monthly(v) ELSE 0)
      BY <2>1, MergedIs
    <2> QED BY <2>2 DEF s, v
  <1>4. N.buckets = C /\ C = [x \in DOMAIN C |-> C[x]]
        /\ N = [buckets |-> N.buckets, shared |-> N.shared, aliases |-> N.aliases, userMerged |-> N.userMerged]
    <2>1. N.buckets = C
      <3> HIDE DEF M
      <3> QED BY <1>1 DEF Shaped, Totals!Merge, M
    <2>2. C = [x \in DOMAIN C |-> C[x]]
      <3> HIDE DEF M
      <3> QED BY DEF Totals!Drop, Totals!Restrict
    <2>3. N = [buckets |-> N.buckets, shared |-> N.shared, aliases |-> N.aliases, userMerged |-> N.userMerged]
      <3> DEFINE c == Totals!Drop(Totals!Put(T.buckets, to, Totals!Merged(T.buckets[from], T.buckets[to])), {from})
                 a == Totals!Repointed(T.aliases, from, to)
                 u == T.userMerged \cup {from}
      <3>1. N = [T EXCEPT !.buckets = c, !.aliases = a, !.userMerged = u]
        BY DEF Totals!Merge
      <3> HIDE DEF c, a, u, N, C, M
      <3> QED BY <1>1, <3>1 DEF Shaped
    <2> HIDE DEF N, C
    <2> QED BY <2>1, <2>2, <2>3
  <1>5. DOMAIN C = DOMAIN B \ {from} /\ C[to] = M /\ \A x \in DOMAIN C \ {to} : C[x] = B[x]
    <2> HIDE DEF M
    <2> QED BY <1>1 DEF Totals!Drop, Totals!Restrict, Totals!Put
  <1> HIDE DEF M, C, N
  <1>6. Shaped(N)
    BY <1>4 DEF Shaped
  <1> HIDE DEF B
  <1>7. InBooks(w, C)
    <2>1. IsFiniteSet(DOMAIN C)
      BY <1>1, <1>5, BooksSay, FS_Subset
    <2>2. ~M.doubt => OwnKey(to, M)
      BY <1>2, <1>3, BucketFields DEF OwnKey
    <2>3. \A x \in DOMAIN C : C[x] \in TotalBucket /\ FiguresInOrder(w, C[x]) /\ (~C[x].doubt => OwnKey(x, C[x]))
      BY <1>1, <1>3, <1>5, <2>2, BooksSay
    <2> QED BY <2>1, <2>3, InBooksFrom
  <1>8. Books(w, C)
    <2> DEFINE Made == {to} \cap SoundOf(C)
               From == IF to \in SoundOf(C) THEN {from, to} ELSE {}
    <2>1. \A x : x \in SoundOf(B) <=> x \in DOMAIN B /\ ~B[x].doubt
      BY <1>1, BooksSay
    <2>2. to \in SoundOf(C) <=> ~M.doubt
      BY <1>1, <1>5 DEF SoundOf
    <2>3. Made \in SUBSET SoundOf(C) /\ From \in SUBSET SoundOf(B)
      BY <1>1, <1>2, <1>3, <2>1, <2>2, BucketFields
    <2>4. \A x \in SoundOf(C) \ Made : x \in SoundOf(B) \ From /\ C[x] = B[x]
      BY <1>5, <2>1 DEF SoundOf
    <2>5. ASSUME to \in SoundOf(C)
          PROVE  /\ Charge(w, M) <= SumFunctionOnSet(Charges(w, B), {from, to})
                 /\ ThisMonth(w, M) <= SumFunctionOnSet(ThisMonths(w, B), {from, to})
      <3>1. OwnKey(from, B[from]) /\ OwnKey(to, B[to])
        BY <1>2, <1>3, <2>2, <2>5, BucketFields
      <3>2. /\ Awaited(w, B[from]) \in Nat /\ Charge(w, B[from]) \in Nat /\ ThisMonth(w, B[from]) \in Nat
            /\ Totals!Monthly(B[from]) \in Nat /\ B[from].life \in Nat
        BY <1>2, <3>1, TermsAreBytes
      <3>3. /\ Awaited(w, B[to]) \in Nat /\ Charge(w, B[to]) \in Nat /\ ThisMonth(w, B[to]) \in Nat
            /\ Totals!Monthly(B[to]) \in Nat /\ B[to].life \in Nat
        BY <1>2, <3>1, TermsAreBytes
      <3>4. /\ Charges(w, B)[from] = Charge(w, B[from]) /\ Charges(w, B)[to] = Charge(w, B[to])
            /\ ThisMonths(w, B)[from] = ThisMonth(w, B[from]) /\ ThisMonths(w, B)[to] = ThisMonth(w, B[to])
        BY <1>1 DEF Charges, ThisMonths
      <3>5. SumFunctionOnSet(Charges(w, B), {from, to}) = Charge(w, B[from]) + Charge(w, B[to])
        <4>1. Charges(w, B)[from] \in Int /\ Charges(w, B)[to] \in Int
          BY <3>2, <3>3, <3>4
        <4>2. SumFunctionOnSet(Charges(w, B), {from, to}) = Charges(w, B)[from] + Charges(w, B)[to]
          BY <1>1, <4>1, SumOfFew
        <4> QED BY <3>4, <4>2
      <3>6. SumFunctionOnSet(ThisMonths(w, B), {from, to}) = ThisMonth(w, B[from]) + ThisMonth(w, B[to])
        <4>1. ThisMonths(w, B)[from] \in Int /\ ThisMonths(w, B)[to] \in Int
          BY <3>2, <3>3, <3>4
        <4>2. SumFunctionOnSet(ThisMonths(w, B), {from, to}) = ThisMonths(w, B)[from] + ThisMonths(w, B)[to]
          BY <1>1, <4>1, SumOfFew
        <4> QED BY <3>4, <4>2
      <3>7. Charge(w, B[from]) = B[from].life + Awaited(w, B[from])
            /\ Charge(w, B[to]) = B[to].life + Awaited(w, B[to])
        BY DEF Charge
      <3>8. /\ (IF B[from].month = Totals!Month(w.clock) THEN Totals!Monthly(B[from]) ELSE 0) <= ThisMonth(w, B[from])
            /\ (IF B[to].month = Totals!Month(w.clock) THEN Totals!Monthly(B[to]) ELSE 0) <= ThisMonth(w, B[to])
        BY <3>2, <3>3 DEF ThisMonth
      <3>9. Charge(w, M) <= SumFunctionOnSet(Charges(w, B), {from, to})
        BY <1>3, <3>2, <3>3, <3>5, <3>7
      <3>10. ThisMonth(w, M) <= SumFunctionOnSet(ThisMonths(w, B), {from, to})
        <4> DEFINE u == IF B[from].month = Totals!Month(w.clock) THEN Totals!Monthly(B[from]) ELSE 0
                   v == IF B[to].month = Totals!Month(w.clock) THEN Totals!Monthly(B[to]) ELSE 0
        <4>1. u \in Int /\ v \in Int
          BY <3>2, <3>3
        <4>2. ThisMonth(w, M) <= u + v /\ u <= ThisMonth(w, B[from]) /\ v <= ThisMonth(w, B[to])
          BY <1>3, <3>8
        <4>3. ThisMonth(w, M) \in Int
          <5>1. Totals!Monthly(M) \in Int
            BY <1>3, BucketFields, MonthlyIs
          <5> QED BY <1>3, <5>1 DEF ThisMonth, Awaited
        <4> HIDE DEF u, v
        <4> QED BY <3>2, <3>3, <3>6, <4>1, <4>2, <4>3
      <3> QED BY <3>9, <3>10
    <2>6. \A x \in Made :
              /\ Made = {x} /\ \A y \in From : B[y].ids \subseteq C[x].ids
              /\ Charge(w, C[x]) <= SumFunctionOnSet(Charges(w, B), From)
              /\ ThisMonth(w, C[x]) <= SumFunctionOnSet(ThisMonths(w, B), From)
      BY <1>3, <1>5, <2>5
    <2> HIDE DEF Made, From
    <2> QED BY <1>1, <1>7, <2>3, <2>4, <2>6, BooksCarry
  <1>9. InPlace(T) => InPlace(N)
    <2> SUFFICES ASSUME InPlace(T), NEW x \in DOMAIN C PROVE Totals!KeyIn(C[x]) = x
      BY <1>4 DEF InPlace
    <2>1. Totals!KeyIn(B[x]) = x
      BY <1>5 DEF InPlace, B
    <2>2. CASE x = to
      BY <1>3, <1>5, <2>1, <2>2 DEF Totals!KeyIn
    <2>3. CASE x # to
      BY <1>5, <2>1, <2>3
    <2> QED BY <2>2, <2>3
  <1> QED BY <1>4, <1>6, <1>8, <1>9 DEF CoreIsKept, N

(* A snapshot read back: a sound bucket stands where it stood.                   *)
LEMMA LoadedIsKept ==
    ASSUME NEW w \in Carriages, NEW T, CoreIsKept(w, T)
    PROVE  CoreIsKept(w, Totals!Loaded(T)) /\ InPlace(Totals!Loaded(T))
  <1> DEFINE B == T.buckets
             at(k) == CHOOSE x \in DOMAIN B : Totals!KeyIn(B[x]) = k
             ks == { Totals!KeyIn(B[x]) : x \in DOMAIN B }
             C == [k \in ks |-> B[at(k)]]
             N == Totals!Loaded(T)
  <1>1. Shaped(T) /\ Books(w, B)
    BY DEF CoreIsKept
  <1>2. N.buckets = C /\ Shaped(N)
    <2>1. N = [T EXCEPT !.buckets = C]
      BY DEF Totals!Loaded
    <2>2. C = [k \in DOMAIN C |-> C[k]]
      OBVIOUS
    <2> HIDE DEF C, N
    <2> QED BY <1>1, <2>1, <2>2 DEF Shaped
  <1>3. \A k \in ks : at(k) \in DOMAIN B /\ Totals!KeyIn(B[at(k)]) = k
    OBVIOUS
  <1>4. DOMAIN C = ks /\ \A k \in ks : C[k] = B[at(k)]
    OBVIOUS
  <1>5. IsFiniteSet(DOMAIN C)
    <2> DEFINE key == [x \in DOMAIN B |-> Totals!KeyIn(B[x])]
    <2>1. IsFiniteSet(DOMAIN B)
      BY <1>1, BooksSay
    <2>2. key \in Surjection(DOMAIN B, ks)
      BY DEF Surjection
    <2>3. IsFiniteSet(ks)
      BY <2>1, <2>2, FS_Surjection
    <2> QED BY <1>4, <2>3
  <1> HIDE DEF ks, C, N
  <1>6. InPlace(N)
    BY <1>2, <1>3, <1>4 DEF InPlace
  <1> HIDE DEF at
  <1>7. ASSUME NEW k \in DOMAIN C, ~C[k].doubt PROVE k \in DOMAIN B /\ C[k] = B[k] /\ ~B[k].doubt
    <2>1. at(k) \in DOMAIN B /\ C[k] = B[at(k)] /\ ~B[at(k)].doubt /\ Totals!KeyIn(B[at(k)]) = k
      BY <1>3, <1>4, <1>7
    <2>2. OwnKey(at(k), B[at(k)])
      BY <1>1, <2>1, BooksSay
    <2>3. Totals!KeyIn(B[at(k)]) = at(k)
      BY <2>2, OdometersSuit DEF OwnKey, Totals!KeyIn, Totals!KeyOf
    <2> QED BY <2>1, <2>3
  <1> HIDE DEF B
  <1>8. InBooks(w, C)
    <2>1. \A k \in DOMAIN C : C[k] \in TotalBucket /\ FiguresInOrder(w, C[k])
      BY <1>1, <1>3, <1>4, BooksSay
    <2>2. \A k \in DOMAIN C : ~C[k].doubt => OwnKey(k, C[k])
      BY <1>1, <1>7, BooksSay
    <2> QED BY <1>5, <2>1, <2>2, InBooksFrom
  <1>9. Books(w, C)
    <2>1. \A k \in SoundOf(C) : k \in SoundOf(B) /\ C[k] = B[k]
      BY <1>7 DEF SoundOf
    <2> QED BY <1>1, <1>8, <2>1, BooksShrink
  <1> QED BY <1>2, <1>6, <1>9 DEF CoreIsKept, N

LEMMA SeededIsKept ==
    ASSUME Carriage \in Carriages, logged \in [Macs -> Int], NEW T, CoreIsKept(Carriage, T), InPlace(T)
    PROVE  CoreIsKept(Carriage, Totals!Seeded(T))
  <1> DEFINE B == T.buckets
             U == Totals!Unseen(T)
             C == [k \in DOMAIN B \cup U |-> IF k \in U THEN Totals!SeededBucket(k) ELSE B[k]]
             N == Totals!Seeded(T)
             w == Carriage
  <1>1. Shaped(T) /\ Books(w, B)
    BY DEF CoreIsKept
  <1>2. N.buckets = C /\ Shaped(N)
    <2>1. N = [T EXCEPT !.buckets = C]
      BY DEF Totals!Seeded
    <2>2. C = [k \in DOMAIN C |-> C[k]]
      OBVIOUS
    <2> HIDE DEF C, N
    <2> QED BY <1>1, <2>1, <2>2 DEF Shaped
  <1>3. U \subseteq Macs /\ \A m \in U : logged[m] > 0 /\ logged[m] \in Int
    BY DEF Totals!Unseen
  <1>4. DOMAIN C = DOMAIN B \cup U /\ (\A k \in U : C[k] = Totals!SeededBucket(k))
        /\ \A k \in DOMAIN B \ U : C[k] = B[k]
    OBVIOUS
  <1>5. IsFiniteSet(DOMAIN C)
    <2>1. IsFiniteSet(DOMAIN B) /\ IsFiniteSet(U)
      BY <1>1, <1>3, BooksSay, OdometersSuit, FS_Subset
    <2> QED BY <1>4, <2>1, FS_Union
  <1> HIDE DEF U, C, N, B
  <1>6. w.clock = rolls /\ rolls \in Nat /\ Totals!Month(rolls) \in Nat
    BY MonthsGo DEF Carriage, Carriages
  <1>7. ASSUME NEW m \in U
        PROVE  LET b == Totals!SeededBucket(m)
               IN  b \in TotalBucket /\ FiguresInOrder(w, b) /\ b.doubt = TRUE /\ Totals!KeyIn(b) = m
    <2> DEFINE b == Totals!SeededBucket(m)
    <2>1. /\ b.id = None /\ b.mac = m /\ b.hash = None /\ b.life = logged[m] /\ b.anchor = 0 /\ b.filed = 0
          /\ b.month = Totals!Month(rolls) /\ b.prev = 0 /\ b.polled = None /\ b.seen = rolls
          /\ b.ids = { i \in Identities : MacOf[i] = m } /\ b.doubt = TRUE
      BY DEF Totals!SeededBucket, Totals!Bucket
    <2>3. b \in TotalBucket
      <3> DEFINE c == Totals!Bucket(None, m, logged[m], rolls)
                 fed == { i \in Identities : MacOf[i] = m }
      <3>1. c \in TotalBucket
        BY <1>3, <1>6 DEF Totals!Bucket, TotalBucket
      <3>2. b = [c EXCEPT !.ids = fed, !.doubt = TRUE] /\ fed \in SUBSET Identities
        BY DEF Totals!SeededBucket
      <3> HIDE DEF c, fed, b
      <3> QED BY <3>1, <3>2 DEF TotalBucket
    <2> HIDE DEF b, w
    <2>4. FiguresInOrder(w, b)
      BY <1>3, <1>6, <2>1 DEF FiguresInOrder
    <2> QED BY <2>1, <2>3, <2>4 DEF b, Totals!KeyIn, Totals!KeyOf
  <1> HIDE DEF w
  <1>8. InBooks(w, C)
    <2>1. \A k \in DOMAIN C : C[k] \in TotalBucket /\ FiguresInOrder(w, C[k]) /\ (~C[k].doubt => OwnKey(k, C[k]))
      <3> SUFFICES ASSUME NEW k \in DOMAIN C
                   PROVE  C[k] \in TotalBucket /\ FiguresInOrder(w, C[k]) /\ (~C[k].doubt => OwnKey(k, C[k]))
        OBVIOUS
      <3>1. CASE k \in U
        <4>1. C[k] \in TotalBucket /\ FiguresInOrder(w, C[k]) /\ C[k].doubt = TRUE
          BY <1>4, <1>7, <3>1
        <4> QED BY <4>1
      <3>2. CASE k \notin U
        BY <1>1, <1>4, <3>2, BooksSay
      <3> QED BY <3>1, <3>2
    <2> QED BY <1>5, <2>1, InBooksFrom
  <1>9. Books(w, C)
    <2>1. \A k \in SoundOf(C) : k \in SoundOf(B) /\ C[k] = B[k]
      BY <1>4, <1>7 DEF SoundOf
    <2> USE DEF w
    <2> QED BY <1>1, <1>8, <2>1, BooksShrink
  <1>10. InPlace(N)
    BY <1>2, <1>4, <1>7 DEF InPlace, B
  <1> QED BY <1>2, <1>9, <1>10 DEF CoreIsKept, N, w

--------------------------------------------------------------------------------
(* The devices and the time go on.                                               *)
LEMMA SumRises ==
    ASSUME NEW S, IsFiniteSet(S), NEW f, NEW g, \A x \in S : f[x] \in Int /\ g[x] \in Int, NEW a,
           \A x \in S \ {a} : g[x] <= f[x]
    PROVE  /\ a \in S => SumFunctionOnSet(g, S) <= SumFunctionOnSet(f, S) + (g[a] - f[a])
           /\ a \notin S \/ g[a] <= f[a] => SumFunctionOnSet(g, S) <= SumFunctionOnSet(f, S)
  <1>1. ASSUME a \in S
        PROVE  SumFunctionOnSet(g, S) <= SumFunctionOnSet(f, S) + (g[a] - f[a])
    <2> DEFINE R == S \ {a}
    <2>1. IsFiniteSet(R) /\ \A x \in R : f[x] \in Int /\ g[x] \in Int /\ g[x] <= f[x]
      BY FS_Subset
    <2>2. SumFunctionOnSet(g, S) = g[a] + SumFunctionOnSet(g, R)
      BY <1>1, SumRemoves
    <2>3. SumFunctionOnSet(f, S) = f[a] + SumFunctionOnSet(f, R)
      BY <1>1, SumRemoves
    <2> HIDE DEF R
    <2>4. SumFunctionOnSet(g, R) <= SumFunctionOnSet(f, R)
      BY <2>1, SumsCompare
    <2>5. SumFunctionOnSet(g, R) \in Int /\ SumFunctionOnSet(f, R) \in Int
      BY <2>1, SumIsInt
    <2>6. g[a] \in Int /\ f[a] \in Int
      BY <1>1
    <2> QED BY <2>2, <2>3, <2>4, <2>5, <2>6
  <1>2. ASSUME a \notin S \/ g[a] <= f[a]
        PROVE  SumFunctionOnSet(g, S) <= SumFunctionOnSet(f, S)
    <2>1. \A x \in S : g[x] <= f[x]
      BY <1>2
    <2> QED BY <2>1, SumsCompare
  <1> QED BY <1>1, <1>2

(* A counter that moves raises what a bucket may be charged no further than it   *)
(* is believed to have gone, and so do two moves after one another.              *)
LEMMA BooksGoOn ==
    ASSUME NEW w \in Carriages, NEW v \in Carriages, NEW B, Books(w, B), NEW id \in Identities,
           v.clock = w.clock, v.before = w.before,
           \A i \in Identities \ {id} : v.counter[i] = w.counter[i] /\ v.sent[i] = w.sent[i],
           v.sent[id] = w.sent[id] + Totals!Believed(w.counter[id], v.counter[id])
    PROVE  Books(v, B)
  <1> DEFINE more == v.sent[id] - w.sent[id]
  <1>1. /\ IsFiniteSet(SoundOf(B)) /\ SoundOf(B) \subseteq DOMAIN B
        /\ \A I : FedBy(B, I) \subseteq SoundOf(B) /\ IsFiniteSet(FedBy(B, I))
        /\ \A k \in SoundOf(B) : Charges(w, B)[k] \in Nat /\ ThisMonths(w, B)[k] \in Nat
    BY SoundTerms DEF Books
  <1>2. InBooks(v, B)
    BY DEF Books, InBooks, FiguresInOrder
  <1>3. \A k \in SoundOf(B) : Charges(v, B)[k] \in Nat /\ ThisMonths(v, B)[k] \in Nat
    BY <1>2, SoundTerms
  <1>4. more \in Int /\ 0 <= more /\ more = Totals!Believed(w.counter[id], v.counter[id])
    <2>1. w.counter[id] \in Nat /\ v.counter[id] \in Nat /\ w.sent[id] \in Nat
      BY DEF Carriages
    <2>2. Totals!Believed(w.counter[id], v.counter[id]) \in Nat
      BY <2>1, BeliefsAddUp
    <2> QED BY <2>1, <2>2
  <1> HIDE DEF more
  <1>5. ASSUME NEW k \in SoundOf(B)
        PROVE  LET rise == IF k = id /\ id \in B[k].ids THEN more ELSE 0
               IN  /\ Charges(v, B)[k] <= Charges(w, B)[k] + rise
                   /\ ThisMonths(v, B)[k] <= ThisMonths(w, B)[k] + rise
    <2> DEFINE b == B[k]
               rise == IF k = id /\ id \in b.ids THEN more ELSE 0
    <2>1. b \in TotalBucket /\ FiguresInOrder(w, b) /\ FiguresInOrder(v, b) /\ OwnKey(k, b)
      BY <1>2, BooksSay DEF InBooks, SoundOf
    <2> HIDE DEF b
    <2>2. b.life \in Nat /\ Totals!Monthly(b) \in Nat /\ Awaited(w, b) \in Nat /\ Awaited(v, b) \in Nat
      BY <2>1, TermsAreBytes
    <2>3. Awaited(v, b) <= Awaited(w, b) + rise
      <3>1. CASE b.polled = None
        BY <1>4, <2>2, <3>1 DEF Awaited
      <3>2. CASE b.polled # None /\ k # id
        <4>1. v.counter[b.id] = w.counter[b.id]
          BY <2>1, <3>2 DEF OwnKey
        <4> QED BY <1>4, <2>2, <4>1 DEF Awaited
      <3>3. CASE b.polled # None /\ k = id
        <4>1. b.id = id /\ id \in b.ids /\ rise = more
          BY <2>1, <3>3 DEF OwnKey
        <4>2. /\ Awaited(w, b) = Totals!Believed(b.prev, w.counter[id])
              /\ Awaited(v, b) = Totals!Believed(b.prev, v.counter[id])
              /\ b.prev \in Nat /\ w.counter[id] \in Nat /\ v.counter[id] \in Nat
          BY <2>1, <3>3, <4>1, BucketFields DEF Awaited, Carriages
        <4>3. Totals!Believed(b.prev, v.counter[id])
                 <= Totals!Believed(b.prev, w.counter[id]) + Totals!Believed(w.counter[id], v.counter[id])
          BY <4>2, DetoursAddUp
        <4> QED BY <1>4, <4>1, <4>2, <4>3
      <3> QED BY <3>1, <3>2, <3>3
    <2>4. rise \in Int /\ 0 <= rise
      BY <1>4
    <2> HIDE DEF rise
    <2>5. Charge(v, b) <= Charge(w, b) + rise
      BY <2>2, <2>3, <2>4 DEF Charge
    <2>6. ThisMonth(v, b) <= ThisMonth(w, b) + rise
      BY <2>2, <2>3, <2>4 DEF ThisMonth
    <2>7. /\ Charges(v, B)[k] = Charge(v, b) /\ Charges(w, B)[k] = Charge(w, b)
          /\ ThisMonths(v, B)[k] = ThisMonth(v, b) /\ ThisMonths(w, B)[k] = ThisMonth(w, b)
      BY <1>1 DEF Charges, ThisMonths, b
    <2> QED BY <2>5, <2>6, <2>7 DEF rise, b
  <1>6. ASSUME NEW I \in SUBSET Identities, NEW f, NEW g,
               \A k \in SoundOf(B) : f[k] \in Nat /\ g[k] \in Nat
                   /\ g[k] <= f[k] + (IF k = id /\ id \in B[k].ids THEN more ELSE 0)
        PROVE  SumFunctionOnSet(g, FedBy(B, I)) <= SumFunctionOnSet(f, FedBy(B, I)) + (IF id \in I THEN more ELSE 0)
    <2> DEFINE S == FedBy(B, I)
               sum(h) == SumFunctionOnSet(h, S)
    <2>1. IsFiniteSet(S) /\ S \subseteq SoundOf(B) /\ \A k \in S : f[k] \in Int /\ g[k] \in Int
      BY <1>1, <1>6
    <2>2. \A k \in S \ {id} : g[k] <= f[k]
      BY <1>6, <2>1
    <2>3. id \in S /\ ~(g[id] <= f[id]) => id \in I /\ g[id] <= f[id] + more /\ f[id] \in Nat /\ g[id] \in Nat
      BY <1>6, <2>1 DEF FedBy
    <2> HIDE DEF S
    <2>4. sum(f) \in Int /\ sum(g) \in Int
      BY <2>1, SumIsInt
    <2>5. /\ id \in S => sum(g) <= sum(f) + (g[id] - f[id])
          /\ id \notin S \/ g[id] <= f[id] => sum(g) <= sum(f)
      BY <2>1, <2>2, SumRises
    <2> HIDE DEF sum
    <2>6. sum(g) <= sum(f) + (IF id \in I THEN more ELSE 0)
      <3>1. CASE id \notin S \/ g[id] <= f[id]
        BY <1>4, <2>4, <2>5, <3>1
      <3>2. CASE id \in S /\ ~(g[id] <= f[id])
        BY <1>4, <2>3, <2>4, <2>5, <3>2
      <3> QED BY <3>1, <3>2
    <2> QED BY <2>6 DEF sum, S
  <1>7. ASSUME NEW I \in SUBSET Identities
        PROVE  /\ SumFunctionOnSet(w.sent, I) \in Int /\ SumFunctionOnSet(w.before, I) \in Int
               /\ SumFunctionOnSet(v.sent, I) = SumFunctionOnSet(w.sent, I) + (IF id \in I THEN more ELSE 0)
               /\ SumFunctionOnSet(Charges(w, B), FedBy(B, I)) \in Int
               /\ SumFunctionOnSet(Charges(v, B), FedBy(B, I)) \in Int
               /\ SumFunctionOnSet(ThisMonths(w, B), FedBy(B, I)) \in Int
               /\ SumFunctionOnSet(ThisMonths(v, B), FedBy(B, I)) \in Int
    <2>1. IsFiniteSet(I) /\ \A i \in I : w.sent[i] \in Int /\ w.before[i] \in Int /\ v.sent[i] \in Int
      BY OdometersSuit, FS_Subset DEF Carriages
    <2>2. SumFunctionOnSet(w.sent, I) \in Int /\ SumFunctionOnSet(w.before, I) \in Int
          /\ SumFunctionOnSet(v.sent, I) \in Int
      <3>1. SumFunctionOnSet(w.sent, I) \in Int
        BY <2>1, SumIsInt
      <3>2. SumFunctionOnSet(w.before, I) \in Int
        BY <2>1, SumIsInt
      <3>3. SumFunctionOnSet(v.sent, I) \in Int
        BY <2>1, SumIsInt
      <3> QED BY <3>1, <3>2, <3>3
    <2>3. SumFunctionOnSet(v.sent, I) = SumFunctionOnSet(w.sent, I) + (IF id \in I THEN more ELSE 0)
      <3>1. CASE id \in I
        <4>1. \A i \in I \ {id} : w.sent[i] = v.sent[i]
          OBVIOUS
        <4>2. SumFunctionOnSet(v.sent, I) - SumFunctionOnSet(w.sent, I) = v.sent[id] - w.sent[id]
          BY <2>1, <3>1, <4>1, SumChanges
        <4> QED BY <1>4, <2>2, <3>1, <4>2 DEF more
      <3>2. CASE id \notin I
        <4>1. \A i \in I : v.sent[i] = w.sent[i]
          BY <3>2
        <4>2. SumFunctionOnSet(v.sent, I) = SumFunctionOnSet(w.sent, I)
          BY <2>1, <4>1, SumsCompare
        <4> QED BY <2>2, <3>2, <4>2
      <3> QED BY <3>1, <3>2
    <2>4. /\ \A k \in FedBy(B, I) : Charges(w, B)[k] \in Int /\ ThisMonths(w, B)[k] \in Int
          /\ \A k \in FedBy(B, I) : Charges(v, B)[k] \in Int /\ ThisMonths(v, B)[k] \in Int
      BY <1>1, <1>3
    <2>5. SumFunctionOnSet(Charges(w, B), FedBy(B, I)) \in Int
          /\ SumFunctionOnSet(Charges(v, B), FedBy(B, I)) \in Int
      BY <1>1, <2>4, SumIsInt
    <2>6. SumFunctionOnSet(ThisMonths(w, B), FedBy(B, I)) \in Int
          /\ SumFunctionOnSet(ThisMonths(v, B), FedBy(B, I)) \in Int
      BY <1>1, <2>4, SumIsInt
    <2> QED BY <2>2, <2>3, <2>5, <2>6
  <1>8. ASSUME NEW I \in SUBSET Identities
        PROVE  /\ SumFunctionOnSet(Charges(v, B), FedBy(B, I)) <= SumFunctionOnSet(v.sent, I)
               /\ SumFunctionOnSet(ThisMonths(v, B), FedBy(B, I))
                     <= SumFunctionOnSet(v.sent, I) - SumFunctionOnSet(v.before, I)
    <2>1. SumFunctionOnSet(Charges(v, B), FedBy(B, I))
             <= SumFunctionOnSet(Charges(w, B), FedBy(B, I)) + (IF id \in I THEN more ELSE 0)
      BY <1>1, <1>3, <1>5, <1>6
    <2>2. SumFunctionOnSet(ThisMonths(v, B), FedBy(B, I))
             <= SumFunctionOnSet(ThisMonths(w, B), FedBy(B, I)) + (IF id \in I THEN more ELSE 0)
      BY <1>1, <1>3, <1>5, <1>6
    <2>3. /\ SumFunctionOnSet(Charges(w, B), FedBy(B, I)) <= SumFunctionOnSet(w.sent, I)
          /\ SumFunctionOnSet(ThisMonths(w, B), FedBy(B, I))
                <= SumFunctionOnSet(w.sent, I) - SumFunctionOnSet(w.before, I)
      BY DEF Books, ChargedOnce, MonthChargedOnce
    <2> QED BY <1>4, <1>7, <2>1, <2>2, <2>3
  <1> QED BY <1>2, <1>8 DEF Books, ChargedOnce, MonthChargedOnce

(* A month that ends leaves nothing charged to the one that begins.              *)
LEMMA BooksTurn ==
    ASSUME NEW w \in Carriages, NEW v \in Carriages, NEW B, Books(w, B),
           v.clock = w.clock + 1, v.counter = w.counter, v.sent = w.sent,
           v.before = IF Totals!Month(v.clock) = Totals!Month(w.clock) THEN w.before ELSE w.sent
    PROVE  Books(v, B)
  <1>1. w.clock \in Nat /\ v.clock \in Nat /\ Totals!Month(w.clock) \in Nat /\ Totals!Month(v.clock) \in Nat
        /\ Totals!Month(w.clock) <= Totals!Month(v.clock)
    BY MonthsGo DEF Carriages
  <1>2. /\ IsFiniteSet(DOMAIN B)
        /\ \A k \in DOMAIN B : B[k] \in TotalBucket /\ FiguresInOrder(w, B[k]) /\ (~B[k].doubt => OwnKey(k, B[k]))
    BY BooksSay
  <1>3. \A k \in DOMAIN B : B[k].month \in Int
    BY <1>2, BucketFields
  <1>4. InBooks(v, B)
    <2>1. \A k \in DOMAIN B : FiguresInOrder(v, B[k])
      BY <1>1, <1>2, <1>3 DEF FiguresInOrder
    <2> QED BY <1>2, <2>1, InBooksFrom
  <1>5. \A b : Awaited(v, b) = Awaited(w, b)
    BY DEF Awaited
  <1>6. Charges(v, B) = Charges(w, B)
    BY <1>5 DEF Charges, Charge
  <1>7. ChargedOnce(v, B)
    BY <1>6 DEF Books, ChargedOnce
  <1>8. CASE Totals!Month(v.clock) = Totals!Month(w.clock)
    <2>1. ThisMonths(v, B) = ThisMonths(w, B)
      BY <1>5, <1>8 DEF ThisMonths, ThisMonth
    <2> QED BY <1>4, <1>7, <1>8, <2>1 DEF Books, MonthChargedOnce
  <1>9. CASE Totals!Month(v.clock) # Totals!Month(w.clock)
    <2>1. ASSUME NEW k \in DOMAIN B PROVE ThisMonths(v, B)[k] = 0
      <3>1. B[k].month <= Totals!Month(w.clock)
        BY <1>2 DEF FiguresInOrder
      <3>2. B[k].month # Totals!Month(v.clock)
        BY <1>1, <1>3, <1>9, <3>1
      <3> QED BY <3>2 DEF ThisMonths, ThisMonth
    <2>2. ASSUME NEW I \in SUBSET Identities
          PROVE  SumFunctionOnSet(ThisMonths(v, B), FedBy(B, I))
                    <= SumFunctionOnSet(v.sent, I) - SumFunctionOnSet(v.before, I)
      <3>1. IsFiniteSet(FedBy(B, I)) /\ FedBy(B, I) \subseteq DOMAIN B
        BY <1>2, FS_Subset DEF FedBy, SoundOf
      <3>2. \A k \in FedBy(B, I) : ThisMonths(v, B)[k] = 0 /\ ThisMonths(v, B)[k] \in Int
        BY <2>1, <3>1
      <3>3. SumFunctionOnSet(ThisMonths(v, B), FedBy(B, I)) = 0
        BY <3>1, <3>2, SumsCompare
      <3>4. SumFunctionOnSet(v.sent, I) \in Int
        <4>1. IsFiniteSet(I) /\ \A i \in I : v.sent[i] \in Int
          BY OdometersSuit, FS_Subset DEF Carriages
        <4> QED BY <4>1, SumIsInt
      <3> QED BY <1>9, <3>3, <3>4
    <2>3. MonthChargedOnce(v, B)
      BY <2>2 DEF MonthChargedOnce
    <2> QED BY <1>4, <1>7, <2>3 DEF Books
  <1> QED BY <1>8, <1>9

LEMMA KeptOver ==
    ASSUME NEW w, NEW v, NEW T, CoreIsKept(w, T), Books(v, T.buckets)
    PROVE  CoreIsKept(v, T)
  BY DEF CoreIsKept

PollStages(f, figures, live, roster, upTo) ==
    f = [n \in 0 .. upTo |->
            IF n = 0 THEN [totals |-> Totals!NotePoll(totals, live), rows |-> logged, stray |-> FALSE]
                     ELSE Totals!Reading(roster[n], figures, live, f[n - 1])]

LEMMA PollHasStages ==
    ASSUME NEW figures, NEW live, NEW roster, NEW n \in Nat
    PROVE  \E f : PollStages(f, figures, live, roster, n)
  <1> DEFINE start == [totals |-> Totals!NotePoll(totals, live), rows |-> logged, stray |-> FALSE]
             read(i, done) == Totals!Reading(roster[i], figures, live, done)
             stages(f, m) == f = [i \in 0 .. m |-> IF i = 0 THEN start ELSE read(i, f[i - 1])]
             G == { m \in Nat : \E f : stages(f, m) }
  <1> HIDE DEF start, read
  <1>1. 0 \in G
    <2>1. stages([i \in 0 .. 0 |-> start], 0)
      OBVIOUS
    <2> QED BY <2>1
  <1>2. ASSUME NEW m \in Nat, m \in G PROVE m + 1 \in G
    <2>1. PICK f : stages(f, m)
      BY <1>2
    <2> DEFINE g == [i \in 0 .. m + 1 |-> IF i = m + 1 THEN read(m + 1, f[m]) ELSE f[i]]
    <2>2. g[m] = f[m] /\ \A i \in 0 .. m : g[i] = f[i]
      OBVIOUS
    <2>3. ASSUME NEW i \in 0 .. m + 1 PROVE g[i] = IF i = 0 THEN start ELSE read(i, g[i - 1])
      <3>1. CASE i = m + 1
        BY <2>2, <3>1
      <3>2. CASE i \in 0 .. m
        <4>1. f[i] = IF i = 0 THEN start ELSE read(i, f[i - 1])
          BY <2>1, <3>2
        <4>2. g[i] = f[i] /\ (i # 0 => i - 1 \in 0 .. m /\ g[i - 1] = f[i - 1])
          BY <2>2, <3>2
        <4> HIDE DEF g
        <4> QED BY <4>1, <4>2
      <3> QED BY <3>1, <3>2
    <2>4. g = [i \in 0 .. m + 1 |-> g[i]]
      OBVIOUS
    <2> HIDE DEF g
    <2>5. stages(g, m + 1)
      BY <2>3, <2>4
    <2> QED BY <2>5
  <1>3. \A m \in Nat : m \in G
    <2> HIDE DEF G
    <2> QED BY <1>1, <1>2, CountingUp
  <1> QED BY <1>3 DEF PollStages, start, read

LEMMA PolledIs ==
    ASSUME NEW roster, NEW n \in Nat, roster \in [1 .. n -> Identities], NEW w \in Carriages,
           w.clock = rolls, CoreIsKept(w, totals), logged \in [Macs -> Int]
    PROVE  LET P == Totals!Polled(roster, w.counter)
           IN  /\ Shaped(P.totals) /\ Books(w, P.totals.buckets) /\ P.rows \in [Macs -> Int]
               /\ P.stray \in BOOLEAN
               /\ ~P.stray /\ InPlace(totals) => InPlace(P.totals)
  <1> DEFINE figures == w.counter
             live == Totals!Range(roster)
             f == CHOOSE it : PollStages(it, figures, live, roster, n)
             Good(P) == /\ Shaped(P.totals) /\ Books(w, P.totals.buckets) /\ P.rows \in [Macs -> Int]
                        /\ P.stray \in BOOLEAN
                        /\ ~P.stray /\ InPlace(totals) => InPlace(P.totals)
             G == { m \in Nat : m <= n => Good(f[m]) }
  <1>1. Len(roster) = n
    OBVIOUS
  <1>2. Totals!Polled(roster, figures) = f[n]
    BY <1>1 DEF Totals!Polled, PollStages
  <1>3. PollStages(f, figures, live, roster, n)
    BY PollHasStages
  <1> HIDE DEF f
  <1>4. ASSUME NEW m \in 0 .. n
        PROVE  f[m] = IF m = 0 THEN [totals |-> Totals!NotePoll(totals, live), rows |-> logged, stray |-> FALSE]
                      ELSE Totals!Reading(roster[m], figures, live, f[m - 1])
    <2> DEFINE start == [totals |-> Totals!NotePoll(totals, live), rows |-> logged, stray |-> FALSE]
               read(i, done) == Totals!Reading(roster[i], figures, live, done)
    <2> HIDE DEF live
    <2>1. f = [i \in 0 .. n |-> IF i = 0 THEN start ELSE read(i, f[i - 1])]
      BY <1>3 DEF PollStages
    <2> HIDE DEF start, read
    <2>2. f[m] = IF m = 0 THEN start ELSE read(m, f[m - 1])
      BY <2>1
    <2> QED BY <2>2 DEF start, read
  <1>5. 0 \in G
    <2> DEFINE N == Totals!NotePoll(totals, live)
    <2>1. f[0].totals = N /\ f[0].rows = logged /\ f[0].stray = FALSE
      BY <1>4
    <2>2. CoreIsKept(w, N) /\ (InPlace(totals) => InPlace(N))
      <3>1. \E ks, shared : N = [totals EXCEPT !.shared = shared, !.buckets = Totals!Drop(@, ks)]
        BY DEF Totals!NotePoll
      <3> HIDE DEF N
      <3> QED BY <3>1, DroppedIsKept
    <2> HIDE DEF N
    <2> QED BY <2>1, <2>2 DEF CoreIsKept
  <1>6. ASSUME NEW m \in Nat, m \in G PROVE m + 1 \in G
    <2> SUFFICES ASSUME m + 1 <= n PROVE Good(f[m + 1])
      OBVIOUS
    <2> DEFINE done == f[m]
               id == roster[m + 1]
               next == Totals!Observe(done.totals, id, figures[id], live, rolls)
    <2>1. Good(done)
      BY <1>6
    <2>2. id \in Identities
      OBVIOUS
    <2>3. f[m + 1] = Totals!Reading(id, figures, live, done)
      BY <1>4
    <2> HIDE DEF done, id, live
    <2>5. /\ Shaped(next) /\ Books(w, next.buckets)
          /\ InPlace(done.totals) /\ Totals!KeyFor(done.totals, id) \in DOMAIN done.totals.buckets \cup {id}
                => InPlace(next)
      BY <2>1, <2>2, ReadingIsKept
    <2> HIDE DEF next
    <2>6. /\ f[m + 1].totals = next
          /\ f[m + 1].rows = [done.rows EXCEPT ![MacOf[id]] = @ + Totals!Life(next) - Totals!Life(done.totals)]
          /\ f[m + 1].stray = (done.stray \/ Totals!KeyFor(done.totals, id) \notin DOMAIN done.totals.buckets \cup {id})
      BY <2>3 DEF Totals!Reading, next
    <2>7. f[m + 1].rows \in [Macs -> Int]
      <3>1. Totals!Life(next) \in Int /\ Totals!Life(done.totals) \in Int
        BY <2>1, <2>5, LifeIsInt
      <3>2. done.rows \in [Macs -> Int] /\ MacOf[id] \in Macs
        BY <2>1, <2>2, OdometersSuit
      <3> QED BY <2>6, <3>1, <3>2
    <2>8. f[m + 1].stray \in BOOLEAN
      BY <2>1, <2>6
    <2>9. ~f[m + 1].stray /\ InPlace(totals) => InPlace(f[m + 1].totals)
      BY <2>1, <2>5, <2>6
    <2> QED BY <2>5, <2>6, <2>7, <2>8, <2>9
  <1>7. \A m \in Nat : m \in G
    <2> HIDE DEF G
    <2> QED BY <1>5, <1>6, CountingUp
  <1>8. Good(f[n])
    BY <1>7
  <1> QED BY <1>2, <1>8

(* A poll that believes w's counters is judged by w; v is the devices' side once *)
(* what it repeated is counted.                                                  *)
LEMMA PollKeepsTheBooks ==
    ASSUME NEW roster, NEW n \in Nat, roster \in [1 .. n -> Identities], OdometerInv,
           NEW figures, figures \in Totals!Replies(roster), Totals!Poll(roster, figures)
    PROVE  OdometerInv'
  <1> DEFINE P == Totals!Polled(roster, figures)
             u == Carriage
             v == Carriage'
  <1>1. /\ u \in Carriages /\ u.counter = counts /\ u.sent = Totals!Chargeable /\ u.before = sentBefore
        /\ u.clock = rolls /\ u = [counter |-> u.counter, sent |-> u.sent, before |-> u.before, clock |-> u.clock]
        /\ v.counter = counts' /\ v.sent = (Totals!Chargeable)' /\ v.before = sentBefore' /\ v.clock = rolls'
        /\ v = [counter |-> v.counter, sent |-> v.sent, before |-> v.before, clock |-> v.clock]
    BY DEF OdometerInv, Carriage
  <1>2. /\ totals' = P.totals /\ (logged' = P.rows \/ logged' = logged) /\ totalsFile' = totalsFile
        /\ (P.stray => "stray" \in Returning)
        /\ again' = (IF figures = counts THEN again ELSE Totals!Repeated(figures))
        /\ counts' = counts /\ sent' = sent /\ sentBefore' = sentBefore /\ rolls' = rolls
    BY DEF Totals!Poll
  <1>3. /\ counts \in [Identities -> Nat] /\ u.sent \in [Identities -> Nat] /\ u.before \in [Identities -> Nat]
        /\ \A i \in Identities : u.before[i] <= u.sent[i]
        /\ sent \in [Identities -> Nat] /\ again \in [Identities -> Nat] /\ rolls \in Nat
        /\ \A i \in Identities : u.sent[i] = sent[i] + again[i]
        /\ \A i \in Identities : v.sent[i] = sent'[i] + again'[i]
    BY <1>1 DEF Carriages, OdometerInv, Totals!Chargeable
  <1> HIDE DEF P, u, v
  <1>4. \E w \in Carriages :
           /\ w.counter = figures /\ w.clock = rolls /\ v \in Carriages
           /\ again' \in [Identities -> Nat]
           /\ \A B : (Books(u, B) => Books(w, B)) /\ (Books(w, B) => Books(v, B))
    <2>1. CASE figures = counts
      <3>1. v = u
        BY <1>1, <1>2, <2>1 DEF Totals!Chargeable
      <3> QED BY <1>1, <1>2, <1>3, <2>1, <3>1
    <2>2. CASE figures # counts
      <3>1. PICK id \in Identities, old \in Nat : figures = [counts EXCEPT ![id] = old]
        <4>1. figures \in Totals!Late(roster)
          BY <2>2 DEF Totals!Replies
        <4> DEFINE Of(i) == { [counts EXCEPT ![i] = old] : old \in 0 .. Totals!Max({highest[i], counts[i]}) }
        <4>2. Totals!Late(roster) = UNION { Of(i) : i \in Totals!Range(roster) }
          BY DEF Totals!Late
        <4>3. PICK i \in Totals!Range(roster) : figures \in Of(i)
          <5> HIDE DEF Of
          <5> QED BY <4>1, <4>2
        <4>4. PICK old \in 0 .. Totals!Max({highest[i], counts[i]}) : figures = [counts EXCEPT ![i] = old]
          BY <4>3
        <4>5. old \in Nat /\ i \in Identities
          BY <4>3 DEF Totals!Range
        <4> QED BY <4>4, <4>5
      <3> DEFINE there == Totals!Believed(counts[id], old)
                 back  == Totals!Believed(old, counts[id])
                 s     == [u.sent EXCEPT ![id] = @ + there]
             w     == [counter |-> figures, sent |-> s, before |-> u.before, clock |-> u.clock]
      <3>2. there \in Nat /\ back \in Nat /\ counts[id] \in Nat
        BY <1>3, BeliefsAddUp
      <3>3. \A i \in Identities : again'[i] = again[i] + (IF i = id THEN there + back ELSE 0)
        <4>1. \A i \in Identities \ {id} : figures[i] = counts[i] /\ Totals!Believed(counts[i], figures[i]) = 0
          BY <1>3, <3>1, BeliefsAddUp
        <4>2. figures[id] = old
          BY <1>3, <3>1
        <4>3. again' = [i \in Identities |->
                           again[i] + Totals!Believed(counts[i], figures[i]) + Totals!Believed(figures[i], counts[i])]
          BY <1>2, <2>2 DEF Totals!Repeated
        <4> HIDE DEF there, back
        <4>4. \A i \in Identities \ {id} : again'[i] = (again[i] + 0) + 0
          BY <4>1, <4>3
        <4>5. again'[id] = (again[id] + there) + back
          BY <4>2, <4>3 DEF there, back
        <4> QED BY <1>3, <3>2, <4>4, <4>5
      <3> HIDE DEF there, back
      <3>4. again' \in [Identities -> Nat]
        <4>1. again' = [i \in Identities |-> again'[i]]
          BY <1>2, <2>2 DEF Totals!Repeated
        <4>2. ASSUME NEW i \in Identities PROVE again'[i] \in Nat
          <5>1. again[i] \in Nat
            BY <1>3
          <5>2. again'[i] = again[i] + (IF i = id THEN there + back ELSE 0)
            BY <3>3
          <5> QED BY <3>2, <5>1, <5>2
        <4> QED BY <4>1, <4>2
      <3>5. figures \in [Identities -> Nat] /\ figures[id] = old /\ \A i \in Identities \ {id} : figures[i] = counts[i]
        BY <1>3, <3>1
      <3>6. /\ w.counter = figures /\ w.before = u.before /\ w.clock = u.clock
            /\ w.sent \in [Identities -> Nat] /\ w.sent[id] = u.sent[id] + there
            /\ \A i \in Identities \ {id} : w.sent[i] = u.sent[i]
            /\ w = [counter |-> w.counter, sent |-> w.sent, before |-> w.before, clock |-> w.clock]
        <4>1. u.sent[id] \in Nat
          BY <1>3
        <4>2. s \in [Identities -> Nat] /\ s[id] = u.sent[id] + there /\ \A i \in Identities \ {id} : s[i] = u.sent[i]
          BY <1>3, <3>2, <4>1
        <4> HIDE DEF s
        <4> QED BY <4>2
      <3> HIDE DEF w, s
      <3>7. w \in Carriages
        <4>1. \A i \in Identities : w.before[i] <= w.sent[i]
          <5> SUFFICES ASSUME NEW i \in Identities PROVE w.before[i] <= w.sent[i]
            OBVIOUS
          <5>1. u.before[i] \in Nat /\ u.sent[i] \in Nat /\ u.before[i] <= u.sent[i]
            BY <1>3
          <5>2. w.sent[i] = u.sent[i] + there \/ w.sent[i] = u.sent[i]
            BY <3>6
          <5>3. w.before[i] = u.before[i]
            BY <3>6
          <5> QED BY <3>2, <5>1, <5>2, <5>3
        <4> QED BY <1>1, <1>3, <3>5, <3>6, <4>1 DEF Carriages
      <3>8. /\ v.sent[id] = w.sent[id] + back
            /\ \A i \in Identities \ {id} : v.sent[i] = w.sent[i]
        <4>1. ASSUME NEW i \in Identities
              PROVE  v.sent[i] = u.sent[i] + (IF i = id THEN there + back ELSE 0)
          <5>1. v.sent[i] = sent'[i] + again'[i] /\ sent'[i] = sent[i] /\ u.sent[i] = sent[i] + again[i]
            BY <1>2, <1>3
          <5>2. sent[i] \in Nat /\ again[i] \in Nat
            BY <1>3
          <5>3. again'[i] = again[i] + (IF i = id THEN there + back ELSE 0)
            BY <3>3
          <5> QED BY <3>2, <5>1, <5>2, <5>3
        <4>2. \A i \in Identities : u.sent[i] \in Nat
          BY <1>3
        <4>3. v.sent[id] = u.sent[id] + (there + back) /\ w.sent[id] = u.sent[id] + there
          BY <3>6, <4>1
        <4>4. \A i \in Identities \ {id} : v.sent[i] = u.sent[i] + 0 /\ w.sent[i] = u.sent[i]
          BY <3>6, <4>1
        <4>5. v.sent[id] = w.sent[id] + back
          BY <3>2, <4>2, <4>3
        <4> QED BY <4>2, <4>4, <4>5
      <3>9. v.sent \in [Identities -> Nat]
        <4>1. v.sent = [i \in Identities |-> v.sent[i]]
          BY <1>1 DEF Totals!Chargeable
        <4>2. \A i \in Identities : v.sent[i] \in Nat
          BY <1>2, <1>3, <3>4
        <4> QED BY <4>1, <4>2
      <3>10. v \in Carriages
        <4>1. \A i \in Identities : v.before[i] <= v.sent[i]
          <5>1. \A i \in Identities : w.before[i] <= w.sent[i] /\ v.before[i] = w.before[i]
            BY <1>1, <1>2, <3>6, <3>7 DEF Carriages
          <5>2. \A i \in Identities : w.sent[i] <= v.sent[i]
            BY <3>2, <3>6, <3>8
          <5>3. \A i \in Identities : w.before[i] \in Nat
            BY <1>3, <3>6
          <5> QED BY <3>6, <3>9, <5>1, <5>2, <5>3
        <4>2. v.before \in [Identities -> Nat] /\ v.counter \in [Identities -> Nat] /\ v.clock \in Nat
          BY <1>1, <1>2, <1>3
        <4> QED BY <1>1, <3>9, <4>1, <4>2 DEF Carriages
      <3>11. \A B : Books(u, B) => Books(w, B)
        <4>1. w.sent[id] = u.sent[id] + Totals!Believed(u.counter[id], w.counter[id])
          BY <1>1, <3>5, <3>6 DEF there
        <4>2. /\ w.clock = u.clock /\ w.before = u.before
              /\ \A i \in Identities \ {id} : w.counter[i] = u.counter[i] /\ w.sent[i] = u.sent[i]
          BY <1>1, <3>5, <3>6
        <4> QED BY <1>1, <3>7, <4>1, <4>2, BooksGoOn
      <3>12. \A B : Books(w, B) => Books(v, B)
        <4>1. v.sent[id] = w.sent[id] + Totals!Believed(w.counter[id], v.counter[id])
          BY <1>1, <1>2, <3>5, <3>6, <3>8 DEF back
        <4>2. /\ v.clock = w.clock /\ v.before = w.before
              /\ \A i \in Identities \ {id} : v.counter[i] = w.counter[i] /\ v.sent[i] = w.sent[i]
          BY <1>1, <1>2, <3>5, <3>6, <3>8
        <4> QED BY <3>7, <3>10, <4>1, <4>2, BooksGoOn
      <3> QED BY <1>1, <3>4, <3>6, <3>7, <3>10, <3>11, <3>12
    <2> QED BY <2>1, <2>2
  <1>5. PICK w \in Carriages :
           /\ w.counter = figures /\ w.clock = rolls /\ v \in Carriages
           /\ again' \in [Identities -> Nat]
           /\ \A B : (Books(u, B) => Books(w, B)) /\ (Books(w, B) => Books(v, B))
    BY <1>4
  <1>6. CoreIsKept(u, totals) /\ CoreIsKept(u, totalsFile) /\ logged \in [Macs -> Int]
    BY DEF OdometerInv, u
  <1>7. CoreIsKept(w, totals) /\ CoreIsKept(v, totalsFile)
    <2>1. Books(w, totals.buckets) /\ Books(v, totalsFile.buckets)
      BY <1>5, <1>6 DEF CoreIsKept
    <2> QED BY <1>6, <2>1, KeptOver
  <1>8. /\ Shaped(P.totals) /\ Books(w, P.totals.buckets) /\ P.rows \in [Macs -> Int]
        /\ P.stray \in BOOLEAN
        /\ ~P.stray /\ InPlace(totals) => InPlace(P.totals)
    BY <1>5, <1>6, <1>7, PolledIs DEF P
  <1>9. CoreIsKept(v, totals')
    <2>1. Books(v, P.totals.buckets)
      BY <1>5, <1>8
    <2> QED BY <1>2, <1>6, <1>8, <2>1 DEF CoreIsKept
  <1>10. logged' \in [Macs -> Int]
    BY <1>2, <1>6, <1>8
  <1>11. sent' \in [Identities -> Nat]
    BY <1>2, <1>3
  <1>12. v = Carriage'
    BY DEF v
  <1>13. CoreIsKept(v, totalsFile')
    BY <1>2, <1>7
  <1> HIDE DEF Carriage
  <1> QED BY <1>5, <1>9, <1>10, <1>11, <1>12, <1>13 DEF OdometerInv

OdometersStand == host \in Hosts /\ OdometerInv

LEMMA OdometersStart == Totals!Init => OdometersStand
  <1> SUFFICES ASSUME Totals!Init PROVE OdometersStand
    OBVIOUS
  <1>1. Carriage \in Carriages
    BY DEF Totals!Init, Carriage, Carriages, Totals!Chargeable
  <1>2. totals = Totals!Empty /\ totalsFile = Totals!Empty /\ logged \in [Macs -> Int] /\ host \in Hosts
        /\ sent \in [Identities -> Nat] /\ again \in [Identities -> Nat]
    BY DEF Totals!Init
  <1> HIDE DEF Carriage
  <1>3. CoreIsKept(Carriage, totals) /\ CoreIsKept(Carriage, totalsFile)
    BY <1>1, <1>2, EmptyIsKept
  <1> QED BY <1>1, <1>2, <1>3 DEF OdometersStand, OdometerInv

(* Steps of the devices and the clock.                                           *)
LEMMA CarriageMoves ==
    ASSUME OdometerInv, UNCHANGED <<totals, totalsFile>>, logged' \in [Macs -> Int], Carriage' \in Carriages,
           sent' \in [Identities -> Nat], again' \in [Identities -> Nat],
           \A B : Books(Carriage, B) => Books(Carriage', B)
    PROVE  OdometerInv'
  <1> DEFINE v == Carriage'
  <1>1. CoreIsKept(Carriage, totals) /\ CoreIsKept(Carriage, totalsFile)
    BY DEF OdometerInv
  <1> HIDE DEF v, Carriage
  <1>2. CoreIsKept(v, totals) /\ CoreIsKept(v, totalsFile)
    <2>1. Books(v, totals.buckets) /\ Books(v, totalsFile.buckets)
      BY <1>1 DEF CoreIsKept, v
    <2> QED BY <1>1, <2>1, KeptOver
  <1>3. CoreIsKept(Carriage', totals') /\ CoreIsKept(Carriage', totalsFile')
    BY <1>2 DEF v
  <1> QED BY <1>3 DEF OdometerInv

LEMMA DevicesMove ==
    ASSUME OdometerInv, NEW id \in Identities, Totals!Traffic(id) \/ Totals!Reassociate(id)
    PROVE  OdometerInv'
  <1> DEFINE w == Carriage
             v == Carriage'
  <1>1. /\ w \in Carriages
        /\ w.counter = counts /\ w.sent = Totals!Chargeable /\ w.before = sentBefore /\ w.clock = rolls
        /\ v.counter = counts' /\ v.sent = (Totals!Chargeable)' /\ v.before = sentBefore' /\ v.clock = rolls'
        /\ v = [counter |-> v.counter, sent |-> v.sent, before |-> v.before, clock |-> v.clock]
    BY DEF OdometerInv, Carriage
  <1> HIDE DEF w, v
  <1>2. /\ counts \in [Identities -> Nat] /\ sentBefore \in [Identities -> Nat] /\ rolls \in Nat
        /\ sent \in [Identities -> Nat] /\ again \in [Identities -> Nat]
        /\ w.sent = [i \in Identities |-> sent[i] + again[i]]
        /\ v.sent = [i \in Identities |-> sent'[i] + again'[i]]
        /\ \A i \in Identities : sentBefore[i] <= w.sent[i]
    BY <1>1 DEF Carriages, OdometerInv, Totals!Chargeable
  <1>3. PICK count1 \in Nat, more \in Nat :
           /\ counts' = [counts EXCEPT ![id] = count1] /\ sent' = [sent EXCEPT ![id] = @ + more]
           /\ more = Totals!Believed(counts[id], count1)
           /\ again' = again /\ sentBefore' = sentBefore /\ rolls' = rolls
           /\ UNCHANGED <<totals, totalsFile, logged>>
    <2>1. counts[id] \in Nat /\ counts[id] + 1 \in Nat /\ sent[id] \in Nat
      BY <1>2
    <2>2. Totals!Believed(counts[id], counts[id] + 1) = 1 /\ Totals!Believed(counts[id], 0) = 0
      BY <2>1, BeliefsAddUp
    <2>3. CASE Totals!Traffic(id)
      <3>1. /\ counts' = [counts EXCEPT ![id] = counts[id] + 1] /\ sent' = [sent EXCEPT ![id] = @ + 1]
            /\ again' = again /\ sentBefore' = sentBefore /\ rolls' = rolls
            /\ UNCHANGED <<totals, totalsFile, logged>>
        BY <2>3 DEF Totals!Traffic
      <3> QED BY <2>1, <2>2, <3>1
    <2>4. CASE Totals!Reassociate(id)
      <3>1. /\ counts' = [counts EXCEPT ![id] = 0] /\ sent' = sent
            /\ again' = again /\ sentBefore' = sentBefore /\ rolls' = rolls
            /\ UNCHANGED <<totals, totalsFile, logged>>
        BY <2>4 DEF Totals!Reassociate
      <3>2. sent' = [sent EXCEPT ![id] = @ + 0]
        BY <1>2, <2>1, <3>1
      <3> QED BY <2>2, <3>1, <3>2
    <2> QED BY <2>3, <2>4
  <1>4. /\ counts' \in [Identities -> Nat] /\ sent' \in [Identities -> Nat] /\ again' \in [Identities -> Nat]
        /\ v.sent \in [Identities -> Nat] /\ v.sent[id] = w.sent[id] + more
        /\ \A i \in Identities \ {id} : v.sent[i] = w.sent[i] /\ v.counter[i] = w.counter[i]
        /\ \A i \in Identities : sentBefore[i] <= v.sent[i]
        /\ w.counter[id] = counts[id] /\ v.counter[id] = count1
    <2>1. counts' \in [Identities -> Nat] /\ sent' \in [Identities -> Nat] /\ again' \in [Identities -> Nat]
      BY <1>2, <1>3
    <2>2. \A i \in Identities : v.sent[i] = sent'[i] + again[i] /\ w.sent[i] = sent[i] + again[i]
      BY <1>2, <1>3
    <2>3. sent'[id] = sent[id] + more /\ \A i \in Identities \ {id} : sent'[i] = sent[i]
      BY <1>2, <1>3
    <2>4. v.sent \in [Identities -> Nat]
      BY <1>2, <1>3, <2>1
    <2>5. v.sent[id] = w.sent[id] + more /\ \A i \in Identities \ {id} : v.sent[i] = w.sent[i]
      BY <1>2, <2>2, <2>3
    <2>6. \A i \in Identities : sentBefore[i] <= v.sent[i]
      BY <1>2, <2>2, <2>3
    <2>7. /\ \A i \in Identities \ {id} : v.counter[i] = w.counter[i]
          /\ w.counter[id] = counts[id] /\ v.counter[id] = count1
      BY <1>1, <1>2, <1>3
    <2> QED BY <2>1, <2>4, <2>5, <2>6, <2>7
  <1>5. v \in Carriages
    BY <1>1, <1>2, <1>3, <1>4 DEF Carriages
  <1>6. \A B : Books(w, B) => Books(v, B)
    <2>1. v.clock = w.clock /\ v.before = w.before
      BY <1>1, <1>3
    <2> QED BY <1>1, <1>3, <1>4, <1>5, <2>1, BooksGoOn
  <1>7. logged' \in [Macs -> Int]
    BY <1>3 DEF OdometerInv
  <1>8. w = Carriage /\ v = Carriage'
    BY DEF w, v
  <1> HIDE DEF Carriage
  <1> QED BY <1>3, <1>4, <1>5, <1>6, <1>7, <1>8, CarriageMoves

LEMMA TimeMoves ==
    ASSUME OdometerInv, Totals!Tick
    PROVE  OdometerInv'
  <1> DEFINE w == Carriage
             v == Carriage'
  <1>1. /\ w \in Carriages
        /\ w.counter = counts /\ w.sent = Totals!Chargeable /\ w.before = sentBefore /\ w.clock = rolls
        /\ v.counter = counts' /\ v.sent = (Totals!Chargeable)' /\ v.before = sentBefore' /\ v.clock = rolls'
        /\ v = [counter |-> v.counter, sent |-> v.sent, before |-> v.before, clock |-> v.clock]
    BY DEF OdometerInv, Carriage
  <1> HIDE DEF w, v
  <1>2. /\ w.counter \in [Identities -> Nat] /\ w.sent \in [Identities -> Nat] /\ w.before \in [Identities -> Nat]
        /\ w.clock \in Nat /\ \A i \in Identities : w.before[i] <= w.sent[i]
    BY <1>1 DEF Carriages
  <1>3. /\ counts' = counts /\ sent' = sent /\ again' = again /\ rolls' = rolls + 1
        /\ UNCHANGED <<totals, totalsFile>>
        /\ sentBefore' = IF Totals!Month(rolls') = Totals!Month(rolls) THEN sentBefore ELSE Totals!Chargeable
        /\ logged' \in [Macs -> Int]
    BY DEF Totals!Tick, OdometerInv
  <1>4. v.clock = w.clock + 1 /\ v.counter = w.counter /\ v.sent = w.sent
        /\ v.before = IF Totals!Month(v.clock) = Totals!Month(w.clock) THEN w.before ELSE w.sent
    BY <1>1, <1>3 DEF Totals!Chargeable
  <1>5. v \in Carriages
    <2>1. v.before \in [Identities -> Nat] /\ (\A i \in Identities : v.before[i] <= v.sent[i]) /\ v.clock \in Nat
      BY <1>2, <1>4
    <2> QED BY <1>1, <1>2, <1>4, <2>1 DEF Carriages
  <1>6. \A B : Books(w, B) => Books(v, B)
    BY <1>1, <1>4, <1>5, BooksTurn
  <1>7. sent' \in [Identities -> Nat] /\ again' \in [Identities -> Nat]
    BY <1>3 DEF OdometerInv
  <1>8. w = Carriage /\ v = Carriage'
    BY DEF w, v
  <1> HIDE DEF Carriage
  <1> QED BY <1>3, <1>5, <1>6, <1>7, <1>8, CarriageMoves

(* Steps of the host.                                                            *)
LEMMA HostMoves ==
    ASSUME OdometerInv, UNCHANGED <<counts, sent, again, sentBefore, rolls>>, logged' \in [Macs -> Int],
           CoreIsKept(Carriage, totals'), CoreIsKept(Carriage, totalsFile')
    PROVE  OdometerInv'
  <1>1. Carriage' = Carriage
    BY DEF Carriage, Totals!Chargeable
  <1> HIDE DEF Carriage
  <1> QED BY <1>1 DEF OdometerInv

LEMMA AnswersAreKept ==
    ASSUME OdometerInv, NEW T, CoreIsKept(Carriage, T), Totals!Answered(T)
    PROVE  OdometerInv'
  <1>1. CoreIsKept(Carriage, Totals!Saved(T))
    BY EmptyIsKept DEF Totals!Saved, OdometerInv
  <1>2. totals' = T /\ totalsFile' = Totals!Saved(T) /\ UNCHANGED <<counts, sent, again, sentBefore, rolls, logged>>
    BY DEF Totals!Answered, Totals!world
  <1> QED BY <1>1, <1>2, HostMoves DEF OdometerInv

LEMMA OdometersStep ==
    ASSUME OdometersStand, Totals!Next \/ UNCHANGED Totals!vars
    PROVE  OdometersStand'
  <1>1. OdometerInv /\ Carriage \in Carriages /\ CoreIsKept(Carriage, totals) /\ CoreIsKept(Carriage, totalsFile)
        /\ logged \in [Macs -> Int]
    BY DEF OdometersStand, OdometerInv
  <1>2. host \in Hosts /\ host.ids \subseteq Identities
    BY InstancesSuit DEF OdometersStand, Totals!TotalsAssumption, Totals!HostType
  <1>3. host' = host
    BY DEF Totals!Next, Totals!vars, Totals!Traffic, Totals!Reassociate, Totals!Tick, Totals!Poll, Totals!ResetTotal, Totals!RemoveTotal, Totals!MergeRequest,
           Totals!ClearTotals, Totals!Compact, Totals!Snapshot, Totals!Start, Totals!Answered
  <1>4. ASSUME NEW id \in host.ids, Totals!Traffic(id) \/ Totals!Reassociate(id) PROVE OdometerInv'
    BY <1>1, <1>2, <1>4, DevicesMove
  <1>5. ASSUME Totals!Tick PROVE OdometerInv'
    BY <1>1, <1>5, TimeMoves
  <1>6. ASSUME NEW r \in Totals!Rosters, NEW figures \in Totals!Replies(r), Totals!Poll(r, figures) PROVE OdometerInv'
    <2>1. PICK n \in 1 .. 2 : r \in [1 .. n -> host.ids]
      BY DEF Totals!Rosters
    <2>2. n \in Nat /\ r \in [1 .. n -> Identities]
      BY <1>2, <2>1
    <2> QED BY <1>1, <1>6, <2>2, PollKeepsTheBooks
  <1>7. ASSUME NEW k \in Totals!Keys, Totals!ResetTotal(k) PROVE OdometerInv'
    <2>1. CoreIsKept(Carriage, [totals EXCEPT !.buckets[k].anchor = totals.buckets[k].life])
      BY <1>1, <1>7, ResetIsKept DEF Totals!ResetTotal
    <2> QED BY <1>1, <1>7, <2>1, AnswersAreKept DEF Totals!ResetTotal
  <1>8. ASSUME NEW k \in Totals!Keys, Totals!RemoveTotal(k) PROVE OdometerInv'
    <2>1. CoreIsKept(Carriage, [totals EXCEPT !.buckets = Totals!Drop(@, {k})])
      BY <1>1, DroppedIsKept
    <2> QED BY <1>1, <1>8, <2>1, AnswersAreKept DEF Totals!RemoveTotal
  <1>9. ASSUME NEW a \in Totals!Keys, NEW b \in Totals!Keys, Totals!MergeRequest(a, b) PROVE OdometerInv'
    <2>1. CoreIsKept(Carriage, Totals!Merge(totals, Totals!At(totals, a), Totals!At(totals, b)))
      BY <1>1, <1>9, MergeIsKept DEF Totals!MergeRequest
    <2> QED BY <1>1, <1>9, <2>1, AnswersAreKept DEF Totals!MergeRequest
  <1>10. ASSUME Totals!ClearTotals PROVE OdometerInv'
    <2> DEFINE N == [totals EXCEPT !.buckets = <<>>]
    <2>1. N.buckets = <<>> /\ Shaped(N)
      <3>1. <<>> = [k \in DOMAIN <<>> |-> <<>>[k]]
        OBVIOUS
      <3> QED BY <1>1, <3>1 DEF CoreIsKept, Shaped
    <2> HIDE DEF N
    <2>2. DOMAIN N.buckets = {}
      BY <2>1
    <2>3. CoreIsKept(Carriage, N)
      BY <1>1, <2>1, <2>2, KeptOfSome
    <2> QED BY <1>1, <1>10, <2>3, AnswersAreKept DEF Totals!ClearTotals, N
  <1>11. ASSUME Totals!Compact PROVE OdometerInv'
    <2>1. CoreIsKept(Carriage, [totals EXCEPT !.buckets = Totals!Drop(@, Totals!Stale)])
      BY <1>1, DroppedIsKept
    <2>2. CoreIsKept(Carriage, totals') /\ CoreIsKept(Carriage, totalsFile')
      BY <1>1, <1>11, <2>1, EmptyIsKept DEF Totals!Compact, Totals!Saved
    <2>3. UNCHANGED <<counts, sent, again, sentBefore, rolls, logged>>
      BY <1>11 DEF Totals!Compact, Totals!world
    <2> QED BY <1>1, <2>2, <2>3, HostMoves
  <1>12. ASSUME Totals!Snapshot PROVE OdometerInv'
    <2>1. CoreIsKept(Carriage, totals') /\ CoreIsKept(Carriage, totalsFile')
      BY <1>1, <1>12, EmptyIsKept DEF Totals!Snapshot, Totals!Saved
    <2>2. UNCHANGED <<counts, sent, again, sentBefore, rolls, logged>>
      BY <1>12 DEF Totals!Snapshot, Totals!world
    <2> QED BY <1>1, <2>1, <2>2, HostMoves
  <1>13. ASSUME Totals!Start PROVE OdometerInv'
    <2>1. CoreIsKept(Carriage, Totals!Loaded(totalsFile)) /\ InPlace(Totals!Loaded(totalsFile))
      BY <1>1, LoadedIsKept
    <2>2. CoreIsKept(Carriage, Totals!Seeded(Totals!Loaded(totalsFile)))
      BY <1>1, <2>1, SeededIsKept
    <2>3. CoreIsKept(Carriage, totals') /\ CoreIsKept(Carriage, totalsFile')
      BY <1>1, <1>13, <2>1, <2>2, EmptyIsKept DEF Totals!Start
    <2>4. UNCHANGED <<counts, sent, again, sentBefore, rolls, logged>>
      BY <1>13 DEF Totals!Start, Totals!world
    <2> QED BY <1>1, <2>3, <2>4, HostMoves
  <1>14. ASSUME UNCHANGED Totals!vars PROVE OdometerInv'
    <2>1. UNCHANGED <<counts, sent, again, sentBefore, rolls, logged, totals, totalsFile>>
      BY <1>14 DEF Totals!vars, Totals!world
    <2> QED BY <1>1, <2>1, HostMoves
  <1>15. OdometerInv'
    BY <1>4, <1>5, <1>6, <1>7, <1>8, <1>9, <1>10, <1>11, <1>12, <1>13, <1>14 DEF Totals!Next
  <1> QED BY <1>2, <1>3, <1>15 DEF OdometersStand

(* What the books say of the odometers.                                          *)
LEMMA OdometersSay ==
    ASSUME OdometersStand
    PROVE  /\ Totals!CountsNoByteTwice /\ Totals!MonthHoldsItsOwn /\ Totals!MonthsAreApart
           /\ "stray" \notin Returning => Totals!RestoreResumes
  <1> DEFINE w == Carriage
             B == totals.buckets
  <1>1. /\ w \in Carriages /\ Books(w, B) /\ Shaped(totals) /\ ("stray" \notin Returning => InPlace(totals))
        /\ w.sent = Totals!Chargeable /\ w.before = sentBefore /\ w.clock = rolls
    BY DEF OdometersStand, OdometerInv, CoreIsKept, Carriage
  <1>2. /\ IsFiniteSet(DOMAIN B)
        /\ \A k \in DOMAIN B : B[k] \in TotalBucket /\ FiguresInOrder(w, B[k]) /\ (~B[k].doubt => OwnKey(k, B[k]))
        /\ \A k : k \in SoundOf(B) <=> k \in DOMAIN B /\ ~B[k].doubt
    BY <1>1, BooksSay
  <1>3. Totals!Sound = SoundOf(B)
    BY DEF Totals!Sound, SoundOf
  <1>4. /\ IsFiniteSet(SoundOf(B)) /\ SoundOf(B) \subseteq DOMAIN B
        /\ \A I : FedBy(B, I) \subseteq SoundOf(B) /\ IsFiniteSet(FedBy(B, I))
        /\ \A k \in SoundOf(B) : Charges(w, B)[k] \in Nat /\ ThisMonths(w, B)[k] \in Nat
    BY <1>1, SoundTerms DEF Books
  <1> HIDE DEF w
  <1>5. ASSUME NEW k \in SoundOf(B)
        PROVE  /\ B[k].life \in Nat /\ Totals!Monthly(B[k]) \in Nat /\ Awaited(w, B[k]) \in Nat
               /\ Charges(w, B)[k] = B[k].life + Awaited(w, B[k])
               /\ B[k].month = Totals!Month(rolls) => ThisMonths(w, B)[k] = Totals!Monthly(B[k]) + Awaited(w, B[k])
    <2>1. B[k].life \in Nat /\ Totals!Monthly(B[k]) \in Nat /\ Awaited(w, B[k]) \in Nat
      BY <1>1, <1>2, TermsAreBytes
    <2> QED BY <1>1, <1>4, <2>1 DEF Charges, Charge, ThisMonths, ThisMonth
  <1>6. Totals!CountsNoByteTwice
    <2> SUFFICES ASSUME NEW I \in SUBSET Identities
                 PROVE  SumFunctionOnSet([k \in Totals!Sound |-> B[k].life], { k \in Totals!Sound : B[k].ids \subseteq I })
                           <= SumFunctionOnSet(Totals!Chargeable, I)
      BY TotalsSum DEF Totals!CountsNoByteTwice, Totals!NoByteTwice, Totals!Carried
    <2> DEFINE f == [k \in Totals!Sound |-> B[k].life]
    <2>1. { k \in Totals!Sound : B[k].ids \subseteq I } = FedBy(B, I)
      BY <1>3 DEF FedBy
    <2>2. SumFunctionOnSet(Charges(w, B), FedBy(B, I)) <= SumFunctionOnSet(Totals!Chargeable, I)
      BY <1>1 DEF Books, ChargedOnce
    <2>3. \A k \in FedBy(B, I) : f[k] \in Int /\ Charges(w, B)[k] \in Int /\ f[k] <= Charges(w, B)[k]
      <3> SUFFICES ASSUME NEW k \in FedBy(B, I)
                   PROVE  f[k] \in Int /\ Charges(w, B)[k] \in Int /\ f[k] <= Charges(w, B)[k]
        OBVIOUS
      <3>1. k \in SoundOf(B) /\ f[k] = B[k].life
        BY <1>3, <1>4
      <3> HIDE DEF f
      <3> QED BY <1>5, <3>1
    <2> HIDE DEF f
    <2>4. SumFunctionOnSet(f, FedBy(B, I)) <= SumFunctionOnSet(Charges(w, B), FedBy(B, I))
      BY <1>4, <2>3, SumsCompare
    <2>5. SumFunctionOnSet(f, FedBy(B, I)) \in Int /\ SumFunctionOnSet(Charges(w, B), FedBy(B, I)) \in Int
      BY <1>4, <2>3, SumIsInt
    <2>6. SumFunctionOnSet(Totals!Chargeable, I) \in Int
      <3>1. IsFiniteSet(I) /\ \A i \in I : Totals!Chargeable[i] \in Int
        BY <1>1, OdometersSuit, FS_Subset DEF Carriages
      <3> QED BY <3>1, SumIsInt
    <2>7. SumFunctionOnSet(f, FedBy(B, I)) <= SumFunctionOnSet(Totals!Chargeable, I)
      BY <2>2, <2>4, <2>5, <2>6
    <2> QED BY <2>1, <2>7 DEF f
  <1>7. Totals!MonthHoldsItsOwn
    <2> SUFFICES ASSUME NEW k \in SoundOf(B), B[k].month = Totals!Month(rolls)
                 PROVE  Totals!Monthly(B[k]) <= SumFunctionOnSet(Totals!Chargeable, B[k].ids) - SumFunctionOnSet(sentBefore, B[k].ids)
      BY <1>3, TotalsSum DEF Totals!MonthHoldsItsOwn, Totals!Carried
    <2> DEFINE I == B[k].ids
               S == FedBy(B, I)
               f == ThisMonths(w, B)
    <2>1. I \in SUBSET Identities /\ k \in S
      BY <1>2, BucketFields DEF FedBy
    <2> HIDE DEF I
    <2>2. SumFunctionOnSet(f, S) <= SumFunctionOnSet(Totals!Chargeable, I) - SumFunctionOnSet(sentBefore, I)
      BY <1>1, <2>1 DEF Books, MonthChargedOnce
    <2>3. IsFiniteSet(S) /\ \A x \in S : f[x] \in Nat
      BY <1>4
    <2>4. f[k] = Totals!Monthly(B[k]) + Awaited(w, B[k]) /\ Totals!Monthly(B[k]) \in Nat /\ Awaited(w, B[k]) \in Nat
      BY <1>5
    <2> HIDE DEF f, S
    <2>5. SumFunctionOnSet(f, {k}) <= SumFunctionOnSet(f, S) /\ SumFunctionOnSet(f, S) \in Nat
      BY <2>1, <2>3, SumIsNat
    <2>6. SumFunctionOnSet(f, {k}) = f[k]
      <3>1. f[k] \in Int
        BY <2>4
      <3> QED BY <3>1, SumOfFew
    <2>7. SumFunctionOnSet(Totals!Chargeable, I) \in Int /\ SumFunctionOnSet(sentBefore, I) \in Int
      <3>1. IsFiniteSet(I) /\ \A i \in I : Totals!Chargeable[i] \in Int /\ sentBefore[i] \in Int
        BY <1>1, <2>1, OdometersSuit, FS_Subset DEF Carriages
      <3> QED BY <3>1, SumIsInt
    <2>8. Totals!Monthly(B[k]) <= SumFunctionOnSet(Totals!Chargeable, I) - SumFunctionOnSet(sentBefore, I)
      BY <2>2, <2>4, <2>5, <2>6, <2>7
    <2> QED BY <2>8 DEF I
  <1>8. Totals!MonthsAreApart
    BY <1>2 DEF Totals!MonthsAreApart, FiguresInOrder
  <1>9. ASSUME "stray" \notin Returning PROVE Totals!RestoreResumes
    <2>1. InPlace(totals) /\ Shaped(totals)
      BY <1>1, <1>9
    <2> DEFINE ks == { Totals!KeyIn(B[x]) : x \in DOMAIN B }
               C == [k \in ks |-> B[CHOOSE x \in DOMAIN B : Totals!KeyIn(B[x]) = k]]
    <2>2. ks = DOMAIN B
      BY <2>1 DEF InPlace
    <2>3. \A k \in DOMAIN B : (CHOOSE x \in DOMAIN B : Totals!KeyIn(B[x]) = k) = k
      BY <2>1 DEF InPlace
    <2>4. C = [k \in DOMAIN B |-> B[k]]
      BY <2>2, <2>3
    <2>5. C = B
      BY <2>1, <2>4 DEF Shaped
    <2>6. Totals!Loaded(totals) = [totals EXCEPT !.buckets = C]
      BY DEF Totals!Loaded
    <2> HIDE DEF C
    <2>7. [totals EXCEPT !.buckets = B] = totals
      BY <2>1 DEF Shaped
    <2> QED BY <2>5, <2>6, <2>7 DEF Totals!RestoreResumes
  <1> QED BY <1>6, <1>7, <1>8, <1>9

(* UsageTotals: over polls in any order, counters that restart, replies that are *)
(* stale, adoptions, merges, resets, opening seeds and starts from an old        *)
(* snapshot, for all devices, addresses and months, no odometer holds more than  *)
(* was carried and what the ceiling lets stale replies repeat (ClientTotalsCore: *)
(* observe, advance, reanchor, merge, compact, toSnapshot, loadSnapshot).        *)
THEOREM OdometersAreAlwaysExact == StoresSpec => []OdometersAreExact
  <1> DEFINE Inv == part = "totals" => OdometersStand
  <1>1. StoresInit => Inv
    BY OdometersStart DEF StoresInit
  <1>2. Inv /\ [UNCHANGED part /\ StoresNext]_storesVars => Inv'
    <2> SUFFICES ASSUME part = "totals", OdometersStand, UNCHANGED part,
                        StoresNext \/ UNCHANGED storesVars
                 PROVE  OdometersStand'
      BY DEF storesVars
    <2>1. Totals!Next \/ UNCHANGED Totals!vars
      BY DEF StoresNext, storesVars, totalVars, Totals!vars, Totals!world, Totals!spent
    <2> QED BY <2>1, OdometersStep
  <1>3. Inv => OdometersAreExact
    BY OdometersSay DEF OdometersAreExact
  <1> QED BY <1>1, <1>2, <1>3, PTL DEF StoresSpec
================================================================================
