------------------------------- MODULE SumTheorems -------------------------------
(* Sums of a function over a finite set (Functions' SumFunctionOnSet), for any   *)
(* function and set: what adding an element, splitting the set, changing a value *)
(* or sorting the elements into classes does to them.  The recursion a sum is    *)
(* computed by exists and is unique, which is shown without an induction theorem *)
(* that takes an operator: by the least size a counterexample could have.        *)
EXTENDS Functions, Integers, FiniteSets, FiniteSetTheorems, WellFoundedInduction, TLAPS

(* A set of numbers has a least one.                                             *)
LEMMA LeastExists ==
    ASSUME NEW T \in SUBSET Nat, T # {}
    PROVE  \E n \in T : \A m \in T : n <= m
  <1>1. PICK n \in T : \A m \in T : ~(<<m, n>> \in OpToRel(<, Nat))
    BY NatLessThanWellFounded, WFMin
  <1>2. ASSUME NEW m \in T PROVE n <= m
    <2>1. <<m, n>> \in Nat \X Nat
      OBVIOUS
    <2>2. ~(m < n)
      BY <1>1, <2>1 DEF OpToRel
    <2> QED BY <2>2
  <1> QED BY <1>2

(* Induction over the numbers, for a set that holds those it is true of.         *)
LEMMA CountingUp ==
    ASSUME NEW G, 0 \in G, \A n \in Nat : n \in G => n + 1 \in G
    PROVE  \A n \in Nat : n \in G
  <1> DEFINE Bad == { n \in Nat : n \notin G }
  <1> SUFFICES ASSUME Bad # {} PROVE FALSE
    OBVIOUS
  <1>1. PICK n \in Bad : \A m \in Bad : n <= m
    BY LeastExists
  <1>2. n # 0 /\ n - 1 \in Nat
    OBVIOUS
  <1>3. n - 1 \in G
    BY <1>1, <1>2
  <1> QED BY <1>2, <1>3

(* What holds of a set when it holds of each one smaller by an element, holds of *)
(* every part of a finite set.                                                   *)
LEMMA SubsetInduction ==
    ASSUME NEW S, IsFiniteSet(S), NEW G, {} \in G,
           \A T \in SUBSET S : T # {} /\ (\A x \in T : T \ {x} \in G) => T \in G
    PROVE  \A T \in SUBSET S : T \in G
  <1> DEFINE Bad == { T \in SUBSET S : T \notin G }
  <1> DEFINE Sizes == { Cardinality(T) : T \in Bad }
  <1> SUFFICES ASSUME Bad # {} PROVE FALSE
    OBVIOUS
  <1>1. \A T \in SUBSET S : IsFiniteSet(T) /\ Cardinality(T) \in Nat
    BY FS_Subset, FS_CardinalityType
  <1>2. Sizes \in SUBSET Nat /\ Sizes # {}
    BY <1>1
  <1>3. PICK n \in Sizes : \A m \in Sizes : n <= m
    BY <1>2, LeastExists
  <1>4. PICK T \in Bad : Cardinality(T) = n
    BY <1>3
  <1>5. ASSUME NEW x \in T PROVE T \ {x} \in G
    <2>1. Cardinality(T \ {x}) = Cardinality(T) - 1
      BY <1>1, FS_RemoveElement
    <2>2. T \ {x} \in SUBSET S
      OBVIOUS
    <2>3. Cardinality(T \ {x}) \in Nat /\ Cardinality(T) \in Nat
      BY <2>2, <1>1
    <2>4. CASE T \ {x} \in Bad
      <3>1. n <= Cardinality(T \ {x})
        BY <1>3, <2>4
      <3> QED BY <3>1, <2>1, <2>3, <1>4
    <2> QED BY <2>2, <2>4
  <1> QED BY <1>4, <1>5

--------------------------------------------------------------------------------
(* The element a sum takes first.                                                *)
Pick(T) == CHOOSE x \in T : TRUE

(* The recursion by which a sum is computed.                                     *)
Adds(it, f, S) ==
    it = [T \in SUBSET S |-> IF T = {} THEN 0 ELSE f[Pick(T)] + it[T \ {Pick(T)}]]

(* A sum is the value such a recursion has for its whole set.                    *)
LEMMA SumIs ==
    ASSUME NEW f, NEW S
    PROVE  SumFunctionOnSet(f, S) = (CHOOSE it : Adds(it, f, S))[S]
  BY DEF SumFunctionOnSet, FoldFunctionOnSet, MapThenFoldSet, Adds, Pick

(* What it has for each part of the set.                                         *)
LEMMA AddsValue ==
    ASSUME NEW f, NEW S, NEW it, Adds(it, f, S)
    PROVE  \A T \in SUBSET S : it[T] = IF T = {} THEN 0 ELSE f[Pick(T)] + it[T \ {Pick(T)}]
  <1> DEFINE g == [T \in SUBSET S |-> IF T = {} THEN 0 ELSE f[Pick(T)] + it[T \ {Pick(T)}]]
  <1>1. it = g
    BY DEF Adds
  <1>2. \A T \in SUBSET S : g[T] = IF T = {} THEN 0 ELSE f[Pick(T)] + it[T \ {Pick(T)}]
    OBVIOUS
  <1> QED BY <1>1, <1>2

(* It takes an element of the set.                                               *)
LEMMA PickIn == \A T : T # {} => Pick(T) \in T
  BY DEF Pick

(* Two recursions, over a set and over a part of it, agree on the part.          *)
LEMMA AddsUnique ==
    ASSUME NEW f, NEW S, NEW R \in SUBSET S, IsFiniteSet(R), NEW it, NEW jt, Adds(it, f, S), Adds(jt, f, R)
    PROVE  it[R] = jt[R]
  <1> DEFINE G == { T \in SUBSET R : it[T] = jt[T] }
  <1>1. {} \in G
    BY AddsValue
  <1>2. ASSUME NEW T \in SUBSET R, T # {}, \A x \in T : T \ {x} \in G PROVE T \in G
    <2>1. Pick(T) \in T
      BY <1>2, PickIn
    <2>2. T \ {Pick(T)} \in G
      BY <1>2, <2>1
    <2>3. it[T \ {Pick(T)}] = jt[T \ {Pick(T)}]
      BY <2>2
    <2>4. it[T] = f[Pick(T)] + it[T \ {Pick(T)}]
      BY <1>2, AddsValue
    <2>5. jt[T] = f[Pick(T)] + jt[T \ {Pick(T)}]
      BY <1>2, AddsValue
    <2> QED BY <2>3, <2>4, <2>5
  <1> HIDE DEF G
  <1>3. \A T \in SUBSET R : T \in G
    BY <1>1, <1>2, SubsetInduction
  <1> QED BY <1>3 DEF G

(* There is one for every finite set.                                            *)
LEMMA AddsExists ==
    ASSUME NEW f, NEW S, IsFiniteSet(S)
    PROVE  \E it : Adds(it, f, S)
  <1> DEFINE G == { R \in SUBSET S : \E it : Adds(it, f, R) }
  <1>1. {} \in G
    <2>1. Adds([T \in SUBSET {} |-> 0], f, {})
      BY DEF Adds
    <2> QED BY <2>1
  <1>2. ASSUME NEW R \in SUBSET S, R # {}, \A x \in R : R \ {x} \in G PROVE R \in G
    (* One table for each element left out; each proper subset leaves one out.    *)
    <2> DEFINE table(x) == CHOOSE it : Adds(it, f, R \ {x})
               Left(T) == CHOOSE x \in R : x \notin T
               small(T) == table(Left(T))[T]
               jt == [T \in SUBSET R |-> IF T = {} THEN 0
                                         ELSE f[Pick(T)] + small(T \ {Pick(T)})]
    <2>1. \A x \in R : Adds(table(x), f, R \ {x})
      BY <1>2
    <2>2. ASSUME NEW x \in R, NEW T \in SUBSET (R \ {x}) PROVE small(T) = table(x)[T]
      <3>1. Left(T) \in R /\ Left(T) \notin T
        OBVIOUS
      <3>2. IsFiniteSet(T)
        BY FS_Subset
      <3> DEFINE kt == CHOOSE it : Adds(it, f, T)
      <3>3. T \in SUBSET (R \ {x}) /\ T \in SUBSET (R \ {Left(T)})
        BY <3>1
      <3>4. Adds(table(x), f, R \ {x}) /\ Adds(table(Left(T)), f, R \ {Left(T)})
        BY <2>1, <3>1
      <3> HIDE DEF table, Left
      <3>5. PICK it : it = [U \in SUBSET T |-> table(x)[U]]
        OBVIOUS
      <3>6. Adds(it, f, T)
        <4>1. \A U \in SUBSET T : table(x)[U] = IF U = {} THEN 0 ELSE f[Pick(U)] + table(x)[U \ {Pick(U)}]
          BY <3>3, <3>4, AddsValue
        <4>2. \A U \in SUBSET T : it[U \ {Pick(U)}] = table(x)[U \ {Pick(U)}]
          BY <3>5
        <4> QED BY <4>1, <4>2, <3>5 DEF Adds
      <3>7. table(x)[T] = it[T]
        BY <3>5
      <3>8. table(Left(T))[T] = it[T]
        BY <3>2, <3>3, <3>4, <3>6, AddsUnique
      <3> QED BY <3>7, <3>8
    <2>3. ASSUME NEW T \in SUBSET R, T # {}
          PROVE small(T \ {Pick(T)}) = jt[T \ {Pick(T)}]
      <3> DEFINE U == T \ {Pick(T)}
      <3>1. Pick(T) \in R /\ U \in SUBSET (R \ {Pick(T)}) /\ U \in SUBSET R
        BY <2>3, PickIn
      <3>2. small(U) = table(Pick(T))[U]
        BY <3>1, <2>2
      <3>3. table(Pick(T))[U] = IF U = {} THEN 0 ELSE f[Pick(U)] + table(Pick(T))[U \ {Pick(U)}]
        <4>1. Adds(table(Pick(T)), f, R \ {Pick(T)})
          BY <2>1, <3>1
        <4> HIDE DEF table, U
        <4> QED BY <4>1, <3>1, AddsValue
      <3>4. U # {} => table(Pick(T))[U \ {Pick(U)}] = small(U \ {Pick(U)})
        <4>1. U \ {Pick(U)} \in SUBSET (R \ {Pick(T)})
          BY <3>1
        <4> HIDE DEF table, small, U
        <4> QED BY <2>2, <3>1, <4>1
      <3>5. jt[U] = IF U = {} THEN 0 ELSE f[Pick(U)] + small(U \ {Pick(U)})
        <4> HIDE DEF small, U
        <4> QED BY <3>1
      <3> HIDE DEF U, small, table, jt
      <3>6. small(U) = jt[U]
        BY <3>2, <3>3, <3>4, <3>5
      <3> QED BY <3>6 DEF U
    <2>4. Adds(jt, f, R)
      <3> HIDE DEF small
      <3>1. \A T \in SUBSET R : jt[T] = IF T = {} THEN 0 ELSE f[Pick(T)] + small(T \ {Pick(T)})
        OBVIOUS
      <3>2. jt = [T \in SUBSET R |-> jt[T]]
        OBVIOUS
      <3>3. \A T \in SUBSET R : jt[T] = IF T = {} THEN 0 ELSE f[Pick(T)] + jt[T \ {Pick(T)}]
        BY <3>1, <2>3
      <3> HIDE DEF jt
      <3> QED BY <3>2, <3>3 DEF Adds
    <2> QED BY <2>4
  <1> HIDE DEF G
  <1>3. \A R \in SUBSET S : R \in G
    BY <1>1, <1>2, SubsetInduction
  <1> QED BY <1>3 DEF G

--------------------------------------------------------------------------------
(* A sum is its first term and the sum of the rest.                              *)
LEMMA SumUnfolds ==
    ASSUME NEW f, NEW S, IsFiniteSet(S)
    PROVE  /\ SumFunctionOnSet(f, {}) = 0
           /\ S # {} => SumFunctionOnSet(f, S) = f[Pick(S)] + SumFunctionOnSet(f, S \ {Pick(S)})
  <1> DEFINE of(R) == CHOOSE it : Adds(it, f, R)
  <1>1. \A R \in SUBSET S : IsFiniteSet(R) /\ Adds(of(R), f, R)
    BY AddsExists, FS_Subset
  <1>2. \A R : SumFunctionOnSet(f, R) = of(R)[R]
    BY SumIs
  <1> HIDE DEF of
  <1>3. of({})[{}] = 0
    BY <1>1, AddsValue
  <1>4. ASSUME S # {} PROVE of(S)[S] = f[Pick(S)] + of(S \ {Pick(S)})[S \ {Pick(S)}]
    <2>1. of(S)[S] = f[Pick(S)] + of(S)[S \ {Pick(S)}]
      BY <1>1, <1>4, AddsValue
    <2>2. of(S)[S \ {Pick(S)}] = of(S \ {Pick(S)})[S \ {Pick(S)}]
      BY <1>1, AddsUnique
    <2> QED BY <2>1, <2>2
  <1> QED BY <1>2, <1>3, <1>4

(* A sum of integers is an integer, one of naturals a natural.                   *)
LEMMA SumIsInt ==
    ASSUME NEW S, IsFiniteSet(S), NEW f, \A x \in S : f[x] \in Int
    PROVE  SumFunctionOnSet(f, S) \in Int
  <1> DEFINE G == { T \in SUBSET S : SumFunctionOnSet(f, T) \in Int }
  <1>1. {} \in G
    <2>1. SumFunctionOnSet(f, {}) = 0
      BY SumUnfolds
    <2> QED BY <2>1
  <1>2. ASSUME NEW T \in SUBSET S, T # {}, \A x \in T : T \ {x} \in G PROVE T \in G
    <2>1. IsFiniteSet(T) /\ Pick(T) \in T
      BY <1>2, FS_Subset, PickIn
    <2>2. SumFunctionOnSet(f, T) = f[Pick(T)] + SumFunctionOnSet(f, T \ {Pick(T)})
      BY <2>1, <1>2, SumUnfolds
    <2>3. SumFunctionOnSet(f, T \ {Pick(T)}) \in Int /\ f[Pick(T)] \in Int
      BY <2>1, <1>2
    <2> QED BY <2>2, <2>3
  <1> HIDE DEF G
  <1>3. \A T \in SUBSET S : T \in G
    BY <1>1, <1>2, SubsetInduction
  <1> QED BY <1>3 DEF G

(* Any element may be counted first.                                             *)
LEMMA SumRemoves ==
    ASSUME NEW S, IsFiniteSet(S), NEW f, \A x \in S : f[x] \in Int, NEW a \in S
    PROVE  SumFunctionOnSet(f, S) = f[a] + SumFunctionOnSet(f, S \ {a})
  <1> DEFINE Good(T) == \A x \in T : SumFunctionOnSet(f, T) = f[x] + SumFunctionOnSet(f, T \ {x})
             G == { T \in SUBSET S : Good(T) }
  <1>1. {} \in G
    OBVIOUS
  <1>2. ASSUME NEW T \in SUBSET S, T # {}, \A x \in T : T \ {x} \in G PROVE T \in G
    <2> SUFFICES ASSUME NEW x \in T
                 PROVE  SumFunctionOnSet(f, T) = f[x] + SumFunctionOnSet(f, T \ {x})
      OBVIOUS
    <2> DEFINE p == Pick(T)
    <2>1. IsFiniteSet(T) /\ p \in T
      BY <1>2, FS_Subset, PickIn
    <2>2. SumFunctionOnSet(f, T) = f[p] + SumFunctionOnSet(f, T \ {p})
      BY <2>1, <1>2, SumUnfolds
    <2> HIDE DEF p
    <2>3. CASE x = p
      BY <2>2, <2>3
    <2>4. CASE x # p
      <3>1. SumFunctionOnSet(f, T \ {p}) = f[x] + SumFunctionOnSet(f, (T \ {p}) \ {x})
        BY <1>2, <2>1, <2>4
      <3>2. SumFunctionOnSet(f, T \ {x}) = f[p] + SumFunctionOnSet(f, (T \ {x}) \ {p})
        BY <1>2, <2>1, <2>4
      <3>3. (T \ {x}) \ {p} = (T \ {p}) \ {x}
        OBVIOUS
      <3>4. SumFunctionOnSet(f, (T \ {p}) \ {x}) \in Int
        <4>1. IsFiniteSet((T \ {p}) \ {x})
          BY <2>1, FS_Subset
        <4> QED BY <4>1, SumIsInt
      <3>5. f[x] \in Int /\ f[p] \in Int
        <4>1. x \in S /\ p \in S
          BY <2>1
        <4> QED BY <4>1
      <3>6. \A u, v, w, y, z, t \in Int : t = v + u /\ u = w + y /\ z = v + y => t = w + z
        OBVIOUS
      <3>7. /\ SumFunctionOnSet(f, T \ {p}) = f[x] + SumFunctionOnSet(f, (T \ {p}) \ {x})
            /\ SumFunctionOnSet(f, T \ {x}) = f[p] + SumFunctionOnSet(f, (T \ {p}) \ {x})
        BY <3>1, <3>2, <3>3
      <3>8. /\ SumFunctionOnSet(f, T) \in Int /\ SumFunctionOnSet(f, T \ {p}) \in Int
            /\ SumFunctionOnSet(f, T \ {x}) \in Int
        BY <2>2, <3>4, <3>5, <3>7
      <3> QED BY <2>2, <3>4, <3>5, <3>6, <3>7, <3>8
    <2> QED BY <2>3, <2>4
  <1> HIDE DEF G
  <1>3. \A T \in SUBSET S : T \in G
    BY <1>1, <1>2, SubsetInduction
  <1> QED BY <1>3 DEF G

(* Two sums compared term by term.                                               *)
LEMMA SumsCompare ==
    ASSUME NEW S, IsFiniteSet(S), NEW f, NEW g, NEW h,
           \A x \in S : f[x] \in Int /\ g[x] \in Int /\ h[x] \in Int
    PROVE  /\ (\A x \in S : f[x] = g[x]) => SumFunctionOnSet(f, S) = SumFunctionOnSet(g, S)
           /\ (\A x \in S : f[x] <= g[x]) => SumFunctionOnSet(f, S) <= SumFunctionOnSet(g, S)
           /\ (\A x \in S : f[x] + g[x] = h[x]) =>
                 SumFunctionOnSet(f, S) + SumFunctionOnSet(g, S) = SumFunctionOnSet(h, S)
           /\ (\A x \in S : f[x] = 0) => SumFunctionOnSet(f, S) = 0
  <1> DEFINE sum(k, T) == SumFunctionOnSet(k, T)
             Good(T) == /\ (\A x \in T : f[x] = g[x]) => sum(f, T) = sum(g, T)
                        /\ (\A x \in T : f[x] <= g[x]) => sum(f, T) <= sum(g, T)
                        /\ (\A x \in T : f[x] + g[x] = h[x]) => sum(f, T) + sum(g, T) = sum(h, T)
                        /\ (\A x \in T : f[x] = 0) => sum(f, T) = 0
             G == { T \in SUBSET S : Good(T) }
  <1>1. {} \in G
    <2>1. sum(f, {}) = 0 /\ sum(g, {}) = 0 /\ sum(h, {}) = 0
      BY SumUnfolds
    <2> QED BY <2>1
  <1>2. ASSUME NEW T \in SUBSET S, T # {}, \A x \in T : T \ {x} \in G PROVE T \in G
    <2>1. PICK p : p \in T
      BY <1>2
    <2> DEFINE R == T \ {p}
    <2>2. IsFiniteSet(T) /\ IsFiniteSet(R)
      BY FS_Subset
    <2>3. /\ sum(f, T) = f[p] + sum(f, R) /\ sum(g, T) = g[p] + sum(g, R)
          /\ sum(h, T) = h[p] + sum(h, R)
      BY <2>1, <2>2, SumRemoves
    <2>4. sum(f, R) \in Int /\ sum(g, R) \in Int /\ sum(h, R) \in Int
      BY <2>2, SumIsInt
    <2>5. Good(R) /\ R \subseteq T
      BY <1>2, <2>1
    <2>6. f[p] \in Int /\ g[p] \in Int /\ h[p] \in Int
      BY <2>1
    <2> HIDE DEF R, sum
    <2> QED BY <2>1, <2>3, <2>4, <2>5, <2>6
  <1> HIDE DEF G
  <1>3. \A T \in SUBSET S : T \in G
    BY <1>1, <1>2, SubsetInduction
  <1> QED BY <1>3 DEF G

(* Two sums added term by term come to their sum.                                *)
TermsAdd(f, g, h, S) ==
    \A x \in S : f[x] \in Int /\ g[x] \in Int /\ h[x] \in Int /\ h[x] = f[x] + g[x]

LEMMA SumsAdd ==
    ASSUME NEW S, IsFiniteSet(S), NEW f, NEW g, NEW h, TermsAdd(f, g, h, S)
    PROVE  /\ SumFunctionOnSet(h, S) = SumFunctionOnSet(f, S) + SumFunctionOnSet(g, S)
           /\ SumFunctionOnSet(f, S) \in Int /\ SumFunctionOnSet(g, S) \in Int
  <1>1. \A x \in S : f[x] \in Int /\ g[x] \in Int /\ h[x] \in Int
    BY DEF TermsAdd
  <1>2. \A x \in S : f[x] + g[x] = h[x]
    BY DEF TermsAdd
  <1>3. (\A x \in S : f[x] + g[x] = h[x]) =>
           SumFunctionOnSet(f, S) + SumFunctionOnSet(g, S) = SumFunctionOnSet(h, S)
    BY <1>1, SumsCompare
  <1>4. SumFunctionOnSet(f, S) \in Int /\ SumFunctionOnSet(g, S) \in Int
    BY <1>1, SumIsInt
  <1> QED BY <1>2, <1>3, <1>4

(* Two sets counted apart.                                                       *)
LEMMA SumSplits ==
    ASSUME NEW S, IsFiniteSet(S), NEW f, \A x \in S : f[x] \in Int, NEW R \in SUBSET S
    PROVE  SumFunctionOnSet(f, S) = SumFunctionOnSet(f, R) + SumFunctionOnSet(f, S \ R)
  <1> DEFINE sum(T) == SumFunctionOnSet(f, T)
             G == { T \in SUBSET R : sum(S) = sum(T) + sum(S \ T) }
  <1>1. {} \in G
    <2>1. sum({}) = 0 /\ sum(S) \in Int
      BY SumUnfolds, SumIsInt
    <2>2. S \ {} = S
      OBVIOUS
    <2> QED BY <2>1, <2>2
  <1>2. ASSUME NEW T \in SUBSET R, T # {}, \A x \in T : T \ {x} \in G PROVE T \in G
    <2>1. PICK p : p \in T
      BY <1>2
    <2> DEFINE Q == T \ {p}
    <2>2. IsFiniteSet(T) /\ IsFiniteSet(Q) /\ IsFiniteSet(S \ T) /\ IsFiniteSet(S \ Q)
      BY FS_Subset
    <2>3. sum(T) = f[p] + sum(Q)
      BY <2>1, <2>2, SumRemoves
    <2>4. sum(S \ Q) = f[p] + sum(S \ T)
      <3>1. p \in S \ Q /\ (S \ Q) \ {p} = S \ T
        BY <2>1
      <3> QED BY <2>2, <3>1, SumRemoves
    <2>5. sum(Q) \in Int /\ sum(S \ T) \in Int /\ f[p] \in Int
      BY <2>1, <2>2, SumIsInt
    <2>6. sum(S) = sum(Q) + sum(S \ Q)
      BY <1>2, <2>1
    <2> HIDE DEF sum, Q
    <2>7. sum(S) = sum(T) + sum(S \ T)
      BY <2>3, <2>4, <2>5, <2>6
    <2> QED BY <2>7
  <1> HIDE DEF G
  <1>3. \A T \in SUBSET R : T \in G
    BY <1>1, <1>2, SubsetInduction, FS_Subset
  <1> QED BY <1>3 DEF G

(* A sum of naturals is one, and grows with its set.                             *)
LEMMA SumIsNat ==
    ASSUME NEW S, IsFiniteSet(S), NEW f, \A x \in S : f[x] \in Nat
    PROVE  /\ SumFunctionOnSet(f, S) \in Nat
           /\ \A R \in SUBSET S : SumFunctionOnSet(f, R) <= SumFunctionOnSet(f, S)
  <1>1. \A T \in SUBSET S : IsFiniteSet(T)
    BY FS_Subset
  <1>2. ASSUME NEW T \in SUBSET S PROVE SumFunctionOnSet(f, T) \in Nat
    <2> DEFINE zero == [x \in T |-> 0]
    <2>1. \A x \in T : zero[x] = 0 /\ zero[x] <= f[x]
      OBVIOUS
    <2> HIDE DEF zero
    <2>2. SumFunctionOnSet(zero, T) = 0 /\ SumFunctionOnSet(zero, T) <= SumFunctionOnSet(f, T)
      BY <1>1, <2>1, SumsCompare
    <2>3. SumFunctionOnSet(f, T) \in Int
      BY <1>1, SumIsInt
    <2> QED BY <2>2, <2>3
  <1>3. ASSUME NEW R \in SUBSET S PROVE SumFunctionOnSet(f, R) <= SumFunctionOnSet(f, S)
    <2>1. SumFunctionOnSet(f, S) = SumFunctionOnSet(f, R) + SumFunctionOnSet(f, S \ R)
      BY SumSplits
    <2>2. SumFunctionOnSet(f, R) \in Nat /\ SumFunctionOnSet(f, S \ R) \in Nat
      BY <1>2
    <2> QED BY <2>1, <2>2
  <1> QED BY <1>2, <1>3

(* A term that changes changes the sum by as much.                               *)
LEMMA SumChanges ==
    ASSUME NEW S, IsFiniteSet(S), NEW f, NEW g, \A x \in S : f[x] \in Int /\ g[x] \in Int,
           NEW a \in S, \A x \in S \ {a} : f[x] = g[x]
    PROVE  SumFunctionOnSet(g, S) - SumFunctionOnSet(f, S) = g[a] - f[a]
  <1>1. IsFiniteSet(S \ {a})
    BY FS_Subset
  <1>2. SumFunctionOnSet(f, S \ {a}) = SumFunctionOnSet(g, S \ {a})
    BY <1>1, SumsCompare
  <1>3. SumFunctionOnSet(f, S \ {a}) \in Int
    BY <1>1, SumIsInt
  <1>4. /\ SumFunctionOnSet(f, S) = f[a] + SumFunctionOnSet(f, S \ {a})
        /\ SumFunctionOnSet(g, S) = g[a] + SumFunctionOnSet(g, S \ {a})
    BY SumRemoves
  <1> QED BY <1>2, <1>3, <1>4

(* What a set is cut into by class adds up to what it all adds up to.            *)
LEMMA SumOfClasses ==
    ASSUME NEW S, IsFiniteSet(S), NEW f, \A x \in S : f[x] \in Int,
           NEW Y, IsFiniteSet(Y), NEW c, \A x \in S : c[x] \in Y
    PROVE  SumFunctionOnSet([y \in Y |-> SumFunctionOnSet(f, { x \in S : c[x] = y })], Y)
              = SumFunctionOnSet(f, S)
  <1> DEFINE sum(g, T) == SumFunctionOnSet(g, T)
             class(T, y) == { x \in T : c[x] = y }
             by(T) == [y \in Y |-> sum(f, class(T, y))]
             G == { T \in SUBSET S : sum(by(T), Y) = sum(f, T) }
  <1>1. ASSUME NEW T \in SUBSET S
        PROVE  /\ IsFiniteSet(T) /\ sum(f, T) \in Int
               /\ \A y \in Y : by(T)[y] = sum(f, class(T, y)) /\ by(T)[y] \in Int /\ IsFiniteSet(class(T, y))
    <2>1. IsFiniteSet(T) /\ \A x \in T : f[x] \in Int
      BY FS_Subset
    <2>2. ASSUME NEW y \in Y
          PROVE  by(T)[y] = sum(f, class(T, y)) /\ by(T)[y] \in Int /\ IsFiniteSet(class(T, y))
      <3>1. IsFiniteSet(class(T, y)) /\ \A x \in class(T, y) : f[x] \in Int
        BY <2>1, FS_Subset
      <3>2. sum(f, class(T, y)) \in Int
        <4> HIDE DEF class
        <4> QED BY <3>1, SumIsInt
      <3> HIDE DEF sum, class
      <3> QED BY <3>1, <3>2
    <2> QED BY <2>1, <2>2, SumIsInt
  <1>2. {} \in G
    <2>1. sum(f, {}) = 0
      BY FS_EmptySet, SumUnfolds
    <2>2. \A y \in Y : by({})[y] = 0
      <3>1. \A y : class({}, y) = {}
        OBVIOUS
      <3> HIDE DEF sum, class
      <3> QED BY <2>1, <3>1
    <2>3. {} \in SUBSET S
      OBVIOUS
    <2> HIDE DEF by, class
    <2>4. sum(by({}), Y) = 0
      BY <2>2, SumsCompare
    <2> QED BY <2>1, <2>3, <2>4
  <1>3. ASSUME NEW T \in SUBSET S, T # {}, \A x \in T : T \ {x} \in G PROVE T \in G
    <2>1. PICK a \in T : TRUE
      BY <1>3
    <2> DEFINE R == T \ {a}
    <2>2. R \in SUBSET S /\ sum(by(R), Y) = sum(f, R) /\ c[a] \in Y /\ a \in S
      BY <1>3, <2>1
    <2>3. sum(f, T) = f[a] + sum(f, R)
      BY <1>1, <2>1, SumRemoves
    <2>4. by(T)[c[a]] = f[a] + by(R)[c[a]]
      <3>1. class(T, c[a]) \ {a} = class(R, c[a]) /\ a \in class(T, c[a])
        BY <2>1
      <3>2. IsFiniteSet(class(T, c[a])) /\ \A x \in class(T, c[a]) : f[x] \in Int
        BY <1>1, <2>2
      <3> DEFINE all == class(T, c[a])
      <3>3. sum(f, all) = f[a] + sum(f, all \ {a})
        <4> HIDE DEF all
        <4>1. a \in all /\ IsFiniteSet(all) /\ \A x \in all : f[x] \in Int
          BY <3>1, <3>2 DEF all
        <4> QED BY <4>1, SumRemoves
      <3>4. by(T)[c[a]] = sum(f, class(T, c[a])) /\ by(R)[c[a]] = sum(f, class(R, c[a]))
        BY <1>1, <2>2
      <3> HIDE DEF sum, class, by, R
      <3> QED BY <3>1, <3>3, <3>4 DEF all
    <2>5. \A y \in Y \ {c[a]} : by(R)[y] = by(T)[y]
      <3>1. ASSUME NEW y \in Y \ {c[a]} PROVE class(T, y) = class(R, y)
        BY <3>1
      <3>2. \A y \in Y : by(T)[y] = sum(f, class(T, y)) /\ by(R)[y] = sum(f, class(R, y))
        BY <1>1, <2>2
      <3> HIDE DEF sum, class, by, R
      <3> QED BY <3>1, <3>2
    <2>6. /\ \A y \in Y : by(R)[y] \in Int /\ by(T)[y] \in Int
          /\ sum(f, T) \in Int /\ sum(f, R) \in Int /\ f[a] \in Int
      BY <1>1, <2>2
    <2> HIDE DEF by, R, class
    <2>7. sum(by(T), Y) - sum(by(R), Y) = by(T)[c[a]] - by(R)[c[a]]
      <3> DEFINE g == by(R)
                 h == by(T)
      <3>1. \A y \in Y : g[y] \in Int /\ h[y] \in Int
        BY <2>6
      <3>2. \A y \in Y \ {c[a]} : g[y] = h[y]
        BY <2>5
      <3> HIDE DEF g, h
      <3>3. SumFunctionOnSet(h, Y) - SumFunctionOnSet(g, Y) = h[c[a]] - g[c[a]]
        BY <2>2, <3>1, <3>2, SumChanges
      <3> QED BY <3>3 DEF g, h
    <2>8. sum(by(T), Y) \in Int /\ sum(by(R), Y) \in Int
      BY <2>6, SumIsInt
    <2>9. by(T)[c[a]] \in Int /\ by(R)[c[a]] \in Int
      BY <2>2, <2>6
    <2> HIDE DEF sum
    <2>10. sum(by(T), Y) = sum(f, T)
      BY <2>2, <2>3, <2>4, <2>6, <2>7, <2>8, <2>9
    <2> QED BY <2>10
  <1> HIDE DEF G
  <1>4. S \in G
    BY <1>2, <1>3, SubsetInduction
  <1> QED BY <1>4 DEF G

(* A set has as many elements as there are ones to add up.                       *)
LEMMA SumOfOnes ==
    ASSUME NEW S, IsFiniteSet(S), NEW f, \A x \in S : f[x] = 1
    PROVE  Cardinality(S) = SumFunctionOnSet(f, S)
  <1> DEFINE G == { T \in SUBSET S : Cardinality(T) = SumFunctionOnSet(f, T) }
  <1>1. {} \in G
    <2>1. Cardinality({}) = 0 /\ SumFunctionOnSet(f, {}) = 0 /\ {} \in SUBSET S
      BY FS_EmptySet, SumUnfolds
    <2> QED BY <2>1
  <1>2. ASSUME NEW T \in SUBSET S, T # {}, \A x \in T : T \ {x} \in G PROVE T \in G
    <2>1. PICK a \in T : Cardinality(T \ {a}) = SumFunctionOnSet(f, T \ {a})
      BY <1>2
    <2>2. IsFiniteSet(T) /\ Cardinality(T) \in Nat /\ Cardinality(T \ {a}) = Cardinality(T) - 1
      BY <2>1, FS_Subset, FS_RemoveElement, FS_CardinalityType
    <2>3. SumFunctionOnSet(f, T) = f[a] + SumFunctionOnSet(f, T \ {a}) /\ f[a] = 1
      <3>1. \A x \in T : f[x] \in Int
        OBVIOUS
      <3> QED BY <2>1, <2>2, <3>1, SumRemoves
    <2>4. Cardinality(T) = SumFunctionOnSet(f, T)
      BY <2>1, <2>2, <2>3
    <2> QED BY <2>4
  <1> HIDE DEF G
  <1>3. S \in G
    BY <1>1, <1>2, SubsetInduction
  <1> QED BY <1>3 DEF G

--------------------------------------------------------------------------------
(* Whole quotients: what is left over is less than the divisor, and a larger     *)
(* number has no smaller a quotient.                                             *)
LEMMA QuotientIs ==
    ASSUME NEW a \in Nat, NEW d \in Nat \ {0}
    PROVE  /\ a \div d \in Nat
           /\ d * (a \div d) <= a /\ a < d * (a \div d) + d
  OBVIOUS

LEMMA QuotientGrows ==
    ASSUME NEW a \in Nat, NEW b \in Nat, NEW d \in Nat \ {0}, a <= b
    PROVE  a \div d \in Nat /\ b \div d \in Nat /\ a \div d <= b \div d
  <1> DEFINE p == a \div d
             q == b \div d
  <1>1. p \in Nat /\ q \in Nat /\ d * p <= a /\ b < d * q + d
    BY QuotientIs
  <1> HIDE DEF p, q
  <1>2. d * p < d * (q + 1)
    BY <1>1
  <1>3. SUFFICES ASSUME q + 1 <= p PROVE FALSE
    BY <1>1 DEF p, q
  <1>4. d * (q + 1) <= d * p
    BY <1>1, <1>3
  <1> QED BY <1>1, <1>2, <1>4
================================================================================
