----------------------------- MODULE ListLemmas -----------------------------
(***************************************************************************)
(* Facts about finite lists of which AlgorithmsProofs makes use: the       *)
(* largest number of a list, what a fold adds up to, and what stands where *)
(* in a sorted list. They rest on an induction principle that speaks of a  *)
(* set instead of a predicate, which the provers can apply.                *)
(***************************************************************************)
EXTENDS SequencesExt, FiniteSetTheorems, WellFoundedInduction, TLAPS

LEMMA Induction ==
    ASSUME NEW S \in SUBSET Nat, 0 \in S, \A n \in S : n + 1 \in S
    PROVE  S = Nat
  <1> DEFINE R == OpToRel(<, Nat)
  <1>1. IsWellFoundedOn(R, Nat)
    BY NatLessThanWellFounded
  <1>2. \A x, y \in Nat : <<x, y>> \in R <=> x < y
    BY DEF OpToRel
  <1> HIDE DEF R
  <1>3. SUFFICES ASSUME S # Nat PROVE FALSE
    OBVIOUS
  <1>4. PICK x \in Nat \ S : \A y \in Nat \ S : ~(<<y, x>> \in R)
    BY <1>1, <1>3, WFMin
  <1>5. x - 1 \in Nat /\ x \in Nat /\ x - 1 < x
    BY <1>4
  <1>6. <<x - 1, x>> \in R
    BY <1>2, <1>5
  <1>7. x - 1 \in S
    BY <1>4, <1>5, <1>6
  <1>8. (x - 1) + 1 = x
    BY <1>5
  <1> QED BY <1>4, <1>7, <1>8

(* A list of numbers has a largest one. *)
LEMMA LargestOf ==
    ASSUME NEW n \in Nat \ {0}, NEW f \in [1..n -> Int]
    PROVE  \E i \in 1..n : \A j \in 1..n : f[j] <= f[i]
  <1> DEFINE P(m) == m + 1 <= n => \E i \in 1..m + 1 : \A j \in 1..m + 1 : f[j] <= f[i]
             S    == {m \in Nat : P(m)}
  <1>1. P(0)
    OBVIOUS
  <1>2. ASSUME NEW m \in Nat, P(m), (m + 1) + 1 <= n
        PROVE  \E i \in 1..(m + 1) + 1 : \A j \in 1..(m + 1) + 1 : f[j] <= f[i]
    <2>1. PICK i \in 1..m + 1 : \A j \in 1..m + 1 : f[j] <= f[i]
      BY <1>2
    <2>2. i \in 1..n /\ (m + 1) + 1 \in 1..n
      BY <1>2
    <2>3. \A j \in 1..(m + 1) + 1 : j \in 1..n /\ (j \in 1..m + 1 \/ j = (m + 1) + 1)
      BY <1>2
    <2>4. f[i] \in Int /\ f[(m + 1) + 1] \in Int /\ \A j \in 1..(m + 1) + 1 : f[j] \in Int
      BY <2>2, <2>3
    <2>5. CASE f[i] <= f[(m + 1) + 1]
      <3>1. \A j \in 1..(m + 1) + 1 : f[j] <= f[(m + 1) + 1]
        BY <2>1, <2>3, <2>4, <2>5
      <3> QED BY <2>2, <3>1
    <2>6. CASE ~(f[i] <= f[(m + 1) + 1])
      <3>1. \A j \in 1..(m + 1) + 1 : f[j] <= f[i]
        BY <2>1, <2>3, <2>4, <2>6
      <3>2. i \in 1..(m + 1) + 1
        OBVIOUS
      <3> QED BY <3>1, <3>2
    <2> QED BY <2>5, <2>6
  <1>3. \A m \in Nat : P(m) => P(m + 1)
    BY <1>2
  <1>4. P(n - 1)
    <2> HIDE DEF P
    <2>1. S \in SUBSET Nat /\ 0 \in S
      BY <1>1
    <2>2. \A m \in S : m + 1 \in S
      BY <1>3
    <2>3. S = Nat
      <3> HIDE DEF S
      <3> QED BY <2>1, <2>2, Induction
    <2> QED BY <2>3
  <1> QED BY <1>4

LEMMA SmallestOf ==
    ASSUME NEW n \in Nat \ {0}, NEW f \in [1..n -> Int]
    PROVE  \E i \in 1..n : \A j \in 1..n : f[i] <= f[j]
  <1> DEFINE g == [i \in 1..n |-> -f[i]]
  <1>1. g \in [1..n -> Int]
    OBVIOUS
  <1>2. \A i \in 1..n : g[i] = -f[i] /\ f[i] \in Int
    OBVIOUS
  <1> HIDE DEF g
  <1>3. PICK i \in 1..n : \A j \in 1..n : g[j] <= g[i]
    BY <1>1, LargestOf
  <1>4. \A j \in 1..n : f[i] <= f[j]
    BY <1>2, <1>3
  <1> QED BY <1>4

LEMMA MaxOfSome ==
    ASSUME NEW n \in Nat, NEW S \in SUBSET (1..n), S # {}
    PROVE  Max(S) \in S /\ \A x \in S : x <= Max(S)
  <1> DEFINE f == [i \in 1..n |-> IF i \in S THEN i ELSE 0]
  <1>1. PICK s \in S : s \in 1..n
    OBVIOUS
  <1>2. f \in [1..n -> Int] /\ n \in Nat \ {0}
    BY <1>1
  <1>3. \A i \in 1..n : f[i] = IF i \in S THEN i ELSE 0
    OBVIOUS
  <1> HIDE DEF f
  <1>4. PICK m \in 1..n : \A j \in 1..n : f[j] <= f[m]
    BY <1>2, LargestOf
  <1>5. m \in S
    BY <1>1, <1>3, <1>4
  <1>6. \A x \in S : x \in 1..n /\ x <= m
    BY <1>3, <1>4, <1>5
  <1> QED BY <1>5, <1>6 DEF Max

LEMMA MinOfSome ==
    ASSUME NEW n \in Nat, NEW S \in SUBSET (1..n), S # {}
    PROVE  Min(S) \in S /\ \A x \in S : Min(S) <= x
  <1> DEFINE f == [i \in 1..n |-> IF i \in S THEN i ELSE n + 1]
  <1>1. PICK s \in S : s \in 1..n
    OBVIOUS
  <1>2. f \in [1..n -> Int] /\ n \in Nat \ {0}
    BY <1>1
  <1>3. \A i \in 1..n : f[i] = IF i \in S THEN i ELSE n + 1
    OBVIOUS
  <1> HIDE DEF f
  <1>4. PICK m \in 1..n : \A j \in 1..n : f[m] <= f[j]
    BY <1>2, SmallestOf
  <1>5. m \in S
    BY <1>1, <1>3, <1>4
  <1>6. \A x \in S : x \in 1..n /\ m <= x
    BY <1>3, <1>4, <1>5
  <1> QED BY <1>5, <1>6 DEF Min

LEMMA MaxOfFirst ==
    ASSUME NEW n \in Nat, NEW i \in 1..n
    PROVE  /\ 1..i \in SUBSET (1..n) /\ 1..i # {}
           /\ Max(1..i) = i /\ (1..i) \ {i} = 1..(i - 1)
  <1>1. 1..i \in SUBSET (1..n) /\ 1..i # {} /\ i \in 1..i
    OBVIOUS
  <1>2. Max(1..i) \in 1..i /\ i <= Max(1..i)
    BY <1>1, MaxOfSome
  <1> QED BY <1>1, <1>2

-----------------------------------------------------------------------------
IsFold(g, F, base, n) ==
    g = [s \in SUBSET (1..n) |->
            IF s = {} THEN base ELSE F[<<g[s \ {Max(s)}], Max(s)>>]]

LEMMA FoldExtends ==
    ASSUME NEW V, NEW base \in V, NEW n \in Nat, NEW F \in [V \X (1..n) -> V],
           NEW m \in Nat, m + 1 <= n,
           NEW g \in [SUBSET (1..m) -> V], IsFold(g, F, base, m)
    PROVE  \E h \in [SUBSET (1..m + 1) -> V] : IsFold(h, F, base, m + 1)
  <1> DEFINE h == [s \in SUBSET (1..m + 1) |->
                      IF m + 1 \in s THEN F[<<g[s \ {m + 1}], m + 1>>] ELSE g[s]]
  <1>1. \A s \in SUBSET (1..m + 1) :
          /\ s \ {m + 1} \in SUBSET (1..m)
          /\ m + 1 \notin s => s \in SUBSET (1..m)
    OBVIOUS
  <1>2. \A s \in SUBSET (1..m + 1) :
          h[s] = IF m + 1 \in s THEN F[<<g[s \ {m + 1}], m + 1>>] ELSE g[s]
    OBVIOUS
  <1>3. DOMAIN h = SUBSET (1..m + 1) /\ h = [s \in SUBSET (1..m + 1) |-> h[s]]
    OBVIOUS
  <1> HIDE DEF h
  <1>4. ASSUME NEW s \in SUBSET (1..m + 1)
        PROVE  h[s] \in V
    <2>1. CASE m + 1 \in s
      <3>1. <<g[s \ {m + 1}], m + 1>> \in V \X (1..n)
        BY <1>1
      <3> QED BY <1>2, <2>1, <3>1
    <2>2. CASE m + 1 \notin s
      BY <1>1, <1>2, <2>2
    <2> QED BY <2>1, <2>2
  <1>5. ASSUME NEW s \in SUBSET (1..m + 1)
        PROVE  h[s] = IF s = {} THEN base ELSE F[<<h[s \ {Max(s)}], Max(s)>>]
    <2>1. CASE m + 1 \in s
      <3>1. Max(s) \in s /\ m + 1 <= Max(s)
        <4>1. m + 1 \in Nat
          OBVIOUS
        <4> QED BY <2>1, <4>1, MaxOfSome
      <3>2. Max(s) = m + 1
        <4>1. Max(s) \in 1..m + 1
          BY <3>1
        <4> QED BY <3>1, <4>1
      <3>3. s \ {m + 1} \in SUBSET (1..m + 1) /\ m + 1 \notin s \ {m + 1}
        OBVIOUS
      <3>4. h[s \ {m + 1}] = g[s \ {m + 1}]
        BY <1>1, <1>2, <3>3
      <3> QED BY <1>2, <2>1, <3>2, <3>4
    <2>2. CASE m + 1 \notin s
      <3>1. s \in SUBSET (1..m) /\ h[s] = g[s]
        BY <1>1, <1>2, <2>2
      <3>2. ASSUME s # {}
            PROVE  h[s \ {Max(s)}] = g[s \ {Max(s)}]
        <4>1. Max(s) \in s
          BY <3>1, <3>2, MaxOfSome
        <4>2. s \ {Max(s)} \in SUBSET (1..m + 1) /\ m + 1 \notin s \ {Max(s)}
          BY <2>2
        <4> QED BY <1>2, <4>2
      <3>3. g[s] = IF s = {} THEN base ELSE F[<<g[s \ {Max(s)}], Max(s)>>]
        BY <3>1 DEF IsFold
      <3> QED BY <3>1, <3>2, <3>3
    <2> QED BY <2>1, <2>2
  <1>6. h \in [SUBSET (1..m + 1) -> V]
    BY <1>3, <1>4
  <1>7. IsFold(h, F, base, m + 1)
    BY <1>3, <1>5 DEF IsFold
  <1> QED BY <1>6, <1>7

LEMMA FoldExists ==
    ASSUME NEW V, NEW base \in V, NEW n \in Nat, NEW F \in [V \X (1..n) -> V]
    PROVE  \E g \in [SUBSET (1..n) -> V] : IsFold(g, F, base, n)
  <1> DEFINE P(m) == m <= n => \E g \in [SUBSET (1..m) -> V] : IsFold(g, F, base, m)
             S    == {m \in Nat : P(m)}
  <1>1. P(0)
    <2> DEFINE g == [s \in SUBSET (1..0) |-> base]
    <2>1. g \in [SUBSET (1..0) -> V]
      OBVIOUS
    <2>2. \A s \in SUBSET (1..0) : s = {}
      OBVIOUS
    <2>3. IsFold(g, F, base, 0)
      BY <2>2, Zenon DEF IsFold
    <2> QED BY <2>1, <2>3
  <1>2. ASSUME NEW m \in Nat, P(m), m + 1 <= n
        PROVE  \E g \in [SUBSET (1..m + 1) -> V] : IsFold(g, F, base, m + 1)
    <2>1. m <= n
      BY <1>2
    <2>2. PICK g \in [SUBSET (1..m) -> V] : IsFold(g, F, base, m)
      BY <1>2, <2>1, Zenon
    <2> QED BY <1>2, <2>2, FoldExtends
  <1>3. \A m \in Nat : P(m) => P(m + 1)
    BY <1>2
  <1>4. P(n)
    <2> HIDE DEF P
    <2>1. S \in SUBSET Nat /\ 0 \in S
      BY <1>1
    <2>2. \A m \in S : m + 1 \in S
      BY <1>3
    <2>3. S = Nat
      <3> HIDE DEF S
      <3> QED BY <2>1, <2>2, Induction
    <2> QED BY <2>3
  <1>5. n <= n
    OBVIOUS
  <1> QED BY <1>4, <1>5, Zenon

(* The values t[0], t[1], ..., t[n] a fold passes through on its way.      *)
Passes(t, F, base, n) ==
    t[0] = base /\ \A i \in 1..n : t[i] = F[<<t[i - 1], i>>]

(* Each of them follows from the one before it, if that is in V. *)
Advances(it, F, base, n, V) ==
    /\ base \in V /\ F \in [V \X (1..n) -> V]
    /\ it[{}] = base
    /\ \A i \in 1..n : it[1..(i - 1)] \in V => it[1..i] = F[<<it[1..(i - 1)], i>>]

LEMMA FoldPasses ==
    ASSUME NEW V, NEW base, NEW n \in Nat, NEW F, NEW it, Advances(it, F, base, n, V)
    PROVE  \E t \in [0..n -> V] : Passes(t, F, base, n) /\ t[n] = it[1..n]
  <1>0. /\ base \in V /\ F \in [V \X (1..n) -> V]
        /\ it[{}] = base
        /\ \A i \in 1..n : it[1..(i - 1)] \in V => it[1..i] = F[<<it[1..(i - 1)], i>>]
    BY DEF Advances
  <1> DEFINE P(m) == m <= n => it[1..m] \in V
             S    == {m \in Nat : P(m)}
  <1>1. P(0)
    <2>1. 1..0 = {}
      OBVIOUS
    <2> QED BY <1>0, <2>1
  <1>2. ASSUME NEW m \in Nat, P(m), m + 1 <= n
        PROVE  it[1..m + 1] \in V
    <2>1. m + 1 \in 1..n /\ (m + 1) - 1 = m /\ it[1..m] \in V
      BY <1>2
    <2>2. it[1..m + 1] = F[<<it[1..m], m + 1>>]
      BY <1>0, <2>1
    <2>3. <<it[1..m], m + 1>> \in V \X (1..n)
      BY <2>1
    <2> QED BY <1>0, <2>2, <2>3
  <1>3. \A m \in Nat : P(m) => P(m + 1)
    BY <1>2
  <1>4. \A m \in Nat : P(m)
    <2> HIDE DEF P
    <2>1. S \in SUBSET Nat /\ 0 \in S
      BY <1>1
    <2>2. \A m \in S : m + 1 \in S
      BY <1>3
    <2>3. S = Nat
      <3> HIDE DEF S
      <3> QED BY <2>1, <2>2, Induction
    <2> QED BY <2>3
  <1>5. \A i \in 0..n : it[1..i] \in V
    BY <1>4
  <1> DEFINE t == [i \in 0..n |-> it[1..i]]
  <1>6. t \in [0..n -> V] /\ t[0] = base /\ t[n] = it[1..n]
    <2>1. 1..0 = {}
      OBVIOUS
    <2> QED BY <1>0, <1>5, <2>1
  <1>7. ASSUME NEW i \in 1..n PROVE t[i] = F[<<t[i - 1], i>>]
    <2>1. i - 1 \in 0..n /\ i \in 0..n
      OBVIOUS
    <2>2. t[i] = it[1..i] /\ t[i - 1] = it[1..(i - 1)]
      BY <2>1
    <2>3. it[1..(i - 1)] \in V
      BY <1>5, <2>1
    <2> HIDE DEF t
    <2> QED BY <1>0, <2>2, <2>3
  <1> HIDE DEF t
  <1> QED BY <1>6, <1>7 DEF Passes

(* Induction up to a bound. *)
LEMMA InductionUpTo ==
    ASSUME NEW n \in Nat, NEW S, 0 \in S, \A i \in 0..n : i \in S /\ i < n => i + 1 \in S
    PROVE  \A i \in 0..n : i \in S
  <1> DEFINE T == {i \in Nat : i <= n => i \in S}
  <1>1. T \in SUBSET Nat /\ 0 \in T
    OBVIOUS
  <1>2. \A i \in T : i + 1 \in T
    <2> TAKE i \in T
    <2> SUFFICES ASSUME i + 1 <= n PROVE i + 1 \in S
      OBVIOUS
    <2>1. i \in 0..n /\ i < n /\ i \in S
      OBVIOUS
    <2> QED BY <2>1
  <1>3. T = Nat
    <2> HIDE DEF T
    <2> QED BY <1>1, <1>2, Induction
  <1> QED BY <1>3

LEMMA SumBounds ==
    ASSUME NEW n \in Nat, NEW x \in [1..n -> Int], NEW t \in [0..n -> Int],
           t[0] = 0, \A i \in 1..n : t[i] = t[i - 1] + x[i],
           NEW least \in Int, NEW most \in Int
    PROVE  /\ (\A i \in 1..n : least <= x[i]) => least * n <= t[n]
           /\ (\A i \in 1..n : x[i] <= most) => t[n] <= most * n
  <1>1. ASSUME \A i \in 1..n : least <= x[i] PROVE least * n <= t[n]
    <2> DEFINE S == {i \in 0..n : least * i <= t[i]}
    <2>1. 0 \in S
      OBVIOUS
    <2>2. ASSUME NEW i \in 0..n, i \in S, i < n PROVE i + 1 \in S
      <3>1. i + 1 \in 1..n /\ i + 1 \in 0..n /\ (i + 1) - 1 = i
        BY <2>2
      <3>2. t[i + 1] = t[i] + x[i + 1] /\ least <= x[i + 1]
        BY <1>1, <3>1
      <3>3. x[i + 1] \in Int /\ t[i] \in Int /\ t[i + 1] \in Int
        BY <3>1
      <3>4. least * (i + 1) = least * i + least /\ least * i \in Int
        OBVIOUS
      <3> QED BY <2>2, <3>1, <3>2, <3>3, <3>4
    <2> HIDE DEF S
    <2>3. \A i \in 0..n : i \in S /\ i < n => i + 1 \in S
      BY <2>2
    <2>4. \A i \in 0..n : i \in S
      BY <2>1, <2>3, InductionUpTo
    <2> QED BY <2>4 DEF S
  <1>2. ASSUME \A i \in 1..n : x[i] <= most PROVE t[n] <= most * n
    <2> DEFINE S == {i \in 0..n : t[i] <= most * i}
    <2>1. 0 \in S
      OBVIOUS
    <2>2. ASSUME NEW i \in 0..n, i \in S, i < n PROVE i + 1 \in S
      <3>1. i + 1 \in 1..n /\ i + 1 \in 0..n /\ (i + 1) - 1 = i
        BY <2>2
      <3>2. t[i + 1] = t[i] + x[i + 1] /\ x[i + 1] <= most
        BY <1>2, <3>1
      <3>3. x[i + 1] \in Int /\ t[i] \in Int /\ t[i + 1] \in Int
        BY <3>1
      <3>4. most * (i + 1) = most * i + most /\ most * i \in Int
        OBVIOUS
      <3> QED BY <2>2, <3>1, <3>2, <3>3, <3>4
    <2> HIDE DEF S
    <2>3. \A i \in 0..n : i \in S /\ i < n => i + 1 \in S
      BY <2>2
    <2>4. \A i \in 0..n : i \in S
      BY <2>1, <2>3, InductionUpTo
    <2> QED BY <2>4 DEF S
  <1> QED BY <1>1, <1>2

-----------------------------------------------------------------------------
(* Item i goes before item j in a list sorted by v, largest first. *)
Ahead(v, i, j) == v[i] > v[j] \/ (v[i] = v[j] /\ i < j)

AheadOf(v, n, j) == {i \in 1..n : Ahead(v, i, j)}

LEMMA AheadIsOrder ==
    ASSUME NEW n \in Nat, NEW v \in [1..n -> Int], NEW i \in 1..n, NEW j \in 1..n
    PROVE  /\ ~Ahead(v, i, i)
           /\ i = j \/ Ahead(v, i, j) \/ Ahead(v, j, i)
           /\ Ahead(v, i, j) => ~Ahead(v, j, i)
           /\ \A h \in 1..n : Ahead(v, h, i) /\ Ahead(v, i, j) => Ahead(v, h, j)
  <1>1. \A x \in 1..n : v[x] \in Int
    OBVIOUS
  <1> QED BY <1>1 DEF Ahead

(* Who is behind has more ahead. *)
LEMMA AheadOfGrows ==
    ASSUME NEW n \in Nat, NEW v \in [1..n -> Int], NEW i \in 1..n, NEW j \in 1..n
    PROVE  /\ Cardinality(AheadOf(v, n, j)) \in 0..n - 1
           /\ Ahead(v, i, j) => Cardinality(AheadOf(v, n, i)) < Cardinality(AheadOf(v, n, j))
  <1>1. IsFiniteSet(1..n) /\ Cardinality(1..n) = n
    BY FS_Interval
  <1>2. \A x \in 1..n : AheadOf(v, n, x) \in SUBSET (1..n) /\ x \notin AheadOf(v, n, x)
    BY AheadIsOrder DEF AheadOf
  <1>3. ASSUME NEW x \in 1..n
        PROVE  IsFiniteSet(AheadOf(v, n, x)) /\ Cardinality(AheadOf(v, n, x)) \in Nat
    BY <1>1, <1>2, FS_Subset, FS_CardinalityType
  <1>4. Cardinality(AheadOf(v, n, j)) \in 0..n - 1
    <2>1. Cardinality(AheadOf(v, n, j)) <= n /\ Cardinality(AheadOf(v, n, j)) # n
      BY <1>1, <1>2, FS_Subset
    <2> QED BY <1>3, <2>1
  <1>5. ASSUME Ahead(v, i, j)
        PROVE  Cardinality(AheadOf(v, n, i)) < Cardinality(AheadOf(v, n, j))
    <2>1. AheadOf(v, n, i) \in SUBSET AheadOf(v, n, j)
      BY <1>5, AheadIsOrder DEF AheadOf
    <2>2. i \in AheadOf(v, n, j)
      BY <1>5 DEF AheadOf
    <2>3. Cardinality(AheadOf(v, n, i)) <= Cardinality(AheadOf(v, n, j))
      BY <1>3, <2>1, FS_Subset
    <2>4. Cardinality(AheadOf(v, n, i)) # Cardinality(AheadOf(v, n, j))
      BY <1>2, <1>3, <2>1, <2>2, FS_Subset
    <2> QED BY <1>3, <2>3, <2>4
  <1> QED BY <1>4, <1>5

(* Every position of the sorted list is taken by one item, and whoever is  *)
(* overtaken by some of the first m only is among the first m.             *)
LEMMA EveryPlaceIsTaken ==
    ASSUME NEW n \in Nat, NEW v \in [1..n -> Int]
    PROVE  \E place \in [1..n -> 1..n], order \in [1..n -> 1..n] :
              /\ \A j \in 1..n : place[j] = Cardinality(AheadOf(v, n, j)) + 1
              /\ \A i \in 1..n : place[order[i]] = i /\ order[place[i]] = i
              /\ \A i, j \in 1..n : place[i] < place[j] <=> Ahead(v, i, j)
              /\ \A j, m \in 1..n :
                    j <= m /\ (\A i \in 1..n : Ahead(v, i, j) => i <= m) => place[j] <= m
  <1> DEFINE place == [j \in 1..n |-> Cardinality(AheadOf(v, n, j)) + 1]
             order == [p \in 1..n |-> CHOOSE j \in 1..n : place[j] = p]
  <1>1. place \in [1..n -> 1..n]
    <2> SUFFICES ASSUME NEW j \in 1..n PROVE Cardinality(AheadOf(v, n, j)) + 1 \in 1..n
      OBVIOUS
    <2>1. Cardinality(AheadOf(v, n, j)) \in 0..n - 1
      BY AheadOfGrows
    <2> QED BY <2>1
  <1>2. \A j \in 1..n : place[j] = Cardinality(AheadOf(v, n, j)) + 1
    OBVIOUS
  <1> HIDE DEF place
  <1>3. ASSUME NEW i \in 1..n, NEW j \in 1..n PROVE place[i] < place[j] <=> Ahead(v, i, j)
    <2>1. /\ Cardinality(AheadOf(v, n, i)) \in 0..n - 1
          /\ Cardinality(AheadOf(v, n, j)) \in 0..n - 1
          /\ Ahead(v, i, j) => Cardinality(AheadOf(v, n, i)) < Cardinality(AheadOf(v, n, j))
          /\ Ahead(v, j, i) => Cardinality(AheadOf(v, n, j)) < Cardinality(AheadOf(v, n, i))
      BY AheadOfGrows
    <2>2. i = j \/ Ahead(v, i, j) \/ Ahead(v, j, i)
      BY AheadIsOrder
    <2>3. ~Ahead(v, i, i)
      BY AheadIsOrder
    <2> QED BY <1>2, <2>1, <2>2, <2>3
  <1>4. \A i, j \in 1..n : place[i] = place[j] => i = j
    <2> SUFFICES ASSUME NEW i \in 1..n, NEW j \in 1..n, place[i] = place[j] PROVE i = j
      OBVIOUS
    <2>1. i = j \/ Ahead(v, i, j) \/ Ahead(v, j, i)
      BY AheadIsOrder
    <2>2. place[i] \in Int
      BY <1>1
    <2> QED BY <1>3, <2>1, <2>2
  <1>5. \A p \in 1..n : \E j \in 1..n : place[j] = p
    <2>1. place \in Injection(1..n, 1..n)
      BY <1>1, <1>4 DEF Injection, IsInjective
    <2>2. IsFiniteSet(1..n)
      BY FS_Interval
    <2>3. place \in Surjection(1..n, 1..n)
      BY <2>1, <2>2, FS_Injection
    <2> QED BY <2>3 DEF Surjection
  <1>6. order \in [1..n -> 1..n]
    BY <1>5
  <1>7. \A p \in 1..n : place[order[p]] = p
    BY <1>5
  <1>8. \A j \in 1..n : order[place[j]] = j
    BY <1>1, <1>4, <1>6, <1>7
  <1>9. ASSUME NEW j \in 1..n, NEW m \in 1..n, j <= m, \A i \in 1..n : Ahead(v, i, j) => i <= m
        PROVE  place[j] <= m
    <2>1. AheadOf(v, n, j) \subseteq (1..m) \ {j}
      BY <1>9, AheadIsOrder DEF AheadOf
    <2>2. IsFiniteSet(1..m) /\ Cardinality(1..m) = m /\ j \in 1..m
      BY <1>9, FS_Interval
    <2>3. IsFiniteSet((1..m) \ {j}) /\ Cardinality((1..m) \ {j}) = m - 1
      BY <2>2, FS_RemoveElement
    <2>4. Cardinality(AheadOf(v, n, j)) <= m - 1
      BY <2>1, <2>3, FS_Subset
    <2>5. Cardinality(AheadOf(v, n, j)) \in Int
      BY AheadOfGrows
    <2> QED BY <1>2, <2>4, <2>5
  <1> HIDE DEF order
  <1> QED BY <1>1, <1>2, <1>3, <1>6, <1>7, <1>8, <1>9

LEMMA MinOfTwo ==
    ASSUME NEW a \in Int, NEW b \in Int
    PROVE  Min({a, b}) = IF a < b THEN a ELSE b
  <1> DEFINE least(x) == x \in {a, b} /\ \A y \in {a, b} : x <= y
  <1>1. \A x : least(x) <=> x = IF a < b THEN a ELSE b
    OBVIOUS
  <1>2. Min({a, b}) = CHOOSE x : least(x)
    BY DEF Min
  <1> HIDE DEF least
  <1> QED BY <1>1, <1>2

LEMMA MaxOfTwo ==
    ASSUME NEW a \in Int, NEW b \in Int
    PROVE  Max({a, b}) = IF a < b THEN b ELSE a
  <1> DEFINE most(x) == x \in {a, b} /\ \A y \in {a, b} : y <= x
  <1>1. \A x : most(x) <=> x = IF a < b THEN b ELSE a
    OBVIOUS
  <1>2. Max({a, b}) = CHOOSE x : most(x)
    BY DEF Max
  <1> HIDE DEF most
  <1> QED BY <1>1, <1>2

-----------------------------------------------------------------------------
LEMMA Division ==
    ASSUME NEW q \in Nat, NEW d \in Nat \ {0}
    PROVE  (q * d) \div d = q
  OBVIOUS

LEMMA Products ==
    ASSUME NEW a \in Nat \ {0}, NEW b \in Nat \ {0}, NEW c \in Int
    PROVE  /\ a * b \in Nat \ {0}
           /\ (c * a) * b = (c * b) * a
  OBVIOUS

LEMMA ProductsGrow ==
    ASSUME NEW a \in Int, NEW b \in Int, NEW c \in Nat \ {0}
    PROVE  /\ a < b => a * c < b * c
           /\ a * c < b * c => a < b
           /\ a * c \in Int /\ (a + b) * c = a * c + b * c /\ (2 * a) * c = 2 * (a * c)
  OBVIOUS

LEMMA TimesLeq ==
    ASSUME NEW a \in Int, NEW b \in Int, NEW c \in Nat, a <= b
    PROVE  a * c <= b * c
  OBVIOUS

LEMMA TimesNext ==
    ASSUME NEW a \in Int, NEW c \in Int
    PROVE  a * c \in Int /\ a * c = c * a /\ (a + 1) * c = c * a + c
  OBVIOUS

-----------------------------------------------------------------------------
(* Parts of a list, lists one behind the other, and prefixes. *)
LEMMA SubSeqShape ==
    ASSUME NEW C, NEW s \in Seq(C), NEW a \in 1..Len(s) + 1, NEW b \in a - 1..Len(s)
    PROVE  /\ SubSeq(s, a, b) \in Seq(C) /\ Len(SubSeq(s, a, b)) = b - a + 1
           /\ \A i \in 1..b - a + 1 : SubSeq(s, a, b)[i] = s[a + i - 1]
  <1>1. \A i \in a..b : s[i] \in C
    OBVIOUS
  <1>2. SubSeq(s, a, b) \in Seq(C) /\ Len(SubSeq(s, a, b)) = b - a + 1
    BY <1>1
  <1>3. \A i \in 1..b - a + 1 : SubSeq(s, a, b)[i] = s[a + i - 1]
    OBVIOUS
  <1> QED BY <1>2, <1>3

LEMMA JoinShape ==
    ASSUME NEW C, NEW s \in Seq(C), NEW t \in Seq(C)
    PROVE  /\ s \o t \in Seq(C) /\ Len(s \o t) = Len(s) + Len(t)
           /\ \A i \in 1..Len(s) : (s \o t)[i] = s[i]
           /\ \A i \in 1..Len(t) : (s \o t)[Len(s) + i] = t[i]
  OBVIOUS

LEMMA SameSeq ==
    ASSUME NEW C, NEW s \in Seq(C), NEW t \in Seq(C), Len(s) = Len(t),
           \A i \in 1..Len(s) : s[i] = t[i]
    PROVE  s = t
  OBVIOUS

LEMMA PrefixIs ==
    ASSUME NEW C, NEW s \in Seq(C), NEW t \in Seq(C)
    PROVE  IsPrefix(s, t) <=> Len(s) <= Len(t) /\ \A i \in 1..Len(s) : s[i] = t[i]
  <1>1. CASE Len(s) <= Len(t)
    <2>1. 1 \in 1..Len(s) + 1 /\ 1 \in 1..Len(t) + 1 /\ Len(s) \in 1 - 1..Len(s)
          /\ Len(s) \in 1 - 1..Len(t)
      BY <1>1
    <2> DEFINE one == 1
               p == SubSeq(s, one, Len(s))
               q == SubSeq(t, one, Len(s))
    <2>2. /\ p \in Seq(C) /\ Len(p) = Len(s) /\ \A i \in 1..Len(s) : p[i] = s[i]
          /\ q \in Seq(C) /\ Len(q) = Len(s) /\ \A i \in 1..Len(s) : q[i] = t[i]
      BY <1>1, <2>1
    <2> HIDE DEF p, q
    <2>3. p = q <=> \A i \in 1..Len(s) : s[i] = t[i]
      BY <2>2
    <2> QED BY <1>1, <2>3 DEF IsPrefix, p, q
  <1> QED BY <1>1 DEF IsPrefix

LEMMA EmptyIsPrefix ==
    ASSUME NEW C, NEW t \in Seq(C)
    PROVE  IsPrefix(<<>>, t)
  BY DEF IsPrefix

-----------------------------------------------------------------------------
(* A recursion that leaps ahead in 1..n: J says where to, 0 where it ends. *)
Leaps(g, A, J, F, n) ==
    g = [i \in 1..n |-> IF J[i] = 0 THEN A[i] ELSE F[<<g[J[i]], i>>]]

LEMMA LeapsExist ==
    ASSUME NEW V, NEW n \in Nat, NEW A \in [1..n -> V], NEW J \in [1..n -> 0..n],
           \A i \in 1..n : J[i] = 0 \/ J[i] > i, NEW F \in [V \X (1..n) -> V]
    PROVE  \E g \in [1..n -> V] : Leaps(g, A, J, F, n)
  <1> DEFINE R(g, i) == g[i] = IF J[i] = 0 THEN A[i] ELSE F[<<g[J[i]], i>>]
             S == {m \in 0..n : \E g \in [1..n -> V] : \A i \in 1..n : i > n - m => R(g, i)}
  <1>1. 0 \in S
    OBVIOUS
  <1>2. ASSUME NEW m \in 0..n, m \in S, m < n PROVE m + 1 \in S
    <2>1. PICK g \in [1..n -> V] : \A i \in 1..n : i > n - m => R(g, i)
      BY <1>2
    <2> DEFINE l == n - m
               v == IF J[l] = 0 THEN A[l] ELSE F[<<g[J[l]], l>>]
               h == [i \in 1..n |-> IF i = l THEN v ELSE g[i]]
    <2>2. l \in 1..n
      BY <1>2
    <2>3. v \in V
      <3>1. J[l] # 0 => J[l] \in 1..n
        BY <2>2
      <3>2. J[l] # 0 => <<g[J[l]], l>> \in V \X (1..n)
        BY <2>2, <3>1
      <3> QED BY <2>2, <3>2
    <2>4. h \in [1..n -> V] /\ h[l] = v /\ \A i \in 1..n : i # l => h[i] = g[i]
      <3> HIDE DEF v, l
      <3> QED BY <2>2, <2>3
    <2>5. ASSUME NEW i \in 1..n, i > n - (m + 1) PROVE R(h, i)
      <3>1. J[i] # 0 => J[i] \in 1..n /\ J[i] # l
        BY <2>5
      <3>2. J[i] # 0 => h[J[i]] = g[J[i]]
        <4> HIDE DEF h, l
        <4> QED BY <2>4, <3>1
      <3>3. CASE i = l
        <4> HIDE DEF h
        <4> QED BY <2>4, <3>2, <3>3
      <3>4. CASE i # l
        <4>1. i > n - m /\ h[i] = g[i]
          <5> HIDE DEF h
          <5> QED BY <2>4, <2>5, <3>4
        <4>2. R(g, i)
          BY <2>1, <4>1
        <4> HIDE DEF h
        <4> QED BY <3>2, <4>1, <4>2
      <3> QED BY <3>3, <3>4
    <2> HIDE DEF h, R
    <2>6. m + 1 \in 0..n
      BY <1>2
    <2> QED BY <2>4, <2>5, <2>6
  <1>3. n \in S
    <2> HIDE DEF S
    <2>1. \A i \in 0..n : i \in S
      BY <1>1, <1>2, InductionUpTo
    <2> QED BY <2>1
  <1>4. PICK g \in [1..n -> V] : \A i \in 1..n : i > n - n => R(g, i)
    <2> HIDE DEF R
    <2> QED BY <1>3
  <1>5. \A i \in 1..n : g[i] = IF J[i] = 0 THEN A[i] ELSE F[<<g[J[i]], i>>]
    BY <1>4
  <1>6. g = [i \in 1..n |-> g[i]]
    OBVIOUS
  <1>7. [i \in 1..n |-> g[i]] = [i \in 1..n |-> IF J[i] = 0 THEN A[i] ELSE F[<<g[J[i]], i>>]]
    BY <1>5
  <1> QED BY <1>6, <1>7 DEF Leaps

(* The same of an it of which V is not known to hold. *)
LeapsIn(it, A, J, F, V, n) ==
    \A i \in 1..n :
        /\ J[i] = 0 => it[i] = A[i]
        /\ J[i] # 0 /\ it[J[i]] \in V => it[i] = F[<<it[J[i]], i>>]

LEMMA LeapsStay ==
    ASSUME NEW V, NEW n \in Nat, NEW A \in [1..n -> V], NEW J \in [1..n -> 0..n],
           \A i \in 1..n : J[i] = 0 \/ J[i] > i, NEW F \in [V \X (1..n) -> V],
           NEW it, LeapsIn(it, A, J, F, V, n)
    PROVE  \A i \in 1..n : it[i] \in V
  <1> DEFINE S == {m \in 0..n : \A i \in 1..n : i > n - m => it[i] \in V}
  <1>1. 0 \in S
    OBVIOUS
  <1>2. ASSUME NEW m \in 0..n, m \in S, m < n PROVE m + 1 \in S
    <2> SUFFICES ASSUME NEW i \in 1..n, i > n - (m + 1) PROVE it[i] \in V
      BY <1>2
    <2>1. CASE J[i] = 0
      BY <2>1 DEF LeapsIn
    <2>2. CASE J[i] # 0
      <3>1. J[i] \in 1..n /\ J[i] > n - m
        BY <2>2
      <3>2. it[J[i]] \in V
        BY <1>2, <3>1
      <3>3. it[i] = F[<<it[J[i]], i>>] /\ <<it[J[i]], i>> \in V \X (1..n)
        BY <2>2, <3>2 DEF LeapsIn
      <3> QED BY <3>3
    <2> QED BY <2>1, <2>2
  <1>3. \A i \in 0..n : i \in S
    <2> HIDE DEF S
    <2>1. \A m \in 0..n : m \in S /\ m < n => m + 1 \in S
      BY <1>2
    <2> QED BY <1>1, <2>1, InductionUpTo
  <1>4. n \in S
    <2> HIDE DEF S
    <2> QED BY <1>3
  <1> QED BY <1>4
=============================================================================
