---------------------------- MODULE SortingProofs ----------------------------
(***************************************************************************)
(* What Sorted makes of a finite set in strict total order: every element  *)
(* once, each after those before it.  The places of the elements are the   *)
(* numbers of elements before them, which are all different.               *)
(***************************************************************************)
EXTENDS Sorting, FiniteSetTheorems, WellFoundedInduction, TLAPS

LEMMA IntervalLemma ==
    ASSUME NEW n \in Nat
    PROVE  IsFiniteSet(1..n) /\ Cardinality(1..n) = n
  <1>1. 1 \in Int /\ n \in Int
    OBVIOUS
  <1>. QED BY <1>1, FS_Interval

\* before is a strict total order of its finite domain.
Orders(before) ==
    /\ IsFiniteSet(DOMAIN before)
    /\ \A x \in DOMAIN before : before[x] \subseteq DOMAIN before /\ x \notin before[x]
    /\ \A x, y \in DOMAIN before : x # y => x \in before[y] \/ y \in before[x]
    /\ \A x, y, z \in DOMAIN before :
          x \in before[y] /\ y \in before[z] => x \in before[z]

\* An element is before another exactly when fewer are before it.
LEMMA RankLemma ==
    ASSUME NEW before, Orders(before), NEW x \in DOMAIN before, NEW y \in DOMAIN before
    PROVE  /\ Cardinality(before[x]) \in 0..(Cardinality(DOMAIN before) - 1)
           /\ x \in before[y] => Cardinality(before[x]) < Cardinality(before[y])
  <1>. DEFINE D == DOMAIN before
  <1>1. IsFiniteSet(D) /\ before[x] \in SUBSET D /\ before[y] \in SUBSET D /\ x \notin before[x]
    BY DEF Orders
  <1>2. IsFiniteSet(before[x]) /\ IsFiniteSet(before[y])
    BY <1>1, FS_Subset
  <1>3. /\ Cardinality(D) \in Nat /\ Cardinality(before[x]) \in Nat
        /\ Cardinality(before[y]) \in Nat
    BY <1>1, <1>2, FS_CardinalityType
  <1>4. Cardinality(before[x]) <= Cardinality(D) /\ Cardinality(before[x]) # Cardinality(D)
    BY <1>1, FS_Subset
  <1>5. ASSUME x \in before[y] PROVE Cardinality(before[x]) < Cardinality(before[y])
    <2>1. before[x] \in SUBSET before[y]
      BY <1>5 DEF Orders
    <2>2. before[x] # before[y]
      BY <1>1, <1>5
    <2>3. Cardinality(before[x]) <= Cardinality(before[y])
      BY <2>1, <1>2, FS_Subset
    <2>4. Cardinality(before[x]) # Cardinality(before[y])
      BY <2>1, <2>2, <1>2, FS_Subset
    <2>. QED BY <2>3, <2>4, <1>3
  <1>. QED BY <1>3, <1>4, <1>5

\* Every place is taken, and by one element.
LEMMA PlaceLemma ==
    ASSUME NEW before, Orders(before), NEW k \in 1..Cardinality(DOMAIN before)
    PROVE  /\ \E x \in DOMAIN before : Cardinality(before[x]) = k - 1
           /\ \A x, y \in DOMAIN before :
                 Cardinality(before[x]) = Cardinality(before[y]) => x = y
  <1>. DEFINE D == DOMAIN before
              n == Cardinality(D)
              rank == [x \in D |-> Cardinality(before[x]) + 1]
  <1>1. IsFiniteSet(D) /\ n \in Nat
    BY FS_CardinalityType DEF Orders
  <1>2. ASSUME NEW x \in D, NEW y \in D, Cardinality(before[x]) = Cardinality(before[y])
        PROVE  x = y
    <2>1. x \notin before[y] /\ y \notin before[x]
      <3>1. Cardinality(before[x]) \in Nat
        BY RankLemma
      <3>2. ~(Cardinality(before[x]) < Cardinality(before[y]))
            /\ ~(Cardinality(before[y]) < Cardinality(before[x]))
        BY <1>2, <3>1
      <3>. QED BY <3>2, RankLemma
    <2>. QED BY <2>1 DEF Orders
  <1>3. \A x \in D : Cardinality(before[x]) \in 0..(n - 1)
    BY RankLemma
  <1>4. rank \in Injection(D, 1..n)
    <2>1. \A x \in D : Cardinality(before[x]) + 1 \in 1..n
      BY <1>3, <1>1
    <2>2. rank \in [D -> 1..n]
      BY <2>1
    <2>3. ASSUME NEW x \in D, NEW y \in D, rank[x] = rank[y] PROVE x = y
      <3>1. Cardinality(before[x]) = Cardinality(before[y])
        BY <2>3, <1>3
      <3>. QED BY <3>1, <1>2
    <2>. QED BY <2>2, <2>3 DEF Injection, IsInjective
  <1>5. IsFiniteSet(1..n) /\ Cardinality(1..n) = n
    BY <1>1, IntervalLemma
  <1>6. rank \in Surjection(D, 1..n)
    BY <1>4, <1>5, FS_Injection
  <1>7. \E x \in D : rank[x] = k
    BY <1>6 DEF Surjection
  <1>8. \E x \in D : Cardinality(before[x]) = k - 1
    BY <1>7, <1>3
  <1>. QED BY <1>2, <1>8

LEMMA SortedLemma ==
    ASSUME NEW before, Orders(before)
    PROVE  LET s == Sorted(before)
               n == Cardinality(DOMAIN before)
           IN  /\ n \in Nat
               /\ s \in [1..n -> DOMAIN before]
               /\ \A x \in DOMAIN before : \E k \in 1..n : s[k] = x
               /\ \A i, j \in 1..n : s[i] = s[j] => i = j
               /\ \A i, j \in 1..n : i < j => s[i] \in before[s[j]]
  <1>. DEFINE D == DOMAIN before
              n == Cardinality(D)
              s == Sorted(before)
  <1>1. n \in Nat
    BY FS_CardinalityType DEF Orders
  <1>2. s = [k \in 1..n |-> CHOOSE x \in D : Cardinality(before[x]) = k - 1]
    BY DEF Sorted
  <1>. HIDE DEF s, n
  <1>3. \A k \in 1..n : s[k] \in D /\ Cardinality(before[s[k]]) = k - 1
    BY <1>2, PlaceLemma DEF n
  <1>4. \A x \in D : \E k \in 1..n : s[k] = x
    <2>. SUFFICES ASSUME NEW x \in D PROVE \E k \in 1..n : s[k] = x
      OBVIOUS
    <2>. DEFINE k == Cardinality(before[x]) + 1
    <2>1. Cardinality(before[x]) \in 0..(n - 1)
      BY RankLemma DEF n
    <2>2. k \in 1..n /\ k - 1 = Cardinality(before[x])
      BY <1>1, <2>1
    <2>. HIDE DEF k
    <2>3. Cardinality(before[s[k]]) = Cardinality(before[x])
      BY <1>3, <2>2
    <2>4. s[k] = x
      BY <1>3, <2>2, <2>3, PlaceLemma DEF n
    <2>. QED BY <2>2, <2>4
  <1>5. ASSUME NEW i \in 1..n, NEW j \in 1..n, s[i] = s[j] PROVE i = j
    <2>1. i - 1 = j - 1
      BY <1>3, <1>5
    <2>. QED BY <2>1, <1>1
  <1>6. ASSUME NEW i \in 1..n, NEW j \in 1..n, i < j PROVE s[i] \in before[s[j]]
    <2>1. s[i] # s[j]
      BY <1>5, <1>6, <1>1
    <2>2. s[j] \notin before[s[i]]
      <3>1. ~(j - 1 < i - 1)
        BY <1>6, <1>1
      <3>. QED BY <1>3, <3>1, RankLemma
    <2>. QED BY <1>3, <2>1, <2>2 DEF Orders
  <1>. QED BY <1>1, <1>2, <1>3, <1>4, <1>5, <1>6 DEF n, s

\* The elements of S in their own order: k is where S has as many up to it.
LEMMA SelectedLemma ==
    ASSUME NEW n \in Nat, NEW S \in SUBSET (1..n)
    PROVE  LET order == Sorted([k \in S |-> {l \in S : l < k}])
               m     == Cardinality(S)
           IN  /\ m \in Nat /\ order \in [1..m -> S]
               /\ \A i, j \in 1..m : order[i] = order[j] => i = j
               /\ \A k \in S : LET at == Cardinality({l \in S : l <= k})
                               IN  at \in 1..m /\ order[at] = k
  <1>. DEFINE before == [k \in S |-> {l \in S : l < k}]
              order  == Sorted(before)
              m      == Cardinality(S)
  <1>1. IsFiniteSet(S)
    BY IntervalLemma, FS_Subset
  <1>2. DOMAIN before = S /\ \A k \in S : before[k] = {l \in S : l < k}
    OBVIOUS
  <1>3. Orders(before)
    BY <1>1, <1>2 DEF Orders
  <1>. HIDE DEF before
  <1>4. /\ m \in Nat /\ order \in [1..m -> S]
        /\ \A i, j \in 1..m : order[i] = order[j] => i = j
    BY <1>2, <1>3, SortedLemma
  <1>5. order = [k \in 1..m |-> CHOOSE x \in S : Cardinality(before[x]) = k - 1]
    BY <1>2 DEF Sorted
  <1>. HIDE DEF order
  <1>6. ASSUME NEW k \in S
        PROVE  LET at == Cardinality({l \in S : l <= k})
               IN  at \in 1..m /\ order[at] = k
    <2>. DEFINE at == Cardinality({l \in S : l <= k})
    <2>1. {l \in S : l <= k} = before[k] \cup {k} /\ k \notin before[k]
      <3>1. before[k] = {l \in S : l < k}
        BY <1>2
      <3>2. \A l \in S : l \in Int
        OBVIOUS
      <3>3. k \notin before[k]
        BY <3>1, <3>2
      <3>4. \A l : l \in {x \in S : x <= k} <=> l \in {x \in S : x < k} \/ l = k
        <4>1. ASSUME NEW l \in S PROVE l <= k <=> l < k \/ l = k
          <5>1. l \in Int /\ k \in Int
            BY <3>2
          <5>. QED BY <5>1
        <4>2. k <= k
          BY <3>2
        <4>. QED BY <4>1, <4>2, Zenon
      <3>. QED BY <3>1, <3>3, <3>4
    <2>2. IsFiniteSet(before[k])
      BY <1>1, <1>2, FS_Subset
    <2>3. at = Cardinality(before[k]) + 1
      BY <2>1, <2>2, FS_AddElement
    <2>4. Cardinality(before[k]) \in 0..(m - 1)
      BY <1>2, <1>3, RankLemma
    <2>. HIDE DEF at, m
    <2>5. at \in 1..m /\ at - 1 = Cardinality(before[k])
      BY <1>4, <2>3, <2>4
    <2>6. order[at] \in S /\ Cardinality(before[order[at]]) = Cardinality(before[k])
      <3>1. order[at] = CHOOSE x \in S : Cardinality(before[x]) = at - 1
        BY <1>5, <2>5
      <3>. QED BY <2>5, <3>1
    <2>7. order[at] = k
      BY <1>2, <1>3, <2>5, <2>6, PlaceLemma DEF m
    <2>. QED BY <2>5, <2>7 DEF at, m
  <1>. QED BY <1>4, <1>6 DEF order, before

\* A finite set that is not empty has a first element.
LEMMA FirstLemma ==
    ASSUME NEW before, Orders(before), DOMAIN before # {}
    PROVE  \E x \in DOMAIN before : before[x] = {}
  <1>. DEFINE n == Cardinality(DOMAIN before)
  <1>1. IsFiniteSet(DOMAIN before)
    BY DEF Orders
  <1>2. n \in Nat /\ n # 0
    BY <1>1, FS_CardinalityType, FS_EmptySet
  <1>3. 1 \in 1..n
    BY <1>2
  <1>4. PICK x \in DOMAIN before : Cardinality(before[x]) = 1 - 1
    BY <1>3, PlaceLemma
  <1>5. IsFiniteSet(before[x])
    BY <1>1, FS_Subset DEF Orders
  <1>6. before[x] = {}
    BY <1>4, <1>5, FS_EmptySet
  <1>. QED BY <1>6

\* A set of numbers from 1 to n that is not empty has a greatest.
LEMMA GreatestLemma ==
    ASSUME NEW n \in Nat, NEW S \in SUBSET (1..n), S # {}
    PROVE  \E k \in S : \A l \in S : l <= k
  <1>. DEFINE before == [k \in S |-> {l \in S : l > k}]
  <1>1. IsFiniteSet(S)
    BY IntervalLemma, FS_Subset
  <1>2. Orders(before)
    BY <1>1 DEF Orders
  <1>3. PICK k \in S : before[k] = {}
    <2>1. DOMAIN before = S
      OBVIOUS
    <2>. HIDE DEF before
    <2>. QED BY <1>2, <2>1, FirstLemma
  <1>. QED BY <1>3

-----------------------------------------------------------------------------
(* Induction, over a set instead of a predicate: what is so of 0, and of   *)
(* n + 1 when it is so of n, is so of every number.                        *)

LEMMA LeastNatural ==
    ASSUME NEW S \in SUBSET Nat, S # {}
    PROVE  \E n \in S : \A m \in S : n <= m
  <1>. DEFINE less == OpToRel(<, Nat)
  <1>1. IsWellFoundedOn(less, Nat)
    BY NatLessThanWellFounded
  <1>. HIDE DEF less
  <1>2. \A x, y \in Nat : <<y, x>> \in less <=> y < x
    BY DEF less, OpToRel
  <1>3. PICK x \in S : \A y \in S : ~(<<y, x>> \in less)
    BY <1>1, WFMin
  <1>4. \A y \in S : ~(y < x)
    BY <1>2, <1>3
  <1>. QED BY <1>4

LEMMA SetInduction ==
    ASSUME NEW S \in SUBSET Nat, 0 \in S, \A n \in S : n + 1 \in S
    PROVE  S = Nat
  <1>. SUFFICES ASSUME Nat \ S # {} PROVE FALSE
    OBVIOUS
  <1>1. PICK n \in Nat \ S : \A m \in Nat \ S : n <= m
    <2>. DEFINE T == Nat \ S
    <2>1. T \in SUBSET Nat /\ T # {}
      OBVIOUS
    <2>. HIDE DEF T
    <2>. QED BY <2>1, LeastNatural DEF T
  <1>2. n - 1 \in S
    BY <1>1
  <1>. QED BY <1>1, <1>2
=============================================================================
