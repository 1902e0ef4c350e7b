---------------------------- MODULE ScenarioProofs ----------------------------
(***************************************************************************)
(* Lemmas on executors, what a snapshot, a call and a revert make of a     *)
(* fresh deployment, whatever the contract does; and on the impact of a    *)
(* writer on a reader, what it says of any contract that returns words.    *)
(***************************************************************************)
EXTENDS Scenario, SortingProofs

LEMMA BaselineShape ==
    Baseline = [world |-> Baseline.world, journal |-> <<>>]
  BY DEF Baseline, Deploy, Created, NewExecutor

LEMMA SnapshotLemma ==
    ASSUME NEW e, e = Baseline
    PROVE  /\ Snapshot(e) = [world |-> Baseline.world, journal |-> <<Baseline.world>>]
           /\ SnapshotId(e) = 1
  BY BaselineShape DEF Snapshot, SnapshotId

LEMMA CallKeepsJournal ==
    ASSUME NEW e, e = [world |-> e.world, journal |-> e.journal],
           NEW from, NEW to, NEW input
    PROVE  LET after == Call(e, from, to, input).exec
           IN  after = [world |-> after.world, journal |-> e.journal]
  BY DEF Call, Returned

LEMMA RevertLemma ==
    ASSUME NEW world
    PROVE  LET e == [world |-> world, journal |-> <<Baseline.world>>]
           IN  KnownSnapshot(e, 1) /\ RevertToSnapshot(e, 1) = Baseline
  <1>. DEFINE e == [world |-> world, journal |-> <<Baseline.world>>]
  <1>1. SubSeq(e.journal, 1, 1 - 1) = <<>>
    OBVIOUS
  <1>2. 1 \in DOMAIN e.journal /\ e.journal[1] = Baseline.world
    OBVIOUS
  <1>. HIDE DEF e
  <1>3. KnownSnapshot(e, 1) /\ RevertToSnapshot(e, 1) = Baseline
    BY <1>1, <1>2, BaselineShape DEF KnownSnapshot, RevertToSnapshot
  <1>. QED BY <1>3 DEF e

\* A call does not see the journal: it shows and leaves what it does on the same
\* world with no snapshot open.
Fresh(world) == [world |-> world, journal |-> <<>>]

LEMMA CallFresh ==
    ASSUME NEW e, e = [world |-> e.world, journal |-> e.journal],
           NEW from, NEW to, NEW input
    PROVE  LET here  == Call(e, from, to, input)
               there == Call(Fresh(e.world), from, to, input)
           IN  Outcome(here) = Outcome(there) /\ Fresh(here.exec.world) = there.exec
  BY DEF Call, Returned, Outcome, Fresh

-----------------------------------------------------------------------------
(* Stacking a writer, one call after the other.                            *)

\* The executors f[0], ..., f[n] of n calls; one that n calls lead to, by
\* whatever function describes them.
Stacking(f, writerCall, n) ==
    f = [k \in 0..n |-> IF k = 0 THEN Baseline
                        ELSE Call(f[k - 1], Caller, Contract, writerCall).exec]

Reached(e, writerCall, n) ==
    /\ \E f : Stacking(f, writerCall, n)
    /\ \A f : Stacking(f, writerCall, n) => f[n] = e

LEMMA ReachedFirst ==
    ASSUME NEW writerCall
    PROVE  Reached(Baseline, writerCall, 0)
  <1>1. Stacking([k \in 0..0 |-> Baseline], writerCall, 0)
    BY DEF Stacking
  <1>2. ASSUME NEW f, Stacking(f, writerCall, 0) PROVE f[0] = Baseline
    BY <1>2 DEF Stacking
  <1>. QED BY <1>1, <1>2 DEF Reached

LEMMA ReachedNext ==
    ASSUME NEW e, NEW writerCall, NEW n \in Nat, Reached(e, writerCall, n)
    PROVE  Reached(Call(e, Caller, Contract, writerCall).exec, writerCall, n + 1)
  <1>. DEFINE next(x) == Call(x, Caller, Contract, writerCall).exec
  <1>1. ASSUME NEW f, Stacking(f, writerCall, n + 1)
        PROVE  f[n + 1] = next(e)
    <2>. DEFINE g == [k \in 0..n |-> f[k]]
    <2>1. f = [k \in 0..(n + 1) |-> IF k = 0 THEN Baseline ELSE next(f[k - 1])]
      BY <1>1 DEF Stacking
    <2>. HIDE DEF next
    <2>2. g = [k \in 0..n |-> IF k = 0 THEN Baseline ELSE next(g[k - 1])]
      BY <2>1
    <2>3. Stacking(g, writerCall, n)
      BY <2>2 DEF Stacking, next
    <2>4. g[n] = e
      BY <2>3 DEF Reached
    <2>. QED BY <2>1, <2>4
  <1>2. PICK f : Stacking(f, writerCall, n)
    BY DEF Reached
  <1>3. f[n] = e
    BY <1>2 DEF Reached
  <1>. DEFINE g == [k \in 0..(n + 1) |-> IF k = n + 1 THEN next(e) ELSE f[k]]
  <1>4. f = [k \in 0..n |-> IF k = 0 THEN Baseline ELSE next(f[k - 1])]
    BY <1>2 DEF Stacking
  <1>5. g = [k \in 0..(n + 1) |-> IF k = 0 THEN Baseline ELSE next(g[k - 1])]
    <2>. HIDE DEF next
    <2>. QED BY <1>3, <1>4
  <1>6. Stacking(g, writerCall, n + 1)
    BY <1>5 DEF Stacking
  <1>. QED BY <1>1, <1>6 DEF Reached

LEMMA ReachedStacked ==
    ASSUME NEW e, NEW writerCall, NEW n \in Nat, Reached(e, writerCall, n)
    PROVE  Stacked(writerCall, n) = e
  <1>. DEFINE after == CHOOSE f : Stacking(f, writerCall, n)
  <1>1. Stacking(after, writerCall, n)
    BY DEF Reached
  <1>2. Stacked(writerCall, n) = after[n]
    BY DEF Stacked, Stacking
  <1>. HIDE DEF after
  <1>. QED BY <1>1, <1>2 DEF Reached

\* Stacking one call is making it.
LEMMA StackedOnce ==
    ASSUME NEW w
    PROVE  Stacked(w, 1) = Call(Baseline, Caller, Contract, w).exec
  <1>. DEFINE e == Call(Baseline, Caller, Contract, w).exec
  <1>1. Reached(Baseline, w, 0)
    BY ReachedFirst
  <1>2. Reached(e, w, 0 + 1)
    BY <1>1, ReachedNext
  <1>3. 0 + 1 = 1
    OBVIOUS
  <1>. HIDE DEF e
  <1>4. Reached(e, w, 1)
    BY <1>2, <1>3
  <1>. QED BY <1>4, ReachedStacked DEF e

-----------------------------------------------------------------------------
(* What the choices of ImpactOf choose.                                    *)

LEMMA FirstPairLemma ==
    ASSUME NEW pairs \in SUBSET (Nat \X Nat), NEW p \in pairs,
           \A q \in pairs : p[1] < q[1] \/ (p[1] = q[1] /\ p[2] <= q[2])
    PROVE  FirstPair(pairs) = p
  <1>. DEFINE First(x) == \A q \in pairs : x[1] < q[1] \/ (x[1] = q[1] /\ x[2] <= q[2])
  <1>1. ASSUME NEW x \in pairs, First(x) PROVE x = p
    <2>1. x \in Nat \X Nat /\ p \in Nat \X Nat
      OBVIOUS
    <2>2. x[1] < p[1] \/ (x[1] = p[1] /\ x[2] <= p[2])
      BY <1>1
    <2>3. p[1] < x[1] \/ (p[1] = x[1] /\ p[2] <= x[2])
      OBVIOUS
    <2>. QED BY <2>1, <2>2, <2>3
  <1>2. First(p)
    OBVIOUS
  <1>. HIDE DEF First
  <1>3. (CHOOSE x \in pairs : First(x)) = p
    BY <1>1, <1>2
  <1>. QED BY <1>3 DEF FirstPair, First

LEMMA FirstPairExists ==
    ASSUME NEW ws, NEW rs, DOMAIN ws = 1..Len(ws), DOMAIN rs = 1..Len(rs),
           Len(ws) \in Nat, Len(rs) \in Nat, ChangingPairs(ws, rs) # {}
    PROVE  FirstPair(ChangingPairs(ws, rs)) \in ChangingPairs(ws, rs)
  <1>. DEFINE pairs == ChangingPairs(ws, rs)
              All   == (1..Len(ws)) \X (1..Len(rs))
              before == [p \in pairs |->
                            {q \in pairs : q[1] < p[1] \/ (q[1] = p[1] /\ q[2] < p[2])}]
  <1>1. pairs \in SUBSET All
    BY DEF ChangingPairs
  <1>2. IsFiniteSet(All)
    <2>1. 1 \in Int /\ Len(ws) \in Int /\ Len(rs) \in Int
      OBVIOUS
    <2>2. IsFiniteSet(1..Len(ws)) /\ IsFiniteSet(1..Len(rs))
      BY <2>1, FS_Interval
    <2>. QED BY <2>2, FS_Product
  <1>3. IsFiniteSet(pairs) /\ pairs \in SUBSET (Nat \X Nat)
    BY <1>1, <1>2, FS_Subset
  <1>. HIDE DEF pairs, All
  <1>4. DOMAIN before = pairs
    OBVIOUS
  <1>5. Orders(before)
    <2>1. \A p \in pairs : p = <<p[1], p[2]>> /\ p[1] \in Nat /\ p[2] \in Nat
      BY <1>3
    <2>2. \A p \in pairs : before[p] \subseteq pairs /\ p \notin before[p]
      BY <2>1
    <2>3. \A p, q \in pairs : p # q => p \in before[q] \/ q \in before[p]
      BY <2>1
    <2>4. \A o, p, q \in pairs : o \in before[p] /\ p \in before[q] => o \in before[q]
      BY <2>1
    <2>. QED BY <1>3, <1>4, <2>2, <2>3, <2>4 DEF Orders
  <1>6. PICK p \in pairs : before[p] = {}
    <2>1. pairs # {}
      BY DEF pairs
    <2>. HIDE DEF before
    <2>. QED BY <1>4, <1>5, <2>1, FirstLemma
  <1>7. \A q \in pairs : p[1] < q[1] \/ (p[1] = q[1] /\ p[2] <= q[2])
    BY <1>3, <1>6
  <1>. QED BY <1>3, <1>7, FirstPairLemma DEF pairs

LEMMA LargestAtLemma ==
    ASSUME NEW size, DOMAIN size \subseteq Nat, \A n \in DOMAIN size : size[n] \in Int,
           NEW b \in DOMAIN size,
           \A m \in DOMAIN size : size[b] > size[m] \/ (size[b] = size[m] /\ b <= m)
    PROVE  LargestAt(size) = b
  <1>. DEFINE Largest(n) == \A m \in DOMAIN size :
                                size[n] > size[m] \/ (size[n] = size[m] /\ n <= m)
  <1>1. ASSUME NEW n \in DOMAIN size, Largest(n) PROVE n = b
    <2>1. n \in Nat /\ b \in Nat /\ size[n] \in Int /\ size[b] \in Int
      OBVIOUS
    <2>2. size[n] > size[b] \/ (size[n] = size[b] /\ n <= b)
      BY <1>1
    <2>3. size[b] > size[n] \/ (size[b] = size[n] /\ b <= n)
      OBVIOUS
    <2>. QED BY <2>1, <2>2, <2>3
  <1>2. Largest(b)
    OBVIOUS
  <1>. HIDE DEF Largest
  <1>3. (CHOOSE n \in DOMAIN size : Largest(n)) = b
    BY <1>1, <1>2
  <1>. QED BY <1>3 DEF LargestAt, Largest

-----------------------------------------------------------------------------
(* What an impact says.                                                    *)

OutputsAreWords ==
    \A world, from, to, input : Run(world, from, to, input).output \in Seq(Nat)

LEMMA OutcomeLemma ==
    ASSUME OutputsAreWords, NEW e, NEW input
    PROVE  LET o == Outcome(Call(e, Caller, Contract, input))
           IN  o = [output |-> o.output, reverted |-> o.reverted]
               /\ o.output \in Seq(Nat) /\ o.reverted \in BOOLEAN
  BY DEF OutputsAreWords, Outcome, Call, Returned

\* The size of the change that n runs of the writer make.
Size(w, n, r) == Magnitude(Change(w, n, r))

LEMMA ValueLemma ==
    ASSUME OutputsAreWords, NEW w, NEW n, NEW r,
           IsValue(Alone(r)), IsValue(ReaderAfter(w, n, r))
    PROVE  Change(w, n, r) \in Int /\ Size(w, n, r) \in Nat
  <1>1. Alone(r).output \in Seq(Nat) /\ ReaderAfter(w, n, r).output \in Seq(Nat)
    BY DEF OutputsAreWords, Alone, ReaderAfter, Outcome, Call, Returned
  <1>2. Len(Alone(r).output) = 1 /\ Len(ReaderAfter(w, n, r).output) = 1
    BY DEF IsValue
  <1>3. ValueOf(Alone(r)) \in Nat /\ ValueOf(ReaderAfter(w, n, r)) \in Nat
    BY <1>1, <1>2 DEF ValueOf
  <1>4. Change(w, n, r) \in Int
    BY <1>3 DEF Change
  <1>. QED BY <1>4 DEF Size, Magnitude

\* Outcomes that differ and are both values are different values.
LEMMA ValuesDiffer ==
    ASSUME OutputsAreWords, NEW w, NEW r, Alone(r) # ReaderAfter(w, 1, r),
           IsValue(Alone(r)), IsValue(ReaderAfter(w, 1, r))
    PROVE  Change(w, 1, r) # 0
  <1>. DEFINE b == Alone(r)
              a == ReaderAfter(w, 1, r)
  <1>1. /\ b = [output |-> b.output, reverted |-> b.reverted] /\ b.output \in Seq(Nat)
        /\ a = [output |-> a.output, reverted |-> a.reverted] /\ a.output \in Seq(Nat)
        /\ b.reverted \in BOOLEAN /\ a.reverted \in BOOLEAN
    BY OutcomeLemma DEF Alone, ReaderAfter
  <1>2. a # b /\ ~a.reverted /\ ~b.reverted /\ Len(a.output) = 1 /\ Len(b.output) = 1
    BY DEF IsValue
  <1>3. Change(w, 1, r) = a.output[1] - b.output[1]
    BY DEF Change, ValueOf
  <1>. HIDE DEF a, b
  <1>4. a.output # b.output
    BY <1>1, <1>2
  <1>5. a.output[1] # b.output[1] /\ a.output[1] \in Nat /\ b.output[1] \in Nat
    BY <1>1, <1>2, <1>4
  <1>. QED BY <1>3, <1>5

\* The numbers of runs that are measured have a least one whose change is the
\* largest.
LEMMA LargestAtExists ==
    ASSUME NEW size, NEW max \in Nat, DOMAIN size \subseteq 1..max, DOMAIN size # {},
           \A n \in DOMAIN size : size[n] \in Int
    PROVE  LET b == LargestAt(size)
           IN  /\ b \in DOMAIN size
               /\ \A m \in DOMAIN size : size[b] > size[m] \/ (size[b] = size[m] /\ b <= m)
  <1>. DEFINE N == DOMAIN size
              Better(m, n) == size[m] > size[n] \/ (size[m] = size[n] /\ m < n)
              before == [n \in N |-> {m \in N : Better(m, n)}]
  <1>1. \A n \in N : n \in Nat /\ size[n] \in Int
    OBVIOUS
  <1>2. IsFiniteSet(N)
    BY IntervalLemma, FS_Subset
  <1>3. DOMAIN before = N
    OBVIOUS
  <1>4. Orders(before)
    <2>1. \A n \in N : before[n] \subseteq N /\ n \notin before[n]
      BY <1>1
    <2>2. \A m, n \in N : m # n => m \in before[n] \/ n \in before[m]
      BY <1>1
    <2>3. \A l, m, n \in N : l \in before[m] /\ m \in before[n] => l \in before[n]
      BY <1>1
    <2>. QED BY <1>2, <1>3, <2>1, <2>2, <2>3 DEF Orders
  <1>5. PICK b \in N : before[b] = {}
    <2>. HIDE DEF before
    <2>. QED BY <1>3, <1>4, FirstLemma
  <1>6. \A m \in N : size[b] > size[m] \/ (size[b] = size[m] /\ b <= m)
    BY <1>1, <1>5
  <1>7. LargestAt(size) = b
    <2>1. N \subseteq Nat
      BY <1>1
    <2>. QED BY <1>1, <1>6, <2>1, LargestAtLemma
  <1>. QED BY <1>6, <1>7

\* A change that is no more than a difference of output has no size; one of value
\* is never zero, is that of a reader that succeeds before and after, and is
\* smaller than the stacked change that took several runs.
Telling(imp) ==
    /\ imp.confirmed \in BOOLEAN
    /\ ~imp.confirmed => imp = NoImpact
    /\ imp.delta = <<>> => imp.maxDelta = <<>>
    /\ imp.delta # <<>> =>
          /\ imp.confirmed /\ ~imp.before.reverted /\ ~imp.after.reverted
          /\ imp.before.reverted = imp.after.reverted
          /\ imp.delta[1] \in Int /\ imp.delta[1] # 0
          /\ imp.maxDelta # <<>> /\ imp.maxDelta[1] \in Int /\ imp.maxRepeats \in Nat
          /\ imp.maxRepeats > 1 => Magnitude(imp.maxDelta[1]) > Magnitude(imp.delta[1])

LEMMA ImpactOfPairLemma ==
    ASSUME OutputsAreWords, NEW w, NEW r, NEW max \in Nat \ {0},
           Alone(r) # ReaderAfter(w, 1, r)
    PROVE  LET imp == ImpactOfPair(w, r, max)
           IN  imp.confirmed /\ Telling(imp)
  <1>. DEFINE imp   == ImpactOfPair(w, r, max)
              first == Confirm(Alone(r), ReaderAfter(w, 1, r), w, r)
              N     == Measured(w, r, max)
              size  == [n \in N |-> Magnitude(Change(w, n, r))]
              b     == LargestAt(size)
  <1>1. /\ first.confirmed = TRUE /\ first.before = Alone(r) /\ first.after = ReaderAfter(w, 1, r)
        /\ first.delta = ValueDelta(Alone(r), ReaderAfter(w, 1, r))
        /\ first.maxDelta = first.delta /\ first.maxRepeats = 1
    BY DEF Confirm
  <1>2. imp = IF first.delta = NoDelta THEN first ELSE Amplified(first, w, r, b)
    BY DEF ImpactOfPair, WithAmplification
  <1>3. CASE first.delta = NoDelta
    BY <1>1, <1>2, <1>3 DEF Telling, NoDelta
  <1>4. CASE first.delta # NoDelta
    <2>1. /\ IsValue(Alone(r)) /\ IsValue(ReaderAfter(w, 1, r))
          /\ first.delta = <<Change(w, 1, r)>>
      BY <1>1, <1>4 DEF ValueDelta, Change
    <2>2. 1 \in N /\ N \subseteq 1..max
      BY <2>1 DEF Measured
    <2>3. \A n \in N : Change(w, n, r) \in Int /\ Size(w, n, r) \in Nat
      <3>1. \A n \in N : IsValue(ReaderAfter(w, n, r))
        BY DEF Measured
      <3>. QED BY <2>1, <3>1, ValueLemma
    <2>4. DOMAIN size = N /\ \A n \in N : size[n] = Size(w, n, r)
      BY DEF Size
    <2>5. /\ b \in N
          /\ \A m \in N : Size(w, b, r) > Size(w, m, r)
                           \/ (Size(w, b, r) = Size(w, m, r) /\ b <= m)
      <3>1. /\ max \in Nat /\ DOMAIN size \subseteq 1..max /\ DOMAIN size # {}
            /\ \A n \in DOMAIN size : size[n] \in Int
        BY <2>2, <2>3, <2>4
      <3>. HIDE DEF size, N
      <3>2. /\ b \in DOMAIN size
            /\ \A m \in DOMAIN size : size[b] > size[m] \/ (size[b] = size[m] /\ b <= m)
        BY <3>1, LargestAtExists
      <3>. HIDE DEF b
      <3>. QED BY <2>4, <3>2
    <2>. HIDE DEF b
    <2>6. /\ imp.confirmed = TRUE /\ imp.before = Alone(r) /\ imp.after = ReaderAfter(w, 1, r)
          /\ imp.delta = <<Change(w, 1, r)>> /\ imp.maxDelta = <<Change(w, b, r)>>
          /\ imp.maxRepeats = b
      BY <1>1, <1>2, <1>4, <2>1 DEF Amplified, Confirm
    <2>7. Change(w, 1, r) # 0
      BY <2>1, ValuesDiffer
    <2>8. b \in Nat /\ (b > 1 => Size(w, b, r) > Size(w, 1, r))
      <3>1. b \in Nat
        BY <2>2, <2>5
      <3>. QED BY <2>2, <2>3, <2>5, <3>1
    <2>9. ~Alone(r).reverted /\ ~ReaderAfter(w, 1, r).reverted
          /\ Alone(r).reverted = ReaderAfter(w, 1, r).reverted
      BY <2>1, OutcomeLemma DEF IsValue, Alone, ReaderAfter
    <2>. HIDE DEF imp
    <2>10. imp.delta[1] = Change(w, 1, r) /\ imp.maxDelta[1] = Change(w, b, r)
           /\ imp.delta # <<>> /\ imp.maxDelta # <<>>
      BY <2>6
    <2>11. Change(w, 1, r) \in Int /\ Change(w, b, r) \in Int
      BY <2>2, <2>3, <2>5
    <2>12. Telling(imp)
      BY <2>6, <2>7, <2>8, <2>9, <2>10, <2>11 DEF Telling, Size
    <2>. QED BY <2>6, <2>12 DEF imp
  <1>. QED BY <1>3, <1>4

LEMMA ImpactOfLemma ==
    ASSUME OutputsAreWords, NEW ws, NEW rs, NEW max \in Nat \ {0},
           DOMAIN ws = 1..Len(ws), DOMAIN rs = 1..Len(rs), Len(ws) \in Nat, Len(rs) \in Nat
    PROVE  LET imp == ImpactOf(ws, rs, max)
           IN  Telling(imp) /\ (imp.confirmed <=> ChangingPairs(ws, rs) # {})
  <1>. DEFINE pairs == ChangingPairs(ws, rs)
  <1>1. CASE pairs = {}
    BY <1>1 DEF ImpactOf, ImpactOfFirst, NoImpact, Telling, NoDelta
  <1>2. CASE pairs # {}
    <2>1. FirstPair(pairs) \in pairs
      BY <1>2, FirstPairExists
    <2>. DEFINE p == FirstPair(pairs)
    <2>2. Alone(rs[p[2]]) # ReaderAfter(ws[p[1]], 1, rs[p[2]])
      BY <2>1 DEF ChangingPairs
    <2>3. ImpactOf(ws, rs, max) = ImpactOfPair(ws[p[1]], rs[p[2]], max)
      BY <1>2 DEF ImpactOf, ImpactOfFirst
    <2>. QED BY <1>2, <2>2, <2>3, ImpactOfPairLemma
  <1>. QED BY <1>1, <1>2

\* A confirmed impact carries two calls that show it.
Showing(imp) ==
    \E w, r : /\ imp.writerCall = <<w>> /\ imp.readerCall = <<r>>
              /\ Alone(r) # ReaderAfter(w, 1, r)

\* Its calls are of these lists.
Carries(imp, ws, rs) ==
    \E a \in DOMAIN ws, b \in DOMAIN rs :
        imp.writerCall = <<ws[a]>> /\ imp.readerCall = <<rs[b]>>

LEMMA ShowingLemma ==
    ASSUME NEW ws, NEW rs, NEW max,
           DOMAIN ws = 1..Len(ws), DOMAIN rs = 1..Len(rs), Len(ws) \in Nat, Len(rs) \in Nat,
           ImpactOf(ws, rs, max).confirmed
    PROVE  Showing(ImpactOf(ws, rs, max)) /\ Carries(ImpactOf(ws, rs, max), ws, rs)
  <1>. DEFINE pairs == ChangingPairs(ws, rs)
              p     == FirstPair(pairs)
              w     == ws[p[1]]
              r     == rs[p[2]]
              first == Confirm(Alone(r), ReaderAfter(w, 1, r), w, r)
  <1>1. pairs # {}
    BY DEF ImpactOf, ImpactOfFirst, NoImpact
  <1>2. Alone(r) # ReaderAfter(w, 1, r) /\ p[1] \in DOMAIN ws /\ p[2] \in DOMAIN rs
    <2>1. p \in pairs
      BY <1>1, FirstPairExists
    <2>. HIDE DEF p
    <2>. QED BY <2>1 DEF ChangingPairs
  <1>3. ImpactOf(ws, rs, max) = WithAmplification(first, w, r, max)
    BY <1>1 DEF ImpactOf, ImpactOfFirst, ImpactOfPair
  <1>4. first.writerCall = <<w>> /\ first.readerCall = <<r>>
    BY DEF Confirm
  <1>5. /\ WithAmplification(first, w, r, max).writerCall = <<w>>
        /\ WithAmplification(first, w, r, max).readerCall = <<r>>
    BY DEF WithAmplification, Amplified, Confirm
  <1>6. Showing(ImpactOf(ws, rs, max))
    <2>. HIDE DEF w, r, first
    <2>. QED BY <1>2, <1>3, <1>5 DEF Showing
  <1>. HIDE DEF p, first
  <1>7. Carries(ImpactOf(ws, rs, max), ws, rs)
    BY <1>2, <1>3, <1>5 DEF Carries
  <1>. QED BY <1>6, <1>7
=============================================================================
