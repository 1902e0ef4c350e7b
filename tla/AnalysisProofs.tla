---------------------------- MODULE AnalysisProofs ----------------------------
(***************************************************************************)
(* Theorems about analyzeContract, for every contract that returns words   *)
(* and every ABI.  Each stage's result is a function of the stages before  *)
(* it (History, the inductive invariant), so what the report says follows  *)
(* from what the graph, the impacts and the ranking are.                   *)
(***************************************************************************)
EXTENDS FirstPass, ScenarioProofs

Traced1(q) == q \in InOrder(Jobs) /\ fns = [k \in DOMAIN q |-> TracedMethod(q[k])]

\* Each stage's result is that of the stages before it.
History ==
    /\ methods \in Contracts
    /\ stage \in {"fuzz", "graph", "evaluate", "report", "done", "failed"}
    /\ stage \in {"graph", "evaluate", "report", "done"} => \E q : Traced1(q)
    /\ stage \in {"evaluate", "report", "done"} => edges = Build(fns)
    /\ stage \in {"report", "done"} => impacts = [k \in DOMAIN edges |-> EvaluatedEdge(edges[k])]
    /\ stage = "done" => report = Reporting!BuildReport(Len(fns), Skipped, edges, impacts)
    /\ stage # "done" => report = <<>>

\* Every behaviour keeps its history.
THEOREM HistoryKept == Spec => []History
  <1>1. Init => History
    BY DEF Init, History
  <1>2. History /\ [Next]_vars => History'
    <2>. SUFFICES ASSUME History, [Next]_vars PROVE History'
      OBVIOUS
    <2>0. UNCHANGED methods =>
             /\ Jobs' = Jobs /\ Skipped' = Skipped
             /\ (UNCHANGED fns => \A q : Traced1(q)' <=> Traced1(q))
             /\ (UNCHANGED edges => [k \in DOMAIN edges |-> EvaluatedEdge(edges[k])]'
                                        = [k \in DOMAIN edges |-> EvaluatedEdge(edges[k])])
      BY DEF Traced1, InOrder, Jobs, Skipped, TracedMethod, EvaluatedEdge, VariantsNamed
    <2>1. CASE Fuzz
      <3>1. PICK q \in InOrder(Jobs) : fns' = [k \in DOMAIN q |-> TracedMethod(q[k])]
        BY <2>1 DEF Fuzz
      <3>2. /\ stage = "fuzz" /\ stage' = "graph"
            /\ methods' = methods /\ report' = report
        BY <2>1 DEF Fuzz
      <3>3. fns' = [k \in DOMAIN q |-> TracedMethod(q[k])'] /\ Jobs' = Jobs
        BY <3>1, <3>2 DEF Jobs, TracedMethod
      <3>4. InOrder(Jobs)' = InOrder(Jobs)
        BY <3>2, <3>3 DEF InOrder
      <3>5. Traced1(q)'
        BY <3>1, <3>3, <3>4 DEF Traced1
      <3>. QED BY <3>2, <3>5 DEF History
    <2>2. CASE BuildGraph
      BY <2>0, <2>2 DEF History, BuildGraph
    <2>3. CASE Evaluate
      BY <2>0, <2>3 DEF History, Evaluate
    <2>4. CASE FailPool
      <3>1. stage \in {"fuzz", "evaluate"} /\ stage' = "failed" /\ UNCHANGED <<methods, report>>
        BY <2>4 DEF FailPool
      <3>. QED BY <3>1 DEF History
    <2>5. CASE MakeReport
      BY <2>0, <2>5 DEF History, MakeReport
    <2>6. CASE UNCHANGED vars
      BY <2>0, <2>6 DEF vars, History
    <2>. QED BY <2>1, <2>2, <2>3, <2>4, <2>5, <2>6 DEF Next
  <1>. QED BY <1>1, <1>2, PTL DEF Spec

-----------------------------------------------------------------------------
(* The functions, the graph and the ranking.                               *)

LEMMA MethodsLemma ==
    ASSUME methods \in Contracts
    PROVE  /\ Len(methods) \in Nat /\ DOMAIN methods = 1..Len(methods)
           /\ \A i \in DOMAIN methods :
                 LET v == methods[i].variants
                 IN  /\ methods[i].name \in Nat
                     /\ Len(v) \in Nat /\ DOMAIN v = 1..Len(v)
           /\ \A i, j \in DOMAIN methods :
                 methods[i].name = methods[j].name => methods[i].variants = methods[j].variants
  <1>1. methods \in Seq({methods[i] : i \in DOMAIN methods})
    BY AnalysisAssumption
  <1>2. ASSUME NEW i \in DOMAIN methods
        PROVE  LET v == methods[i].variants
               IN  methods[i].name \in Nat /\ v \in Seq({v[k] : k \in DOMAIN v})
    BY AnalysisAssumption
  <1>3. \A i, j \in DOMAIN methods :
           methods[i].name = methods[j].name => methods[i].variants = methods[j].variants
    BY AnalysisAssumption
  <1>4. Len(methods) \in Nat /\ DOMAIN methods = 1..Len(methods)
    BY <1>1
  <1>5. ASSUME NEW i \in DOMAIN methods
        PROVE  LET v == methods[i].variants
               IN  methods[i].name \in Nat /\ Len(v) \in Nat /\ DOMAIN v = 1..Len(v)
    <2>. DEFINE v == methods[i].variants
    <2>1. PICK S : v \in Seq(S)
      BY <1>2
    <2>. HIDE DEF v
    <2>2. Len(v) \in Nat /\ DOMAIN v = 1..Len(v)
      BY <2>1
    <2>. QED BY <1>2, <2>2 DEF v
  <1>. QED BY <1>3, <1>4, <1>5

LEMMA JobsFinite ==
    ASSUME methods \in Contracts
    PROVE  /\ IsFiniteSet(DOMAIN methods) /\ Cardinality(DOMAIN methods) = Len(methods)
           /\ Jobs \in SUBSET DOMAIN methods /\ IsFiniteSet(Jobs) /\ Cardinality(Jobs) \in Nat
           /\ Skipped = DOMAIN methods \ Jobs
  <1>. DEFINE n == Len(methods)
  <1>1. n \in Nat /\ DOMAIN methods = 1..n
    BY MethodsLemma
  <1>. HIDE DEF n
  <1>2. IsFiniteSet(1..n) /\ Cardinality(1..n) = n
    BY <1>1, IntervalLemma
  <1>3. Jobs \in SUBSET DOMAIN methods /\ Skipped = DOMAIN methods \ Jobs
    BY DEF Jobs, Skipped
  <1>4. IsFiniteSet(Jobs)
    BY <1>1, <1>2, <1>3, FS_Subset
  <1>. QED BY <1>1, <1>2, <1>3, <1>4, FS_CardinalityType DEF n

\* Fuzz's answer lists every job once.
LEMMA FnsLemma ==
    ASSUME methods \in Contracts, NEW q, Traced1(q)
    PROVE  LET n == Cardinality(Jobs)
           IN  /\ n \in Nat /\ q \in [1..n -> Jobs] /\ DOMAIN fns = 1..n /\ Len(fns) = n
               /\ \A k \in 1..n : fns[k] = TracedMethod(q[k]) /\ fns[k].name \in Nat
               /\ \A k, l \in 1..n : k # l => q[k] # q[l]
               /\ \A i \in Jobs : \E k \in 1..n : q[k] = i
  <1>. DEFINE n == Cardinality(Jobs)
  <1>1. n \in Nat /\ IsFiniteSet(Jobs)
    BY JobsFinite
  <1>2. q \in [1..n -> Jobs] /\ \A k, l \in 1..n : k # l => q[k] # q[l]
    BY DEF Traced1, InOrder, SetToSeqs
  <1>3. IsFiniteSet(1..n) /\ Cardinality(1..n) = n
    BY <1>1, IntervalLemma
  <1>4. q \in Injection(1..n, Jobs)
    BY <1>2 DEF Injection, IsInjective
  <1>5. q \in Surjection(1..n, Jobs)
    BY <1>1, <1>3, <1>4, FS_Injection
  <1>6. \A i \in Jobs : \E k \in 1..n : q[k] = i
    BY <1>5 DEF Surjection
  <1>7. fns = [k \in 1..n |-> TracedMethod(q[k])]
    BY <1>2 DEF Traced1
  <1>8. \A k \in 1..n : TracedMethod(q[k]).name \in Nat
    BY <1>2, MethodsLemma, JobsFinite DEF TracedMethod
  <1>9. DOMAIN fns = 1..n /\ Len(fns) = n
    BY <1>1, <1>7
  <1>. QED BY <1>1, <1>2, <1>6, <1>7, <1>8, <1>9

\* sortEdges compares four numbers of two edges, one after the other.
Less(x, y) ==
    \/ x[1] < y[1]
    \/ x[1] = y[1] /\ x[2] < y[2]
    \/ x[1] = y[1] /\ x[2] = y[2] /\ (x[3] < y[3] \/ (x[3] = y[3] /\ x[4] < y[4]))

\* Comparing so is transitive.
LEMMA LessLemma ==
    ASSUME NEW x \in [1..4 -> Nat], NEW y \in [1..4 -> Nat], NEW z \in [1..4 -> Nat],
           Less(x, y), Less(y, z)
    PROVE  Less(x, z)
  BY DEF Less

\* The graph has an edge for every overlapping pair, once.
LEMMA GraphLemma ==
    ASSUME NEW f, NEW n \in Nat, DOMAIN f = 1..n, \A k \in 1..n : f[k].name \in Nat
    PROVE  LET pairs == EdgePairs(f)
               m     == Cardinality(pairs)
           IN  /\ m \in Nat /\ IsFiniteSet(pairs)
               /\ \E o \in [1..m -> pairs] :
                     /\ \A p \in pairs : \E k \in 1..m : o[k] = p
                     /\ \A k, l \in 1..m : o[k] = o[l] => k = l
                     /\ Build(f) = [k \in 1..m |-> EdgeOf(f, o[k])]
  <1>. DEFINE pairs  == EdgePairs(f)
              m      == Cardinality(pairs)
              before == [p \in pairs |-> {r \in pairs : EdgeLess(f, r, p)}]
              o      == Sorted(before)
  <1>1. pairs \in SUBSET ((1..n) \X (1..n))
    BY DEF EdgePairs
  <1>2. IsFiniteSet(pairs)
    <2>1. IsFiniteSet((1..n) \X (1..n))
      BY IntervalLemma, FS_Product
    <2>. QED BY <1>1, <2>1, FS_Subset
  <1>3. \A p \in pairs : /\ p = <<p[1], p[2]>> /\ p[1] \in Nat /\ p[2] \in Nat
                         /\ f[p[1]].name \in Nat /\ f[p[2]].name \in Nat
    BY <1>1
  <1>4. \A p, r \in pairs : EdgeLess(f, p, r) <=>
           \/ f[p[1]].name < f[r[1]].name
           \/ f[p[1]].name = f[r[1]].name /\ f[p[2]].name < f[r[2]].name
           \/ f[p[1]].name = f[r[1]].name /\ f[p[2]].name = f[r[2]].name
              /\ (p[1] < r[1] \/ (p[1] = r[1] /\ p[2] < r[2]))
    BY DEF EdgeLess, EdgeOf
  <1>. HIDE DEF pairs
  <1>5. DOMAIN before = pairs
    OBVIOUS
  <1>6. Orders(before)
    <2>1. \A p \in pairs : before[p] \subseteq pairs /\ p \notin before[p]
      BY <1>3, <1>4
    <2>2. \A p, r \in pairs : p # r => p \in before[r] \/ r \in before[p]
      BY <1>3, <1>4
    <2>3. ASSUME NEW p \in pairs, NEW r \in pairs, NEW s \in pairs,
                 EdgeLess(f, p, r), EdgeLess(f, r, s)
          PROVE  EdgeLess(f, p, s)
      <3>. DEFINE Key(q) == [i \in 1..4 |-> CASE i = 1 -> f[q[1]].name [] i = 2 -> f[q[2]].name
                                             [] i = 3 -> q[1]          [] i = 4 -> q[2]]
      <3>1. ASSUME NEW q \in pairs PROVE Key(q) \in [1..4 -> Nat]
        <4>1. q[1] \in Nat /\ q[2] \in Nat /\ f[q[1]].name \in Nat /\ f[q[2]].name \in Nat
          BY <1>3
        <4>. QED BY <4>1
      <3>2. ASSUME NEW u \in pairs, NEW v \in pairs
            PROVE  EdgeLess(f, u, v) <=> Less(Key(u), Key(v))
        BY <1>4 DEF Less
      <3>3. /\ Key(p) \in [1..4 -> Nat] /\ Key(r) \in [1..4 -> Nat] /\ Key(s) \in [1..4 -> Nat]
            /\ Less(Key(p), Key(r)) /\ Less(Key(r), Key(s))
            /\ Less(Key(p), Key(s)) => EdgeLess(f, p, s)
        BY <2>3, <3>1, <3>2, Zenon
      <3>. HIDE DEF Key
      <3>. QED BY <3>3, LessLemma, Zenon
    <2>4. \A p, r, s \in pairs : p \in before[r] /\ r \in before[s] => p \in before[s]
      BY <2>3
    <2>. QED BY <1>2, <1>5, <2>1, <2>2, <2>4 DEF Orders
  <1>7. /\ m \in Nat /\ o \in [1..m -> pairs]
        /\ \A p \in pairs : \E k \in 1..m : o[k] = p
        /\ \A k, l \in 1..m : o[k] = o[l] => k = l
    <2>. HIDE DEF before
    <2>. QED BY <1>5, <1>6, SortedLemma
  <1>8. Build(f) = [k \in 1..m |-> EdgeOf(f, o[k])]
    <2>1. Build(f) = [k \in DOMAIN o |-> EdgeOf(f, o[k])]
      BY DEF Build, pairs
    <2>2. DOMAIN o = 1..m
      BY <1>7
    <2>. HIDE DEF o, m
    <2>. QED BY <2>1, <2>2
  <1>. QED BY <1>2, <1>7, <1>8 DEF pairs

\* rank compares four numbers of each finding, one after the other; elements that
\* it does not tell apart compare the same way with every other.
Lexicographic(a, b, c, d, i, j) ==
    \/ a[i] > a[j]
    \/ a[i] = a[j] /\ b[i] > b[j]
    \/ a[i] = a[j] /\ b[i] = b[j] /\ c[i] < c[j]
    \/ a[i] = a[j] /\ b[i] = b[j] /\ c[i] = c[j] /\ d[i] < d[j]

LEMMA LexicographicLemma ==
    ASSUME NEW S, NEW a \in [S -> Int], NEW b \in [S -> Int], NEW c \in [S -> Int],
           NEW d \in [S -> Int]
    PROVE  LET Over(i, j) == Lexicographic(a, b, c, d, i, j)
           IN  /\ \A i, j \in S : Over(i, j) => ~Over(j, i)
               /\ \A i, j, k \in S : Over(i, j) /\ Over(j, k) => Over(i, k)
               /\ \A i, j, k \in S : ~Over(i, j) /\ ~Over(j, i) /\ Over(j, k) => Over(i, k)
               /\ \A i, j, k \in S : Over(i, j) /\ ~Over(j, k) /\ ~Over(k, j) => Over(i, k)
               /\ \A i, j, k \in S : ~Over(i, j) /\ ~Over(j, i) /\ ~Over(j, k) /\ ~Over(k, j)
                                     => ~Over(i, k) /\ ~Over(k, i)
  <1>. DEFINE Over(i, j) == Lexicographic(a, b, c, d, i, j)
  <1>1. ASSUME NEW i \in S, NEW j \in S, NEW k \in S
        PROVE  /\ Over(i, j) => ~Over(j, i)
               /\ Over(i, j) /\ Over(j, k) => Over(i, k)
               /\ ~Over(i, j) /\ ~Over(j, i) /\ Over(j, k) => Over(i, k)
               /\ Over(i, j) /\ ~Over(j, k) /\ ~Over(k, j) => Over(i, k)
               /\ ~Over(i, j) /\ ~Over(j, i) /\ ~Over(j, k) /\ ~Over(k, j)
                     => ~Over(i, k) /\ ~Over(k, i)
    <2>1. /\ a[i] \in Int /\ a[j] \in Int /\ a[k] \in Int
          /\ b[i] \in Int /\ b[j] \in Int /\ b[k] \in Int
          /\ c[i] \in Int /\ c[j] \in Int /\ c[k] \in Int
          /\ d[i] \in Int /\ d[j] \in Int /\ d[k] \in Int
      OBVIOUS
    <2>. QED BY <2>1 DEF Lexicographic
  <1>. HIDE DEF Over
  <1>2. /\ \A i, j \in S : Over(i, j) => ~Over(j, i)
        /\ \A i, j, k \in S : Over(i, j) /\ Over(j, k) => Over(i, k)
        /\ \A i, j, k \in S : ~Over(i, j) /\ ~Over(j, i) /\ Over(j, k) => Over(i, k)
        /\ \A i, j, k \in S : Over(i, j) /\ ~Over(j, k) /\ ~Over(k, j) => Over(i, k)
        /\ \A i, j, k \in S : ~Over(i, j) /\ ~Over(j, i) /\ ~Over(j, k) /\ ~Over(k, j)
                              => ~Over(i, k) /\ ~Over(k, i)
    BY <1>1
  <1>. QED BY <1>2 DEF Over

LEMMA SameSorted ==
    ASSUME NEW before
    PROVE  Reporting!Sorted(before) = Sorted(before)
  <1>1. \A S : Reporting!Cardinality(S) = Cardinality(S)
    BY DEF Reporting!Cardinality, Cardinality
  <1>. QED BY <1>1 DEF Reporting!Sorted, Sorted

\* rank keeps every finding, and puts none before one that outranks it.
LEMMA RankedLemma ==
    ASSUME NEW f, NEW n \in Nat, DOMAIN f = 1..n,
           \A k \in 1..n : /\ f[k].severity \in Int /\ f[k].writer \in Nat /\ f[k].reader \in Nat
                           /\ Reporting!SizeOf(f[k]) \in Int
    PROVE  \E o \in [1..n -> 1..n] :
              /\ \A k \in 1..n : \E l \in 1..n : o[l] = k
              /\ \A k, l \in 1..n : o[k] = o[l] => k = l
              /\ Reporting!Ranked(f) = [k \in 1..n |-> f[o[k]]]
              /\ \A k, l \in 1..n : k < l => ~Reporting!RanksBefore(f[o[l]], f[o[k]])
  <1>. DEFINE Above(i, j) == Reporting!RanksBefore(f[i], f[j])
              before == [j \in 1..n |-> {i \in 1..n : Above(i, j) \/ (~Above(j, i) /\ i < j)}]
              o      == Sorted(before)
  <1>. DEFINE severity == [k \in 1..n |-> f[k].severity]
              size     == [k \in 1..n |-> Reporting!SizeOf(f[k])]
              writer   == [k \in 1..n |-> f[k].writer]
              reader   == [k \in 1..n |-> f[k].reader]
              Over(i, j) == Lexicographic(severity, size, writer, reader, i, j)
  <1>1. /\ \A i, j \in 1..n : Over(i, j) => ~Over(j, i)
        /\ \A i, j, k \in 1..n : Over(i, j) /\ Over(j, k) => Over(i, k)
        /\ \A i, j, k \in 1..n : ~Over(i, j) /\ ~Over(j, i) /\ Over(j, k) => Over(i, k)
        /\ \A i, j, k \in 1..n : Over(i, j) /\ ~Over(j, k) /\ ~Over(k, j) => Over(i, k)
        /\ \A i, j, k \in 1..n : ~Over(i, j) /\ ~Over(j, i) /\ ~Over(j, k) /\ ~Over(k, j)
                                  => ~Over(i, k) /\ ~Over(k, i)
    <2>1. /\ severity \in [1..n -> Int] /\ size \in [1..n -> Int]
          /\ writer \in [1..n -> Int] /\ reader \in [1..n -> Int]
      OBVIOUS
    <2>. HIDE DEF severity, size, writer, reader
    <2>. QED BY <2>1, LexicographicLemma, ZenonT(60)
  <1>2. \A i, j \in 1..n : Above(i, j) <=> Over(i, j)
    BY DEF Reporting!RanksBefore, Reporting!BiggestFirst, Lexicographic
  <1>. HIDE DEF Over
  <1>7. DOMAIN before = 1..n
    OBVIOUS
  <1>8. Reporting!Ranked(f) = [k \in 1..n |-> f[o[k]]]
    <2>1. Reporting!Sorted(before) = o
      BY SameSorted
    <2>2. [j \in DOMAIN f |-> {i \in DOMAIN f : Reporting!Precedes(f, i, j)}] = before
      BY DEF Reporting!Precedes
    <2>. HIDE DEF before, o
    <2>. QED BY <2>1, <2>2 DEF Reporting!Ranked
  <1>. HIDE DEF Above
  <1>9. Orders(before)
    <2>1. \A j \in 1..n : before[j] \subseteq 1..n /\ j \notin before[j]
      BY <1>1, <1>2
    <2>2. \A i, j \in 1..n : i # j => i \in before[j] \/ j \in before[i]
      BY <1>1, <1>2
    <2>3. \A i, j, k \in 1..n : i \in before[j] /\ j \in before[k] => i \in before[k]
      BY <1>1, <1>2
    <2>. QED BY <1>7, <2>1, <2>2, <2>3, IntervalLemma DEF Orders
  <1>10. Cardinality(1..n) = n
    BY IntervalLemma
  <1>11. /\ o \in [1..n -> 1..n]
         /\ \A k \in 1..n : \E l \in 1..n : o[l] = k
         /\ \A k, l \in 1..n : o[k] = o[l] => k = l
         /\ \A k, l \in 1..n : k < l => o[k] \in before[o[l]]
    <2>. HIDE DEF before
    <2>. QED BY <1>7, <1>9, <1>10, SortedLemma
  <1>12. \A k, l \in 1..n : k < l => ~Above(o[l], o[k])
    <2>. SUFFICES ASSUME NEW k \in 1..n, NEW l \in 1..n, k < l PROVE ~Above(o[l], o[k])
      OBVIOUS
    <2>1. o[k] \in 1..n /\ o[l] \in 1..n /\ o[k] \in before[o[l]]
      BY <1>11
    <2>. HIDE DEF o
    <2>2. Above(o[k], o[l]) \/ ~Above(o[l], o[k])
      BY <2>1
    <2>. QED BY <1>1, <1>2, <2>1, <2>2
  <1>. QED BY <1>8, <1>11, <1>12 DEF Above

-----------------------------------------------------------------------------
(* What the report holds: a finding for each overlapping pair of jobs.     *)

Overlapping == {p \in Jobs \X Jobs : p[1] # p[2] /\ Overlap(p[1], p[2]) # {}}

EdgeBetween(p) == [writer |-> methods[p[1]].name, reader |-> methods[p[2]].name,
                   slots  |-> Overlap(p[1], p[2])]
ImpactBetween(p) == ImpactOf(methods[p[1]].variants, methods[p[2]].variants, MaxRepeats)
FindingFor(p) == Reporting!FindingOf(EdgeBetween(p), ImpactBetween(p))

\* o lists the overlapping pairs, each once.
Lists(o, m) ==
    /\ m \in Nat /\ m = Cardinality(Overlapping) /\ o \in [1..m -> Overlapping]
    /\ \A p \in Overlapping : \E k \in 1..m : o[k] = p
    /\ \A k, l \in 1..m : o[k] = o[l] => k = l

LEMMA EdgesLemma ==
    ASSUME methods \in Contracts, NEW q, Traced1(q), edges = Build(fns)
    PROVE  \E m, e : Lists(e, m) /\ edges = [k \in 1..m |-> EdgeBetween(e[k])]
  <1>. DEFINE n     == Cardinality(Jobs)
              pairs == EdgePairs(fns)
              m     == Cardinality(pairs)
  <1>1. /\ n \in Nat /\ q \in [1..n -> Jobs] /\ DOMAIN fns = 1..n /\ Len(fns) = n
        /\ \A k \in 1..n : fns[k] = TracedMethod(q[k]) /\ fns[k].name \in Nat
        /\ \A k, l \in 1..n : k # l => q[k] # q[l]
        /\ \A i \in Jobs : \E k \in 1..n : q[k] = i
    BY FnsLemma
  <1>2. pairs = {p \in (1..n) \X (1..n) : p[1] # p[2] /\ Overlap(q[p[1]], q[p[2]]) # {}}
    BY <1>1, ZenonT(40) DEF EdgePairs, Shared, Overlap
  <1>3. \A p \in pairs : EdgeOf(fns, p) = EdgeBetween(<<q[p[1]], q[p[2]]>>)
    <2>1. \A k \in 1..n : fns[k].name = methods[q[k]].name
      BY <1>1 DEF TracedMethod
    <2>2. ASSUME NEW p \in pairs
          PROVE  EdgeOf(fns, p) = EdgeBetween(<<q[p[1]], q[p[2]]>>)
      <3>1. p[1] \in 1..n /\ p[2] \in 1..n
        BY <1>2
      <3>2. Shared(fns[p[1]], fns[p[2]]) = Overlap(q[p[1]], q[p[2]])
        BY <1>1, <3>1 DEF Shared, Overlap
      <3>. QED BY <2>1, <3>1, <3>2 DEF EdgeOf, EdgeBetween
    <2>. QED BY <2>2
  <1>. HIDE DEF n
  <1>4. /\ m \in Nat /\ IsFiniteSet(pairs)
        /\ \E o \in [1..m -> pairs] :
              /\ \A p \in pairs : \E k \in 1..m : o[k] = p
              /\ \A k, l \in 1..m : o[k] = o[l] => k = l
              /\ Build(fns) = [k \in 1..m |-> EdgeOf(fns, o[k])]
    BY <1>1, GraphLemma
  <1>. HIDE DEF pairs, m
  <1>5. PICK o \in [1..m -> pairs] :
           /\ \A p \in pairs : \E k \in 1..m : o[k] = p
           /\ \A k, l \in 1..m : o[k] = o[l] => k = l
           /\ edges = [k \in 1..m |-> EdgeOf(fns, o[k])]
    BY <1>4
  <1>. DEFINE e == [k \in 1..m |-> <<q[o[k][1]], q[o[k][2]]>>]
  <1>6. \A k \in 1..m : /\ o[k] \in pairs /\ o[k] = <<o[k][1], o[k][2]>>
                        /\ o[k][1] \in 1..n /\ o[k][2] \in 1..n /\ o[k][1] # o[k][2]
    BY <1>2, <1>5
  <1>7. e \in [1..m -> Overlapping]
    <2>1. ASSUME NEW k \in 1..m PROVE <<q[o[k][1]], q[o[k][2]]>> \in Overlapping
      <3>1. /\ q[o[k][1]] \in Jobs /\ q[o[k][2]] \in Jobs /\ q[o[k][1]] # q[o[k][2]]
            /\ Overlap(q[o[k][1]], q[o[k][2]]) # {}
        BY <1>1, <1>2, <1>6
      <3>. QED BY <3>1 DEF Overlapping
    <2>. QED BY <2>1
  <1>8. \A p \in Overlapping : \E k \in 1..m : e[k] = p
    <2>. SUFFICES ASSUME NEW p \in Overlapping PROVE \E k \in 1..m : e[k] = p
      OBVIOUS
    <2>1. p = <<p[1], p[2]>> /\ p[1] \in Jobs /\ p[2] \in Jobs /\ p[1] # p[2]
          /\ Overlap(p[1], p[2]) # {}
      BY DEF Overlapping
    <2>2. PICK a \in 1..n, b \in 1..n : q[a] = p[1] /\ q[b] = p[2]
      BY <1>1, <2>1
    <2>3. <<a, b>> \in pairs
      BY <1>2, <2>1, <2>2
    <2>4. PICK k \in 1..m : o[k] = <<a, b>>
      BY <1>5, <2>3
    <2>5. e[k] = p
      BY <2>1, <2>2, <2>4
    <2>. QED BY <2>5
  <1>9. \A k, l \in 1..m : e[k] = e[l] => k = l
    <2>. SUFFICES ASSUME NEW k \in 1..m, NEW l \in 1..m, e[k] = e[l] PROVE k = l
      OBVIOUS
    <2>1. q[o[k][1]] = q[o[l][1]] /\ q[o[k][2]] = q[o[l][2]]
      OBVIOUS
    <2>2. o[k][1] = o[l][1] /\ o[k][2] = o[l][2]
      BY <1>1, <1>6, <2>1
    <2>3. o[k] = o[l]
      BY <1>6, <2>2
    <2>. QED BY <1>5, <2>3
  <1>10. edges = [k \in 1..m |-> EdgeBetween(e[k])]
    BY <1>3, <1>5, <1>6
  <1>11. m = Cardinality(Overlapping)
    <2>1. e \in Injection(1..m, Overlapping) /\ e \in Surjection(1..m, Overlapping)
      BY <1>7, <1>8, <1>9 DEF Injection, IsInjective, Surjection
    <2>2. IsFiniteSet(1..m) /\ Cardinality(1..m) = m
      BY <1>4, IntervalLemma
    <2>. QED BY <2>1, <2>2, FS_Surjection
  <1>12. Lists(e, m)
    BY <1>4, <1>7, <1>8, <1>9, <1>11 DEF Lists
  <1>. HIDE DEF e
  <1>. QED BY <1>10, <1>12

\* Functions of one name have one list of calldata, so the name finds it.
LEMMA NamedLemma ==
    ASSUME methods \in Contracts, NEW i \in Jobs
    PROVE  VariantsNamed(methods[i].name) = methods[i].variants
  <1>. DEFINE m == CHOOSE m \in Jobs : methods[m].name = methods[i].name
  <1>1. m \in Jobs /\ methods[m].name = methods[i].name
    OBVIOUS
  <1>2. m \in DOMAIN methods /\ i \in DOMAIN methods
    BY <1>1 DEF Jobs
  <1>3. VariantsNamed(methods[i].name) = methods[m].variants
    BY DEF VariantsNamed
  <1>. HIDE DEF m
  <1>. QED BY <1>1, <1>2, <1>3, MethodsLemma

\* The impact found by the names of an edge is that of its own functions.
LEMMA ImpactsLemma ==
    ASSUME methods \in Contracts, NEW m, NEW e, Lists(e, m),
           edges = [k \in 1..m |-> EdgeBetween(e[k])],
           impacts = [k \in DOMAIN edges |-> EvaluatedEdge(edges[k])],
           NEW k \in 1..m
    PROVE  Reporting!ImpactAt(impacts, edges[k]) = ImpactBetween(e[k])
  <1>1. /\ m \in Nat /\ DOMAIN edges = 1..m /\ DOMAIN impacts = 1..m
        /\ \A l \in 1..m : edges[l] = EdgeBetween(e[l]) /\ impacts[l] = EvaluatedEdge(edges[l])
    BY DEF Lists
  <1>2. \A l \in 1..m : e[l][1] \in Jobs /\ e[l][2] \in Jobs
    BY DEF Lists, Overlapping
  <1>3. \A l \in 1..m : /\ edges[l].writer = methods[e[l][1]].name
                        /\ edges[l].reader = methods[e[l][2]].name
    BY <1>1 DEF EdgeBetween
  <1>4. \A l \in 1..m :
           /\ impacts[l].writer = edges[l].writer /\ impacts[l].reader = edges[l].reader
           /\ impacts[l].impact = ImpactOf(VariantsNamed(edges[l].writer),
                                           VariantsNamed(edges[l].reader), MaxRepeats)
    BY <1>1 DEF EvaluatedEdge
  <1>. DEFINE at == {l \in 1..m : /\ impacts[l].writer = edges[k].writer
                                 /\ impacts[l].reader = edges[k].reader}
              last == CHOOSE l \in at : \A h \in at : h <= l
  <1>5. k \in at /\ at \in SUBSET (1..m)
    BY <1>4
  <1>6. last \in at
    <2>. HIDE DEF at
    <2>1. \E l \in at : \A h \in at : h <= l
      BY <1>1, <1>5, GreatestLemma
    <2>. QED BY <2>1
  <1>7. Reporting!ImpactAt(impacts, edges[k]) = impacts[last].impact
    BY <1>1, <1>5 DEF Reporting!ImpactAt
  <1>. HIDE DEF last
  <1>8. impacts[last].impact = ImpactOf(VariantsNamed(edges[k].writer),
                                        VariantsNamed(edges[k].reader), MaxRepeats)
    BY <1>4, <1>6
  <1>9. /\ VariantsNamed(edges[k].writer) = methods[e[k][1]].variants
        /\ VariantsNamed(edges[k].reader) = methods[e[k][2]].variants
    BY <1>2, <1>3, NamedLemma
  <1>. QED BY <1>7, <1>8, <1>9 DEF ImpactBetween

\* What the ranking compares of a finding.
LEMMA FindingLemma ==
    ASSUME OutputsAreWords, methods \in Contracts, NEW p \in Overlapping
    PROVE  LET f == FindingFor(p)
           IN  /\ p[1] \in Jobs /\ p[2] \in Jobs /\ p[1] # p[2]
               /\ f.writer = methods[p[1]].name /\ f.reader = methods[p[2]].name
               /\ f.writer \in Nat /\ f.reader \in Nat
               /\ f.slots = Overlap(p[1], p[2]) /\ f.impact = ImpactBetween(p)
               /\ Telling(f.impact)
               /\ f.impact.confirmed <=>
                     ChangingPairs(methods[p[1]].variants, methods[p[2]].variants) # {}
               /\ f.severity = Reporting!Classify(f.impact) /\ f.severity \in {0, 1, 2}
               /\ f.effect = Reporting!EffectOf(f.impact)
               /\ Reporting!SizeOf(f) = IF f.impact.delta = <<>> THEN 0
                                        ELSE Magnitude(f.impact.delta[1])
               /\ Reporting!SizeOf(f) \in Nat
  <1>. DEFINE f == FindingFor(p)
  <1>1. p[1] \in Jobs /\ p[2] \in Jobs /\ p[1] # p[2]
    BY DEF Overlapping
  <1>2. p[1] \in DOMAIN methods /\ p[2] \in DOMAIN methods
    BY <1>1 DEF Jobs
  <1>3. /\ f.writer = methods[p[1]].name /\ f.reader = methods[p[2]].name
        /\ f.slots = Overlap(p[1], p[2]) /\ f.impact = ImpactBetween(p)
        /\ f.severity = Reporting!Classify(f.impact) /\ f.effect = Reporting!EffectOf(f.impact)
    BY DEF FindingFor, Reporting!FindingOf, EdgeBetween
  <1>4. /\ Telling(ImpactBetween(p))
        /\ ImpactBetween(p).confirmed <=>
              ChangingPairs(methods[p[1]].variants, methods[p[2]].variants) # {}
    <2>1. \A i \in DOMAIN methods : /\ DOMAIN methods[i].variants = 1..Len(methods[i].variants)
                                    /\ Len(methods[i].variants) \in Nat
      BY MethodsLemma
    <2>2. MaxRepeats \in Nat \ {0}
      BY AnalysisAssumption
    <2>. QED BY <1>2, <2>1, <2>2, ImpactOfLemma DEF ImpactBetween
  <1>. HIDE DEF f
  <1>5. Reporting!SizeOf(f) = IF f.impact.delta = <<>> THEN 0 ELSE Magnitude(f.impact.delta[1])
    BY DEF Reporting!SizeOf, Reporting!Size, Magnitude
  <1>6. Reporting!SizeOf(f) \in Nat
    BY <1>3, <1>4, <1>5 DEF Telling, Magnitude
  <1>7. f.severity \in {0, 1, 2}
    BY <1>3 DEF Reporting!Classify, Reporting!Low, Reporting!Medium, Reporting!High
  <1>8. f.writer \in Nat /\ f.reader \in Nat
    BY <1>2, <1>3, MethodsLemma
  <1>. QED BY <1>1, <1>3, <1>4, <1>5, <1>6, <1>7, <1>8 DEF f

-----------------------------------------------------------------------------
(* The finished report.                                                    *)

\* o lists the overlapping pairs in the order of their findings.
Finished(o, m) ==
    /\ Lists(o, m)
    /\ Findings = [k \in 1..m |-> FindingFor(o[k])]
    /\ Len(Findings) = m
    /\ \A k, l \in 1..m : k < l => ~Reporting!RanksBefore(Findings[l], Findings[k])

LEMMA DoneLemma ==
    ASSUME OutputsAreWords, History, stage = "done"
    PROVE  \E o, m : Finished(o, m)
  <1>1. /\ methods \in Contracts /\ edges = Build(fns)
        /\ impacts = [k \in DOMAIN edges |-> EvaluatedEdge(edges[k])]
        /\ report = Reporting!BuildReport(Len(fns), Skipped, edges, impacts)
    BY DEF History
  <1>2. PICK q : Traced1(q)
    BY DEF History
  <1>3. PICK m, e : Lists(e, m) /\ edges = [k \in 1..m |-> EdgeBetween(e[k])]
    BY <1>1, <1>2, EdgesLemma
  <1>4. m \in Nat /\ e \in [1..m -> Overlapping] /\ DOMAIN edges = 1..m
    BY <1>3 DEF Lists
  <1>. DEFINE f == [k \in 1..m |-> FindingFor(e[k])]
  <1>5. f = [k \in DOMAIN edges |->
                Reporting!FindingOf(edges[k], Reporting!ImpactAt(impacts, edges[k]))]
    <2>1. ASSUME NEW k \in 1..m
          PROVE  Reporting!FindingOf(edges[k], Reporting!ImpactAt(impacts, edges[k]))
                    = FindingFor(e[k])
      <3>1. Reporting!ImpactAt(impacts, edges[k]) = ImpactBetween(e[k])
        BY <1>1, <1>3, ImpactsLemma
      <3>2. edges[k] = EdgeBetween(e[k])
        BY <1>3
      <3>. QED BY <3>1, <3>2 DEF FindingFor
    <2>. QED BY <1>4, <2>1
  <1>6. Findings = Reporting!Ranked(f)
    BY <1>1, <1>5 DEF Findings, Reporting!BuildReport
  <1>7. \A k \in 1..m : /\ f[k] = FindingFor(e[k])
                        /\ f[k].severity \in Int /\ f[k].writer \in Nat /\ f[k].reader \in Nat
                        /\ Reporting!SizeOf(f[k]) \in Int
    <2>1. ASSUME NEW k \in 1..m
          PROVE  LET g == FindingFor(e[k])
                 IN  /\ g.severity \in Int /\ g.writer \in Nat /\ g.reader \in Nat
                     /\ Reporting!SizeOf(g) \in Int
      BY <1>1, <1>4, FindingLemma
    <2>. QED BY <2>1
  <1>8. DOMAIN f = 1..m
    OBVIOUS
  <1>. HIDE DEF f
  <1>9. PICK p \in [1..m -> 1..m] :
           /\ \A k \in 1..m : \E l \in 1..m : p[l] = k
           /\ \A k, l \in 1..m : p[k] = p[l] => k = l
           /\ Reporting!Ranked(f) = [k \in 1..m |-> f[p[k]]]
           /\ \A k, l \in 1..m : k < l => ~Reporting!RanksBefore(f[p[l]], f[p[k]])
    BY <1>4, <1>7, <1>8, RankedLemma
  <1>. DEFINE o == [k \in 1..m |-> e[p[k]]]
  <1>10. Lists(o, m)
    <2>1. o \in [1..m -> Overlapping]
      BY <1>4, <1>9
    <2>2. \A x \in Overlapping : \E k \in 1..m : o[k] = x
      <3>. SUFFICES ASSUME NEW x \in Overlapping PROVE \E k \in 1..m : o[k] = x
        OBVIOUS
      <3>1. PICK l \in 1..m : e[l] = x
        BY <1>3 DEF Lists
      <3>2. PICK k \in 1..m : p[k] = l
        BY <1>9
      <3>. QED BY <3>1, <3>2
    <2>3. \A k, l \in 1..m : o[k] = o[l] => k = l
      <3>. SUFFICES ASSUME NEW k \in 1..m, NEW l \in 1..m, o[k] = o[l] PROVE k = l
        OBVIOUS
      <3>1. e[p[k]] = e[p[l]] /\ p[k] \in 1..m /\ p[l] \in 1..m
        BY <1>9
      <3>2. p[k] = p[l]
        BY <1>3, <3>1 DEF Lists
      <3>. QED BY <1>9, <3>2
    <2>. HIDE DEF o
    <2>. QED BY <1>3, <2>1, <2>2, <2>3 DEF Lists
  <1>11. Findings = [k \in 1..m |-> FindingFor(o[k])]
    <2>1. \A k \in 1..m : f[p[k]] = FindingFor(o[k])
      BY <1>7, <1>9
    <2>. HIDE DEF o
    <2>. QED BY <1>6, <1>9, <2>1
  <1>12. \A k \in 1..m : Findings[k] = f[p[k]]
    BY <1>6, <1>9
  <1>13. \A k, l \in 1..m : k < l => ~Reporting!RanksBefore(Findings[l], Findings[k])
    BY <1>9, <1>12
  <1>14. Len(Findings) = m
    <2>. HIDE DEF o
    <2>. QED BY <1>4, <1>11
  <1>15. Finished(o, m)
    <2>. HIDE DEF o
    <2>. QED BY <1>10, <1>11, <1>13, <1>14 DEF Finished
  <1>. HIDE DEF o
  <1>. QED BY <1>15

LEMMA FinishedLemma ==
    ASSUME OutputsAreWords, methods \in Contracts, NEW o, NEW m, Finished(o, m), NEW k \in 1..m
    PROVE  /\ m \in Nat /\ DOMAIN Findings = 1..m /\ o[k] \in Overlapping
           /\ Findings[k] = FindingFor(o[k])
  BY DEF Finished, Lists

-----------------------------------------------------------------------------
\* Each stage's result is there exactly once its stage is over, and every method
\* is either analyzed or skipped (main.go, analyzeContract).
THEOREM AnalysisTypeCorrect == Spec => []TypeOK
  <1>1. ASSUME History PROVE TypeOK
    <2>0. methods \in Contracts
      BY <1>1 DEF History
    <2>1. ASSUME stage \in {"graph", "evaluate", "report", "done"}
          PROVE  Len(fns) = Cardinality(Jobs)
      <3>1. PICK q : Traced1(q)
        BY <1>1, <2>1 DEF History
      <3>. QED BY <2>0, <3>1, FnsLemma
    <2>2. ASSUME stage \in {"report", "done"} PROVE Len(impacts) = Len(edges)
      <3>1. PICK q : Traced1(q)
        BY <1>1, <2>2 DEF History
      <3>2. edges = Build(fns) /\ impacts = [k \in DOMAIN edges |-> EvaluatedEdge(edges[k])]
        BY <1>1, <2>2 DEF History
      <3>3. PICK m, e : Lists(e, m) /\ edges = [k \in 1..m |-> EdgeBetween(e[k])]
        BY <2>0, <3>1, <3>2, EdgesLemma
      <3>4. m \in Nat /\ DOMAIN edges = 1..m /\ DOMAIN impacts = 1..m
        BY <3>2, <3>3 DEF Lists
      <3>5. Len(edges) = m
        BY <3>3, <3>4
      <3>6. Len(impacts) = m
        BY <3>2, <3>4
      <3>. QED BY <3>5, <3>6
    <2>3. ASSUME stage = "done"
          PROVE  /\ report # <<>>
                 /\ report.analyzed = Len(fns) /\ report.skipped = Skipped
      <3>1. report = Reporting!BuildReport(Len(fns), Skipped, edges, impacts)
        BY <1>1, <2>3 DEF History
      <3>2. report.analyzed = Len(fns) /\ report.skipped = Skipped
            /\ DOMAIN report = {"analyzed", "skipped", "findings", "high", "medium", "low"}
        BY <3>1 DEF Reporting!BuildReport
      <3>3. DOMAIN <<>> = {}
        OBVIOUS
      <3>. QED BY <3>2, <3>3
    <2>4. stage # "done" => report = <<>>
      BY <1>1 DEF History
    <2>5. Cardinality(Jobs) + Cardinality(Skipped) = Len(methods)
      <3>1. /\ IsFiniteSet(DOMAIN methods) /\ Cardinality(DOMAIN methods) = Len(methods)
            /\ Jobs \in SUBSET DOMAIN methods /\ Cardinality(Jobs) \in Nat
            /\ Skipped = DOMAIN methods \ Jobs
        BY <2>0, JobsFinite
      <3>2. DOMAIN methods \cap Jobs = Jobs
        BY <3>1
      <3>3. Cardinality(Skipped) = Cardinality(DOMAIN methods) - Cardinality(Jobs)
        <4>1. Cardinality((DOMAIN methods) \ Jobs)
                 = Cardinality(DOMAIN methods) - Cardinality((DOMAIN methods) \cap Jobs)
          BY <3>1, FS_Difference
        <4>. QED BY <3>1, <3>2, <4>1
      <3>4. Len(methods) \in Nat
        BY <2>0, MethodsLemma
      <3>. QED BY <3>1, <3>3, <3>4
    <2>6. stage \in {"fuzz", "graph", "evaluate", "report", "done", "failed"}
      BY <1>1 DEF History
    <2>. QED BY <2>0, <2>1, <2>2, <2>3, <2>4, <2>5, <2>6 DEF TypeOK
  <1>. QED BY <1>1, HistoryKept, PTL

\* Of a contract that returns words, each finding of the report carries the slots
\* and the impact of its own writer and reader, and there are as many as
\* overlapping pairs of jobs.
THEOREM EvidenceIsOwn ==
    ASSUME OutputsAreWords
    PROVE  Spec => []OwnEvidence
  <1>1. ASSUME History PROVE OwnEvidence
    <2>. SUFFICES ASSUME stage = "done"
                  PROVE  /\ Len(Findings) = Cardinality(Overlapping)
                         /\ \A k \in DOMAIN Findings :
                               \E i, j \in Jobs :
                                  /\ i # j
                                  /\ methods[i].name = Findings[k].writer
                                  /\ methods[j].name = Findings[k].reader
                                  /\ Findings[k].slots = Overlap(i, j)
                                  /\ Findings[k].impact =
                                        ImpactOf(methods[i].variants, methods[j].variants, MaxRepeats)
      BY DEF OwnEvidence, Overlapping
    <2>1. PICK o, m : Finished(o, m)
      BY <1>1, DoneLemma
    <2>2. methods \in Contracts
      BY <1>1 DEF History
    <2>3. Len(Findings) = Cardinality(Overlapping)
      BY <2>1 DEF Finished, Lists
    <2>4. ASSUME NEW k \in DOMAIN Findings
          PROVE  \E i, j \in Jobs :
                    /\ i # j
                    /\ methods[i].name = Findings[k].writer
                    /\ methods[j].name = Findings[k].reader
                    /\ Findings[k].slots = Overlap(i, j)
                    /\ Findings[k].impact =
                          ImpactOf(methods[i].variants, methods[j].variants, MaxRepeats)
      <3>1. DOMAIN Findings = 1..m
        BY <2>1 DEF Finished
      <3>2. o[k] \in Overlapping /\ Findings[k] = FindingFor(o[k])
        BY <2>1, <2>2, <3>1, FinishedLemma
      <3>3. /\ o[k][1] \in Jobs /\ o[k][2] \in Jobs /\ o[k][1] # o[k][2]
            /\ Findings[k].writer = methods[o[k][1]].name
            /\ Findings[k].reader = methods[o[k][2]].name
            /\ Findings[k].slots = Overlap(o[k][1], o[k][2])
            /\ Findings[k].impact = ImpactBetween(o[k])
        BY <2>2, <3>2, FindingLemma
      <3>. QED BY <3>3 DEF ImpactBetween
    <2>. QED BY <2>3, <2>4
  <1>. QED BY <1>1, HistoryKept, PTL

\* What gentest relies on: the calls of a confirmed finding are there, they are
\* calls of the two methods that it names, and they make the change they are
\* reported for; and every finding has a pair of methods of its own.
CarriesOwn(f) ==
    \E i, j \in DOMAIN methods :
        /\ i # j /\ f.writer = methods[i].name /\ f.reader = methods[j].name
        /\ Carries(f.impact, methods[i].variants, methods[j].variants)

OwnPairs(o) ==
    /\ \A k \in DOMAIN Findings :
          /\ o[k] \in (DOMAIN methods) \X (DOMAIN methods)
          /\ Findings[k].writer = methods[o[k][1]].name
          /\ Findings[k].reader = methods[o[k][2]].name
    /\ \A k, l \in DOMAIN Findings : o[k] = o[l] => k = l

CallsShow ==
    stage = "done" =>
        /\ Len(Findings) \in Nat /\ DOMAIN Findings = 1..Len(Findings)
        /\ Len(Findings) <= Len(methods) * Len(methods)
        /\ \E o : OwnPairs(o)
        /\ \A k \in DOMAIN Findings : Findings[k].impact.confirmed =>
              Showing(Findings[k].impact) /\ CarriesOwn(Findings[k])

LEMMA FindingsShow ==
    ASSUME OutputsAreWords
    PROVE  Spec => []CallsShow
  <1>1. ASSUME History, stage = "done"
        PROVE  /\ Len(Findings) \in Nat /\ DOMAIN Findings = 1..Len(Findings)
               /\ Len(Findings) <= Len(methods) * Len(methods)
               /\ \E o : OwnPairs(o)
               /\ \A k \in DOMAIN Findings : Findings[k].impact.confirmed =>
                     Showing(Findings[k].impact) /\ CarriesOwn(Findings[k])
    <2>1. PICK o, m : Finished(o, m)
      BY <1>1, DoneLemma
    <2>2. methods \in Contracts
      BY <1>1 DEF History
    <2>3. m \in Nat /\ DOMAIN Findings = 1..m /\ Len(Findings) = m
      BY <2>1 DEF Finished, Lists
    <2>4. ASSUME NEW k \in 1..m, Findings[k].impact.confirmed
          PROVE  Showing(Findings[k].impact) /\ CarriesOwn(Findings[k])
      <3>1. o[k] \in Overlapping /\ Findings[k] = FindingFor(o[k])
        BY <2>1, <2>2, FinishedLemma
      <3>2. /\ o[k][1] \in Jobs /\ o[k][2] \in Jobs /\ o[k][1] # o[k][2]
            /\ Findings[k].writer = methods[o[k][1]].name
            /\ Findings[k].reader = methods[o[k][2]].name
            /\ Findings[k].impact = ImpactBetween(o[k])
        BY <2>2, <3>1, FindingLemma
      <3>. DEFINE ws == methods[o[k][1]].variants
                  rs == methods[o[k][2]].variants
      <3>3. Findings[k].impact = ImpactOf(ws, rs, MaxRepeats)
        BY <3>2 DEF ImpactBetween
      <3>4. /\ DOMAIN ws = 1..Len(ws) /\ DOMAIN rs = 1..Len(rs)
            /\ Len(ws) \in Nat /\ Len(rs) \in Nat
        BY <2>2, <3>2, MethodsLemma DEF Jobs
      <3>5. Showing(Findings[k].impact) /\ Carries(Findings[k].impact, ws, rs)
        <4>. HIDE DEF ws, rs
        <4>. QED BY <2>4, <3>3, <3>4, ShowingLemma
      <3>. QED BY <3>2, <3>5 DEF CarriesOwn, Jobs
    <2>5. Len(Findings) <= Len(methods) * Len(methods)
      <3>. DEFINE D == DOMAIN methods
      <3>1. IsFiniteSet(D) /\ Cardinality(D) = Len(methods) /\ Jobs \in SUBSET D
        BY <2>2, JobsFinite
      <3>2. Overlapping \in SUBSET (D \X D)
        BY <3>1 DEF Overlapping
      <3>. HIDE DEF D
      <3>3. IsFiniteSet(D \X D) /\ Cardinality(D \X D) = Len(methods) * Len(methods)
        <4>1. IsFiniteSet(D \X D) /\ Cardinality(D \X D) = Cardinality(D) * Cardinality(D)
          BY <3>1, FS_Product, Zenon
        <4>. QED BY <3>1, <4>1, Zenon
      <3>4. Cardinality(Overlapping) <= Cardinality(D \X D)
        BY <3>2, <3>3, FS_Subset
      <3>. QED BY <2>1, <2>3, <3>3, <3>4 DEF Finished, Lists
    <2>6. OwnPairs(o)
      <3>1. ASSUME NEW k \in 1..m
            PROVE  /\ o[k] \in (DOMAIN methods) \X (DOMAIN methods)
                   /\ Findings[k].writer = methods[o[k][1]].name
                   /\ Findings[k].reader = methods[o[k][2]].name
        <4>1. o[k] \in Overlapping /\ Findings[k] = FindingFor(o[k])
          BY <2>1, <2>2, <3>1, FinishedLemma
        <4>2. /\ Findings[k].writer = methods[o[k][1]].name
              /\ Findings[k].reader = methods[o[k][2]].name
          BY <2>2, <4>1, FindingLemma
        <4>. QED BY <4>1, <4>2 DEF Overlapping, Jobs
      <3>2. \A k, l \in 1..m : o[k] = o[l] => k = l
        BY <2>1 DEF Finished, Lists
      <3>. QED BY <2>3, <3>1, <3>2 DEF OwnPairs
    <2>. QED BY <2>3, <2>4, <2>5, <2>6
  <1>2. History => CallsShow
    BY <1>1 DEF CallsShow
  <1>. QED BY <1>2, HistoryKept, PTL

\* What the report says of a finding, by the kind of its effect.
LEMMA EffectLemma ==
    ASSUME OutputsAreWords, methods \in Contracts, NEW p \in Overlapping
    PROVE  LET f == FindingFor(p)
               imp == f.impact
           IN  \/ /\ ~imp.confirmed /\ f.effect = "shared" /\ f.severity = 0
                  /\ imp.delta = <<>> /\ imp.maxDelta = <<>>
               \/ /\ imp.confirmed /\ Reporting!Flips(imp)
                  /\ f.effect = "revert-flip" /\ f.severity = 2
                  /\ imp.delta = <<>> /\ imp.maxDelta = <<>>
               \/ /\ imp.confirmed /\ ~Reporting!Flips(imp)
                  /\ f.effect = "value-change" /\ f.severity = 2
                  /\ imp.delta # <<>> /\ Reporting!SizeOf(f) = Magnitude(imp.delta[1])
               \/ /\ imp.confirmed /\ ~Reporting!Flips(imp)
                  /\ f.effect = "output-change" /\ f.severity = 1
                  /\ imp.delta = <<>> /\ imp.maxDelta = <<>>
  <1>. DEFINE f == FindingFor(p)
              imp == f.impact
  <1>1. /\ Telling(imp) /\ f.severity = Reporting!Classify(imp)
        /\ f.effect = Reporting!EffectOf(imp)
        /\ Reporting!SizeOf(f) = IF imp.delta = <<>> THEN 0 ELSE Magnitude(imp.delta[1])
    BY FindingLemma
  <1>. HIDE DEF f
  <1>2. /\ imp.confirmed \in BOOLEAN
        /\ ~imp.confirmed => imp.delta = <<>>
        /\ imp.delta = <<>> => imp.maxDelta = <<>>
        /\ imp.delta # <<>> => imp.confirmed /\ ~Reporting!Flips(imp) /\ imp.delta[1] # 0
    BY <1>1 DEF Telling, NoImpact, NoDelta, Reporting!Flips
  <1>3. CASE ~imp.confirmed
    BY <1>1, <1>2, <1>3 DEF f, Reporting!Classify, Reporting!EffectOf, Reporting!Low
  <1>4. CASE imp.confirmed /\ Reporting!Flips(imp)
    BY <1>1, <1>2, <1>4 DEF f, Reporting!Classify, Reporting!EffectOf, Reporting!High
  <1>5. CASE imp.confirmed /\ ~Reporting!Flips(imp) /\ imp.delta # <<>>
    BY <1>1, <1>2, <1>5 DEF f, Reporting!Classify, Reporting!EffectOf, Reporting!High, Reporting!Moves
  <1>6. CASE imp.confirmed /\ ~Reporting!Flips(imp) /\ imp.delta = <<>>
    BY <1>1, <1>2, <1>6 DEF f, Reporting!Classify, Reporting!EffectOf, Reporting!Medium, Reporting!Moves
  <1>. QED BY <1>2, <1>3, <1>4, <1>5, <1>6

\* The findings of each severity are all the findings.
LEMMA ScoredLemma ==
    ASSUME NEW f, NEW n \in Nat, DOMAIN f = 1..n, \A k \in 1..n : f[k].severity \in {0, 1, 2}
    PROVE  Reporting!Scored(f, 2) + Reporting!Scored(f, 1) + Reporting!Scored(f, 0) = n
  <1>. DEFINE At(s) == {k \in 1..n : f[k].severity = s}
  <1>1. \A S : Reporting!Cardinality(S) = Cardinality(S)
    BY DEF Reporting!Cardinality, Cardinality
  <1>2. \A s : Reporting!Scored(f, s) = Cardinality(At(s))
    BY <1>1 DEF Reporting!Scored
  <1>3. IsFiniteSet(1..n) /\ Cardinality(1..n) = n
    BY IntervalLemma
  <1>4. /\ At(2) \cup At(1) \cup At(0) = 1..n
        /\ At(2) \cap At(1) = {} /\ (At(2) \cup At(1)) \cap At(0) = {}
    OBVIOUS
  <1>5. /\ IsFiniteSet(At(0)) /\ IsFiniteSet(At(1)) /\ IsFiniteSet(At(2))
        /\ IsFiniteSet(At(2) \cup At(1))
    BY <1>3, FS_Subset, FS_Union
  <1>. HIDE DEF At
  <1>6. Cardinality(At(2) \cup At(1)) = Cardinality(At(2)) + Cardinality(At(1)) - 0
    <2>1. Cardinality(At(2) \cup At(1))
             = Cardinality(At(2)) + Cardinality(At(1)) - Cardinality(At(2) \cap At(1))
      BY <1>5, FS_Union
    <2>. QED BY <1>4, <2>1, FS_EmptySet
  <1>. DEFINE Above == At(2) \cup At(1)
  <1>7. Cardinality(Above \cup At(0)) = Cardinality(Above) + Cardinality(At(0)) - 0
    <2>1. IsFiniteSet(Above) /\ IsFiniteSet(At(0)) /\ Above \cap At(0) = {}
      BY <1>4, <1>5
    <2>. HIDE DEF Above
    <2>2. Cardinality(Above \cup At(0))
             = Cardinality(Above) + Cardinality(At(0)) - Cardinality(Above \cap At(0))
      BY <2>1, FS_Union
    <2>. QED BY <2>1, <2>2, FS_EmptySet
  <1>8. /\ Cardinality(At(0)) \in Nat /\ Cardinality(At(1)) \in Nat /\ Cardinality(At(2)) \in Nat
    BY <1>5, FS_CardinalityType
  <1>9. Cardinality(At(2)) + Cardinality(At(1)) + Cardinality(At(0)) = n
    <2>1. Above \cup At(0) = 1..n
      BY <1>4
    <2>2. Cardinality(Above) = Cardinality(At(2)) + Cardinality(At(1)) - 0
      BY <1>6
    <2>. HIDE DEF Above
    <2>3. Cardinality(Above \cup At(0)) = n
      BY <1>3, <2>1, Zenon
    <2>. QED BY <1>7, <1>8, <2>2, <2>3
  <1>. QED BY <1>2, <1>9

\* Of a contract that returns words, the report has the worst findings first and
\* counts them all (report.go, classify and rank).
THEOREM WorstComesFirst ==
    ASSUME OutputsAreWords
    PROVE  Spec => []WorstFirst
  <1>1. ASSUME History PROVE WorstFirst
    <2>. SUFFICES ASSUME stage = "done" PROVE WorstFirst
      BY DEF WorstFirst
    <2>0. methods \in Contracts /\ report = Reporting!BuildReport(Len(fns), Skipped, edges, impacts)
      BY <1>1 DEF History
    <2>1. PICK o, m : Finished(o, m)
      BY <1>1, DoneLemma
    <2>2. /\ m \in Nat /\ DOMAIN Findings = 1..m /\ Len(Findings) = m
          /\ \A k \in 1..m : o[k] \in Overlapping /\ Findings[k] = FindingFor(o[k])
      BY <2>1 DEF Finished, Lists
    <2>3. \A k \in 1..m :
             LET f   == Findings[k]
                 imp == f.impact
             IN  /\ f.severity \in {0, 1, 2} /\ Reporting!SizeOf(f) \in Nat
                 /\ f.severity = 0 <=> ~imp.confirmed
                 /\ f.severity = 0 => f.effect = "shared"
                 /\ f.severity = 1 => f.effect = "output-change"
                 /\ f.severity = 2 <=> f.effect \in {"revert-flip", "value-change"}
                 /\ f.effect = "output-change" => f.severity = 1
                 /\ f.effect = "value-change" => Reporting!SizeOf(f) = Magnitude(imp.delta[1])
      <3>1. ASSUME NEW k \in 1..m
            PROVE  LET f   == FindingFor(o[k])
                       imp == f.impact
                   IN  /\ f.severity \in {0, 1, 2} /\ Reporting!SizeOf(f) \in Nat
                       /\ f.severity = 0 <=> ~imp.confirmed
                       /\ f.severity = 0 => f.effect = "shared"
                       /\ f.severity = 1 => f.effect = "output-change"
                       /\ f.severity = 2 <=> f.effect \in {"revert-flip", "value-change"}
                       /\ f.effect = "output-change" => f.severity = 1
                       /\ f.effect = "value-change"
                             => Reporting!SizeOf(f) = Magnitude(imp.delta[1])
        <4>. DEFINE f == FindingFor(o[k])
        <4>1. \/ ~f.impact.confirmed /\ f.effect = "shared" /\ f.severity = 0
              \/ f.impact.confirmed /\ f.effect = "revert-flip" /\ f.severity = 2
              \/ /\ f.impact.confirmed /\ f.effect = "value-change" /\ f.severity = 2
                 /\ Reporting!SizeOf(f) = Magnitude(f.impact.delta[1])
              \/ f.impact.confirmed /\ f.effect = "output-change" /\ f.severity = 1
          BY <2>0, <2>2, EffectLemma
        <4>2. Reporting!SizeOf(f) \in Nat
          BY <2>0, <2>2, FindingLemma
        <4>. HIDE DEF f
        <4>3. /\ f.severity \in {0, 1, 2} /\ Reporting!SizeOf(f) \in Nat
              /\ f.severity = 0 <=> ~f.impact.confirmed
              /\ f.severity = 0 => f.effect = "shared"
              /\ f.severity = 1 => f.effect = "output-change"
              /\ f.severity = 2 <=> f.effect \in {"revert-flip", "value-change"}
              /\ f.effect = "output-change" => f.severity = 1
              /\ f.effect = "value-change"
                    => Reporting!SizeOf(f) = Magnitude(f.impact.delta[1])
          BY <4>1, <4>2
        <4>. QED BY <4>3 DEF f
      <3>. QED BY <2>2, <3>1
    <2>4. ASSUME NEW k \in 1..m, NEW l \in 1..m, k < l
          PROVE  /\ Findings[l].impact.confirmed => Findings[k].impact.confirmed
                 /\ Findings[k].effect = "value-change" /\ Findings[l].effect = "value-change"
                       => Magnitude(Findings[k].impact.delta[1]) >= Magnitude(Findings[l].impact.delta[1])
                 /\ Findings[k].effect = "output-change"
                       => Findings[l].effect \in {"output-change", "shared"}
      <3>. DEFINE f == Findings[k]
                  g == Findings[l]
      <3>1. ~Reporting!RanksBefore(g, f)
        BY <2>1, <2>4 DEF Finished
      <3>2. /\ f.severity \in {0, 1, 2} /\ Reporting!SizeOf(f) \in Nat
            /\ g.severity \in {0, 1, 2} /\ Reporting!SizeOf(g) \in Nat
        BY <2>3
      <3>3. /\ ~(g.severity > f.severity)
            /\ g.severity = f.severity => ~(Reporting!SizeOf(g) > Reporting!SizeOf(f))
        BY <3>1 DEF Reporting!RanksBefore, Reporting!BiggestFirst
      <3>4. ASSUME g.impact.confirmed PROVE f.impact.confirmed
        <4>1. g.severity # 0
          BY <2>3, <3>4
        <4>2. f.severity # 0
          BY <3>2, <3>3, <4>1
        <4>. QED BY <2>3, <4>2
      <3>5. ASSUME f.effect = "value-change", g.effect = "value-change"
            PROVE  Magnitude(f.impact.delta[1]) >= Magnitude(g.impact.delta[1])
        <4>1. /\ f.severity = 2 /\ g.severity = 2
              /\ Reporting!SizeOf(f) = Magnitude(f.impact.delta[1])
              /\ Reporting!SizeOf(g) = Magnitude(g.impact.delta[1])
          BY <2>3, <3>5
        <4>. QED BY <3>2, <3>3, <4>1
      <3>6. ASSUME f.effect = "output-change" PROVE g.effect \in {"output-change", "shared"}
        <4>1. f.severity = 1
          BY <2>3, <3>6
        <4>2. g.severity = 0 \/ g.severity = 1
          BY <3>2, <3>3, <4>1
        <4>. QED BY <2>3, <4>2
      <3>. QED BY <3>4, <3>5, <3>6
    <2>5. /\ report.high = Reporting!Scored(Findings, 2) /\ report.medium = Reporting!Scored(Findings, 1)
          /\ report.low = Reporting!Scored(Findings, 0)
      BY <2>0 DEF Findings, Reporting!BuildReport, Reporting!High, Reporting!Medium, Reporting!Low
    <2>6. report.high = Cardinality({k \in DOMAIN Findings :
                            Findings[k].effect \in {"revert-flip", "value-change"}})
      <3>1. \A S : Reporting!Cardinality(S) = Cardinality(S)
        BY DEF Reporting!Cardinality, Cardinality
      <3>2. {k \in DOMAIN Findings : Findings[k].severity = 2}
               = {k \in DOMAIN Findings : Findings[k].effect \in {"revert-flip", "value-change"}}
        BY <2>2, <2>3
      <3>. QED BY <2>5, <3>1, <3>2 DEF Reporting!Scored
    <2>7. report.high + report.medium + report.low = Len(Findings)
      <3>1. \A k \in 1..m : Findings[k].severity \in {0, 1, 2}
        BY <2>3
      <3>2. Reporting!Scored(Findings, 2) + Reporting!Scored(Findings, 1)
               + Reporting!Scored(Findings, 0) = m
        BY <2>2, <3>1, ScoredLemma
      <3>. QED BY <2>2, <2>5, <3>2
    <2>. QED BY <2>2, <2>4, <2>6, <2>7 DEF WorstFirst
  <1>. QED BY <1>1, HistoryKept, PTL

\* Only a change of value that grew with the repeats is said to compound
\* (measureAmplification, scenario.go, and describe, report.go).
THEOREM CompoundingGrows ==
    ASSUME OutputsAreWords
    PROVE  Spec => []OnlyGrowthCompounds
  <1>1. ASSUME History PROVE OnlyGrowthCompounds
    <2>. SUFFICES ASSUME stage = "done", NEW k \in DOMAIN Findings,
                         Reporting!SaysCompounds(Findings[k])
                  PROVE  /\ Findings[k].effect = "value-change"
                         /\ Magnitude(Findings[k].impact.maxDelta[1])
                               > Magnitude(Findings[k].impact.delta[1])
      BY DEF OnlyGrowthCompounds
    <2>0. methods \in Contracts
      BY <1>1 DEF History
    <2>1. PICK o, m : Finished(o, m)
      BY <1>1, DoneLemma
    <2>2. o[k] \in Overlapping /\ Findings[k] = FindingFor(o[k])
      BY <2>1 DEF Finished, Lists
    <2>3. /\ Findings[k].impact.maxDelta = <<>> \/ Findings[k].effect = "value-change"
          /\ Findings[k].effect = "value-change" => Findings[k].impact.delta # <<>>
      BY <2>0, <2>2, EffectLemma
    <2>4. Findings[k].impact.maxRepeats > 1 /\ Findings[k].impact.maxDelta # <<>>
      BY DEF Reporting!SaysCompounds
    <2>5. Telling(Findings[k].impact)
      BY <2>0, <2>2, FindingLemma
    <2>. QED BY <2>3, <2>4, <2>5 DEF Telling
  <1>. QED BY <1>1, HistoryKept, PTL

\* effectOf, describe and WriteJSON tell the same of every finding.
THEOREM OutputsTellTheSame ==
    ASSUME OutputsAreWords
    PROVE  Spec => []OutputsAgree
  <1>1. ASSUME History PROVE OutputsAgree
    <2>. SUFFICES ASSUME stage = "done", NEW k \in DOMAIN Findings
                  PROVE  LET text   == Reporting!Describe(Findings[k])
                             fields == Reporting!JsonFields(Findings[k])
                         IN  /\ text \in ToldOf(Findings[k].effect)
                             /\ fields = {} <=> text = "no effect observed"
                             /\ "delta" \in fields <=> text \in {"value", "value, compounding"}
                             /\ "maxDelta" \in fields <=> text = "value, compounding"
      BY DEF OutputsAgree
    <2>0. methods \in Contracts
      BY <1>1 DEF History
    <2>1. PICK o, m : Finished(o, m)
      BY <1>1, DoneLemma
    <2>2. o[k] \in Overlapping /\ Findings[k] = FindingFor(o[k])
      BY <2>1 DEF Finished, Lists
    <2>. DEFINE f == Findings[k]
                imp == f.impact
    <2>3. \/ /\ ~imp.confirmed /\ f.effect = "shared"
             /\ imp.delta = <<>> /\ imp.maxDelta = <<>>
          \/ /\ imp.confirmed /\ Reporting!Flips(imp) /\ f.effect = "revert-flip"
             /\ imp.delta = <<>> /\ imp.maxDelta = <<>>
          \/ /\ imp.confirmed /\ ~Reporting!Flips(imp) /\ f.effect = "value-change"
             /\ imp.delta # <<>>
          \/ /\ imp.confirmed /\ ~Reporting!Flips(imp) /\ f.effect = "output-change"
             /\ imp.delta = <<>> /\ imp.maxDelta = <<>>
      BY <2>0, <2>2, EffectLemma
    <2>. HIDE DEF f
    <2>4. CASE ~imp.confirmed
      BY <2>3, <2>4 DEF f, Reporting!Describe, Reporting!JsonFields, Reporting!SaysCompounds, ToldOf
    <2>5. CASE imp.confirmed /\ Reporting!Flips(imp)
      BY <2>3, <2>5 DEF f, Reporting!Describe, Reporting!JsonFields, Reporting!SaysCompounds, ToldOf
    <2>6. CASE imp.confirmed /\ ~Reporting!Flips(imp) /\ imp.delta # <<>>
      BY <2>3, <2>6 DEF f, Reporting!Describe, Reporting!JsonFields, ToldOf
    <2>7. CASE imp.confirmed /\ ~Reporting!Flips(imp) /\ imp.delta = <<>>
      BY <2>3, <2>7 DEF f, Reporting!Describe, Reporting!JsonFields, Reporting!SaysCompounds, ToldOf
    <2>. QED BY <2>4, <2>5, <2>6, <2>7
  <1>. QED BY <1>1, HistoryKept, PTL

-----------------------------------------------------------------------------
(* Pruning.                                                                *)

\* A call hands over all that it runs, whether or not it reverts.
LEMMA TouchedLemma ==
    ASSUME NEW input
    PROVE  LET res == Call(Baseline, Caller, Contract, input)
           IN  Writes(Touched(input)) = Writes(res) /\ Reads(Touched(input)) = Reads(res)
  <1>. DEFINE res == Call(Baseline, Caller, Contract, input)
  <1>1. Touched(input).accesses = res.accesses
    BY DEF Touched, Call, Returned, Accesses
  <1>. HIDE DEF res
  <1>. QED BY <1>1 DEF Writes, Reads, SlotsOf, res

\* A footprint has what each of its calls was seen to touch.
LEMMA FootprintLemma ==
    ASSUME NEW m, NEW k \in DOMAIN methods[m].variants
    PROVE  LET res == Call(Baseline, Caller, Contract, methods[m].variants[k])
           IN  Writes(res) \subseteq Writes(TracedMethod(m)) /\ Reads(res) \subseteq Reads(TracedMethod(m))
  <1>. DEFINE res == Call(Baseline, Caller, Contract, methods[m].variants[k])
  <1>1. res.accesses \subseteq TracedMethod(m).accesses
    BY DEF TracedMethod, FootprintOf
  <1>. HIDE DEF res
  <1>. QED BY <1>1 DEF Writes, Reads, SlotsOf, res

LEMMA NoOverlapNoChange ==
    ASSUME OwnStorageOnly, methods \in Contracts,
           NEW i \in DOMAIN methods, NEW j \in DOMAIN methods,
           ChangingPairs(methods[i].variants, methods[j].variants) # {}
    PROVE  Overlap(i, j) # {}
  <1>. SUFFICES ASSUME Overlap(i, j) = {} PROVE FALSE
    OBVIOUS
  <1>1. PICK a \in DOMAIN methods[i].variants, b \in DOMAIN methods[j].variants :
           Alone(methods[j].variants[b]) # ReaderAfter(methods[i].variants[a], 1, methods[j].variants[b])
    BY DEF ChangingPairs
  <1>. DEFINE w == methods[i].variants[a]
              r == methods[j].variants[b]
              written == Call(Baseline, Caller, Contract, w)
              first   == Call(Baseline, Caller, Contract, r)
              second  == Call(written.exec, Caller, Contract, r)
              Same(slot) == Stored(written.exec, slot) = Stored(Baseline, slot)
  <1>2. w \in Calldata /\ r \in Calldata
    BY DEF Calldata
  <1>3. /\ \A slot \in Reads(Touched(r)) \ Writes(Touched(w)) : Same(slot)
        /\ (\A slot \in Reads(Touched(r)) : Same(slot)) => Outcome(second) = Outcome(first)
    BY <1>2 DEF OwnStorageOnly
  <1>4. /\ Writes(Touched(w)) \subseteq Writes(TracedMethod(i))
        /\ Reads(Touched(r)) \subseteq Reads(TracedMethod(j))
    BY FootprintLemma, TouchedLemma
  <1>5. Writes(TracedMethod(i)) \cap Reads(TracedMethod(j)) = {}
    BY DEF Overlap
  <1>6. Alone(r) = Outcome(first) /\ ReaderAfter(w, 1, r) = Outcome(second)
    BY StackedOnce DEF Alone, ReaderAfter
  <1>. HIDE DEF written, first, second, Same
  <1>7. \A slot \in Reads(Touched(r)) : Same(slot)
    BY <1>3, <1>4, <1>5
  <1>. QED BY <1>1, <1>3, <1>6, <1>7

\* graph.go: "everything with no shared state is pruned", and nothing is lost by
\* it: of a contract that reaches only its own storage and returns words, every
\* two functions one of which changes the other are in the report, confirmed.
THEOREM PruningLosesNothing ==
    ASSUME OutputsAreWords, OwnStorageOnly
    PROVE  Spec => []NoEffectPruned
  <1>1. ASSUME History PROVE NoEffectPruned
    <2>. SUFFICES ASSUME stage = "done", NEW i \in DOMAIN methods, NEW j \in DOMAIN methods,
                         i # j, ChangingPairs(methods[i].variants, methods[j].variants) # {}
                  PROVE  Reported(i, j)
      BY DEF NoEffectPruned
    <2>1. methods \in Contracts
      BY <1>1 DEF History
    <2>2. i \in Jobs /\ j \in Jobs
      BY DEF ChangingPairs, Jobs
    <2>3. <<i, j>> \in Overlapping
      BY <2>1, <2>2, NoOverlapNoChange DEF Overlapping
    <2>4. PICK o, m : Finished(o, m)
      BY <1>1, DoneLemma
    <2>5. PICK k \in 1..m : o[k] = <<i, j>>
      BY <2>3, <2>4 DEF Finished, Lists
    <2>6. DOMAIN Findings = 1..m /\ Findings[k] = FindingFor(<<i, j>>)
      BY <2>4, <2>5 DEF Finished
    <2>. DEFINE p == <<i, j>>
    <2>7. /\ FindingFor(p).writer = methods[p[1]].name /\ FindingFor(p).reader = methods[p[2]].name
          /\ FindingFor(p).impact.confirmed <=>
                ChangingPairs(methods[p[1]].variants, methods[p[2]].variants) # {}
      <3>1. p \in Overlapping
        BY <2>3
      <3>. HIDE DEF p
      <3>. QED BY <2>1, <3>1, FindingLemma
    <2>. QED BY <2>6, <2>7 DEF Reported
  <1>. QED BY <1>1, HistoryKept, PTL

-----------------------------------------------------------------------------
(* The first pass.                                                         *)

\* Every call of the first pass is made on the fresh deployment, so its trace is
\* that of the call alone.
TraceOf(spec) ==
    [name |-> spec.name, accesses |-> Call(Baseline, Caller, Contract, spec.calldata).accesses]
PassAfter(specs, k) == [exec |-> Baseline, fns |-> [l \in 1..k |-> TraceOf(specs[l])]]

LEMMA TraceSpecLemma ==
    ASSUME NEW specs, NEW k \in Nat
    PROVE  TraceSpec(PassAfter(specs, k), specs[k + 1]) = PassAfter(specs, k + 1)
  <1>. DEFINE spec == specs[k + 1]
              opened == Snapshot(Baseline)
              res == Call(opened, Caller, Contract, spec.calldata)
              traced == [l \in 1..k |-> TraceOf(specs[l])]
  <1>1. /\ opened = [world |-> Baseline.world, journal |-> <<Baseline.world>>]
        /\ SnapshotId(Baseline) = 1
    BY SnapshotLemma
  <1>2. res.accesses = Call(Baseline, Caller, Contract, spec.calldata).accesses
    BY <1>1 DEF Call, Returned
  <1>3. res.exec = [world |-> res.exec.world, journal |-> <<Baseline.world>>]
    BY <1>1, CallKeepsJournal
  <1>4. RevertToSnapshot(res.exec, 1) = Baseline
    BY <1>3, RevertLemma
  <1>5. Append(traced, TraceOf(spec)) = [l \in 1..(k + 1) |-> TraceOf(specs[l])]
    <2>. DEFINE t(l) == TraceOf(specs[l])
    <2>. HIDE DEF t
    <2>1. Append([l \in 1..k |-> t(l)], t(k + 1)) = [l \in 1..(k + 1) |-> t(l)]
      <3>1. [l \in 1..k |-> t(l)] \in Seq({t(l) : l \in 1..(k + 1)})
            /\ Len([l \in 1..k |-> t(l)]) = k
        OBVIOUS
      <3>. QED BY <3>1
    <2>. QED BY <2>1 DEF t
  <1>. HIDE DEF res, opened, traced
  <1>6. TraceSpec(PassAfter(specs, k), spec)
           = [exec |-> RevertToSnapshot(res.exec, SnapshotId(Baseline)),
              fns  |-> Append(traced, [name |-> spec.name, accesses |-> res.accesses])]
    BY DEF TraceSpec, PassAfter, Rewound, res, opened, traced
  <1>. QED BY <1>1, <1>2, <1>4, <1>5, <1>6 DEF TraceOf, PassAfter

LEMMA TracesLemma ==
    ASSUME NEW specs, Len(specs) \in Nat
    PROVE  Traces(Baseline, specs).fns = [k \in 1..Len(specs) |-> TraceOf(specs[k])]
  <1>. DEFINE n == Len(specs)
              start == [exec |-> Baseline, fns |-> <<>>]
              Passing(f) == f = [k \in 0..n |-> IF k = 0 THEN start
                                                ELSE TraceSpec(f[k - 1], specs[k])]
              after == [k \in 0..n |-> PassAfter(specs, k)]
              pass == CHOOSE f : Passing(f)
  <1>0. n \in Nat
    OBVIOUS
  <1>1. start = PassAfter(specs, 0)
    BY DEF PassAfter
  <1>2. Traces(Baseline, specs) = pass[n]
    BY DEF Traces
  <1>. HIDE DEF n, start
  <1>3. Passing(after)
    <2>1. ASSUME NEW k \in 0..n, k # 0
          PROVE  TraceSpec(PassAfter(specs, k - 1), specs[k]) = PassAfter(specs, k)
      <3>1. k - 1 \in Nat /\ (k - 1) + 1 = k
        BY <1>0, <2>1
      <3>2. TraceSpec(PassAfter(specs, k - 1), specs[(k - 1) + 1]) = PassAfter(specs, (k - 1) + 1)
        BY <3>1, TraceSpecLemma
      <3>. QED BY <3>1, <3>2
    <2>. QED BY <1>0, <1>1, <2>1
  <1>4. ASSUME NEW f, Passing(f) PROVE f[n] = PassAfter(specs, n)
    <2>. DEFINE S == {k \in Nat : k <= n => f[k] = PassAfter(specs, k)}
    <2>1. 0 \in S
      BY <1>0, <1>1, <1>4
    <2>2. ASSUME NEW k \in S PROVE k + 1 \in S
      <3>. SUFFICES ASSUME k + 1 <= n PROVE f[k + 1] = PassAfter(specs, k + 1)
        OBVIOUS
      <3>1. k \in Nat /\ k + 1 \in 0..n /\ k + 1 # 0 /\ (k + 1) - 1 = k
        BY <1>0
      <3>2. f[k + 1] = TraceSpec(f[k], specs[k + 1])
        BY <1>4, <3>1
      <3>3. f[k] = PassAfter(specs, k)
        BY <1>0, <3>1
      <3>. QED BY <3>1, <3>2, <3>3, TraceSpecLemma
    <2>3. S \in SUBSET Nat
      OBVIOUS
    <2>4. S = Nat
      <3>. HIDE DEF S
      <3>. QED BY <2>1, <2>2, <2>3, SetInduction
    <2>. QED BY <1>0, <2>4
  <1>5. Passing(pass)
    <2>. HIDE DEF Passing, after
    <2>. QED BY <1>3
  <1>6. pass[n] = PassAfter(specs, n)
    <2>. HIDE DEF pass
    <2>. QED BY <1>4, <1>5
  <1>. QED BY <1>2, <1>6, SMTT(20) DEF PassAfter, n

LEMMA SpecsLemma ==
    ASSUME methods \in Contracts
    PROVE  \E n \in Nat : \E c \in [1..n -> Encodable] :
              /\ \A k, l \in 1..n : c[k] = c[l] => k = l
              /\ SpecsFromABI = [k \in 1..n |-> SpecOf(methods[c[k]])]
              /\ Len(SpecsFromABI) = n
  <1>. DEFINE before == [i \in Encodable |-> {j \in Encodable : NamedBefore(j, i)}]
              c == Sorted(before)
              n == Cardinality(Encodable)
  <1>1. DOMAIN before = Encodable
    OBVIOUS
  <1>2. Orders(before)
    <2>1. \A i \in Encodable : i \in Nat /\ methods[i].name \in Nat
      BY MethodsLemma DEF Encodable
    <2>2. IsFiniteSet(Encodable)
      <3>1. Encodable \in SUBSET DOMAIN methods
        BY DEF Encodable
      <3>. QED BY <3>1, JobsFinite, FS_Subset
    <2>3. \A i \in Encodable : before[i] \subseteq Encodable /\ i \notin before[i]
      BY <2>1 DEF NamedBefore
    <2>4. \A i, j \in Encodable : i # j => i \in before[j] \/ j \in before[i]
      BY <2>1 DEF NamedBefore
    <2>5. \A h, i, j \in Encodable : h \in before[i] /\ i \in before[j] => h \in before[j]
      BY <2>1 DEF NamedBefore
    <2>. QED BY <1>1, <2>2, <2>3, <2>4, <2>5 DEF Orders
  <1>3. n \in Nat /\ c \in [1..n -> Encodable] /\ \A k, l \in 1..n : c[k] = c[l] => k = l
    <2>. HIDE DEF before
    <2>. QED BY <1>1, <1>2, SortedLemma
  <1>4. SpecsFromABI = [k \in DOMAIN c |-> SpecOf(methods[c[k]])]
    BY DEF SpecsFromABI
  <1>. HIDE DEF c, n
  <1>5. SpecsFromABI = [k \in 1..n |-> SpecOf(methods[c[k]])]
    BY <1>3, <1>4
  <1>6. Len(SpecsFromABI) = n
    BY <1>3, <1>5
  <1>. QED BY <1>3, <1>5, <1>6

\* A method's trace in the first pass is part of its footprint, if the fuzzer
\* makes that call too.
LEMMA FirstTraceLemma ==
    ASSUME methods \in Contracts, NEW i \in Encodable, FuzzRepeatsZero(methods[i].name)
    PROVE  LET trace == TraceOf(SpecOf(methods[i]))
           IN  /\ i \in Jobs
               /\ Reads(trace) \subseteq Reads(TracedMethod(i))
               /\ Writes(trace) \subseteq Writes(TracedMethod(i))
  <1>. DEFINE trace == TraceOf(SpecOf(methods[i]))
  <1>1. i \in DOMAIN methods /\ ZeroCall(methods[i].name) # <<>>
    BY DEF Encodable
  <1>2. PICK k \in DOMAIN methods[i].variants : methods[i].variants[k] = ZeroCall(methods[i].name)[1]
    <2>1. PICK j \in DOMAIN methods : /\ methods[j].name = methods[i].name
                                     /\ \E k \in DOMAIN methods[j].variants :
                                           ZeroCall(methods[i].name) = <<methods[j].variants[k]>>
      BY DEF FuzzRepeatsZero
    <2>2. methods[j].variants = methods[i].variants
      BY <1>1, <2>1, MethodsLemma
    <2>. QED BY <2>1, <2>2
  <1>3. i \in Jobs
    BY <1>1, <1>2 DEF Jobs
  <1>. DEFINE res == Call(Baseline, Caller, Contract, methods[i].variants[k])
  <1>4. trace.accesses = res.accesses
    BY <1>2 DEF TraceOf, SpecOf
  <1>5. Writes(res) \subseteq Writes(TracedMethod(i)) /\ Reads(res) \subseteq Reads(TracedMethod(i))
    BY FootprintLemma
  <1>. HIDE DEF trace, res
  <1>6. Writes(trace) = Writes(res) /\ Reads(trace) = Reads(res)
    BY <1>4 DEF Writes, Reads, SlotsOf
  <1>. QED BY <1>3, <1>5, <1>6 DEF trace

\* Of a contract that returns words, an edge of the zero-value pass is in the
\* report, with all its slots, if the fuzzer repeats the zero calls of its two
\* methods (specs.go and analyze.go, beside the fuzzer).
THEOREM FirstPassIsKept ==
    ASSUME OutputsAreWords
    PROVE  Spec => []FirstPassKept
  <1>1. ASSUME History PROVE FirstPassKept
    <2>. DEFINE traces == Traces(Baseline, SpecsFromABI).fns
                first == Build(traces)
    <2>. SUFFICES ASSUME stage = "done", NEW k \in DOMAIN first,
                         FuzzRepeatsZero(first[k].writer), FuzzRepeatsZero(first[k].reader)
                  PROVE  \E l \in DOMAIN Findings :
                            /\ Findings[l].writer = first[k].writer
                            /\ Findings[l].reader = first[k].reader
                            /\ first[k].slots \subseteq Findings[l].slots
      BY DEF FirstPassKept
    <2>1. methods \in Contracts
      BY <1>1 DEF History
    <2>0. PICK n \in Nat : \E c \in [1..n -> Encodable] :
             /\ \A a, b \in 1..n : c[a] = c[b] => a = b
             /\ SpecsFromABI = [a \in 1..n |-> SpecOf(methods[c[a]])]
             /\ Len(SpecsFromABI) = n
      BY <2>1, SpecsLemma
    <2>2. PICK c \in [1..n -> Encodable] :
             /\ \A a, b \in 1..n : c[a] = c[b] => a = b
             /\ SpecsFromABI = [a \in 1..n |-> SpecOf(methods[c[a]])]
             /\ Len(SpecsFromABI) = n
      BY <2>0
    <2>3. traces = [a \in 1..n |-> TraceOf(SpecOf(methods[c[a]]))]
      <3>1. traces = [a \in 1..n |-> TraceOf(SpecsFromABI[a])]
        <4>1. Len(SpecsFromABI) \in Nat /\ Len(SpecsFromABI) = n
          BY <2>2
        <4>. HIDE DEF first
        <4>. QED BY <4>1, TracesLemma
      <3>2. \A a \in 1..n : SpecsFromABI[a] = SpecOf(methods[c[a]])
        BY <2>2
      <3>. HIDE DEF traces
      <3>. QED BY <3>1, <3>2
    <2>. HIDE DEF traces
    <2>4. ASSUME NEW a \in 1..n
          PROVE  /\ traces[a].name = methods[c[a]].name /\ traces[a].name \in Nat
                 /\ FuzzRepeatsZero(traces[a].name) =>
                       /\ c[a] \in Jobs
                       /\ Reads(traces[a]) \subseteq Reads(TracedMethod(c[a]))
                       /\ Writes(traces[a]) \subseteq Writes(TracedMethod(c[a]))
      <3>1. c[a] \in Encodable /\ traces[a] = TraceOf(SpecOf(methods[c[a]]))
        BY <2>2, <2>3
      <3>2. traces[a].name = methods[c[a]].name
        BY <3>1 DEF TraceOf, SpecOf
      <3>3. traces[a].name \in Nat
        <4>1. c[a] \in DOMAIN methods
          BY <3>1 DEF Encodable
        <4>. QED BY <2>1, <3>2, <4>1, MethodsLemma
      <3>4. ASSUME FuzzRepeatsZero(traces[a].name)
            PROVE  /\ c[a] \in Jobs
                   /\ Reads(traces[a]) \subseteq Reads(TracedMethod(c[a]))
                   /\ Writes(traces[a]) \subseteq Writes(TracedMethod(c[a]))
        BY <2>1, <3>1, <3>2, <3>4, FirstTraceLemma
      <3>. QED BY <3>2, <3>3, <3>4
    <2>5. DOMAIN traces = 1..n
      BY <2>3
    <2>. DEFINE pairs == EdgePairs(traces)
    <2>6. PICK m \in Nat : \E o \in [1..m -> pairs] :
             first = [h \in 1..m |-> EdgeOf(traces, o[h])]
      <3>. DEFINE card == Cardinality(pairs)
      <3>1. /\ card \in Nat
            /\ \E o \in [1..card -> pairs] : Build(traces) = [h \in 1..card |-> EdgeOf(traces, o[h])]
        <4>1. \A a \in 1..n : traces[a].name \in Nat
          BY <2>4
        <4>. HIDE DEF first
        <4>. QED BY <2>5, <4>1, GraphLemma
      <3>. HIDE DEF pairs, card
      <3>. QED BY <3>1
    <2>. HIDE DEF pairs, first
    <2>6a. PICK o \in [1..m -> pairs] : first = [h \in 1..m |-> EdgeOf(traces, o[h])]
      BY <2>6
    <2>7. k \in 1..m /\ o[k] \in pairs
      BY <2>6a
    <2>. DEFINE p == o[k]
                i == c[p[1]]
                j == c[p[2]]
    <2>8. /\ p[1] \in 1..n /\ p[2] \in 1..n /\ p[1] # p[2]
          /\ Shared(traces[p[1]], traces[p[2]]) # {}
      BY <2>5, <2>7 DEF pairs, EdgePairs
    <2>9. /\ first[k].writer = traces[p[1]].name /\ first[k].reader = traces[p[2]].name
          /\ first[k].slots = Shared(traces[p[1]], traces[p[2]])
      BY <2>6a, <2>7 DEF EdgeOf
    <2>. HIDE DEF p
    <2>9a. FuzzRepeatsZero(traces[p[1]].name) /\ FuzzRepeatsZero(traces[p[2]].name)
      BY <2>9
    <2>10. i \in Jobs /\ j \in Jobs /\ i # j
      BY <2>2, <2>4, <2>8, <2>9a
    <2>11. Shared(traces[p[1]], traces[p[2]]) \subseteq Overlap(i, j)
      BY <2>4, <2>8, <2>9a DEF Shared, Overlap
    <2>. HIDE DEF i, j
    <2>12. <<i, j>> \in Overlapping
      BY <2>8, <2>10, <2>11 DEF Overlapping
    <2>13. PICK ord, len : Finished(ord, len)
      BY <1>1, DoneLemma
    <2>14. PICK l \in 1..len : ord[l] = <<i, j>>
      BY <2>12, <2>13 DEF Finished, Lists
    <2>15. l \in DOMAIN Findings /\ Findings[l] = FindingFor(<<i, j>>)
      BY <2>13, <2>14 DEF Finished
    <2>16. /\ FindingFor(<<i, j>>).writer = methods[i].name
           /\ FindingFor(<<i, j>>).reader = methods[j].name
           /\ FindingFor(<<i, j>>).slots = Overlap(i, j)
      BY DEF FindingFor, Reporting!FindingOf, EdgeBetween
    <2>17. first[k].writer = methods[i].name /\ first[k].reader = methods[j].name
      BY <2>4, <2>8, <2>9 DEF i, j
    <2>. QED BY <2>9, <2>11, <2>15, <2>16, <2>17
  <1>. QED BY <1>1, HistoryKept, PTL
=============================================================================
