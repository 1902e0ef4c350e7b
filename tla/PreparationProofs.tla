--------------------------- MODULE PreparationProofs ---------------------------
(***************************************************************************)
(* Theorems on the search for constructor arguments and on buildJobs, for  *)
(* any ABI and any types that are finite trees.  The first part uses of the*)
(* corpus only that each round has one set of arguments; the last follows  *)
(* the values of a type from round to round, by induction over its depth.  *)
(***************************************************************************)
EXTENDS Preparation, SortingProofs

-----------------------------------------------------------------------------
(* The variants: the arguments of each round, without repeats.             *)

\* v has the values a[0], ..., a[k - 1], each once, in the order in which they
\* come first.
Gathered(v, a, k) ==
    /\ Len(v) \in Nat /\ DOMAIN v = 1..Len(v)
    /\ v \in Seq({a[r] : r \in Nat})
    /\ \A i, j \in DOMAIN v : v[i] = v[j] => i = j
    /\ \A r \in 0..(k - 1) : \E i \in DOMAIN v : v[i] = a[r]
    /\ \A i \in DOMAIN v : \E r \in 0..(k - 1) :
          v[i] = a[r] /\ \A q \in 0..(r - 1) : \E j \in 1..(i - 1) : v[j] = a[q]

LEMMA GatherNext ==
    ASSUME NEW a, NEW k \in Nat, NEW v, Gathered(v, a, k)
    PROVE  Gathered(AddNew(v, a[k]), a, k + 1)
  <1>. DEFINE n == Len(v)
              S == {a[r] : r \in Nat}
  <1>1. /\ n \in Nat /\ DOMAIN v = 1..n /\ v \in Seq(S) /\ a[k] \in S
        /\ \A i, j \in 1..n : v[i] = v[j] => i = j
        /\ \A r \in 0..(k - 1) : \E i \in 1..n : v[i] = a[r]
        /\ \A i \in 1..n : \E r \in 0..(k - 1) :
              v[i] = a[r] /\ \A q \in 0..(r - 1) : \E j \in 1..(i - 1) : v[j] = a[q]
    BY DEF Gathered
  <1>2. \A r \in 0..((k + 1) - 1) : r \in 0..(k - 1) \/ r = k
    OBVIOUS
  <1>3. \A r \in 0..(k - 1) : r \in 0..((k + 1) - 1)
    OBVIOUS
  <1>4. k \in 0..((k + 1) - 1)
    OBVIOUS
  <1>5. CASE a[k] \in ToSet(v)
    <2>1. AddNew(v, a[k]) = v
      BY <1>5 DEF AddNew
    <2>. HIDE DEF n, S
    <2>2. \E i \in 1..n : v[i] = a[k]
      BY <1>1, <1>5 DEF ToSet
    <2>3. \A r \in 0..((k + 1) - 1) : \E i \in 1..n : v[i] = a[r]
      BY <1>1, <1>2, <2>2
    <2>4. \A i \in 1..n : \E r \in 0..((k + 1) - 1) :
             v[i] = a[r] /\ \A q \in 0..(r - 1) : \E j \in 1..(i - 1) : v[j] = a[q]
      BY <1>1, <1>3
    <2>5. Gathered(v, a, k + 1)
      BY <1>1, <2>3, <2>4, Zenon DEF Gathered, n, S
    <2>. QED BY <2>1, <2>5
  <1>6. CASE a[k] \notin ToSet(v)
    <2>. DEFINE w == Append(v, a[k])
    <2>1. /\ AddNew(v, a[k]) = w /\ w \in Seq(S) /\ Len(w) = n + 1 /\ DOMAIN w = 1..(n + 1)
          /\ w[n + 1] = a[k] /\ \A i \in 1..n : w[i] = v[i]
      <3>1. AddNew(v, a[k]) = w
        BY <1>6 DEF AddNew
      <3>. HIDE DEF S
      <3>. QED BY <1>1, <3>1
    <2>2. \A i \in 1..n : v[i] # a[k]
      BY <1>1, <1>6 DEF ToSet
    <2>. HIDE DEF w, n, S
    <2>3. /\ \A i \in 1..(n + 1) : i \in 1..n \/ i = n + 1
          /\ \A i \in 1..n : i \in 1..(n + 1)
          /\ n + 1 \in 1..(n + 1) /\ (n + 1) - 1 = n
          /\ \A i \in 1..n : \A j \in 1..(i - 1) : j \in 1..n
      BY <1>1
    <2>4. \A i, j \in 1..(n + 1) : w[i] = w[j] => i = j
      BY <1>1, <2>1, <2>2, <2>3
    <2>5. ASSUME NEW r \in 0..((k + 1) - 1) PROVE \E i \in 1..(n + 1) : w[i] = a[r]
      <3>1. CASE r = k
        BY <2>1, <2>3, <3>1
      <3>2. CASE r \in 0..(k - 1)
        BY <1>1, <2>1, <2>3, <3>2
      <3>. QED BY <1>2, <3>1, <3>2
    <2>6. ASSUME NEW i \in 1..(n + 1)
          PROVE  \E r \in 0..((k + 1) - 1) :
                    w[i] = a[r] /\ \A q \in 0..(r - 1) : \E j \in 1..(i - 1) : w[j] = a[q]
      <3>1. CASE i = n + 1
        <4>1. \A q \in 0..(k - 1) : \E j \in 1..(i - 1) : w[j] = a[q]
          BY <1>1, <2>1, <2>3, <3>1
        <4>. QED BY <1>4, <2>1, <3>1, <4>1
      <3>2. CASE i \in 1..n
        <4>1. PICK r \in 0..(k - 1) :
                 v[i] = a[r] /\ \A q \in 0..(r - 1) : \E j \in 1..(i - 1) : v[j] = a[q]
          BY <1>1, <3>2
        <4>2. \A q \in 0..(r - 1) : \E j \in 1..(i - 1) : w[j] = a[q]
          BY <2>1, <2>3, <3>2, <4>1
        <4>. QED BY <1>3, <2>1, <3>2, <4>1, <4>2
      <3>. QED BY <2>3, <3>1, <3>2
    <2>7. n + 1 \in Nat
      BY <1>1
    <2>8. Gathered(w, a, k + 1)
      <3>1. Len(w) \in Nat /\ DOMAIN w = 1..Len(w)
        BY <2>1, <2>7
      <3>2. \A i, j \in DOMAIN w : w[i] = w[j] => i = j
        BY <2>1, <2>4
      <3>3. \A r \in 0..((k + 1) - 1) : \E i \in DOMAIN w : w[i] = a[r]
        BY <2>1, <2>5
      <3>4. \A i \in DOMAIN w : \E r \in 0..((k + 1) - 1) :
               w[i] = a[r] /\ \A q \in 0..(r - 1) : \E j \in 1..(i - 1) : w[j] = a[q]
        BY <2>1, <2>6
      <3>5. w \in Seq({a[r] : r \in Nat})
        BY <2>1 DEF S
      <3>. QED BY <3>1, <3>2, <3>3, <3>4, <3>5, Zenon DEF Gathered
    <2>. QED BY <2>1, <2>8
  <1>. QED BY <1>5, <1>6

\* The loop over the first n rounds.
Gathering(f, a, n) ==
    f = [k \in 0..n |-> IF k = 0 THEN <<>> ELSE AddNew(f[k - 1], a[k - 1])]

LEMMA GatheringExists ==
    ASSUME NEW a, NEW n \in Nat
    PROVE  \E f : Gathering(f, a, n)
  <1>. DEFINE S == {k \in Nat : \E f : Gathering(f, a, k)}
  <1>1. 0 \in S
    <2>1. Gathering([k \in 0..0 |-> <<>>], a, 0)
      BY DEF Gathering
    <2>. QED BY <2>1
  <1>2. ASSUME NEW k \in S PROVE k + 1 \in S
    <2>1. PICK f : Gathering(f, a, k)
      OBVIOUS
    <2>. DEFINE last == AddNew(f[k], a[k])
                g == [i \in 0..(k + 1) |-> IF i = k + 1 THEN last ELSE f[i]]
    <2>2. k \in Nat
      OBVIOUS
    <2>. HIDE DEF last
    <2>3. ASSUME NEW i \in 0..(k + 1)
          PROVE  g[i] = IF i = 0 THEN <<>> ELSE AddNew(g[i - 1], a[i - 1])
      <3>1. CASE i = k + 1
        <4>1. i # 0 /\ i - 1 = k /\ k \in 0..(k + 1) /\ k # k + 1
          BY <2>2, <3>1
        <4>2. g[i] = last /\ g[i - 1] = f[k]
          BY <3>1, <4>1
        <4>3. last = AddNew(f[k], a[k])
          BY DEF last
        <4>. HIDE DEF g
        <4>. QED BY <4>1, <4>2, <4>3
      <3>2. CASE i # k + 1
        <4>1. i \in 0..k
          BY <2>2, <3>2
        <4>2. f[i] = IF i = 0 THEN <<>> ELSE AddNew(f[i - 1], a[i - 1])
          BY <2>1, <4>1 DEF Gathering
        <4>3. i # 0 => i - 1 \in 0..(k + 1) /\ i - 1 # k + 1
          BY <2>2, <4>1
        <4>4. g[i] = f[i] /\ (i # 0 => g[i - 1] = f[i - 1])
          BY <3>2, <4>3
        <4>. HIDE DEF g
        <4>. QED BY <4>2, <4>4
      <3>. QED BY <3>1, <3>2
    <2>4. g = [i \in 0..(k + 1) |-> g[i]]
      OBVIOUS
    <2>. HIDE DEF g
    <2>5. Gathering(g, a, k + 1)
      BY <2>3, <2>4 DEF Gathering
    <2>. QED BY <2>2, <2>5
  <1>3. S = Nat
    <2>1. S \in SUBSET Nat
      OBVIOUS
    <2>. HIDE DEF S
    <2>. QED BY <1>1, <1>2, <2>1, SetInduction
  <1>. QED BY <1>3

LEMMA GatheringLemma ==
    ASSUME NEW a, NEW n \in Nat, NEW f, Gathering(f, a, n)
    PROVE  Gathered(f[n], a, n)
  <1>. DEFINE S == {k \in Nat : k <= n => Gathered(f[k], a, k)}
  <1>1. 0 \in S
    <2>1. f[0] = <<>>
      BY DEF Gathering
    <2>2. Gathered(<<>>, a, 0)
      BY DEF Gathered
    <2>. QED BY <2>1, <2>2
  <1>2. ASSUME NEW k \in S PROVE k + 1 \in S
    <2>. SUFFICES ASSUME k + 1 <= n PROVE Gathered(f[k + 1], a, k + 1)
      OBVIOUS
    <2>1. k \in Nat /\ k + 1 \in 0..n /\ k + 1 # 0 /\ (k + 1) - 1 = k /\ k <= n
      OBVIOUS
    <2>2. f[k + 1] = AddNew(f[k], a[k])
      BY <2>1 DEF Gathering
    <2>3. Gathered(f[k], a, k)
      BY <2>1
    <2>. QED BY <2>1, <2>2, <2>3, GatherNext
  <1>3. S = Nat
    <2>1. S \in SUBSET Nat
      OBVIOUS
    <2>. HIDE DEF S
    <2>. QED BY <1>1, <1>2, <2>1, SetInduction
  <1>. QED BY <1>3

ArgsBy(inputs, lead) == [r \in Nat |-> CorpusArgs(inputs, r, lead)]

LEMMA VariantsLemma ==
    ASSUME NEW inputs, NEW n \in Nat, NEW lead, Packs(inputs, FALSE)
    PROVE  Gathered(Variants(inputs, n, lead), ArgsBy(inputs, lead), n)
  <1>. DEFINE a == ArgsBy(inputs, lead)
              after == CHOOSE f : Gathering(f, a, n)
              Passing(f) == f = [k \in 0..n |-> IF k = 0 THEN <<>>
                                    ELSE AddNew(f[k - 1], CorpusArgs(inputs, k - 1, lead))]
              pass == CHOOSE f : Passing(f)
  <1>1. Variants(inputs, n, lead) = pass[n]
    BY DEF Variants
  <1>2. ASSUME NEW f PROVE Passing(f) <=> Gathering(f, a, n)
    <2>1. \A k \in 0..n : k # 0 => a[k - 1] = CorpusArgs(inputs, k - 1, lead)
      BY DEF ArgsBy
    <2>. HIDE DEF a
    <2>. QED BY <2>1 DEF Gathering
  <1>3. \E f : Gathering(f, a, n)
    BY GatheringExists
  <1>4. Passing(pass)
    <2>. HIDE DEF Passing, a
    <2>. QED BY <1>2, <1>3
  <1>5. Gathered(pass[n], a, n)
    <2>. HIDE DEF Passing, pass, a
    <2>. QED BY <1>2, <1>4, GatheringLemma
  <1>. QED BY <1>1, <1>5

\* One set of arguments for every round, whichever rounds repeat which.
HasEachRound(v, inputs, n, lead) ==
    /\ IsInjective(v)
    /\ ToSet(v) = {CorpusArgs(inputs, r, lead) : r \in 0..(n - 1)}

LEMMA ArgSetsLemma ==
    ASSUME NEW inputs, NEW n \in Nat, NEW lead, Packs(inputs, FALSE)
    PROVE  HasEachRound(Variants(inputs, n, lead), inputs, n, lead)
  <1>. DEFINE v == Variants(inputs, n, lead)
              a == ArgsBy(inputs, lead)
  <1>1. Gathered(v, a, n)
    BY VariantsLemma
  <1>2. \A r \in 0..(n - 1) : a[r] = CorpusArgs(inputs, r, lead)
    BY DEF ArgsBy
  <1>. HIDE DEF v, a
  <1>3. IsInjective(v)
    BY <1>1 DEF Gathered, IsInjective
  <1>4. ToSet(v) = {a[r] : r \in 0..(n - 1)}
    <2>1. \A i \in DOMAIN v : \E r \in 0..(n - 1) : v[i] = a[r]
      BY <1>1 DEF Gathered
    <2>2. \A r \in 0..(n - 1) : \E i \in DOMAIN v : v[i] = a[r]
      BY <1>1 DEF Gathered
    <2>3. ToSet(v) = {v[i] : i \in DOMAIN v}
      BY DEF ToSet
    <2>. QED BY <2>1, <2>2, <2>3
  <1>5. {a[r] : r \in 0..(n - 1)} = {CorpusArgs(inputs, r, lead) : r \in 0..(n - 1)}
    BY <1>2, Zenon
  <1>. QED BY <1>3, <1>4, <1>5 DEF v, HasEachRound

LEMMA RoundsLemma ==
    ASSUME NEW requested \in Int
    PROVE  RoundsFor(requested) \in Nat \ {0}
  BY DEF RoundsFor, DefaultRounds

\* The list is empty only when the arguments cannot be encoded.
LEMMA SomeVariants ==
    ASSUME NEW inputs, NEW n \in Nat \ {0}, NEW lead
    PROVE  /\ Variants(inputs, n, lead) = <<>> <=> ~Packs(inputs, FALSE)
           /\ Len(Variants(inputs, n, lead)) \in Nat
           /\ DOMAIN Variants(inputs, n, lead) = 1..Len(Variants(inputs, n, lead))
  <1>. DEFINE v == Variants(inputs, n, lead)
              a == ArgsBy(inputs, lead)
  <1>1. CASE ~Packs(inputs, FALSE)
    <2>1. v = <<>>
      BY <1>1 DEF Variants
    <2>. HIDE DEF v
    <2>2. Len(v) \in Nat /\ DOMAIN v = 1..Len(v)
      BY <2>1
    <2>. QED BY <1>1, <2>1, <2>2 DEF v
  <1>2. CASE Packs(inputs, FALSE)
    <2>1. Gathered(v, a, n)
      BY <1>2, VariantsLemma
    <2>. HIDE DEF v, a
    <2>2. \E i \in DOMAIN v : v[i] = a[0]
      BY <2>1 DEF Gathered
    <2>3. v # <<>> /\ Len(v) \in Nat /\ DOMAIN v = 1..Len(v)
      BY <2>1, <2>2 DEF Gathered
    <2>. QED BY <1>2, <2>3 DEF v
  <1>. QED BY <1>1, <1>2

-----------------------------------------------------------------------------
(* The constructor's candidates: those of the four rounds, first to last,  *)
(* or none at all for a constructor without arguments.                     *)

ListsTheRounds(c, inputs) ==
    /\ Len(c) \in Nat /\ DOMAIN c = 1..Len(c)
    /\ \A r \in 0..3 : \E i \in DOMAIN c : c[i] = CorpusArgs(inputs, r, Deployer)
    /\ \A i \in DOMAIN c : \E r \in 0..3 :
          /\ c[i] = CorpusArgs(inputs, r, Deployer)
          /\ \A q \in 0..(r - 1) : \E j \in 1..(i - 1) : c[j] = CorpusArgs(inputs, q, Deployer)

LEMMA CandidatesLemma ==
    ASSUME NEW inputs, NEW c, c = ConstructorArgVariants(inputs, Deployer), c # <<>>
    PROVE  ListsTheRounds(c, inputs)
  <1>1. CASE inputs = <<>>
    <2>1. c = <<<<>>>>
      BY <1>1 DEF ConstructorArgVariants
    <2>2. Len(c) = 1 /\ DOMAIN c = 1..1 /\ c[1] = <<>>
      BY <2>1
    <2>3. \A r \in 0..3 : CorpusArgs(inputs, r, Deployer) = <<>>
      BY <1>1 DEF CorpusArgs
    <2>4. /\ 1 \in 1..1 /\ 0 \in 0..3 /\ 1 \in Nat
          /\ \A i \in 1..1 : i = 1
          /\ \A q \in 0..(0 - 1) : FALSE
      OBVIOUS
    <2>. QED BY <2>2, <2>3, <2>4 DEF ListsTheRounds
  <1>2. CASE inputs # <<>>
    <2>. DEFINE a == ArgsBy(inputs, Deployer)
    <2>1. c = Variants(inputs, 4, Deployer)
      BY <1>2 DEF ConstructorArgVariants, DefaultRounds
    <2>2. Packs(inputs, FALSE)
      BY <2>1 DEF Variants
    <2>3. Gathered(c, a, 4)
      <3>1. 4 \in Nat
        OBVIOUS
      <3>. QED BY <2>1, <2>2, <3>1, VariantsLemma
    <2>4. \A r \in 0..3 : a[r] = CorpusArgs(inputs, r, Deployer)
      BY DEF ArgsBy
    <2>5. \A r \in 0..3 : \A q \in 0..(r - 1) : q \in 0..3
      OBVIOUS
    <2>6. 4 - 1 = 3
      OBVIOUS
    <2>. HIDE DEF a
    <2>7. /\ Len(c) \in Nat /\ DOMAIN c = 1..Len(c)
          /\ \A r \in 0..3 : \E i \in DOMAIN c : c[i] = a[r]
          /\ \A i \in DOMAIN c : \E r \in 0..3 :
                c[i] = a[r] /\ \A q \in 0..(r - 1) : \E j \in 1..(i - 1) : c[j] = a[q]
      BY <2>3, <2>6 DEF Gathered
    <2>8. ASSUME NEW i \in DOMAIN c
          PROVE  \E r \in 0..3 :
                 /\ c[i] = CorpusArgs(inputs, r, Deployer)
                 /\ \A q \in 0..(r - 1) : \E j \in 1..(i - 1) :
                       c[j] = CorpusArgs(inputs, q, Deployer)
      <3>1. PICK r \in 0..3 :
               c[i] = a[r] /\ \A q \in 0..(r - 1) : \E j \in 1..(i - 1) : c[j] = a[q]
        BY <2>7
      <3>2. \A q \in 0..(r - 1) : \E j \in 1..(i - 1) : c[j] = CorpusArgs(inputs, q, Deployer)
        BY <2>4, <2>5, <3>1
      <3>. QED BY <2>4, <3>1, <3>2
    <2>9. \A r \in 0..3 : \E i \in DOMAIN c : c[i] = CorpusArgs(inputs, r, Deployer)
      BY <2>4, <2>7
    <2>. QED BY <2>7, <2>8, <2>9 DEF ListsTheRounds
  <1>. QED BY <1>1, <1>2

-----------------------------------------------------------------------------
(* The state between the steps.                                            *)

Methods == abi.methods

\* While candidates are tried, none of those tried deploys.
Searching ==
    /\ stage \in {"candidates", "try", "jobs", "done", "failed"}
    /\ stage = "candidates" => candidates = <<>> /\ tries = 0 /\ code = <<>> /\ error = "none"
    /\ stage # "candidates" /\ candidates # <<>> =>
          candidates = ConstructorArgVariants(abi.inputs, Deployer)
    /\ stage \in {"try", "jobs", "done"} => candidates # <<>>
    /\ stage \in {"try", "failed"} => code = <<>>
    /\ stage = "failed" <=> error # "none"
    /\ tries \in 0..Len(candidates)
    /\ \A i \in 1..tries : ~Deploys(candidates[i])
    /\ stage \in {"jobs", "done"} =>
          /\ tries < Len(candidates)
          /\ code = <<candidates[tries + 1]>> /\ Deploys(candidates[tries + 1])
    /\ error = "reverted" => candidates # <<>> /\ tries = Len(candidates)

\* The first h methods are those with a job, in their order, and those skipped.
Called(g) == CallsOf(Methods[g]) # <<>>
JobOf(g) == [name |-> Methods[g].name, variants |-> CallsOf(Methods[g])]

BuiltAs(js, skips, h) ==
    /\ h \in 0..Len(Methods)
    /\ js \in Seq({JobOf(g) : g \in 1..Len(Methods)})
    /\ \A i \in DOMAIN js : \E g \in 1..h : Called(g) /\ js[i] = JobOf(g)
    /\ \A i, j \in DOMAIN js : i # j => js[i].name # js[j].name
    /\ IsFiniteSet(skips)
    /\ skips = {Methods[g].name : g \in {d \in 1..h : ~Called(d)}}

BuiltUpTo(h) == BuiltAs(jobs, skipped, h)

Building ==
    /\ abi \in Abis /\ rounds \in RequestedRounds
    /\ stage \in {"candidates", "try", "failed"} => jobs = <<>> /\ skipped = {}
    /\ BuiltUpTo(Handled)
    /\ stage = "done" => Handled = Len(Methods)

Prepared == Searching /\ Building

LEMMA MethodsLemma ==
    ASSUME NEW x \in Abis
    PROVE  /\ Len(x.methods) \in Nat /\ DOMAIN x.methods = 1..Len(x.methods)
           /\ \A i, j \in 1..Len(x.methods) : x.methods[i].name = x.methods[j].name => i = j
  <1>. DEFINE ms == x.methods
  <1>1. /\ ms \in Seq({ms[i] : i \in DOMAIN ms})
        /\ \A i, j \in DOMAIN ms : ms[i].name = ms[j].name => i = j
    BY AbisAssumption
  <1>2. Len(ms) \in Nat /\ DOMAIN ms = 1..Len(ms)
    <2>. DEFINE S == {ms[i] : i \in DOMAIN ms}
    <2>1. ms \in Seq(S)
      BY <1>1
    <2>. HIDE DEF ms, S
    <2>. QED BY <2>1
  <1>. QED BY <1>1, <1>2

LEMMA NoneBuilt ==
    ASSUME NEW k \in Nat, Len(Methods) = k, jobs = <<>>, skipped = {}
    PROVE  Handled = 0 /\ BuiltUpTo(0)
  <1>1. Handled = 0
    BY FS_EmptySet DEF Handled
  <1>2. jobs \in Seq({JobOf(g) : g \in 1..Len(Methods)})
    OBVIOUS
  <1>3. IsFiniteSet(skipped) /\ DOMAIN jobs = {}
    BY FS_EmptySet
  <1>4. {d \in 1..0 : ~Called(d)} = {}
    OBVIOUS
  <1>5. skipped = {Methods[g].name : g \in {d \in 1..0 : ~Called(d)}}
    BY <1>4
  <1>. QED BY <1>1, <1>2, <1>3, <1>5 DEF BuiltUpTo, BuiltAs

LEMMA PreparedInit == Init => Prepared
  <1>. SUFFICES ASSUME Init PROVE Prepared
    OBVIOUS
  <1>1. Searching
    BY DEF Init, Searching
  <1>2. Len(Methods) \in Nat
    BY MethodsLemma DEF Init, Methods
  <1>3. Building
    BY <1>2, NoneBuilt DEF Init, Building
  <1>. QED BY <1>1, <1>3 DEF Prepared

\* A step of the search builds no job.
LEMMA SearchBuildsNone ==
    ASSUME Building, stage \in {"candidates", "try"},
           UNCHANGED <<abi, rounds, jobs, skipped>>, stage' \in {"candidates", "try", "jobs", "failed"}
    PROVE  Building'
  BY DEF Building, BuiltUpTo, BuiltAs, Handled, Methods, Called, JobOf, CallsOf

LEMMA ListingKeeps ==
    ASSUME Prepared, ListCandidates PROVE Prepared'
  <1>. DEFINE listed == ConstructorArgVariants(abi.inputs, Deployer)
  <1>1. /\ stage = "candidates" /\ candidates = <<>> /\ tries = 0 /\ code = <<>> /\ error = "none"
        /\ UNCHANGED <<abi, accepts, rounds, tries, code, jobs, skipped>>
    BY DEF Prepared, Searching, ListCandidates, FailWith
  <1>2. CASE listed = <<>> /\ FailWith("cannot encode")
    <2>1. /\ 0 \in 0..Len(<<>>) /\ \A i \in 1..0 : FALSE
      OBVIOUS
    <2>2. /\ candidates' = <<>> /\ tries' = 0 /\ code' = <<>>
          /\ stage' = "failed" /\ error' = "cannot encode"
      BY <1>1, <1>2 DEF FailWith
    <2>3. Searching'
      BY <2>1, <2>2 DEF Searching
    <2>4. Building'
      BY <1>1, <1>2, SearchBuildsNone DEF Prepared, FailWith
    <2>. QED BY <2>3, <2>4 DEF Prepared
  <1>3. CASE /\ listed # <<>> /\ candidates' = listed /\ stage' = "try" /\ error' = error
    <2>1. Len(listed) \in Nat
      <3>. HIDE DEF listed
      <3>. QED BY <1>3, CandidatesLemma DEF listed, ListsTheRounds
    <2>. HIDE DEF listed
    <2>2. 0 \in 0..Len(candidates')
      BY <1>3, <2>1
    <2>3. listed = ConstructorArgVariants(abi'.inputs, Deployer)
      BY <1>1 DEF listed
    <2>4. Searching'
      BY <1>1, <1>3, <2>2, <2>3 DEF Searching
    <2>5. Building'
      BY <1>1, <1>3, SearchBuildsNone DEF Prepared
    <2>. QED BY <2>4, <2>5 DEF Prepared
  <1>. QED BY <1>2, <1>3 DEF ListCandidates

LEMMA TryingKeeps ==
    ASSUME Prepared, TryCandidate PROVE Prepared'
  <1>1. /\ stage = "try" /\ code = <<>> /\ candidates # <<>> /\ error = "none"
        /\ candidates = ConstructorArgVariants(abi.inputs, Deployer)
        /\ tries \in 0..Len(candidates) /\ tries < Len(candidates)
        /\ \A i \in 1..tries : ~Deploys(candidates[i])
        /\ UNCHANGED <<abi, accepts, rounds, candidates, jobs, skipped>>
    BY DEF Prepared, Searching, TryCandidate, FailWith
  <1>2. Len(candidates) \in Nat
    BY <1>1, CandidatesLemma DEF ListsTheRounds
  <1>3. /\ candidates' = ConstructorArgVariants(abi'.inputs, Deployer)
        /\ \A i \in 1..tries : ~Deploys(candidates[i])'
    BY <1>1 DEF Deploys
  <1>4. CASE /\ Deploys(candidates[tries + 1]) /\ code' = <<candidates[tries + 1]>>
             /\ stage' = "jobs" /\ UNCHANGED <<tries, error>>
    <2>1. Deploys(candidates[tries + 1])'
      BY <1>1, <1>4 DEF Deploys
    <2>2. Searching'
      BY <1>1, <1>3, <1>4, <2>1 DEF Searching
    <2>3. Building'
      BY <1>1, <1>4, SearchBuildsNone DEF Prepared
    <2>. QED BY <2>2, <2>3 DEF Prepared
  <1>5. CASE /\ ~Deploys(candidates[tries + 1]) /\ tries' = AfterRevert(tries)
             /\ UNCHANGED <<stage, code, error>>
    <2>1. tries' = tries + 1 /\ tries' \in 0..Len(candidates)
      BY <1>1, <1>2, <1>5 DEF AfterRevert
    <2>3. \A i \in 1..(tries + 1) : i \in 1..tries \/ i = tries + 1
      BY <1>1
    <2>4. ASSUME NEW i \in 1..(tries + 1) PROVE ~(candidates'[i] \in accepts')
      <3>1. CASE i \in 1..tries
        BY <1>1, <3>1 DEF Deploys
      <3>2. CASE i = tries + 1
        BY <1>1, <1>5, <3>2 DEF Deploys
      <3>. QED BY <2>3, <3>1, <3>2
    <2>5. Searching'
      BY <1>1, <1>3, <1>5, <2>1, <2>4 DEF Searching, Deploys
    <2>6. Building'
      BY <1>1, <1>5, SearchBuildsNone DEF Prepared
    <2>. QED BY <2>5, <2>6 DEF Prepared
  <1>6. CASE FailWith("no machine")
    <2>1. Searching'
      BY <1>1, <1>3, <1>6 DEF Searching, FailWith
    <2>2. Building'
      BY <1>1, <1>6, SearchBuildsNone DEF Prepared, FailWith
    <2>. QED BY <2>1, <2>2 DEF Prepared
  <1>. QED BY <1>4, <1>5, <1>6 DEF TryCandidate

LEMMA GivingUpKeeps ==
    ASSUME Prepared, NoneDeploys PROVE Prepared'
  <1>1. /\ stage = "try" /\ code = <<>> /\ candidates # <<>>
        /\ candidates = ConstructorArgVariants(abi.inputs, Deployer)
        /\ tries = Len(candidates) /\ tries \in 0..Len(candidates)
        /\ \A i \in 1..tries : ~Deploys(candidates[i])
        /\ stage' = "failed" /\ error' = "reverted"
        /\ UNCHANGED <<abi, accepts, rounds, candidates, tries, code, jobs, skipped>>
    BY DEF Prepared, Searching, NoneDeploys, FailWith
  <1>2. Searching'
    BY <1>1 DEF Searching, Deploys
  <1>3. Building'
    BY <1>1, SearchBuildsNone DEF Prepared
  <1>. QED BY <1>2, <1>3 DEF Prepared

\* Building and ending the jobs leaves what the search found.
LEMMA SearchIsOver ==
    ASSUME Searching, stage = "jobs", stage' \in {"jobs", "done"},
           UNCHANGED <<abi, accepts, rounds, candidates, tries, code, error>>
    PROVE  Searching'
  BY DEF Searching, Deploys

LEMMA BuildingKeeps ==
    ASSUME Prepared, BuildJob PROVE Prepared'
  <1>0. PICK h, n : h = Handled /\ n = Len(Methods)
    OBVIOUS
  <1>. DEFINE S == {JobOf(g) : g \in 1..n}
              method == Methods[h + 1]
  <1>1. /\ stage = "jobs" /\ stage' = "jobs" /\ h < n
        /\ abi \in Abis /\ rounds \in RequestedRounds
        /\ UNCHANGED <<abi, accepts, rounds, candidates, tries, code, error>>
        /\ BuiltUpTo(h)
    BY <1>0 DEF Prepared, Building, BuildJob, Methods
  <1>2. Searching'
    BY <1>1, SearchIsOver DEF Prepared
  <1>3. /\ n \in Nat
        /\ \A i, j \in 1..n : Methods[i].name = Methods[j].name => i = j
    BY <1>0, <1>1, MethodsLemma DEF Methods
  <1>4. h \in 0..n /\ h \in Nat /\ h + 1 \in 1..n /\ h + 1 \in 0..n
    BY <1>0, <1>1, <1>3 DEF BuiltUpTo, BuiltAs
  <1>5. /\ \A g \in 1..h : g \in 1..n /\ g \in 1..(h + 1) /\ g # h + 1
        /\ \A g \in 1..(h + 1) : g \in 1..h \/ g = h + 1
        /\ h + 1 \in 1..(h + 1)
    BY <1>3, <1>4
  <1>6. /\ jobs \in Seq(S) /\ IsFiniteSet(skipped)
        /\ \A i \in DOMAIN jobs : \E g \in 1..h : Called(g) /\ jobs[i] = JobOf(g)
        /\ \A i, j \in DOMAIN jobs : i # j => jobs[i].name # jobs[j].name
        /\ skipped = {Methods[g].name : g \in {d \in 1..h : ~Called(d)}}
    BY <1>0, <1>1 DEF BuiltUpTo, BuiltAs
  <1>7. Len(jobs) \in Nat /\ DOMAIN jobs = 1..Len(jobs)
    <2>. HIDE DEF S
    <2>. QED BY <1>6
  <1>8. Cardinality(skipped) \in Nat /\ h = Len(jobs) + Cardinality(skipped)
    BY <1>0, <1>6, FS_CardinalityType DEF Handled
  <1>9. BuiltAs(jobs', skipped', h + 1) => BuiltUpTo(h + 1)'
    BY <1>1 DEF BuiltUpTo, BuiltAs, JobOf, Called, CallsOf, Methods
  <1>10. \A g : JobOf(g).name = Methods[g].name
    BY DEF JobOf
  <1>11. BuiltUpTo(h + 1)' /\ Handled' = h + 1
    <2>1. CASE Called(h + 1)
      <3>. DEFINE longer == Append(jobs, JobOf(h + 1))
      <3>1. jobs' = longer /\ skipped' = skipped
        BY <1>0, <2>1 DEF BuildJob, Called, JobOf, Methods
      <3>2. JobOf(h + 1) \in S
        BY <1>4
      <3>. HIDE DEF S
      <3>3. /\ longer \in Seq(S) /\ Len(longer) = Len(jobs) + 1
            /\ DOMAIN longer = 1..(Len(jobs) + 1)
            /\ longer[Len(jobs) + 1] = JobOf(h + 1)
            /\ \A i \in 1..Len(jobs) : longer[i] = jobs[i]
        BY <1>6, <3>2
      <3>. HIDE DEF longer
      <3>4. \A i \in 1..(Len(jobs) + 1) : i \in 1..Len(jobs) \/ i = Len(jobs) + 1
        BY <1>7
      <3>5. ASSUME NEW i \in 1..(Len(jobs) + 1)
            PROVE  \E g \in 1..(h + 1) : Called(g) /\ longer[i] = JobOf(g)
        <4>1. CASE i \in 1..Len(jobs)
          BY <1>5, <1>6, <1>7, <3>3, <4>1
        <4>2. CASE i = Len(jobs) + 1
          BY <1>5, <2>1, <3>3, <4>2
        <4>. QED BY <3>4, <4>1, <4>2
      <3>6. \A i \in 1..Len(jobs) : longer[i].name # JobOf(h + 1).name
        <4>. SUFFICES ASSUME NEW i \in 1..Len(jobs) PROVE longer[i].name # JobOf(h + 1).name
          OBVIOUS
        <4>1. PICK g \in 1..h : jobs[i] = JobOf(g)
          BY <1>6, <1>7
        <4>2. Methods[g].name # Methods[h + 1].name
          BY <1>3, <1>4, <1>5
        <4>. QED BY <1>10, <3>3, <4>1, <4>2
      <3>7. ASSUME NEW i \in 1..(Len(jobs) + 1), NEW j \in 1..(Len(jobs) + 1), i # j
            PROVE  longer[i].name # longer[j].name
        <4>1. CASE i \in 1..Len(jobs) /\ j \in 1..Len(jobs)
          BY <1>6, <1>7, <3>3, <3>7, <4>1
        <4>2. CASE i \in 1..Len(jobs) /\ j = Len(jobs) + 1
          BY <3>3, <3>6, <4>2
        <4>3. CASE j \in 1..Len(jobs) /\ i = Len(jobs) + 1
          BY <3>3, <3>6, <4>3
        <4>. QED BY <3>4, <3>7, <4>1, <4>2, <4>3
      <3>8. {d \in 1..(h + 1) : ~Called(d)} = {d \in 1..h : ~Called(d)}
        BY <1>5, <2>1
      <3>9. Len(longer) + Cardinality(skipped) = h + 1
        BY <1>7, <1>8, <3>3
      <3>10. Handled' = h + 1
        BY <3>1, <3>9 DEF Handled
      <3>11. BuiltAs(longer, skipped, h + 1)
        BY <1>0, <1>4, <1>6, <3>3, <3>5, <3>7, <3>8 DEF BuiltAs, S
      <3>. QED BY <1>9, <3>1, <3>10, <3>11
    <2>2. CASE ~Called(h + 1)
      <3>1. jobs' = jobs /\ skipped' = skipped \cup {method.name}
        BY <1>0, <2>2 DEF BuildJob, Called, Methods
      <3>. HIDE DEF S
      <3>2. method.name \notin skipped
        BY <1>3, <1>4, <1>5, <1>6
      <3>3. IsFiniteSet(skipped') /\ Cardinality(skipped') = Cardinality(skipped) + 1
        BY <1>6, <3>1, <3>2, FS_AddElement
      <3>4. Handled' = h + 1
        BY <1>7, <1>8, <3>1, <3>3 DEF Handled
      <3>5. skipped' = {Methods[g].name : g \in {d \in 1..(h + 1) : ~Called(d)}}
        BY <1>5, <1>6, <2>2, <3>1
      <3>6. \A i \in DOMAIN jobs : \E g \in 1..(h + 1) : Called(g) /\ jobs[i] = JobOf(g)
        BY <1>5, <1>6
      <3>7. BuiltAs(jobs, skipped', h + 1)
        BY <1>0, <1>4, <1>6, <3>3, <3>5, <3>6 DEF BuiltAs, S
      <3>. QED BY <1>9, <3>1, <3>4, <3>7
    <2>. QED BY <2>1, <2>2
  <1>12. Building'
    BY <1>1, <1>11 DEF Building
  <1>. QED BY <1>2, <1>12 DEF Prepared

LEMMA EndingKeeps ==
    ASSUME Prepared, JobsBuilt PROVE Prepared'
  <1>1. /\ stage = "jobs" /\ stage' = "done" /\ Handled >= Len(Methods)
        /\ UNCHANGED <<abi, accepts, rounds, candidates, tries, code, error, jobs, skipped>>
        /\ abi \in Abis /\ BuiltUpTo(Handled)
    BY DEF Prepared, Building, JobsBuilt, Methods
  <1>2. Searching'
    BY <1>1, SearchIsOver DEF Prepared
  <1>3. Len(Methods) \in Nat
    BY <1>1, MethodsLemma DEF Methods
  <1>4. Handled = Len(Methods)
    BY <1>1, <1>3 DEF BuiltUpTo, BuiltAs
  <1>5. Building'
    BY <1>1, <1>4
       DEF Prepared, Building, BuiltUpTo, BuiltAs, Handled, Methods, Called, JobOf, CallsOf
  <1>. QED BY <1>2, <1>5 DEF Prepared

\* What is so between the steps of the search and of buildJobs.
THEOREM AlwaysPrepared == Spec => []Prepared
  <1>1. Init => Prepared
    BY PreparedInit
  <1>2. Prepared /\ [Next]_vars => Prepared'
    <2>. SUFFICES ASSUME Prepared, [Next]_vars PROVE Prepared'
      OBVIOUS
    <2>1. CASE UNCHANGED vars
      <3>1. Searching'
        BY <2>1 DEF Prepared, Searching, Deploys, vars
      <3>2. Building'
        BY <2>1 DEF Prepared, Building, BuiltUpTo, BuiltAs, Handled, Methods, Called, JobOf, CallsOf, vars
      <3>. QED BY <3>1, <3>2 DEF Prepared
    <2>2. CASE ListCandidates
      BY <2>2, ListingKeeps
    <2>3. CASE TryCandidate
      BY <2>3, TryingKeeps
    <2>4. CASE NoneDeploys
      BY <2>4, GivingUpKeeps
    <2>5. CASE BuildJob
      BY <2>5, BuildingKeeps
    <2>6. CASE JobsBuilt
      BY <2>6, EndingKeeps
    <2>. QED BY <2>1, <2>2, <2>3, <2>4, <2>5, <2>6 DEF Next
  <1>. QED BY <1>1, <1>2, PTL DEF Spec

(***************************************************************************)
(* TypeOK, the stages of ResolveCreationCode and buildJobs: the code is    *)
(* there once the search is over, an error ends it, and every name that    *)
(* is skipped is that of a method.                                         *)
(***************************************************************************)
THEOREM PreparationTypeCorrect == Spec => []TypeOK
  <1>1. Prepared => TypeOK
    <2>. SUFFICES ASSUME Prepared PROVE TypeOK
      OBVIOUS
    <2>1. stage \in {"jobs", "done"} <=> code # <<>>
      <3>1. /\ stage \in {"candidates", "try", "failed"} => code = <<>>
            /\ stage \in {"jobs", "done"} => code = <<candidates[tries + 1]>>
            /\ stage \in {"candidates", "try", "jobs", "done", "failed"}
        BY DEF Prepared, Searching
      <3>2. <<candidates[tries + 1]>> # <<>>
        OBVIOUS
      <3>. QED BY <3>1, <3>2
    <2>2. skipped \subseteq {m.name : m \in ToSet(abi.methods)}
      <3>. DEFINE h == Handled
      <3>1. /\ h \in 0..Len(Methods) /\ abi \in Abis
            /\ skipped = {Methods[g].name : g \in {d \in 1..h : ~Called(d)}}
        BY DEF Prepared, Building, BuiltUpTo, BuiltAs
      <3>2. Len(Methods) \in Nat /\ DOMAIN Methods = 1..Len(Methods)
        BY <3>1, MethodsLemma DEF Methods
      <3>. HIDE DEF h
      <3>3. \A g \in 1..h : g \in DOMAIN Methods
        BY <3>1, <3>2
      <3>. QED BY <3>1, <3>3 DEF ToSet, Methods
    <2>3. /\ abi \in Abis /\ rounds \in RequestedRounds
          /\ stage \in {"candidates", "try"} => jobs = <<>> /\ skipped = {}
      BY DEF Prepared, Building
    <2>. QED BY <2>1, <2>2, <2>3 DEF TypeOK, Prepared, Searching
  <1>. QED BY <1>1, AlwaysPrepared, PTL

(***************************************************************************)
(* FirstThatDeploys (ResolveCreationCode): the code has the arguments of   *)
(* the first round that the constructor accepts, and the constructor is    *)
(* said to revert only if it refuses those of all four.                    *)
(***************************************************************************)
THEOREM SearchFindsTheFirst == Spec => []FirstThatDeploys
  <1>1. Prepared => FirstThatDeploys
    <2>. SUFFICES ASSUME Prepared PROVE FirstThatDeploys
      OBVIOUS
    <2>1. ASSUME code # <<>>
          PROVE  \E r \in 0..3 : /\ code[1] = ArgsOfRound(r) /\ Deploys(code[1])
                                 /\ \A q \in 0..(r - 1) : ~Deploys(ArgsOfRound(q))
      <3>1. /\ candidates = ConstructorArgVariants(abi.inputs, Deployer) /\ candidates # <<>>
            /\ tries \in 0..Len(candidates) /\ tries < Len(candidates)
            /\ code = <<candidates[tries + 1]>> /\ Deploys(candidates[tries + 1])
            /\ \A i \in 1..tries : ~Deploys(candidates[i])
        BY <2>1 DEF Prepared, Searching
      <3>2. /\ Len(candidates) \in Nat /\ DOMAIN candidates = 1..Len(candidates)
            /\ \A i \in DOMAIN candidates : \E r \in 0..3 :
                  /\ candidates[i] = ArgsOfRound(r)
                  /\ \A q \in 0..(r - 1) : \E j \in 1..(i - 1) : candidates[j] = ArgsOfRound(q)
        <4>1. \A r : ArgsOfRound(r) = CorpusArgs(abi.inputs, r, Deployer)
          BY DEF ArgsOfRound
        <4>2. ListsTheRounds(candidates, abi.inputs)
          BY <3>1, CandidatesLemma
        <4>. QED BY <4>1, <4>2, ZenonT(60) DEF ListsTheRounds
      <3>3. tries + 1 \in DOMAIN candidates /\ (tries + 1) - 1 = tries
        BY <3>1, <3>2
      <3>4. PICK r \in 0..3 :
               /\ candidates[tries + 1] = ArgsOfRound(r)
               /\ \A q \in 0..(r - 1) : \E j \in 1..tries : candidates[j] = ArgsOfRound(q)
        BY <3>2, <3>3
      <3>5. \A q \in 0..(r - 1) : ~Deploys(ArgsOfRound(q))
        BY <3>1, <3>4
      <3>6. code[1] = ArgsOfRound(r) /\ Deploys(code[1])
        BY <3>1, <3>4
      <3>. QED BY <3>5, <3>6
    <2>2. ASSUME error = "reverted", NEW r \in 0..3 PROVE ~Deploys(ArgsOfRound(r))
      <3>1. /\ candidates = ConstructorArgVariants(abi.inputs, Deployer) /\ candidates # <<>>
            /\ tries = Len(candidates)
            /\ \A i \in 1..tries : ~Deploys(candidates[i])
        BY <2>2 DEF Prepared, Searching
      <3>2. /\ DOMAIN candidates = 1..Len(candidates)
            /\ \E i \in DOMAIN candidates : candidates[i] = ArgsOfRound(r)
        BY <3>1, CandidatesLemma DEF ArgsOfRound, ListsTheRounds
      <3>. QED BY <3>1, <3>2
    <2>. QED BY <2>1, <2>2 DEF FirstThatDeploys
  <1>. QED BY <1>1, AlwaysPrepared, PTL

LEMMA PreparedMeansOnce ==
    ASSUME Prepared PROVE EveryMethodOnce
  <1>0. PICK h, n : h = Handled /\ n = Len(Methods)
    OBVIOUS
  <1>1. /\ h \in 0..n /\ abi \in Abis /\ rounds \in RequestedRounds
        /\ \A i \in DOMAIN jobs : \E g \in 1..h : Called(g) /\ jobs[i] = JobOf(g)
        /\ \A i, j \in DOMAIN jobs : i # j => jobs[i].name # jobs[j].name
        /\ skipped = {Methods[g].name : g \in {d \in 1..h : ~Called(d)}}
    BY <1>0 DEF Prepared, Building, BuiltUpTo, BuiltAs
  <1>2. /\ n \in Nat /\ DOMAIN Methods = 1..n
        /\ \A i, j \in 1..n : Methods[i].name = Methods[j].name => i = j
    BY <1>0, <1>1, MethodsLemma DEF Methods
  <1>3. \A g \in 1..h : g \in 1..n
    BY <1>1, <1>2
  <1>4. RoundsFor(rounds) \in Nat \ {0}
    BY <1>1, AbisAssumption, RoundsLemma
  <1>5. ASSUME NEW g \in 1..n PROVE MethodNamed(Methods[g].name) = Methods[g]
    <2>1. ToSet(Methods) = {Methods[i] : i \in 1..n}
      BY <1>2 DEF ToSet
    <2>2. /\ Methods[g] \in ToSet(Methods)
          /\ \A m \in ToSet(Methods) : m.name = Methods[g].name => m = Methods[g]
      BY <1>2, <2>1
    <2>. QED BY <2>2 DEF MethodNamed, Methods
  <1>6. ASSUME NEW i \in DOMAIN jobs
        PROVE  LET inputs == MethodNamed(jobs[i].name).inputs
               IN  /\ jobs[i].name \notin skipped
                   /\ Packs(inputs, FALSE)
                   /\ IsInjective(jobs[i].variants)
                   /\ ToSet(jobs[i].variants) =
                         {CorpusArgs(inputs, r, Caller) : r \in 0..(RoundsFor(rounds) - 1)}
    <2>1. PICK g \in 1..h : Called(g) /\ jobs[i] = JobOf(g)
      BY <1>1
    <2>2. /\ jobs[i].name = Methods[g].name
          /\ jobs[i].variants = Variants(Methods[g].inputs, RoundsFor(rounds), Caller)
          /\ jobs[i].variants # <<>>
      BY <2>1 DEF JobOf, Called, CallsOf
    <2>3. MethodNamed(jobs[i].name) = Methods[g]
      BY <1>3, <1>5, <2>2
    <2>4. jobs[i].name \notin skipped
      BY <1>1, <1>2, <1>3, <2>1, <2>2
    <2>5. Packs(Methods[g].inputs, FALSE)
      BY <1>4, <2>2, SomeVariants
    <2>6. /\ IsInjective(jobs[i].variants)
          /\ ToSet(jobs[i].variants) =
                {CorpusArgs(Methods[g].inputs, r, Caller) : r \in 0..(RoundsFor(rounds) - 1)}
      <3>1. RoundsFor(rounds) \in Nat
        BY <1>4
      <3>2. HasEachRound(jobs[i].variants, Methods[g].inputs, RoundsFor(rounds), Caller)
        BY <2>2, <2>5, <3>1, ArgSetsLemma
      <3>. QED BY <3>2 DEF HasEachRound
    <2>. QED BY <2>3, <2>4, <2>5, <2>6
  <1>7. stage = "done" => Handled = Len(abi.methods)
    BY DEF Prepared, Building, Methods
  <1>. QED BY <1>1, <1>6, <1>7 DEF EveryMethodOnce

(***************************************************************************)
(* EveryMethodOnce (buildJobs): each method is called, with the arguments  *)
(* of every round once, or reported as skipped, and never both.            *)
(***************************************************************************)
THEOREM EveryMethodIsHandledOnce == Spec => []EveryMethodOnce
  <1>1. Prepared => EveryMethodOnce
    BY PreparedMeansOnce
  <1>. QED BY <1>1, AlwaysPrepared, PTL

-----------------------------------------------------------------------------
(* What the corpus holds for a type.  Types are finite trees, so what is so*)
(* of a type once it is so of its parts is so of every type, and a         *)
(* recursive function on the types has the values its equation gives.      *)

Closed(T) == \A t \in T : ~IsLeaf(t) => \A i \in 1..t.len : Part(t, i) \in T

LEMMA PartsLemma ==
    ASSUME NEW t \in Types, ~IsLeaf(t), NEW i \in 1..t.len
    PROVE  Part(t, i) \in Types
  BY TypesAssumption

\* Of some types, one is made of none of them.
LEMMA SimplestType ==
    ASSUME NEW B \in SUBSET Types, B # {}
    PROVE  \E t \in B : ~IsLeaf(t) => \A i \in 1..t.len : Part(t, i) \in Types \ B
  <1>. DEFINE depths == {Depth[t] : t \in B}
  <1>1. depths \in SUBSET Nat /\ depths # {}
    BY TypesAssumption
  <1>2. PICK n \in depths : \A m \in depths : n <= m
    <2>. HIDE DEF depths
    <2>. QED BY <1>1, LeastNatural
  <1>3. PICK t \in B : Depth[t] = n
    OBVIOUS
  <1>4. \A u \in B : Depth[t] <= Depth[u] /\ Depth[u] \in Nat
    BY <1>2, <1>3, TypesAssumption
  <1>5. ASSUME ~IsLeaf(t), NEW i \in 1..t.len PROVE Part(t, i) \in Types \ B
    <2>1. Part(t, i) \in Types /\ Depth[Part(t, i)] < Depth[t]
      BY <1>5, TypesAssumption
    <2>. QED BY <1>4, <2>1
  <1>. QED BY <1>5

LEMMA TypeInduction ==
    ASSUME NEW S \in SUBSET Types,
           \A t \in Types : (~IsLeaf(t) => \A i \in 1..t.len : Part(t, i) \in S) => t \in S
    PROVE  S = Types
  <1>. DEFINE B == Types \ S
  <1>. SUFFICES ASSUME B # {} PROVE FALSE
    OBVIOUS
  <1>1. PICK t \in B : ~IsLeaf(t) => \A i \in 1..t.len : Part(t, i) \in Types \ B
    <2>1. B \in SUBSET Types
      OBVIOUS
    <2>. HIDE DEF B
    <2>. QED BY <2>1, SimplestType
  <1>. QED BY <1>1

\* Sets of types that grow by a type whose parts they have reach all types.
LEMMA GrowthLemma ==
    ASSUME NEW Good \in SUBSET (SUBSET Types), {} \in Good,
           \A T \in Good : \A t \in Types \ T :
              (~IsLeaf(t) => \A i \in 1..t.len : Part(t, i) \in T) => T \cup {t} \in Good
    PROVE  Types \in Good
  <1>. DEFINE n == Cardinality(Types)
              left == {n - Cardinality(T) : T \in Good}
  <1>1. IsFiniteSet(Types)
    BY TypesAssumption
  <1>2. n \in Nat
    BY <1>1, FS_CardinalityType
  <1>3. \A T \in Good : /\ IsFiniteSet(T) /\ Cardinality(T) \in Nat /\ Cardinality(T) <= n
    BY <1>1, FS_Subset, FS_CardinalityType
  <1>. HIDE DEF n
  <1>4. left \in SUBSET Nat /\ left # {}
    BY <1>2, <1>3
  <1>5. PICK k \in left : \A m \in left : k <= m
    <2>. HIDE DEF left
    <2>. QED BY <1>4, LeastNatural
  <1>6. PICK T \in Good : k = n - Cardinality(T)
    OBVIOUS
  <1>. SUFFICES ASSUME T # Types PROVE FALSE
    BY <1>6
  <1>7. PICK t \in Types \ T : ~IsLeaf(t) => \A i \in 1..t.len : Part(t, i) \in Types \ (Types \ T)
    <2>. DEFINE B == Types \ T
    <2>1. B \in SUBSET Types /\ B # {}
      OBVIOUS
    <2>. HIDE DEF B
    <2>2. \E u \in B : ~IsLeaf(u) => \A i \in 1..u.len : Part(u, i) \in Types \ B
      BY <2>1, SimplestType
    <2>. QED BY <2>2 DEF B
  <1>8. T \cup {t} \in Good
    BY <1>7
  <1>9. Cardinality(T \cup {t}) = Cardinality(T) + 1
    BY <1>3, FS_AddElement
  <1>10. n - (Cardinality(T) + 1) \in left
    BY <1>8, <1>9
  <1>11. n - Cardinality(T) <= n - (Cardinality(T) + 1)
    <2>. HIDE DEF left
    <2>. QED BY <1>5, <1>6, <1>10
  <1>. QED BY <1>2, <1>3, <1>11

\* The zero value of a type.
ZeroIn(g, t) ==
    IF IsLeaf(t) THEN ZeroLeaf(t)
    ELSE IF t.kind = "slice" THEN <<>>
    ELSE [i \in 1..t.len |-> g[Part(t, i)]]

Zeroing(g, T) == g = [t \in T |-> ZeroIn(g, t)]

LEMMA ZeroLemma ==
    ASSUME NEW t \in Types
    PROVE  ZeroOf(t) = IF IsLeaf(t) THEN ZeroLeaf(t)
                       ELSE IF t.kind = "slice" THEN <<>>
                       ELSE [i \in 1..t.len |-> ZeroOf(Part(t, i))]
  <1>. DEFINE Good == {T \in SUBSET Types : Closed(T) /\ \E g : Zeroing(g, T)}
              zero == CHOOSE g : Zeroing(g, Types)
  <1>1. {} \in Good
    <2>1. Zeroing([u \in {} |-> 0], {})
      BY DEF Zeroing
    <2>. QED BY <2>1 DEF Closed
  <1>2. ASSUME NEW T \in Good, NEW u \in Types \ T,
               ~IsLeaf(u) => \A i \in 1..u.len : Part(u, i) \in T
        PROVE  T \cup {u} \in Good
    <2>1. PICK g : Zeroing(g, T)
      OBVIOUS
    <2>2. Closed(T)
      OBVIOUS
    <2>. DEFINE new == ZeroIn(g, u)
                h   == [v \in T \cup {u} |-> IF v = u THEN new ELSE g[v]]
    <2>3. \A v \in T : h[v] = g[v]
      OBVIOUS
    <2>4. h[u] = ZeroIn(g, u) /\ h = [v \in T \cup {u} |-> h[v]]
      OBVIOUS
    <2>. HIDE DEF h, new
    <2>5. ASSUME NEW v \in T \cup {u} PROVE h[v] = ZeroIn(h, v) /\ (~IsLeaf(v) => \A i \in 1..v.len : Part(v, i) \in T)
      <3>1. ~IsLeaf(v) => \A i \in 1..v.len : Part(v, i) \in T
        BY <1>2, <2>2 DEF Closed
      <3>2. h[v] = ZeroIn(g, v)
        BY <2>1, <2>3, <2>4 DEF Zeroing
      <3>3. ZeroIn(g, v) = ZeroIn(h, v)
        BY <2>3, <3>1 DEF ZeroIn
      <3>. QED BY <3>1, <3>2, <3>3
    <2>6. Zeroing(h, T \cup {u})
      BY <2>4, <2>5 DEF Zeroing
    <2>7. Closed(T \cup {u})
      BY <2>5 DEF Closed
    <2>. QED BY <2>6, <2>7
  <1>3. \E g : Zeroing(g, Types)
    <2>1. Good \in SUBSET (SUBSET Types)
      OBVIOUS
    <2>. HIDE DEF Good
    <2>2. Types \in Good
      BY <1>1, <1>2, <2>1, GrowthLemma
    <2>. QED BY <2>2 DEF Good
  <1>4. zero = [u \in Types |-> ZeroIn(zero, u)]
    <2>1. Zeroing(zero, Types)
      BY <1>3
    <2>. HIDE DEF zero
    <2>. QED BY <2>1 DEF Zeroing
  <1>5. \A u : ZeroOf(u) = zero[u]
    BY Zenon DEF ZeroOf, Zeroing, ZeroIn
  <1>. HIDE DEF zero
  <1>. QED BY <1>4, <1>5 DEF ZeroIn

\* The types a value of a type is made of.
PartsIn(e, g, t) ==
    {t} \cup (IF IsLeaf(t) \/ (e /\ t.kind = "slice") THEN {}
              ELSE UNION {g[Part(t, i)] : i \in 1..t.len})

Parting(e, g, T) == g = [t \in T |-> PartsIn(e, g, t)]

LEMMA ReachedLemma ==
    ASSUME NEW e, NEW t \in Types
    PROVE  Reached(t, e) = {t} \cup (IF IsLeaf(t) \/ (e /\ t.kind = "slice") THEN {}
                                ELSE UNION {Reached(Part(t, i), e) : i \in 1..t.len})
  <1>. DEFINE Good == {T \in SUBSET Types : Closed(T) /\ \E g : Parting(e, g, T)}
              all  == CHOOSE g : Parting(e, g, Types)
  <1>1. {} \in Good
    <2>1. Parting(e, [u \in {} |-> 0], {})
      BY DEF Parting
    <2>. QED BY <2>1 DEF Closed
  <1>2. ASSUME NEW T \in Good, NEW u \in Types \ T,
               ~IsLeaf(u) => \A i \in 1..u.len : Part(u, i) \in T
        PROVE  T \cup {u} \in Good
    <2>1. PICK g : Parting(e, g, T)
      OBVIOUS
    <2>2. Closed(T)
      OBVIOUS
    <2>. DEFINE new == PartsIn(e, g, u)
                h   == [v \in T \cup {u} |-> IF v = u THEN new ELSE g[v]]
    <2>3. \A v \in T : h[v] = g[v]
      OBVIOUS
    <2>4. h[u] = PartsIn(e, g, u) /\ h = [v \in T \cup {u} |-> h[v]]
      OBVIOUS
    <2>. HIDE DEF h, new
    <2>5. ASSUME NEW v \in T \cup {u}
          PROVE  h[v] = PartsIn(e, h, v) /\ (~IsLeaf(v) => \A i \in 1..v.len : Part(v, i) \in T)
      <3>1. ~IsLeaf(v) => \A i \in 1..v.len : Part(v, i) \in T
        BY <1>2, <2>2 DEF Closed
      <3>2. h[v] = PartsIn(e, g, v)
        BY <2>1, <2>3, <2>4 DEF Parting
      <3>3. PartsIn(e, g, v) = PartsIn(e, h, v)
        BY <2>3, <3>1 DEF PartsIn
      <3>. QED BY <3>1, <3>2, <3>3
    <2>6. Parting(e, h, T \cup {u})
      BY <2>4, <2>5 DEF Parting
    <2>7. Closed(T \cup {u})
      BY <2>5 DEF Closed
    <2>. QED BY <2>6, <2>7
  <1>3. \E g : Parting(e, g, Types)
    <2>1. Good \in SUBSET (SUBSET Types)
      OBVIOUS
    <2>. HIDE DEF Good
    <2>2. Types \in Good
      BY <1>1, <1>2, <2>1, GrowthLemma
    <2>. QED BY <2>2 DEF Good
  <1>4. all = [u \in Types |-> PartsIn(e, all, u)]
    <2>1. Parting(e, all, Types)
      BY <1>3
    <2>. HIDE DEF all
    <2>. QED BY <2>1 DEF Parting
  <1>5. \A u : Reached(u, e) = all[u]
    BY Zenon DEF Reached, Parting, PartsIn
  <1>. HIDE DEF all
  <1>6. all[t] = PartsIn(e, all, t)
    BY <1>4, Zenon
  <1>7. {all[Part(t, i)] : i \in 1..t.len}
           = {Reached(Part(t, i), e) : i \in 1..t.len}
    BY <1>5
  <1>. QED BY <1>5, <1>6, <1>7 DEF PartsIn

\* The leaves of a type.
LeavesIn(g, t) ==
    IF IsLeaf(t) THEN {[path |-> <<>>, type |-> t, ahead |-> 0]}
    ELSE UNION {Inside(t, i, g[Part(t, i)]) : i \in 1..t.len}

Leafing(g, T) == g = [t \in T |-> LeavesIn(g, t)]

LEMMA LeavesLemma ==
    ASSUME NEW t \in Types
    PROVE  LeavesOf(t) =
              IF IsLeaf(t) THEN {[path |-> <<>>, type |-> t, ahead |-> 0]}
              ELSE UNION {Inside(t, i, LeavesOf(Part(t, i))) : i \in 1..t.len}
  <1>. DEFINE Good == {T \in SUBSET Types : Closed(T) /\ \E g : Leafing(g, T)}
              all  == CHOOSE g : Leafing(g, Types)
  <1>1. {} \in Good
    <2>1. Leafing([u \in {} |-> 0], {})
      BY DEF Leafing
    <2>. QED BY <2>1 DEF Closed
  <1>2. ASSUME NEW T \in Good, NEW u \in Types \ T,
               ~IsLeaf(u) => \A i \in 1..u.len : Part(u, i) \in T
        PROVE  T \cup {u} \in Good
    <2>1. PICK g : Leafing(g, T)
      OBVIOUS
    <2>2. Closed(T)
      OBVIOUS
    <2>. DEFINE new == LeavesIn(g, u)
                h   == [v \in T \cup {u} |-> IF v = u THEN new ELSE g[v]]
    <2>3. \A v \in T : h[v] = g[v]
      OBVIOUS
    <2>4. h[u] = LeavesIn(g, u) /\ h = [v \in T \cup {u} |-> h[v]]
      OBVIOUS
    <2>. HIDE DEF h, new
    <2>5. ASSUME NEW v \in T \cup {u}
          PROVE  h[v] = LeavesIn(h, v) /\ (~IsLeaf(v) => \A i \in 1..v.len : Part(v, i) \in T)
      <3>1. ~IsLeaf(v) => \A i \in 1..v.len : Part(v, i) \in T
        BY <1>2, <2>2 DEF Closed
      <3>2. h[v] = LeavesIn(g, v)
        BY <2>1, <2>3, <2>4 DEF Leafing
      <3>3. LeavesIn(g, v) = LeavesIn(h, v)
        BY <2>3, <3>1 DEF LeavesIn
      <3>. QED BY <3>1, <3>2, <3>3
    <2>6. Leafing(h, T \cup {u})
      BY <2>4, <2>5 DEF Leafing
    <2>7. Closed(T \cup {u})
      BY <2>5 DEF Closed
    <2>. QED BY <2>6, <2>7
  <1>3. \E g : Leafing(g, Types)
    <2>1. Good \in SUBSET (SUBSET Types)
      OBVIOUS
    <2>. HIDE DEF Good
    <2>2. Types \in Good
      BY <1>1, <1>2, <2>1, GrowthLemma
    <2>. QED BY <2>2 DEF Good
  <1>4. all = [u \in Types |-> LeavesIn(all, u)]
    <2>1. Leafing(all, Types)
      BY <1>3
    <2>. HIDE DEF all
    <2>. QED BY <2>1 DEF Leafing
  <1>5. \A u : LeavesOf(u) = all[u]
    BY Zenon DEF LeavesOf, Leafing, LeavesIn
  <1>. HIDE DEF all
  <1>6. all[t] = LeavesIn(all, t)
    BY <1>4, Zenon
  <1>7. {Inside(t, i, all[Part(t, i)]) : i \in 1..t.len}
           = {Inside(t, i, LeavesOf(Part(t, i))) : i \in 1..t.len}
    BY <1>5
  <1>. QED BY <1>5, <1>6, <1>7 DEF LeavesIn

\* The values of a type in every round.
FilledIn(addrs, g, t) ==
    [r \in Nat |-> IF IsLeaf(t) THEN LeafFromCorpus(t, r, addrs)
                   ELSE [i \in 1..t.len |-> g[Part(t, i)][r + Shift(t, i)]]]

Filling(addrs, g, T) == g = [t \in T |-> FilledIn(addrs, g, t)]

LEMMA ShiftLemma ==
    ASSUME NEW t \in Types, NEW i \in 1..t.len
    PROVE  Shift(t, i) \in Nat
  BY TypesAssumption DEF Shift

LEMMA FillLemma ==
    ASSUME NEW t \in Types, NEW r \in Nat, NEW addrs
    PROVE  FromCorpus(t, r, addrs) =
              IF IsLeaf(t) THEN LeafFromCorpus(t, r, addrs)
              ELSE [i \in 1..t.len |-> FromCorpus(Part(t, i), r + Shift(t, i), addrs)]
  <1>. DEFINE Good == {T \in SUBSET Types : Closed(T) /\ \E g : Filling(addrs, g, T)}
              all  == CHOOSE g : Filling(addrs, g, Types)
  <1>1. {} \in Good
    <2>1. Filling(addrs, [u \in {} |-> 0], {})
      BY DEF Filling
    <2>. QED BY <2>1 DEF Closed
  <1>2. ASSUME NEW T \in Good, NEW u \in Types \ T,
               ~IsLeaf(u) => \A i \in 1..u.len : Part(u, i) \in T
        PROVE  T \cup {u} \in Good
    <2>1. PICK g : Filling(addrs, g, T)
      OBVIOUS
    <2>2. Closed(T)
      OBVIOUS
    <2>. DEFINE new == FilledIn(addrs, g, u)
                h   == [v \in T \cup {u} |-> IF v = u THEN new ELSE g[v]]
    <2>3. \A v \in T : h[v] = g[v]
      OBVIOUS
    <2>4. h[u] = FilledIn(addrs, g, u) /\ h = [v \in T \cup {u} |-> h[v]]
      OBVIOUS
    <2>. HIDE DEF h, new
    <2>5. ASSUME NEW v \in T \cup {u}
          PROVE  h[v] = FilledIn(addrs, h, v) /\ (~IsLeaf(v) => \A i \in 1..v.len : Part(v, i) \in T)
      <3>1. ~IsLeaf(v) => \A i \in 1..v.len : Part(v, i) \in T
        BY <1>2, <2>2 DEF Closed
      <3>2. h[v] = FilledIn(addrs, g, v)
        BY <2>1, <2>3, <2>4 DEF Filling
      <3>3. FilledIn(addrs, g, v) = FilledIn(addrs, h, v)
        BY <2>3, <3>1 DEF FilledIn
      <3>. QED BY <3>1, <3>2, <3>3
    <2>6. Filling(addrs, h, T \cup {u})
      BY <2>4, <2>5 DEF Filling
    <2>7. Closed(T \cup {u})
      BY <2>5 DEF Closed
    <2>. QED BY <2>6, <2>7
  <1>3. \E g : Filling(addrs, g, Types)
    <2>1. Good \in SUBSET (SUBSET Types)
      OBVIOUS
    <2>. HIDE DEF Good
    <2>2. Types \in Good
      BY <1>1, <1>2, <2>1, GrowthLemma
    <2>. QED BY <2>2 DEF Good
  <1>4. all = [u \in Types |-> FilledIn(addrs, all, u)]
    <2>1. Filling(addrs, all, Types)
      BY <1>3
    <2>. HIDE DEF all
    <2>. QED BY <2>1 DEF Filling
  <1>5. \A u, q : FromCorpus(u, q, addrs) = all[u][q]
    BY Zenon DEF FromCorpus, Filling, FilledIn
  <1>. HIDE DEF all
  <1>6. all[t] = FilledIn(addrs, all, t)
    BY <1>4, Zenon
  <1>7. all[t][r] = IF IsLeaf(t) THEN LeafFromCorpus(t, r, addrs)
                    ELSE [i \in 1..t.len |-> all[Part(t, i)][r + Shift(t, i)]]
    BY <1>6 DEF FilledIn
  <1>8. [i \in 1..t.len |-> all[Part(t, i)][r + Shift(t, i)]]
           = [i \in 1..t.len |-> FromCorpus(Part(t, i), r + Shift(t, i), addrs)]
    BY <1>5
  <1>. QED BY <1>5, <1>7, <1>8

-----------------------------------------------------------------------------
(* The leaves of a value.                                                  *)

\* f has what is met on the way p into v.
Trail(f, v, p) == f = [k \in 0..Len(p) |-> IF k = 0 THEN v ELSE f[k - 1][p[k]]]

LeadsTo(v, p, w) == \E f : Trail(f, v, p) /\ f[Len(p)] = w

LEMMA LeadsNowhere ==
    ASSUME NEW v
    PROVE  LeadsTo(v, <<>>, v)
  <1>. DEFINE f == [k \in 0..0 |-> v]
  <1>1. Len(<<>>) = 0 /\ f[0] = v
    OBVIOUS
  <1>2. \A k \in 0..0 : k = 0
    OBVIOUS
  <1>3. f = [k \in 0..Len(<<>>) |-> IF k = 0 THEN v ELSE f[k - 1][<<>>[k]]]
    BY <1>1, <1>2
  <1>. HIDE DEF f
  <1>4. Trail(f, v, <<>>)
    BY <1>3, Zenon DEF Trail
  <1>. QED BY <1>1, <1>4, Zenon DEF LeadsTo

LEMMA LeadsInside ==
    ASSUME NEW v, NEW i \in Nat, NEW p \in Seq(Nat), NEW w, LeadsTo(v[i], p, w)
    PROVE  LeadsTo(v, <<i>> \o p, w)
  <1>1. PICK f : Trail(f, v[i], p) /\ f[Len(p)] = w
    BY DEF LeadsTo
  <1>. DEFINE q == <<i>> \o p
              n == Len(p)
              g == [k \in 0..(n + 1) |-> IF k = 0 THEN v ELSE f[k - 1]]
  <1>2. /\ n \in Nat /\ Len(q) = n + 1 /\ q[1] = i
        /\ \A k \in 1..n : q[k + 1] = p[k]
    OBVIOUS
  <1>3. \A k \in 0..n : f[k] = IF k = 0 THEN v[i] ELSE f[k - 1][p[k]]
    BY <1>1 DEF Trail
  <1>. HIDE DEF q, n
  <1>4. /\ g[0] = v /\ \A k \in 0..n : g[k + 1] = f[k]
        /\ g = [k \in 0..(n + 1) |-> g[k]]
    BY <1>2
  <1>. HIDE DEF g
  <1>5. ASSUME NEW k \in 0..(n + 1) PROVE g[k] = IF k = 0 THEN v ELSE g[k - 1][q[k]]
    <2>1. CASE k = 0
      BY <1>4, <2>1
    <2>2. CASE k = 1
      <3>1. k # 0 /\ k - 1 = 0 /\ 0 \in 0..n /\ k = 0 + 1
        BY <1>2, <2>2
      <3>2. g[k] = v[i]
        BY <1>3, <1>4, <3>1
      <3>. QED BY <1>2, <1>4, <2>2, <3>1, <3>2
    <2>3. CASE k \notin {0, 1}
      <3>. DEFINE j == k - 1
      <3>1. j \in 1..n /\ k = j + 1 /\ j - 1 \in 0..n /\ k # 0 /\ j # 0 /\ j = (j - 1) + 1 /\ j \in 0..n
        BY <1>2, <2>3
      <3>. HIDE DEF j
      <3>2. g[k] = f[j] /\ f[j] = f[j - 1][p[j]]
        BY <1>3, <1>4, <3>1
      <3>3. g[(j - 1) + 1] = f[j - 1]
        BY <1>4, <3>1
      <3>4. q[j + 1] = p[j]
        BY <1>2, <3>1
      <3>5. k - 1 = j
        BY DEF j
      <3>. QED BY <3>1, <3>2, <3>3, <3>4, <3>5
    <2>. QED BY <2>1, <2>2, <2>3
  <1>6. Trail(g, v, q)
    BY <1>2, <1>4, <1>5 DEF Trail
  <1>7. g[Len(q)] = w
    <2>1. n \in 0..n /\ f[n] = w
      BY <1>1, <1>2 DEF n
    <2>. QED BY <1>2, <1>4, <2>1
  <1>. QED BY <1>6, <1>7, Zenon DEF LeadsTo, q

LEMMA TrailUnique ==
    ASSUME NEW v, NEW p \in Seq(Nat), NEW f, NEW g, Trail(f, v, p), Trail(g, v, p)
    PROVE  f[Len(p)] = g[Len(p)]
  <1>. DEFINE n == Len(p)
              S == {k \in Nat : k <= n => f[k] = g[k]}
  <1>1. n \in Nat
    OBVIOUS
  <1>. HIDE DEF n
  <1>2. /\ \A k \in 0..n : f[k] = IF k = 0 THEN v ELSE f[k - 1][p[k]]
        /\ \A k \in 0..n : g[k] = IF k = 0 THEN v ELSE g[k - 1][p[k]]
    BY DEF Trail, n
  <1>3. 0 \in S
    BY <1>1, <1>2
  <1>4. ASSUME NEW k \in S PROVE k + 1 \in S
    <2>. SUFFICES ASSUME k + 1 <= n PROVE f[k + 1] = g[k + 1]
      OBVIOUS
    <2>1. k + 1 \in 0..n /\ k + 1 # 0 /\ (k + 1) - 1 = k /\ k <= n
      BY <1>1
    <2>. QED BY <1>2, <2>1
  <1>5. S = Nat
    <2>1. S \in SUBSET Nat
      OBVIOUS
    <2>. HIDE DEF S
    <2>. QED BY <1>3, <1>4, <2>1, SetInduction
  <1>. QED BY <1>1, <1>5 DEF n

LEMMA AtLemma ==
    ASSUME NEW v, NEW p \in Seq(Nat), NEW w, LeadsTo(v, p, w)
    PROVE  At(v, p) = w
  <1>. DEFINE at == CHOOSE f : Trail(f, v, p)
  <1>1. PICK f : Trail(f, v, p) /\ f[Len(p)] = w
    BY DEF LeadsTo
  <1>2. Trail(at, v, p)
    BY <1>1
  <1>3. At(v, p) = at[Len(p)]
    BY Zenon DEF At, Trail
  <1>. HIDE DEF at
  <1>. QED BY <1>1, <1>2, <1>3, TrailUnique

\* A leaf has the corpus's value of the round it is ahead to.
LeafAt(t, l) ==
    /\ l = [path |-> l.path, type |-> l.type, ahead |-> l.ahead]
    /\ l.type \in Types /\ IsLeaf(l.type) /\ l.ahead \in Nat /\ l.path \in Seq(Nat)
    /\ \A r \in Nat : \A addrs :
          LeadsTo(FromCorpus(t, r, addrs), l.path, LeafFromCorpus(l.type, r + l.ahead, addrs))

LEMMA LeafLemma ==
    ASSUME NEW type \in Types, NEW leaf \in LeavesOf(type)
    PROVE  LeafAt(type, leaf)
  <1>. DEFINE S == {t \in Types : \A l \in LeavesOf(t) : LeafAt(t, l)}
  <1>1. ASSUME NEW t \in Types, ~IsLeaf(t) => \A i \in 1..t.len : Part(t, i) \in S
        PROVE  t \in S
    <2>. SUFFICES ASSUME NEW l \in LeavesOf(t) PROVE LeafAt(t, l)
      OBVIOUS
    <2>1. CASE IsLeaf(t)
      <3>1. l = [path |-> <<>>, type |-> t, ahead |-> 0]
        BY <2>1, LeavesLemma
      <3>2. /\ l.path = <<>> /\ l.type = t /\ l.ahead = 0
            /\ l = [path |-> l.path, type |-> l.type, ahead |-> l.ahead]
        BY <3>1
      <3>3. ASSUME NEW r \in Nat, NEW addrs
            PROVE  LeadsTo(FromCorpus(t, r, addrs), l.path, LeafFromCorpus(l.type, r + l.ahead, addrs))
        <4>1. FromCorpus(t, r, addrs) = LeafFromCorpus(t, r, addrs)
          BY <2>1, FillLemma
        <4>2. r + l.ahead = r
          BY <3>2
        <4>. QED BY <3>2, <4>1, <4>2, LeadsNowhere, Zenon
      <3>4. <<>> \in Seq(Nat) /\ 0 \in Nat
        OBVIOUS
      <3>. QED BY <2>1, <3>2, <3>3, <3>4, Zenon DEF LeafAt
    <2>2. CASE ~IsLeaf(t)
      <3>1. PICK i \in 1..t.len : l \in Inside(t, i, LeavesOf(Part(t, i)))
        BY <2>2, LeavesLemma
      <3>2. PICK m \in LeavesOf(Part(t, i)) :
               l = [path |-> <<i>> \o m.path, type |-> m.type, ahead |-> Shift(t, i) + m.ahead]
        BY <3>1 DEF Inside
      <3>3. LeafAt(Part(t, i), m) /\ Part(t, i) \in Types
        BY <1>1, <2>2
      <3>4. /\ l.path = <<i>> \o m.path /\ l.type = m.type /\ l.ahead = Shift(t, i) + m.ahead
            /\ l = [path |-> l.path, type |-> l.type, ahead |-> l.ahead]
        BY <3>2
      <3>5. /\ m.type \in Types /\ IsLeaf(m.type) /\ m.ahead \in Nat /\ m.path \in Seq(Nat)
            /\ Shift(t, i) \in Nat /\ i \in Nat
        BY <3>3, ShiftLemma DEF LeafAt
      <3>6. l.path \in Seq(Nat) /\ l.ahead \in Nat
        BY <3>4, <3>5
      <3>7. ASSUME NEW r \in Nat, NEW addrs
            PROVE  LeadsTo(FromCorpus(t, r, addrs), l.path, LeafFromCorpus(l.type, r + l.ahead, addrs))
        <4>. DEFINE s     == r + Shift(t, i)
                    whole == FromCorpus(t, r, addrs)
                    value == LeafFromCorpus(m.type, s + m.ahead, addrs)
        <4>1. s \in Nat /\ s + m.ahead = r + l.ahead
          BY <3>4, <3>5
        <4>2. whole[i] = FromCorpus(Part(t, i), s, addrs)
          <5>1. whole = [k \in 1..t.len |-> FromCorpus(Part(t, k), r + Shift(t, k), addrs)]
            BY <2>2, FillLemma
          <5>. HIDE DEF whole
          <5>. QED BY <5>1
        <4>3. LeadsTo(FromCorpus(Part(t, i), s, addrs), m.path, value)
          BY <3>3, <4>1 DEF LeafAt
        <4>. HIDE DEF whole
        <4>4. LeadsTo(whole[i], m.path, value)
          BY <4>2, <4>3, Zenon
        <4>. HIDE DEF value
        <4>5. LeadsTo(whole, <<i>> \o m.path, value)
          BY <3>5, <4>4, LeadsInside
        <4>. QED BY <3>4, <4>1, <4>5, Zenon DEF whole, value
      <3>. QED BY <3>4, <3>5, <3>6, <3>7, Zenon DEF LeafAt
    <2>. QED BY <2>1, <2>2
  <1>2. S = Types
    <2>1. S \in SUBSET Types
      OBVIOUS
    <2>. HIDE DEF S
    <2>. QED BY <1>1, <2>1, TypeInduction
  <1>. QED BY <1>2

\* What stands at a leaf of the arguments of a round.
LEMMA ArgLeafLemma ==
    ASSUME NEW inputs \in Seq(Types), NEW l \in ArgLeaves(inputs)
    PROVE  /\ l.type \in Types /\ IsLeaf(l.type) /\ l.type.kind \in LeafKinds
           /\ l.type.len \in Nat /\ l.ahead \in Nat
           /\ \A r \in Nat : \A lead :
                 At(CorpusArgs(inputs, r, lead), l.path)
                    = LeafFromCorpus(l.type, r + l.ahead, AddressCorpus(lead))
  <1>1. PICK i \in DOMAIN inputs : \E m \in LeavesOf(inputs[i]) : l = [m EXCEPT !.path = <<i>> \o @]
    BY DEF ArgLeaves
  <1>2. PICK m \in LeavesOf(inputs[i]) : l = [m EXCEPT !.path = <<i>> \o @]
    BY <1>1
  <1>3. i \in Nat /\ inputs[i] \in Types
    OBVIOUS
  <1>4. LeafAt(inputs[i], m)
    BY <1>3, LeafLemma
  <1>5. /\ m = [path |-> m.path, type |-> m.type, ahead |-> m.ahead]
        /\ m.type \in Types /\ IsLeaf(m.type) /\ m.ahead \in Nat /\ m.path \in Seq(Nat)
    BY <1>4 DEF LeafAt
  <1>6. l.path = <<i>> \o m.path /\ l.type = m.type /\ l.ahead = m.ahead
    <2>1. PICK p, t, a : m = [path |-> p, type |-> t, ahead |-> a]
      BY <1>5
    <2>. QED BY <1>2, <2>1
  <1>7. ASSUME NEW r \in Nat, NEW lead
        PROVE  At(CorpusArgs(inputs, r, lead), l.path)
                  = LeafFromCorpus(l.type, r + l.ahead, AddressCorpus(lead))
    <2>. DEFINE args  == CorpusArgs(inputs, r, lead)
                value == LeafFromCorpus(m.type, r + m.ahead, AddressCorpus(lead))
    <2>1. args[i] = FromCorpus(inputs[i], r, AddressCorpus(lead))
      BY DEF CorpusArgs
    <2>2. LeadsTo(FromCorpus(inputs[i], r, AddressCorpus(lead)), m.path, value)
      BY <1>4 DEF LeafAt
    <2>. HIDE DEF args
    <2>3. LeadsTo(args[i], m.path, value)
      BY <2>1, <2>2, Zenon
    <2>. HIDE DEF value
    <2>4. LeadsTo(args, <<i>> \o m.path, value)
      BY <1>3, <1>5, <2>3, LeadsInside
    <2>5. <<i>> \o m.path \in Seq(Nat)
      BY <1>3, <1>5
    <2>6. At(args, <<i>> \o m.path) = value
      BY <2>4, <2>5, AtLemma
    <2>. QED BY <1>6, <2>6, Zenon DEF args, value
  <1>8. m.type.kind \in LeafKinds /\ m.type.len \in Nat
    BY <1>5, TypesAssumption
  <1>. QED BY <1>5, <1>6, <1>7, <1>8

-----------------------------------------------------------------------------
(* The values at one leaf.                                                 *)

LEMMA ResidueLemma ==
    ASSUME NEW a \in Nat
    PROVE  /\ a % 4 \in 0..3 /\ a % 2 \in 0..1
           /\ \A k \in 0..3 : \E r \in 0..3 : (r + a) % 4 = k
           /\ \A k \in 0..1 : \E r \in 0..1 : (r + a) % 2 = k
  <1>1. a % 4 \in 0..3 /\ a % 2 \in 0..1
    OBVIOUS
  <1>2. ASSUME NEW k \in 0..3 PROVE \E r \in 0..3 : (r + a) % 4 = k
    <2>1. CASE a % 4 <= k
      <3>1. k - (a % 4) \in 0..3 /\ ((k - (a % 4)) + a) % 4 = k
        BY <1>1, <2>1
      <3>. QED BY <3>1
    <2>2. CASE a % 4 > k
      <3>1. 4 + k - (a % 4) \in 0..3 /\ ((4 + k - (a % 4)) + a) % 4 = k
        BY <1>1, <2>2
      <3>. QED BY <3>1
    <2>. QED BY <1>1, <2>1, <2>2
  <1>3. ASSUME NEW k \in 0..1 PROVE \E r \in 0..1 : (r + a) % 2 = k
    <2>1. CASE a % 2 <= k
      <3>1. k - (a % 2) \in 0..1 /\ ((k - (a % 2)) + a) % 2 = k
        BY <1>1, <2>1
      <3>. QED BY <3>1
    <2>2. CASE a % 2 > k
      <3>1. 2 + k - (a % 2) \in 0..1 /\ ((2 + k - (a % 2)) + a) % 2 = k
        BY <1>1, <2>2
      <3>. QED BY <3>1
    <2>. QED BY <1>1, <2>1, <2>2
  <1>. QED BY <1>1, <1>2, <1>3

\* Four rounds in a row take every value of a list of four, or of two.
LEMMA PickAllLemma ==
    ASSUME NEW c, NEW a \in Nat, NEW n \in Nat, n >= 4
    PROVE  /\ Len(c) = 4 => {Pick(c, r + a) : r \in 0..(n - 1)} = {c[1], c[2], c[3], c[4]}
           /\ Len(c) = 2 => {Pick(c, r + a) : r \in 0..(n - 1)} = {c[1], c[2]}
  <1>1. ASSUME Len(c) = 4 PROVE {Pick(c, r + a) : r \in 0..(n - 1)} = {c[1], c[2], c[3], c[4]}
    <2>1. ASSUME NEW r \in 0..(n - 1) PROVE Pick(c, r + a) \in {c[1], c[2], c[3], c[4]}
      <3>1. r + a \in Nat
        OBVIOUS
      <3>2. (r + a) % 4 \in 0..3
        BY <3>1, ResidueLemma
      <3>3. ((r + a) % 4) + 1 \in {1, 2, 3, 4}
        BY <3>2
      <3>. QED BY <1>1, <3>3 DEF Pick
    <2>2. ASSUME NEW j \in {1, 2, 3, 4} PROVE \E r \in 0..(n - 1) : c[j] = Pick(c, r + a)
      <3>1. j - 1 \in 0..3 /\ (j - 1) + 1 = j
        OBVIOUS
      <3>2. PICK r \in 0..3 : (r + a) % 4 = j - 1
        BY <3>1, ResidueLemma
      <3>3. r \in 0..(n - 1)
        OBVIOUS
      <3>. QED BY <1>1, <3>1, <3>2, <3>3 DEF Pick
    <2>. QED BY <2>1, <2>2
  <1>2. ASSUME Len(c) = 2 PROVE {Pick(c, r + a) : r \in 0..(n - 1)} = {c[1], c[2]}
    <2>1. ASSUME NEW r \in 0..(n - 1) PROVE Pick(c, r + a) \in {c[1], c[2]}
      <3>1. r + a \in Nat
        OBVIOUS
      <3>2. (r + a) % 2 \in 0..1
        BY <3>1, ResidueLemma
      <3>3. ((r + a) % 2) + 1 \in {1, 2}
        BY <3>2
      <3>. QED BY <1>2, <3>3 DEF Pick
    <2>2. ASSUME NEW j \in {1, 2} PROVE \E r \in 0..(n - 1) : c[j] = Pick(c, r + a)
      <3>1. j - 1 \in 0..1 /\ (j - 1) + 1 = j
        OBVIOUS
      <3>2. PICK r \in 0..1 : (r + a) % 2 = j - 1
        BY <3>1, ResidueLemma
      <3>3. r \in 0..(n - 1)
        OBVIOUS
      <3>. QED BY <1>2, <3>1, <3>2, <3>3 DEF Pick
    <2>. QED BY <2>1, <2>2
  <1>. QED BY <1>1, <1>2

\* What four rounds or more put at a leaf, however many rounds it is ahead.
Held(t, lead) ==
    CASE t.kind = "bigint"    -> {1, 0, 2, BigCorpus[4]}
      [] t.kind = "uint"      -> {1, 0, 2, 7}
      [] t.kind = "int"       -> {1, 0, 2, -1}
      [] t.kind = "bool"      -> BOOLEAN
      [] t.kind = "string"    -> {"sequent", ""}
      [] t.kind = "bytes"     -> {"deadbeef", ""}
      [] t.kind = "bytearray" -> {lead, "zero", "beef", "cafef00d"}

Taken(t, a, n, lead) == {LeafFromCorpus(t, r + a, AddressCorpus(lead)) : r \in 0..(n - 1)}

LEMMA HeldLemma ==
    ASSUME NEW t, t.kind \in LeafKinds, ~Patterned(t),
           NEW a \in Nat, NEW n \in Nat, n >= 4, NEW lead
    PROVE  Taken(t, a, n, lead) = Held(t, lead)
  <1>1. CASE t.kind = "bigint"
    <2>1. \A q : LeafFromCorpus(t, q, AddressCorpus(lead)) = Pick(BigCorpus, q)
      BY <1>1 DEF LeafFromCorpus
    <2>2. Taken(t, a, n, lead) = {Pick(BigCorpus, r + a) : r \in 0..(n - 1)}
      BY <2>1, Zenon DEF Taken
    <2>3. Len(BigCorpus) = 4 /\ {BigCorpus[1], BigCorpus[2], BigCorpus[3], BigCorpus[4]} = {1, 0, 2, BigCorpus[4]}
      BY SMT DEF BigCorpus
    <2>4. {Pick(BigCorpus, r + a) : r \in 0..(n - 1)} = {BigCorpus[1], BigCorpus[2], BigCorpus[3], BigCorpus[4]}
      BY <2>3, PickAllLemma
    <2>5. Held(t, lead) = {1, 0, 2, BigCorpus[4]}
      BY <1>1 DEF Held
    <2>. QED BY <2>2, <2>3, <2>4, <2>5
  <1>2. CASE t.kind = "uint"
    <2>1. \A q : LeafFromCorpus(t, q, AddressCorpus(lead)) = Pick(SmallUintCorpus, q)
      BY <1>2 DEF LeafFromCorpus
    <2>2. Taken(t, a, n, lead) = {Pick(SmallUintCorpus, r + a) : r \in 0..(n - 1)}
      BY <2>1, Zenon DEF Taken
    <2>3. Len(SmallUintCorpus) = 4 /\ {SmallUintCorpus[1], SmallUintCorpus[2], SmallUintCorpus[3], SmallUintCorpus[4]} = {1, 0, 2, 7}
      BY DEF SmallUintCorpus
    <2>4. {Pick(SmallUintCorpus, r + a) : r \in 0..(n - 1)} = {SmallUintCorpus[1], SmallUintCorpus[2], SmallUintCorpus[3], SmallUintCorpus[4]}
      BY <2>3, PickAllLemma
    <2>5. Held(t, lead) = {1, 0, 2, 7}
      BY <1>2 DEF Held
    <2>. QED BY <2>2, <2>3, <2>4, <2>5
  <1>3. CASE t.kind = "int"
    <2>1. \A q : LeafFromCorpus(t, q, AddressCorpus(lead)) = Pick(SmallIntCorpus, q)
      BY <1>3 DEF LeafFromCorpus
    <2>2. Taken(t, a, n, lead) = {Pick(SmallIntCorpus, r + a) : r \in 0..(n - 1)}
      BY <2>1, Zenon DEF Taken
    <2>3. Len(SmallIntCorpus) = 4 /\ {SmallIntCorpus[1], SmallIntCorpus[2], SmallIntCorpus[3], SmallIntCorpus[4]} = {1, 0, 2, -1}
      BY DEF SmallIntCorpus
    <2>4. {Pick(SmallIntCorpus, r + a) : r \in 0..(n - 1)} = {SmallIntCorpus[1], SmallIntCorpus[2], SmallIntCorpus[3], SmallIntCorpus[4]}
      BY <2>3, PickAllLemma
    <2>5. Held(t, lead) = {1, 0, 2, -1}
      BY <1>3 DEF Held
    <2>. QED BY <2>2, <2>3, <2>4, <2>5
  <1>4. CASE t.kind = "string"
    <2>1. \A q : LeafFromCorpus(t, q, AddressCorpus(lead)) = Pick(StringCorpus, q)
      BY <1>4 DEF LeafFromCorpus
    <2>2. Taken(t, a, n, lead) = {Pick(StringCorpus, r + a) : r \in 0..(n - 1)}
      BY <2>1, Zenon DEF Taken
    <2>3. Len(StringCorpus) = 2 /\ {StringCorpus[1], StringCorpus[2]} = {"sequent", ""}
      BY DEF StringCorpus
    <2>4. {Pick(StringCorpus, r + a) : r \in 0..(n - 1)} = {StringCorpus[1], StringCorpus[2]}
      BY <2>3, PickAllLemma
    <2>5. Held(t, lead) = {"sequent", ""}
      BY <1>4 DEF Held
    <2>. QED BY <2>2, <2>3, <2>4, <2>5
  <1>5. CASE t.kind = "bytes"
    <2>1. \A q : LeafFromCorpus(t, q, AddressCorpus(lead)) = Pick(BytesCorpus, q)
      BY <1>5 DEF LeafFromCorpus
    <2>2. Taken(t, a, n, lead) = {Pick(BytesCorpus, r + a) : r \in 0..(n - 1)}
      BY <2>1, Zenon DEF Taken
    <2>3. Len(BytesCorpus) = 2 /\ {BytesCorpus[1], BytesCorpus[2]} = {"deadbeef", ""}
      BY DEF BytesCorpus
    <2>4. {Pick(BytesCorpus, r + a) : r \in 0..(n - 1)} = {BytesCorpus[1], BytesCorpus[2]}
      BY <2>3, PickAllLemma
    <2>5. Held(t, lead) = {"deadbeef", ""}
      BY <1>5 DEF Held
    <2>. QED BY <2>2, <2>3, <2>4, <2>5
  <1>6. CASE t.kind = "bytearray"
    <2>1. \A q : LeafFromCorpus(t, q, AddressCorpus(lead)) = Pick(AddressCorpus(lead), q)
      BY <1>6 DEF LeafFromCorpus, ByteArray, Patterned
    <2>2. Taken(t, a, n, lead) = {Pick(AddressCorpus(lead), r + a) : r \in 0..(n - 1)}
      BY <2>1, Zenon DEF Taken
    <2>3. Len(AddressCorpus(lead)) = 4 /\ {AddressCorpus(lead)[1], AddressCorpus(lead)[2], AddressCorpus(lead)[3], AddressCorpus(lead)[4]} = {lead, "zero", "beef", "cafef00d"}
      BY DEF AddressCorpus
    <2>4. {Pick(AddressCorpus(lead), r + a) : r \in 0..(n - 1)} = {AddressCorpus(lead)[1], AddressCorpus(lead)[2], AddressCorpus(lead)[3], AddressCorpus(lead)[4]}
      BY <2>3, PickAllLemma
    <2>5. Held(t, lead) = {lead, "zero", "beef", "cafef00d"}
      BY <1>6 DEF Held
    <2>. QED BY <2>2, <2>3, <2>4, <2>5
  <1>7. CASE t.kind = "bool"
    <2>1. \A q : LeafFromCorpus(t, q, AddressCorpus(lead)) = EvenRounds(q)
      BY <1>7 DEF LeafFromCorpus
    <2>2. Taken(t, a, n, lead) = {EvenRounds(r + a) : r \in 0..(n - 1)}
      BY <2>1, Zenon DEF Taken
    <2>3. \E r \in 0..(n - 1) : (r + a) % 2 = 0
      <3>1. PICK r \in 0..1 : (r + a) % 2 = 0
        BY ResidueLemma
      <3>2. r \in 0..(n - 1)
        OBVIOUS
      <3>. QED BY <3>1, <3>2
    <2>4. \E r \in 0..(n - 1) : (r + a) % 2 # 0
      <3>1. PICK r \in 0..1 : (r + a) % 2 = 1
        BY ResidueLemma
      <3>2. r \in 0..(n - 1)
        OBVIOUS
      <3>. QED BY <3>1, <3>2
    <2>5. {EvenRounds(r + a) : r \in 0..(n - 1)} = BOOLEAN
      BY <2>3, <2>4 DEF EvenRounds
    <2>6. Held(t, lead) = BOOLEAN
      BY <1>7 DEF Held
    <2>. QED BY <2>2, <2>5, <2>6
  <1>. QED BY <1>1, <1>2, <1>3, <1>4, <1>5, <1>6, <1>7 DEF LeafKinds

LEMMA NonZeroLemma ==
    ASSUME NEW l, l.type.kind \in LeafKinds, l.type.len \in Nat,
           l.ahead \in Nat, l.ahead <= AheadAtMost(l)
    PROVE  LeafFromCorpus(l.type, 2 + l.ahead, AddressCorpus(Deployer)) # ZeroLeaf(l.type)
  <1>. DEFINE t == l.type
              q == 2 + l.ahead
  <1>1. q \in {2, 3, 4} /\ (t.kind \in {"bool", "string", "bytes"} => q = 2)
    BY DEF AheadAtMost
  <1>2. (q % 4) + 1 \in {1, 3, 4} /\ (q = 2 => q % 2 = 0) /\ (q + 1) % 256 # 0
    <2>. HIDE DEF q
    <2>. QED BY <1>1
  <1>. HIDE DEF t, q
  <1>3. t.kind \in LeafKinds /\ t.len \in Nat
    BY DEF t
  <1>4. LeafFromCorpus(t, q, AddressCorpus(Deployer)) # ZeroLeaf(t)
    <2>1. CASE t.kind = "bigint"
      BY <1>2, <2>1, SMT DEF LeafFromCorpus, ZeroLeaf, Pick, BigCorpus
    <2>2. CASE t.kind = "uint"
      BY <1>2, <2>2 DEF LeafFromCorpus, ZeroLeaf, Pick, SmallUintCorpus
    <2>3. CASE t.kind = "int"
      BY <1>2, <2>3 DEF LeafFromCorpus, ZeroLeaf, Pick, SmallIntCorpus
    <2>4. CASE t.kind = "bool"
      BY <1>1, <1>2, <2>4 DEF LeafFromCorpus, ZeroLeaf, EvenRounds
    <2>5. CASE t.kind = "string"
      <3>1. LeafFromCorpus(t, q, AddressCorpus(Deployer)) = Pick(StringCorpus, q)
        BY <2>5 DEF LeafFromCorpus
      <3>2. ZeroLeaf(t) = ""
        BY <2>5 DEF ZeroLeaf
      <3>3. Pick(StringCorpus, q) = "sequent"
        <4>1. Len(StringCorpus) = 2 /\ StringCorpus[1] = "sequent"
          BY DEF StringCorpus
        <4>2. (q % 2) + 1 = 1
          BY <1>1, <1>2, <2>5
        <4>. QED BY <4>1, <4>2 DEF Pick
      <3>. QED BY <3>1, <3>2, <3>3
    <2>6. CASE t.kind = "bytes"
      <3>1. LeafFromCorpus(t, q, AddressCorpus(Deployer)) = Pick(BytesCorpus, q)
        BY <2>6 DEF LeafFromCorpus
      <3>2. ZeroLeaf(t) = ""
        BY <2>6 DEF ZeroLeaf
      <3>3. Pick(BytesCorpus, q) = "deadbeef"
        <4>1. Len(BytesCorpus) = 2 /\ BytesCorpus[1] = "deadbeef"
          BY DEF BytesCorpus
        <4>2. (q % 2) + 1 = 1
          BY <1>1, <1>2, <2>6
        <4>. QED BY <4>1, <4>2 DEF Pick
      <3>. QED BY <3>1, <3>2, <3>3
    <2>7. CASE t.kind = "bytearray" /\ t.len = AddressLength
      <3>1. LeafFromCorpus(t, q, AddressCorpus(Deployer)) = AddressCorpus(Deployer)[(q % 4) + 1]
        BY <2>7 DEF LeafFromCorpus, ByteArray, Pick, AddressCorpus
      <3>2. \A k \in {1, 3, 4} : AddressCorpus(Deployer)[k] # "zero"
        BY DeployerAssumption DEF AddressCorpus
      <3>3. ZeroLeaf(t) = "zero"
        BY <2>7 DEF ZeroLeaf
      <3>. QED BY <1>2, <3>1, <3>2, <3>3
    <2>8. CASE t.kind = "bytearray" /\ t.len # AddressLength
      <3>1. LeafFromCorpus(t, q, AddressCorpus(Deployer)) = (q + 1) % 256
        BY <2>8 DEF LeafFromCorpus, ByteArray
      <3>2. ZeroLeaf(t) = 0
        BY <2>8 DEF ZeroLeaf
      <3>. QED BY <1>2, <3>1, <3>2
    <2>. QED BY <1>3, <2>1, <2>2, <2>3, <2>4, <2>5, <2>6, <2>7, <2>8 DEF LeafKinds
  <1>. QED BY <1>4 DEF t, q

LEMMA SecondRoundLemma ==
    ASSUME NEW t, t.kind \in LeafKinds, ~Patterned(t), NEW lead
    PROVE  LeafFromCorpus(t, 1, AddressCorpus(lead)) = ZeroLeaf(t)
  <1>1. 1 % 4 = 1 /\ 1 % 2 = 1
    OBVIOUS
  <1>2. CASE t.kind = "bigint"
    BY <1>1, <1>2, SMT DEF LeafFromCorpus, ZeroLeaf, Pick, BigCorpus
  <1>3. CASE t.kind = "uint"
    BY <1>1, <1>3 DEF LeafFromCorpus, ZeroLeaf, Pick, SmallUintCorpus
  <1>4. CASE t.kind = "int"
    BY <1>1, <1>4 DEF LeafFromCorpus, ZeroLeaf, Pick, SmallIntCorpus
  <1>5. CASE t.kind = "bool"
    <2>1. LeafFromCorpus(t, 1, AddressCorpus(lead)) = EvenRounds(1)
      BY <1>5 DEF LeafFromCorpus
    <2>2. ZeroLeaf(t) = FALSE
      BY <1>5 DEF ZeroLeaf
    <2>3. EvenRounds(1) = FALSE
      BY <1>1 DEF EvenRounds
    <2>. QED BY <2>1, <2>2, <2>3, Zenon
  <1>6. CASE t.kind = "string"
    <2>1. LeafFromCorpus(t, 1, AddressCorpus(lead)) = Pick(StringCorpus, 1)
      BY <1>6 DEF LeafFromCorpus
    <2>2. ZeroLeaf(t) = ""
      BY <1>6 DEF ZeroLeaf
    <2>3. Pick(StringCorpus, 1) = ""
      <3>1. Len(StringCorpus) = 2 /\ StringCorpus[2] = ""
        BY DEF StringCorpus
      <3>2. (1 % 2) + 1 = 2
        BY <1>1
      <3>. QED BY <3>1, <3>2 DEF Pick
    <2>. QED BY <2>1, <2>2, <2>3
  <1>7. CASE t.kind = "bytes"
    <2>1. LeafFromCorpus(t, 1, AddressCorpus(lead)) = Pick(BytesCorpus, 1)
      BY <1>7 DEF LeafFromCorpus
    <2>2. ZeroLeaf(t) = ""
      BY <1>7 DEF ZeroLeaf
    <2>3. Pick(BytesCorpus, 1) = ""
      <3>1. Len(BytesCorpus) = 2 /\ BytesCorpus[2] = ""
        BY DEF BytesCorpus
      <3>2. (1 % 2) + 1 = 2
        BY <1>1
      <3>. QED BY <3>1, <3>2 DEF Pick
    <2>. QED BY <2>1, <2>2, <2>3
  <1>8. CASE t.kind = "bytearray"
    BY <1>1, <1>8 DEF LeafFromCorpus, ZeroLeaf, Pick, ByteArray, AddressCorpus, Patterned
  <1>. QED BY <1>2, <1>3, <1>4, <1>5, <1>6, <1>7, <1>8 DEF LeafKinds

LEMMA ReachesItself ==
    ASSUME NEW t \in Types
    PROVE  t \in Reached(t, FALSE)
  <1>1. CASE IsLeaf(t)
    <2>1. Reached(t, FALSE) = {t} \cup {}
      BY <1>1, ReachedLemma
    <2>. QED BY <2>1
  <1>2. CASE ~IsLeaf(t)
    <2>1. Reached(t, FALSE) = {t} \cup UNION {Reached(Part(t, i), FALSE) : i \in 1..t.len}
      BY <1>2, ReachedLemma
    <2>. QED BY <2>1
  <1>. QED BY <1>1, <1>2

\* A type whose values have no slice, no pattern and no array of several
\* elements has its zero value in the second round.
PlainType(t) ==
    \A u \in Reached(t, FALSE) :
        u.kind # "slice" /\ ~Patterned(u) /\ (u.kind = "array" => u.len = 1)

LEMMA PlainLemma ==
    ASSUME NEW type \in Types, PlainType(type), NEW lead
    PROVE  FromCorpus(type, 1, AddressCorpus(lead)) = ZeroOf(type)
  <1>. DEFINE S == {t \in Types : PlainType(t) => FromCorpus(t, 1, AddressCorpus(lead)) = ZeroOf(t)}
  <1>1. ASSUME NEW t \in Types, ~IsLeaf(t) => \A i \in 1..t.len : Part(t, i) \in S
        PROVE  t \in S
    <2>. SUFFICES ASSUME PlainType(t) PROVE FromCorpus(t, 1, AddressCorpus(lead)) = ZeroOf(t)
      OBVIOUS
    <2>1. t \in Reached(t, FALSE)
      BY ReachesItself
    <2>2. t.kind # "slice" /\ ~Patterned(t) /\ (t.kind = "array" => t.len = 1)
      BY <2>1 DEF PlainType
    <2>3. CASE IsLeaf(t)
      <3>1. t.kind \in LeafKinds
        BY <2>3, TypesAssumption
      <3>2. FromCorpus(t, 1, AddressCorpus(lead)) = LeafFromCorpus(t, 1, AddressCorpus(lead))
        BY <2>3, FillLemma
      <3>3. ZeroOf(t) = ZeroLeaf(t)
        BY <2>3, ZeroLemma
      <3>. QED BY <2>2, <3>1, <3>2, <3>3, SecondRoundLemma
    <2>4. CASE ~IsLeaf(t)
      <3>1. ASSUME NEW i \in 1..t.len
            PROVE  FromCorpus(Part(t, i), 1 + Shift(t, i), AddressCorpus(lead)) = ZeroOf(Part(t, i))
        <4>1. Reached(Part(t, i), FALSE) \subseteq Reached(t, FALSE)
          <5>1. Reached(t, FALSE) = {t} \cup UNION {Reached(Part(t, j), FALSE) : j \in 1..t.len}
            BY <2>4, ReachedLemma
          <5>. QED BY <5>1
        <4>2. PlainType(Part(t, i))
          BY <4>1 DEF PlainType
        <4>3. Shift(t, i) = 0
          BY <2>2 DEF Shift
        <4>4. FromCorpus(Part(t, i), 1, AddressCorpus(lead)) = ZeroOf(Part(t, i))
          BY <1>1, <2>4, <4>2
        <4>5. 1 + Shift(t, i) = 1
          BY <4>3
        <4>. QED BY <4>4, <4>5
      <3>2. FromCorpus(t, 1, AddressCorpus(lead))
               = [i \in 1..t.len |-> FromCorpus(Part(t, i), 1 + Shift(t, i), AddressCorpus(lead))]
        <4>1. 1 \in Nat
          OBVIOUS
        <4>. QED BY <2>4, <4>1, FillLemma, Zenon
      <3>3. ZeroOf(t) = [i \in 1..t.len |-> ZeroOf(Part(t, i))]
        BY <2>2, <2>4, ZeroLemma
      <3>. QED BY <3>1, <3>2, <3>3, Zenon
    <2>. QED BY <2>3, <2>4
  <1>2. S = Types
    <2>1. S \in SUBSET Types
      OBVIOUS
    <2>. HIDE DEF S
    <2>. QED BY <1>1, <2>1, TypeInduction
  <1>. QED BY <1>2

\* The encoder looks at less when slices are empty.
LEMMA EmptySlicesLemma ==
    ASSUME NEW type \in Types
    PROVE  Reached(type, TRUE) \subseteq Reached(type, FALSE)
  <1>. DEFINE S == {t \in Types : Reached(t, TRUE) \subseteq Reached(t, FALSE)}
  <1>1. ASSUME NEW t \in Types, ~IsLeaf(t) => \A i \in 1..t.len : Part(t, i) \in S
        PROVE  t \in S
    <2>1. t \in Reached(t, FALSE)
      BY ReachesItself
    <2>2. CASE IsLeaf(t) \/ t.kind = "slice"
      <3>1. Reached(t, TRUE) = {t}
        BY <2>2, ReachedLemma
      <3>. QED BY <2>1, <3>1
    <2>3. CASE ~IsLeaf(t) /\ t.kind # "slice"
      <3>1. Reached(t, TRUE) = {t} \cup UNION {Reached(Part(t, i), TRUE) : i \in 1..t.len}
        BY <2>3, ReachedLemma
      <3>2. Reached(t, FALSE) = {t} \cup UNION {Reached(Part(t, i), FALSE) : i \in 1..t.len}
        BY <2>3, ReachedLemma
      <3>3. \A i \in 1..t.len : Reached(Part(t, i), TRUE) \subseteq Reached(Part(t, i), FALSE)
        BY <1>1, <2>3
      <3>4. Reached(t, TRUE) \subseteq Reached(t, FALSE)
        BY <3>1, <3>2, <3>3
      <3>. QED BY <3>4
    <2>. QED BY <2>2, <2>3
  <1>2. S = Types
    <2>1. S \in SUBSET Types
      OBVIOUS
    <2>. HIDE DEF S
    <2>. QED BY <1>1, <2>1, TypeInduction
  <1>. QED BY <1>2

(***************************************************************************)
(* NonZeroDeploys (ResolveCreationCode): the arguments of the third round  *)
(* have no zero value in them, as long as the arrays leave room for that,  *)
(* and the search does not end in a revert without having tried them.      *)
(***************************************************************************)
THEOREM SearchTriesNonZero == Spec => []NonZeroDeploys
  <1>1. TypeOK /\ FirstThatDeploys => NonZeroDeploys
    <2>. SUFFICES ASSUME TypeOK, FirstThatDeploys, error = "reverted",
                         \A l \in ArgLeaves(abi.inputs) : l.ahead <= AheadAtMost(l)
                  PROVE  \E args \in CorpusArgSets(abi.inputs) :
                            NoZeroIn(args, abi.inputs) /\ ~Deploys(args)
      BY DEF NonZeroDeploys
    <2>. DEFINE args == CorpusArgs(abi.inputs, 2, Deployer)
    <2>1. ~Deploys(args)
      BY DEF FirstThatDeploys, ArgsOfRound
    <2>2. args \in CorpusArgSets(abi.inputs)
      <3>1. Len(BigCorpus) = 4
        BY SMT DEF BigCorpus
      <3>2. 2 \in 0..(Len(BigCorpus) - 1)
        BY <3>1
      <3>. QED BY <3>2, Zenon DEF CorpusArgSets
    <2>3. ASSUME NEW l \in ArgLeaves(abi.inputs) PROVE At(args, l.path) # ZeroLeaf(l.type)
      <3>1. abi.inputs \in Seq(Types)
        BY AbisAssumption DEF TypeOK
      <3>2. /\ l.type.kind \in LeafKinds /\ l.type.len \in Nat /\ l.ahead \in Nat
            /\ At(args, l.path) = LeafFromCorpus(l.type, 2 + l.ahead, AddressCorpus(Deployer))
        <4>1. 2 \in Nat
          OBVIOUS
        <4>. QED BY <3>1, <4>1, ArgLeafLemma
      <3>3. l.ahead <= AheadAtMost(l)
        OBVIOUS
      <3>. HIDE DEF args
      <3>. QED BY <3>2, <3>3, NonZeroLemma
    <2>4. NoZeroIn(args, abi.inputs)
      BY <2>3, Zenon DEF NoZeroIn
    <2>. QED BY <2>1, <2>2, <2>4, Zenon
  <1>. QED BY <1>1, PreparationTypeCorrect, SearchFindsTheFirst, PTL

\* A job's method is one of the ABI's.
LEMMA JobOfMethod ==
    ASSUME Prepared, NEW i \in DOMAIN jobs
    PROVE  /\ MethodNamed(jobs[i].name) \in ToSet(abi.methods)
           /\ MethodNamed(jobs[i].name).inputs \in Seq(Types)
           /\ RoundsFor(rounds) \in Nat
           /\ ToSet(jobs[i].variants) =
                 {CorpusArgs(MethodNamed(jobs[i].name).inputs, r, Caller)
                     : r \in 0..(RoundsFor(rounds) - 1)}
  <1>1. /\ \E g \in 1..Handled : jobs[i] = JobOf(g)
        /\ Handled \in 0..Len(Methods) /\ abi \in Abis /\ rounds \in RequestedRounds
    BY DEF Prepared, Building, BuiltUpTo, BuiltAs
  <1>2. Len(Methods) \in Nat /\ DOMAIN Methods = 1..Len(Methods)
    BY <1>1, MethodsLemma DEF Methods
  <1>3. PICK g \in DOMAIN Methods : jobs[i] = JobOf(g)
    BY <1>1, <1>2
  <1>4. Methods[g] \in ToSet(Methods) /\ jobs[i].name = Methods[g].name
    BY <1>3 DEF ToSet, JobOf
  <1>5. MethodNamed(jobs[i].name) \in ToSet(abi.methods)
    BY <1>4 DEF MethodNamed, Methods
  <1>6. \A m \in ToSet(abi.methods) : m.inputs \in Seq(Types)
    BY <1>1, AbisAssumption DEF ToSet
  <1>7. RoundsFor(rounds) \in Nat
    BY <1>1, AbisAssumption, RoundsLemma
  <1>8. EveryMethodOnce
    BY PreparedMeansOnce
  <1>. QED BY <1>5, <1>6, <1>7, <1>8 DEF EveryMethodOnce

\* The values at a leaf of a job's method.
LEMMA ValuesLemma ==
    ASSUME Prepared, NEW i \in DOMAIN jobs, NEW l \in ArgLeaves(MethodNamed(jobs[i].name).inputs)
    PROVE  /\ l.type.kind \in LeafKinds /\ l.ahead \in Nat
           /\ ValuesAt(jobs[i], l) = Taken(l.type, l.ahead, RoundsFor(rounds), Caller)
  <1>. DEFINE inputs == MethodNamed(jobs[i].name).inputs
              n      == RoundsFor(rounds)
  <1>1. /\ inputs \in Seq(Types) /\ n \in Nat
        /\ ToSet(jobs[i].variants) = {CorpusArgs(inputs, r, Caller) : r \in 0..(n - 1)}
    BY JobOfMethod
  <1>. HIDE DEF inputs, n
  <1>2. l \in ArgLeaves(inputs)
    BY DEF inputs
  <1>3. /\ l.type.kind \in LeafKinds /\ l.ahead \in Nat
        /\ \A r \in Nat : At(CorpusArgs(inputs, r, Caller), l.path)
                             = LeafFromCorpus(l.type, r + l.ahead, AddressCorpus(Caller))
    BY <1>1, <1>2, ArgLeafLemma
  <1>4. \A r \in 0..(n - 1) : r \in Nat
    OBVIOUS
  <1>5. ValuesAt(jobs[i], l) = {At(CorpusArgs(inputs, r, Caller), l.path) : r \in 0..(n - 1)}
    BY <1>1 DEF ValuesAt
  <1>6. ValuesAt(jobs[i], l) = Taken(l.type, l.ahead, n, Caller)
    BY <1>3, <1>4, <1>5 DEF Taken
  <1>. QED BY <1>3, <1>6 DEF n

(***************************************************************************)
(* KeysMeet (buildJobs, corpus.go): wherever two arguments of one kind     *)
(* stand, their functions are called with the same values there, so that   *)
(* storage keyed by what one is called with can be met by the other.       *)
(***************************************************************************)
THEOREM FunctionsMeet == Spec => []KeysMeet
  <1>1. Prepared => KeysMeet
    <2>. SUFFICES ASSUME Prepared, RoundsFor(rounds) >= 4,
                         NEW i \in DOMAIN jobs, NEW j \in DOMAIN jobs,
                         NEW k \in ArgLeaves(MethodNamed(jobs[i].name).inputs),
                         NEW l \in ArgLeaves(MethodNamed(jobs[j].name).inputs)
                  PROVE  LineUp(k, l, ValuesAt(jobs[i], k), ValuesAt(jobs[j], l))
      BY DEF KeysMeet
    <2>. DEFINE n == RoundsFor(rounds)
                v == ValuesAt(jobs[i], k)
                w == ValuesAt(jobs[j], l)
    <2>1. n \in Nat /\ n >= 4
      BY JobOfMethod
    <2>2. /\ k.type.kind \in LeafKinds /\ k.ahead \in Nat /\ v = Taken(k.type, k.ahead, n, Caller)
          /\ l.type.kind \in LeafKinds /\ l.ahead \in Nat /\ w = Taken(l.type, l.ahead, n, Caller)
      BY ValuesLemma
    <2>3. InReach(k, l) <=> k.ahead < l.ahead + n /\ l.ahead < k.ahead + n
      BY DEF InReach
    <2>. HIDE DEF n, v, w
    <2>4. /\ ~Patterned(k.type) => v = Held(k.type, Caller)
          /\ ~Patterned(l.type) => w = Held(l.type, Caller)
      BY <2>1, <2>2, HeldLemma
    <2>5. k.type = l.type /\ ~Patterned(k.type) => v = w
      BY <2>4
    <2>6. ASSUME k.type = l.type, InReach(k, l) PROVE v \cap w # {}
      <3>1. \A r \in 0..(n - 1) :
               /\ LeafFromCorpus(k.type, r + k.ahead, AddressCorpus(Caller)) \in v
               /\ LeafFromCorpus(l.type, r + l.ahead, AddressCorpus(Caller)) \in w
        BY <2>2, Zenon DEF Taken
      <3>2. PICK r, s \in 0..(n - 1) : r + k.ahead = s + l.ahead
        <4>1. CASE k.ahead <= l.ahead
          <5>1. /\ l.ahead - k.ahead \in 0..(n - 1) /\ 0 \in 0..(n - 1)
                /\ (l.ahead - k.ahead) + k.ahead = 0 + l.ahead
            BY <2>1, <2>2, <2>3, <2>6, <4>1
          <5>. QED BY <5>1
        <4>2. CASE l.ahead <= k.ahead
          <5>1. /\ k.ahead - l.ahead \in 0..(n - 1) /\ 0 \in 0..(n - 1)
                /\ 0 + k.ahead = (k.ahead - l.ahead) + l.ahead
            BY <2>1, <2>2, <2>3, <2>6, <4>2
          <5>. QED BY <5>1
        <4>. QED BY <2>2, <4>1, <4>2
      <3>3. LeafFromCorpus(k.type, r + k.ahead, AddressCorpus(Caller)) \in v \cap w
        BY <2>6, <3>1, <3>2
      <3>. QED BY <3>3
    <2>7. ASSUME {k.type.kind, l.type.kind} \subseteq Number PROVE {0, 1, 2} \subseteq v \cap w
      <3>1. ASSUME NEW t, t.kind \in Number
            PROVE  ~Patterned(t) /\ {0, 1, 2} \subseteq Held(t, Caller)
        <4>1. CASE t.kind = "bigint"
          BY <4>1 DEF Held, Patterned
        <4>2. CASE t.kind = "uint"
          BY <4>2 DEF Held, Patterned
        <4>3. CASE t.kind = "int"
          BY <4>3 DEF Held, Patterned
        <4>. QED BY <3>1, <4>1, <4>2, <4>3 DEF Number
      <3>2. {0, 1, 2} \subseteq v /\ {0, 1, 2} \subseteq w
        BY <2>4, <2>7, <3>1
      <3>. QED BY <3>2
    <2>8. ASSUME k.type = FixedBytes(AddressLength) PROVE Caller \in v
      <3>1. k.type.kind = "bytearray" /\ k.type.len = AddressLength
        BY <2>8 DEF FixedBytes
      <3>2. v = Held(k.type, Caller)
        BY <2>4, <3>1 DEF Patterned
      <3>3. Held(k.type, Caller) = {Caller, "zero", "beef", "cafef00d"}
        BY <3>1 DEF Held
      <3>. QED BY <3>2, <3>3
    <2>. QED BY <2>5, <2>6, <2>7, <2>8 DEF LineUp, v, w
  <1>. QED BY <1>1, AlwaysPrepared, PTL

(***************************************************************************)
(* FuzzCoversZero (buildJobs, SpecsFromABI): fuzzing skips what the zero-  *)
(* value calls skip, and makes them where the second round's arguments are *)
(* zero values throughout.                                                 *)
(***************************************************************************)
THEOREM FuzzingCoversTheFirstPass == Spec => []FuzzCoversZero
  <1>1. Prepared => FuzzCoversZero
    <2>. SUFFICES ASSUME Prepared PROVE FuzzCoversZero
      OBVIOUS
    <2>1. ASSUME NEW m \in ToSet(abi.methods), stage = "done", SpecSkipped(m)
          PROVE  m.name \in skipped
      <3>1. /\ abi \in Abis /\ rounds \in RequestedRounds /\ Handled = Len(Methods)
            /\ skipped = {Methods[g].name : g \in {d \in 1..Handled : ~Called(d)}}
        BY <2>1 DEF Prepared, Building, BuiltUpTo, BuiltAs
      <3>2. DOMAIN Methods = 1..Len(Methods)
        BY <3>1, MethodsLemma DEF Methods
      <3>3. PICK g \in 1..Handled : m = Methods[g]
        BY <3>1, <3>2 DEF ToSet, Methods
      <3>4. m.inputs \in Seq(Types)
        BY <3>1, AbisAssumption DEF ToSet
      <3>5. \A i \in DOMAIN m.inputs : m.inputs[i] \in Types
        BY <3>4
      <3>6. ~Packs(m.inputs, FALSE)
        BY <2>1, <3>5, EmptySlicesLemma DEF SpecSkipped, Packs
      <3>7. ~Called(g)
        BY <3>3, <3>6 DEF Called, CallsOf, Variants
      <3>. QED BY <3>1, <3>3, <3>7
    <2>2. ASSUME NEW i \in DOMAIN jobs, RoundsFor(rounds) >= 2,
                 Plain(MethodNamed(jobs[i].name).inputs)
          PROVE  SpecArgs(MethodNamed(jobs[i].name)) \in ToSet(jobs[i].variants)
      <3>. DEFINE inputs == MethodNamed(jobs[i].name).inputs
      <3>1. /\ inputs \in Seq(Types) /\ RoundsFor(rounds) \in Nat
            /\ ToSet(jobs[i].variants) =
                  {CorpusArgs(inputs, r, Caller) : r \in 0..(RoundsFor(rounds) - 1)}
        BY JobOfMethod
      <3>2. Plain(inputs) /\ SpecArgs(MethodNamed(jobs[i].name)) = ZeroArgs(inputs)
        BY <2>2 DEF SpecArgs
      <3>. HIDE DEF inputs
      <3>3. ASSUME NEW a \in DOMAIN inputs
            PROVE  FromCorpus(inputs[a], 1, AddressCorpus(Caller)) = ZeroOf(inputs[a])
        <4>1. inputs[a] \in Types
          BY <3>1
        <4>2. PlainType(inputs[a])
          BY <3>2 DEF Plain, PlainType
        <4>. QED BY <4>1, <4>2, PlainLemma
      <3>4. CorpusArgs(inputs, 1, Caller) = ZeroArgs(inputs)
        BY <3>3, Zenon DEF CorpusArgs, ZeroArgs
      <3>5. 1 \in 0..(RoundsFor(rounds) - 1)
        BY <2>2, <3>1
      <3>. QED BY <3>1, <3>2, <3>4, <3>5
    <2>. QED BY <2>1, <2>2, Zenon DEF FuzzCoversZero
  <1>. QED BY <1>1, AlwaysPrepared, PTL
=============================================================================
