--------------------------- MODULE EvaluatorProofs ---------------------------
(***************************************************************************)
(* Theorems of Evaluate, for any contract (whatever Run and Create do),    *)
(* any calldata, and any number of edges and workers.                      *)
(***************************************************************************)
EXTENDS Evaluator, ScenarioProofs

-----------------------------------------------------------------------------
(***************************************************************************)
(* What the locals of evalEdge mean at each of its stages.  No worker      *)
(* appears here: the facts are about an edge j, a frame f, the world under *)
(* it, and the frame that each step makes of it.                           *)
(***************************************************************************)

\* A record with the fields of a frame, whatever they hold.
AFrame(f) ==
    f \in [stage : {f.stage}, snap : {f.snap}, wi : {f.wi}, ri : {f.ri}, times : {f.times},
           left : {f.left}, before : {f.before}, after : {f.after}, imp : {f.imp}]

\* The variants frame f is at, and those already tried.
WCall(j, f) == WriterVariants(j)[f.wi]
RCall(j, f) == ReaderVariants(j)[f.ri]

Within(j, f) == f.wi \in 1..Len(WriterVariants(j)) /\ f.ri \in 1..Len(ReaderVariants(j))

Changing(j) == ChangingPairs(WriterVariants(j), ReaderVariants(j))

Tried(j, f) == \A p \in Changing(j) : f.wi < p[1] \/ (f.wi = p[1] /\ f.ri <= p[2])

\* Of the numbers N of runs, b is the least whose change is the largest.
Best(w, r, b, N) ==
    /\ b \in N
    /\ \A m \in N : Size(w, b, r) > Size(w, m, r)
                    \/ (Size(w, b, r) = Size(w, m, r) /\ b <= m)

\* A confirmed impact, its amplification measured for less than n runs, or to
\* the end.
Shown(w, r, imp) ==
    /\ Alone(r) # ReaderAfter(w, 1, r)
    /\ imp = [Confirm(Alone(r), ReaderAfter(w, 1, r), w, r)
                 EXCEPT !.maxRepeats = imp.maxRepeats, !.maxDelta = imp.maxDelta]

Below(n) == 1..(n - 1)

Growing(w, r, imp, n) ==
    /\ Shown(w, r, imp)
    /\ imp.delta # NoDelta /\ imp.maxDelta = <<Change(w, imp.maxRepeats, r)>>
    /\ Below(n) \subseteq Measured(w, r, MaxRepeats)
    /\ Best(w, r, imp.maxRepeats, Below(n))

Grown(w, r, imp) ==
    /\ Shown(w, r, imp)
    /\ imp.delta = NoDelta => imp.maxRepeats = 1 /\ imp.maxDelta = NoDelta
    /\ imp.delta # NoDelta => /\ imp.maxDelta = <<Change(w, imp.maxRepeats, r)>>
                              /\ Best(w, r, imp.maxRepeats, Measured(w, r, MaxRepeats))

\* The frame of a worker that evaluates edge j, over a world.
Searching(j, f) ==
    /\ f.imp = NoImpact
    /\ f.stage \in {"pair", "alone", "aloneRewind", "stack", "attack", "attackRewind", "compare"}
    /\ f.stage \in {"stack", "attack", "attackRewind", "compare"} => f.times = 1

Measuring(j, f) ==
    /\ f.stage \in {"stack", "attack", "attackRewind", "measure", "return"}
    /\ f.stage # "return" => f.times > 1 /\ Growing(WCall(j, f), RCall(j, f), f.imp, f.times)
    /\ f.stage = "return" => Grown(WCall(j, f), RCall(j, f), f.imp)

Places(j, f) ==
    /\ f.wi \in Nat \ {0} /\ f.ri \in Nat \ {0} /\ f.times \in 1..MaxRepeats
    /\ f.stage # "pair" => Within(j, f)
    /\ ReaderVariants(j) # <<>> => f.ri <= Len(ReaderVariants(j))
    /\ Tried(j, f)

Seen(j, f) ==
    /\ f.stage \notin {"pair", "alone"} => f.before = Alone(RCall(j, f))
    /\ f.stage \in {"attackRewind", "compare", "measure"} =>
          f.after = ReaderAfter(WCall(j, f), f.times, RCall(j, f))

Underneath(j, f, world) ==
    /\ f.stage = "alone" => world = Baseline.world
    /\ f.stage = "attack" =>
          /\ f.left \in 0..f.times
          /\ Reached(Fresh(world), WCall(j, f), f.times - f.left)

Judging(j, f, world) ==
    /\ j \in Jobs /\ AFrame(f)
    /\ Places(j, f) /\ Seen(j, f) /\ Underneath(j, f, world)
    /\ IF f.imp.confirmed THEN Measuring(j, f) ELSE Searching(j, f)

\* What the answer for an edge has to be.
Sound(j, imp) ==
    /\ imp = ImpactOf(WriterVariants(j), ReaderVariants(j), MaxRepeats)
    /\ imp.confirmed => Replays(imp)
    /\ ~imp.confirmed => NoPairChanges(j)

-----------------------------------------------------------------------------
LEMMA VariantsShape ==
    ASSUME NEW j
    PROVE  /\ Len(WriterVariants(j)) \in Nat /\ Len(ReaderVariants(j)) \in Nat
           /\ DOMAIN WriterVariants(j) = 1..Len(WriterVariants(j))
           /\ DOMAIN ReaderVariants(j) = 1..Len(ReaderVariants(j))
           /\ ReaderVariants(j) # <<>> => Len(ReaderVariants(j)) > 0
           /\ ReaderVariants(j) = <<>> => Len(ReaderVariants(j)) = 0
  <1>1. ASSUME NEW f
        PROVE  /\ Len(VariantsOf(f)) \in Nat
               /\ DOMAIN VariantsOf(f) = 1..Len(VariantsOf(f))
               /\ VariantsOf(f) # <<>> => Len(VariantsOf(f)) > 0
               /\ VariantsOf(f) = <<>> => Len(VariantsOf(f)) = 0
    <2>1. CASE f \in DOMAIN Variants
      <3>1. PICK S : VariantsOf(f) \in Seq(S)
        BY <2>1, EvaluatorAssumption DEF VariantsOf
      <3>. QED BY <3>1
    <2>2. CASE f \notin DOMAIN Variants
      BY <2>2 DEF VariantsOf
    <2>. QED BY <2>1, <2>2
  <1>. QED BY <1>1 DEF WriterVariants, ReaderVariants

LEMMA ChangingLemma ==
    ASSUME NEW j
    PROVE  /\ Changing(j) \subseteq Nat \X Nat
           /\ \A p \in Changing(j) : /\ p[1] \in 1..Len(WriterVariants(j))
                                     /\ p[2] \in 1..Len(ReaderVariants(j))
           /\ \A f : Within(j, f) =>
                 (<<f.wi, f.ri>> \in Changing(j)
                    <=> Alone(RCall(j, f)) # ReaderAfter(WCall(j, f), 1, RCall(j, f)))
  BY VariantsShape DEF Changing, ChangingPairs, Within, RCall, WCall

\* Outcomes differ as records exactly when evalEdge finds them changed.
LEMMA ChangedLemma ==
    ASSUME NEW r, NEW w, NEW n
    PROVE  Changed(Alone(r), ReaderAfter(w, n, r)) <=> Alone(r) # ReaderAfter(w, n, r)
  BY DEF Changed, Alone, ReaderAfter, Outcome

\* A change of value is that of two values.
LEMMA DeltaLemma ==
    ASSUME NEW w, NEW r, NEW imp, Shown(w, r, imp)
    PROVE  /\ imp.confirmed /\ imp.writerCall = <<w>> /\ imp.readerCall = <<r>>
           /\ imp.before = Alone(r) /\ imp.after = ReaderAfter(w, 1, r)
           /\ imp.delta = NoDelta \/ /\ IsValue(Alone(r)) /\ IsValue(ReaderAfter(w, 1, r))
                                     /\ imp.delta = <<Change(w, 1, r)>>
  <1>1. imp.delta = ValueDelta(Alone(r), ReaderAfter(w, 1, r))
    BY DEF Shown, Confirm
  <1>2. imp.confirmed /\ imp.writerCall = <<w>> /\ imp.readerCall = <<r>>
        /\ imp.before = Alone(r) /\ imp.after = ReaderAfter(w, 1, r)
    BY DEF Shown, Confirm
  <1>. QED BY <1>1, <1>2 DEF ValueDelta, Change

-----------------------------------------------------------------------------
(* The steps of evalEdge that run a call or rewind it.                     *)

\* What frames g and f of one edge share while the pair stays the same.
LEMMA SamePair ==
    ASSUME NEW j, NEW f, NEW g, g.wi = f.wi, g.ri = f.ri
    PROVE  /\ WCall(j, g) = WCall(j, f) /\ RCall(j, g) = RCall(j, f)
           /\ Within(j, g) <=> Within(j, f)
           /\ Tried(j, g) <=> Tried(j, f)
  BY DEF WCall, RCall, Within, Tried

LEMMA JudgeStart ==
    ASSUME NEW j \in Jobs, NEW world
    PROVE  Judging(j, EmptyFrame, world)
  <1>1. /\ EmptyFrame.wi = 1 /\ EmptyFrame.ri = 1 /\ EmptyFrame.times = 1
        /\ EmptyFrame.stage = "pair" /\ EmptyFrame.imp = NoImpact /\ AFrame(EmptyFrame)
    BY DEF EmptyFrame, AFrame
  <1>2. ~NoImpact.confirmed
    BY DEF NoImpact
  <1>3. Tried(j, EmptyFrame)
    BY <1>1, ChangingLemma, VariantsShape DEF Tried
  <1>. HIDE DEF EmptyFrame
  <1>4. Places(j, EmptyFrame)
    BY <1>1, <1>3, VariantsShape, EvaluatorAssumption DEF Places
  <1>. QED BY <1>1, <1>2, <1>4 DEF Judging, Seen, Underneath, Searching

LEMMA JudgeTry ==
    ASSUME NEW j, NEW f, NEW world, Judging(j, f, world), f.stage = "pair",
           ~(f.wi > Len(WriterVariants(j)) \/ ReaderVariants(j) = <<>>),
           NEW id
    PROVE  Judging(j, [f EXCEPT !.stage = "alone", !.snap = id], Baseline.world)
  <1>. DEFINE g == [f EXCEPT !.stage = "alone", !.snap = id]
  <1>1. /\ AFrame(g) /\ g.stage = "alone" /\ g.wi = f.wi /\ g.ri = f.ri /\ g.times = f.times
        /\ g.imp = f.imp
    BY DEF Judging, AFrame
  <1>. HIDE DEF g
  <1>2. Within(j, f)
    BY VariantsShape DEF Judging, Places, Within
  <1>. QED BY <1>1, <1>2, SamePair DEF g, Judging, Places, Seen, Underneath, Searching, Measuring

LEMMA JudgeAlone ==
    ASSUME NEW j, NEW f, NEW e, e = [world |-> e.world, journal |-> e.journal],
           Judging(j, f, e.world), f.stage = "alone", NEW world
    PROVE  LET res == Call(e, Caller, Contract, RCall(j, f))
           IN  Judging(j, [f EXCEPT !.stage = "aloneRewind", !.before = Outcome(res)], world)
  <1>. DEFINE res == Call(e, Caller, Contract, RCall(j, f))
              g   == [f EXCEPT !.stage = "aloneRewind", !.before = Outcome(res)]
  <1>1. Fresh(e.world) = Baseline
    BY BaselineShape DEF Judging, Underneath, Fresh
  <1>2. Outcome(res) = Alone(RCall(j, f))
    BY <1>1, CallFresh DEF Alone
  <1>. HIDE DEF res
  <1>3. /\ AFrame(g) /\ g.stage = "aloneRewind" /\ g.wi = f.wi /\ g.ri = f.ri
        /\ g.times = f.times /\ g.imp = f.imp /\ g.before = Outcome(res)
    BY DEF Judging, AFrame
  <1>. HIDE DEF g
  <1>4. Judging(j, g, world)
    BY <1>2, <1>3, SamePair DEF Judging, Places, Seen, Underneath, Searching, Measuring
  <1>. QED BY <1>4 DEF g, res

LEMMA JudgeRewindAlone ==
    ASSUME NEW j, NEW f, NEW old, NEW world, Judging(j, f, old), f.stage = "aloneRewind"
    PROVE  Judging(j, [f EXCEPT !.stage = "stack", !.times = 1], world)
  <1>. DEFINE g == [f EXCEPT !.stage = "stack", !.times = 1]
  <1>1. /\ AFrame(g) /\ g.stage = "stack" /\ g.wi = f.wi /\ g.ri = f.ri /\ g.times = 1
        /\ g.imp = f.imp /\ g.before = f.before
    BY DEF Judging, AFrame
  <1>2. 1 \in 1..MaxRepeats
    BY EvaluatorAssumption
  <1>. HIDE DEF g
  <1>3. Judging(j, g, world)
    BY <1>1, <1>2, SamePair DEF Judging, Places, Seen, Underneath, Searching, Measuring
  <1>. QED BY <1>3 DEF g

LEMMA JudgeStack ==
    ASSUME NEW j, NEW f, NEW world, Judging(j, f, world), f.stage = "stack", NEW id
    PROVE  Judging(j, [f EXCEPT !.stage = "attack", !.snap = id, !.left = f.times],
                   Baseline.world)
  <1>. DEFINE g == [f EXCEPT !.stage = "attack", !.snap = id, !.left = f.times]
  <1>1. /\ AFrame(g) /\ g.stage = "attack" /\ g.wi = f.wi /\ g.ri = f.ri /\ g.times = f.times
        /\ g.imp = f.imp /\ g.before = f.before /\ g.left = f.times
    BY DEF Judging, AFrame
  <1>2. Reached(Fresh(Baseline.world), WCall(j, f), 0)
    BY BaselineShape, ReachedFirst DEF Fresh
  <1>3. f.times \in 0..f.times /\ f.times - f.times = 0
    BY DEF Judging, Places
  <1>. HIDE DEF g
  <1>4. Judging(j, g, Baseline.world)
    BY <1>1, <1>2, <1>3, SamePair
    DEF Judging, Places, Seen, Underneath, Searching, Measuring
  <1>. QED BY <1>4 DEF g

LEMMA JudgeWriter ==
    ASSUME NEW j, NEW f, NEW e, e = [world |-> e.world, journal |-> e.journal],
           Judging(j, f, e.world), f.stage = "attack", f.left > 0
    PROVE  LET res == Call(e, Caller, Contract, WCall(j, f))
           IN  Judging(j, [f EXCEPT !.left = @ - 1], res.exec.world)
  <1>. DEFINE res == Call(e, Caller, Contract, WCall(j, f))
              g   == [f EXCEPT !.left = @ - 1]
  <1>1. /\ AFrame(g) /\ g.stage = "attack" /\ g.wi = f.wi /\ g.ri = f.ri /\ g.times = f.times
        /\ g.imp = f.imp /\ g.before = f.before /\ g.left = f.left - 1
    BY DEF Judging, AFrame
  <1>2. Fresh(res.exec.world) = Call(Fresh(e.world), Caller, Contract, WCall(j, f)).exec
    BY CallFresh
  <1>3. /\ f.times \in Nat /\ f.left \in 0..f.times
        /\ Reached(Fresh(e.world), WCall(j, f), f.times - f.left)
    BY DEF Judging, Places, Underneath
  <1>4. /\ f.times - f.left \in Nat /\ f.left - 1 \in 0..f.times
        /\ (f.times - f.left) + 1 = f.times - (f.left - 1)
    BY <1>3
  <1>5. Reached(Fresh(res.exec.world), WCall(j, f), f.times - (f.left - 1))
    BY <1>2, <1>3, <1>4, ReachedNext
  <1>. HIDE DEF g, res
  <1>6. Judging(j, g, res.exec.world)
    BY <1>1, <1>4, <1>5, SamePair
    DEF Judging, Places, Seen, Underneath, Searching, Measuring
  <1>. QED BY <1>6 DEF g, res

LEMMA JudgeVictim ==
    ASSUME NEW j, NEW f, NEW e, e = [world |-> e.world, journal |-> e.journal],
           Judging(j, f, e.world), f.stage = "attack", f.left = 0, NEW world
    PROVE  LET res == Call(e, Caller, Contract, RCall(j, f))
           IN  Judging(j, [f EXCEPT !.stage = "attackRewind", !.after = Outcome(res)], world)
  <1>. DEFINE res == Call(e, Caller, Contract, RCall(j, f))
              g   == [f EXCEPT !.stage = "attackRewind", !.after = Outcome(res)]
  <1>1. f.times \in Nat /\ f.times - f.left = f.times
    BY DEF Judging, Places
  <1>2. Stacked(WCall(j, f), f.times) = Fresh(e.world)
    BY <1>1, ReachedStacked DEF Judging, Underneath
  <1>3. Outcome(res) = ReaderAfter(WCall(j, f), f.times, RCall(j, f))
    BY <1>2, CallFresh DEF ReaderAfter
  <1>. HIDE DEF res
  <1>4. /\ AFrame(g) /\ g.stage = "attackRewind" /\ g.wi = f.wi /\ g.ri = f.ri
        /\ g.times = f.times /\ g.imp = f.imp /\ g.before = f.before
        /\ g.after = Outcome(res)
    BY DEF Judging, AFrame
  <1>. HIDE DEF g
  <1>5. Judging(j, g, world)
    BY <1>3, <1>4, SamePair DEF Judging, Places, Seen, Underneath, Searching, Measuring
  <1>. QED BY <1>5 DEF g, res

LEMMA JudgeRewindAttack ==
    ASSUME NEW j, NEW f, NEW old, NEW world, Judging(j, f, old), f.stage = "attackRewind"
    PROVE  Judging(j, [f EXCEPT !.stage = IF f.imp.confirmed THEN "measure" ELSE "compare"],
                   world)
  <1>. DEFINE s == IF f.imp.confirmed THEN "measure" ELSE "compare"
              g == [f EXCEPT !.stage = s]
  <1>1. /\ AFrame(g) /\ g.stage = s /\ g.wi = f.wi /\ g.ri = f.ri /\ g.times = f.times
        /\ g.imp = f.imp /\ g.before = f.before /\ g.after = f.after
    BY DEF Judging, AFrame
  <1>. HIDE DEF g
  <1>2. Judging(j, g, world)
    BY <1>1, SamePair DEF Judging, Places, Seen, Underneath, Searching, Measuring
  <1>. QED BY <1>2 DEF g

-----------------------------------------------------------------------------
(* The decisions: the next pair, one more run of the writer, or the end.   *)

LEMMA JudgeMiss ==
    ASSUME NEW j, NEW f, NEW world, Judging(j, f, world), f.stage = "compare",
           ~Changed(f.before, f.after)
    PROVE  Judging(j, NextPair([f EXCEPT !.stage = "pair"], Len(ReaderVariants(j))), world)
  <1>. DEFINE g == NextPair([f EXCEPT !.stage = "pair"], Len(ReaderVariants(j)))
  <1>1. /\ AFrame(g) /\ g.stage = "pair" /\ g.times = f.times /\ g.imp = f.imp
        /\ IF f.ri < Len(ReaderVariants(j)) THEN g.wi = f.wi /\ g.ri = f.ri + 1
                                            ELSE g.wi = f.wi + 1 /\ g.ri = 1
    BY DEF Judging, AFrame, NextPair
  <1>. HIDE DEF g
  <1>2. /\ Within(j, f) /\ f.times = 1 /\ Searching(j, f) /\ ~f.imp.confirmed
        /\ f.before = Alone(RCall(j, f))
        /\ f.after = ReaderAfter(WCall(j, f), f.times, RCall(j, f))
    BY DEF Judging, Places, Seen, Searching, Measuring
  <1>3. <<f.wi, f.ri>> \notin Changing(j)
    BY <1>2, ChangedLemma, ChangingLemma
  <1>4. Tried(j, g)
    <2>1. ASSUME NEW p \in Changing(j)
          PROVE  g.wi < p[1] \/ (g.wi = p[1] /\ g.ri <= p[2])
      <3>1. /\ p \in Nat \X Nat /\ p[2] <= Len(ReaderVariants(j))
            /\ f.wi < p[1] \/ (f.wi = p[1] /\ f.ri <= p[2])
        BY ChangingLemma, VariantsShape DEF Judging, Places, Tried
      <3>2. p # <<f.wi, f.ri>>
        BY <1>3
      <3>3. p[1] \in Nat /\ p[2] \in Nat /\ ~(p[1] = f.wi /\ p[2] = f.ri)
        BY <3>1, <3>2
      <3>4. f.wi \in Nat /\ f.ri \in Nat /\ Len(ReaderVariants(j)) \in Nat
        BY VariantsShape DEF Judging, Places
      <3>5. CASE f.ri < Len(ReaderVariants(j))
        BY <1>1, <3>1, <3>3, <3>4, <3>5
      <3>6. CASE ~(f.ri < Len(ReaderVariants(j)))
        <4>1. g.wi = f.wi + 1 /\ g.ri = 1
          BY <1>1, <3>6
        <4>2. f.wi < p[1]
          BY <3>1, <3>3, <3>4, <3>6
        <4>3. p[2] >= 1
          BY ChangingLemma
        <4>. QED BY <3>3, <3>4, <4>1, <4>2, <4>3
      <3>. QED BY <3>5, <3>6
    <2>. QED BY <2>1 DEF Tried
  <1>5. Places(j, g)
    BY <1>1, <1>4, VariantsShape DEF Judging, Places
  <1>6. Judging(j, g, world)
    BY <1>1, <1>2, <1>5 DEF Judging, Seen, Underneath, Searching
  <1>. QED BY <1>6 DEF g

LEMMA MeasuredLemma ==
    ASSUME NEW w, NEW r, NEW n \in 1..MaxRepeats,
           Below(n) \subseteq Measured(w, r, MaxRepeats)
    PROVE  /\ IsValue(ReaderAfter(w, n, r)) => Below(n + 1) \subseteq Measured(w, r, MaxRepeats)
           /\ ~IsValue(ReaderAfter(w, n, r)) => Measured(w, r, MaxRepeats) = Below(n)
  <1>0. MaxRepeats \in Nat \ {0}
    BY EvaluatorAssumption
  <1>1. ASSUME NEW m \in Below(n) PROVE IsValue(ReaderAfter(w, m, r))
    BY <1>0 DEF Below, Measured
  <1>2. ASSUME IsValue(ReaderAfter(w, n, r)), NEW k \in Below(n + 1)
        PROVE  k \in Measured(w, r, MaxRepeats)
    BY <1>0, <1>1, <1>2 DEF Below, Measured
  <1>3. ASSUME ~IsValue(ReaderAfter(w, n, r)), NEW k \in Measured(w, r, MaxRepeats)
        PROVE  k \in Below(n)
    BY <1>0, <1>3 DEF Below, Measured
  <1>. QED BY <1>2, <1>3

LEMMA GrownLemma ==
    ASSUME NEW w, NEW r, NEW imp, Growing(w, r, imp, MaxRepeats + 1)
    PROVE  Grown(w, r, imp)
  <1>1. Measured(w, r, MaxRepeats) = Below(MaxRepeats + 1)
    BY EvaluatorAssumption DEF Growing, Below, Measured
  <1>. QED BY <1>1 DEF Growing, Grown

\* What is left to do when the writer has been run f.times times.
LEMMA JudgeRepeat ==
    ASSUME NEW j, NEW f, NEW world, j \in Jobs, AFrame(f), Places(j, f), Within(j, f),
           f.before = Alone(RCall(j, f)), f.imp.confirmed,
           Growing(WCall(j, f), RCall(j, f), f.imp, f.times + 1)
    PROVE  Judging(j, Repeat(f), world)
  <1>. DEFINE g == Repeat(f)
  <1>0. MaxRepeats \in Nat \ {0} /\ f.times \in 1..MaxRepeats
    BY EvaluatorAssumption DEF Places
  <1>1. /\ AFrame(g) /\ g.wi = f.wi /\ g.ri = f.ri /\ g.imp = f.imp /\ g.before = f.before
        /\ IF f.times < MaxRepeats THEN g.stage = "stack" /\ g.times = f.times + 1
                                   ELSE g.stage = "return" /\ g.times = f.times
    BY DEF AFrame, Repeat
  <1>. HIDE DEF g
  <1>2. Places(j, g)
    BY <1>0, <1>1, SamePair DEF Places
  <1>3. Measuring(j, g)
    <2>1. CASE f.times < MaxRepeats
      BY <1>0, <1>1, <2>1, SamePair DEF Measuring
    <2>2. CASE ~(f.times < MaxRepeats)
      <3>1. f.times = MaxRepeats
        BY <1>0, <2>2
      <3>. QED BY <1>1, <2>2, <3>1, GrownLemma, SamePair DEF Measuring
    <2>. QED BY <2>1, <2>2
  <1>4. Judging(j, g, world)
    BY <1>1, <1>2, <1>3, SamePair DEF Judging, Seen, Underneath
  <1>. QED BY <1>4 DEF g

LEMMA JudgeHit ==
    ASSUME OutputsAreWords, NEW j, NEW f, NEW world, Judging(j, f, world),
           f.stage = "compare", Changed(f.before, f.after)
    PROVE  LET imp == Confirm(f.before, f.after, WCall(j, f), RCall(j, f))
               hit == [f EXCEPT !.imp = imp]
           IN  IF imp.delta = NoDelta THEN Judging(j, [hit EXCEPT !.stage = "return"], world)
               ELSE Judging(j, Repeat(hit), world)
  <1>. DEFINE w   == WCall(j, f)
              r   == RCall(j, f)
              imp == Confirm(f.before, f.after, w, r)
              hit == [f EXCEPT !.imp = imp]
              end == [hit EXCEPT !.stage = "return"]
  <1>1. /\ Within(j, f) /\ f.times = 1
        /\ f.before = Alone(r) /\ f.after = ReaderAfter(w, 1, r)
    BY DEF Judging, Places, Seen, Searching, Measuring
  <1>2. Alone(r) # ReaderAfter(w, 1, r)
    BY <1>1, ChangedLemma
  <1>3. Shown(w, r, imp) /\ imp.confirmed /\ imp.maxRepeats = 1 /\ imp.maxDelta = imp.delta
    BY <1>1, <1>2 DEF Shown, Confirm
  <1>4. /\ AFrame(hit) /\ hit.stage = "compare" /\ hit.wi = f.wi /\ hit.ri = f.ri
        /\ hit.times = 1 /\ hit.before = f.before /\ hit.imp = imp
    BY <1>1 DEF Judging, AFrame
  <1>. HIDE DEF imp, hit, w, r
  <1>5. Places(j, hit)
    BY <1>1, <1>4, SamePair DEF Judging, Places
  <1>6. WCall(j, hit) = w /\ RCall(j, hit) = r /\ Within(j, hit)
    BY <1>1, <1>4, SamePair DEF w, r
  <1>7. ASSUME imp.delta = NoDelta PROVE Judging(j, end, world)
    <2>1. /\ AFrame(end) /\ end.stage = "return" /\ end.wi = f.wi /\ end.ri = f.ri
          /\ end.times = 1 /\ end.before = f.before /\ end.imp = imp
      BY <1>4 DEF AFrame
    <2>. HIDE DEF end
    <2>2. Grown(w, r, imp)
      BY <1>3, <1>7 DEF Grown
    <2>3. WCall(j, end) = w /\ RCall(j, end) = r
      BY <2>1, SamePair DEF w, r
    <2>4. Places(j, end)
      BY <1>1, <2>1, SamePair DEF Judging, Places
    <2>. QED BY <1>1, <1>3, <2>1, <2>2, <2>3, <2>4
             DEF Judging, Seen, Underneath, Measuring
  <1>8. ASSUME imp.delta # NoDelta PROVE Judging(j, Repeat(hit), world)
    <2>1. IsValue(Alone(r)) /\ IsValue(ReaderAfter(w, 1, r)) /\ imp.delta = <<Change(w, 1, r)>>
      BY <1>3, <1>8, DeltaLemma
    <2>2. Below(1) = {} /\ Below(1 + 1) = {1} /\ 1 \in 1..MaxRepeats
      BY EvaluatorAssumption DEF Below
    <2>3. Below(1 + 1) \subseteq Measured(w, r, MaxRepeats)
      BY <2>1, <2>2, MeasuredLemma
    <2>4. Best(w, r, 1, Below(1 + 1))
      BY <2>2 DEF Best
    <2>5. Growing(w, r, imp, 1 + 1)
      BY <1>3, <1>8, <2>1, <2>3, <2>4 DEF Growing
    <2>6. hit.before = Alone(RCall(j, hit)) /\ j \in Jobs
      BY <1>1, <1>4, <1>6 DEF Judging
    <2>. QED BY <1>3, <1>4, <1>5, <1>6, <2>5, <2>6, JudgeRepeat
  <1>. QED BY <1>7, <1>8 DEF imp, hit, w, r

\* A larger change replaces the amplification and nothing else.
LEMMA ShownMore ==
    ASSUME NEW w, NEW r, NEW imp, NEW more, Shown(w, r, imp),
           more = [imp EXCEPT !.maxDelta = more.maxDelta, !.maxRepeats = more.maxRepeats]
    PROVE  Shown(w, r, more) /\ more.delta = imp.delta /\ more.confirmed
  <1>. DEFINE first == Confirm(Alone(r), ReaderAfter(w, 1, r), w, r)
  <1>1. imp = [first EXCEPT !.maxRepeats = imp.maxRepeats, !.maxDelta = imp.maxDelta]
    BY DEF Shown
  <1>2. more = [first EXCEPT !.maxRepeats = more.maxRepeats, !.maxDelta = more.maxDelta]
    BY <1>1 DEF Confirm
  <1>3. more.confirmed /\ more.delta = imp.delta
    BY <1>1, <1>2 DEF Confirm
  <1>. QED BY <1>2, <1>3 DEF Shown

LEMMA JudgeMeasure ==
    ASSUME OutputsAreWords, NEW j, NEW f, NEW world, Judging(j, f, world),
           f.stage = "measure"
    PROVE  LET d    == ValueOf(f.after) - ValueOf(f.before)
               more == [f EXCEPT !.imp.maxDelta = <<d>>, !.imp.maxRepeats = f.times]
           IN  IF ~IsValue(f.after) THEN Judging(j, [f EXCEPT !.stage = "return"], world)
               ELSE IF Larger(d, f.imp.maxDelta[1]) THEN Judging(j, Repeat(more), world)
               ELSE Judging(j, Repeat(f), world)
  <1>. DEFINE w    == WCall(j, f)
              r    == RCall(j, f)
              n    == f.times
              b    == f.imp.maxRepeats
              d    == ValueOf(f.after) - ValueOf(f.before)
              end  == [f EXCEPT !.stage = "return"]
              more == [f EXCEPT !.imp.maxDelta = <<d>>, !.imp.maxRepeats = f.times]
  <1>1. /\ j \in Jobs /\ AFrame(f) /\ Places(j, f) /\ Within(j, f)
        /\ f.before = Alone(r) /\ f.after = ReaderAfter(w, n, r)
        /\ f.imp.confirmed /\ n > 1 /\ Growing(w, r, f.imp, n)
    BY DEF Judging, Places, Seen, Searching, Measuring
  <1>2. n \in 1..MaxRepeats /\ MaxRepeats \in Nat
    BY <1>1, EvaluatorAssumption DEF Places
  <1>3. d = Change(w, n, r)
    BY <1>1 DEF Change
  <1>4. /\ Below(n) \subseteq Measured(w, r, MaxRepeats)
        /\ Best(w, r, b, Below(n)) /\ f.imp.maxDelta = <<Change(w, b, r)>>
    BY <1>1 DEF Growing
  <1>5. CASE ~IsValue(f.after)
    <2>1. /\ AFrame(end) /\ end.stage = "return" /\ end.wi = f.wi /\ end.ri = f.ri
          /\ end.times = n /\ end.before = f.before /\ end.imp = f.imp
      BY <1>1 DEF AFrame
    <2>. HIDE DEF end
    <2>2. Measured(w, r, MaxRepeats) = Below(n)
      BY <1>1, <1>2, <1>4, <1>5, MeasuredLemma
    <2>3. Grown(w, r, f.imp)
      BY <1>1, <2>2 DEF Growing, Grown
    <2>4. Judging(j, end, world)
      BY <1>1, <2>1, <2>3, SamePair DEF Judging, Places, Seen, Underneath, Measuring
    <2>. QED BY <1>5, <2>4 DEF end
  <1>6. CASE IsValue(f.after)
    <2>1. IsValue(Alone(r)) /\ IsValue(ReaderAfter(w, n, r))
      BY <1>1, <1>6, DeltaLemma DEF Growing
    <2>2. \A m \in Below(n) : IsValue(ReaderAfter(w, m, r))
      BY <1>2, <1>4 DEF Below, Measured
    <2>3. Size(w, n, r) \in Nat /\ \A m \in Below(n) : Size(w, m, r) \in Nat
      BY <2>1, <2>2, ValueLemma
    <2>4. Below(n + 1) \subseteq Measured(w, r, MaxRepeats)
      BY <1>2, <1>4, <2>1, MeasuredLemma
    <2>5. b \in Below(n) /\ Below(n + 1) = Below(n) \cup {n} /\ (\A m \in Below(n) : m < n)
          /\ n \in Nat
      BY <1>2, <1>4 DEF Below, Best
    <2>6. Larger(d, f.imp.maxDelta[1]) <=> Size(w, n, r) > Size(w, b, r)
      BY <1>3, <1>4 DEF Larger, Size
    <2>7. CASE Size(w, n, r) > Size(w, b, r)
      <3>1. Best(w, r, n, Below(n + 1))
        BY <1>4, <2>3, <2>5, <2>7 DEF Best
      <3>2. /\ AFrame(more) /\ more.stage = "measure" /\ more.wi = f.wi /\ more.ri = f.ri
            /\ more.times = n /\ more.before = f.before
            /\ more.imp = [f.imp EXCEPT !.maxDelta = <<d>>, !.maxRepeats = n]
        BY <1>1 DEF AFrame
      <3>. HIDE DEF more
      <3>3. Shown(w, r, more.imp) /\ more.imp.delta = f.imp.delta /\ more.imp.confirmed
            /\ more.imp.maxDelta = <<d>> /\ more.imp.maxRepeats = n
        <4>1. Shown(w, r, f.imp)
          BY <1>1 DEF Growing
        <4>2. more.imp.maxDelta = <<d>> /\ more.imp.maxRepeats = n
          BY <1>1, <3>2, <4>1 DEF Shown, Confirm
        <4>3. more.imp = [f.imp EXCEPT !.maxDelta = more.imp.maxDelta,
                                       !.maxRepeats = more.imp.maxRepeats]
          BY <3>2, <4>2
        <4>. HIDE DEF w, r
        <4>. DEFINE old == f.imp
                    new == more.imp
        <4>. HIDE DEF old, new
        <4>4. Shown(w, r, old) /\ new = [old EXCEPT !.maxDelta = new.maxDelta,
                                                   !.maxRepeats = new.maxRepeats]
          BY <4>1, <4>3 DEF old, new
        <4>5. Shown(w, r, new) /\ new.delta = old.delta /\ new.confirmed
          BY <4>4, ShownMore
        <4>. QED BY <4>2, <4>5 DEF old, new
      <3>4. Growing(w, r, more.imp, n + 1)
        BY <1>1, <1>3, <2>4, <3>1, <3>3 DEF Growing
      <3>5. WCall(j, more) = w /\ RCall(j, more) = r /\ Within(j, more) /\ Places(j, more)
        BY <1>1, <3>2, SamePair DEF Places
      <3>6. Judging(j, Repeat(more), world)
        BY <1>1, <3>2, <3>3, <3>4, <3>5, JudgeRepeat
      <3>. QED BY <1>6, <2>6, <2>7, <3>6 DEF more
    <2>8. CASE ~(Size(w, n, r) > Size(w, b, r))
      <3>1. Best(w, r, b, Below(n + 1))
        <4>1. b < n /\ b \in Nat /\ Size(w, b, r) \in Nat
          BY <1>2, <2>3, <2>5 DEF Below
        <4>2. Size(w, b, r) > Size(w, n, r) \/ (Size(w, b, r) = Size(w, n, r) /\ b <= n)
          BY <2>3, <2>5, <2>8, <4>1
        <4>. QED BY <1>4, <2>5, <4>2 DEF Best
      <3>2. Growing(w, r, f.imp, n + 1)
        BY <1>1, <2>4, <3>1 DEF Growing
      <3>3. Judging(j, Repeat(f), world)
        BY <1>1, <3>2, JudgeRepeat
      <3>. QED BY <1>6, <2>6, <2>8, <3>3
    <2>. QED BY <2>7, <2>8
  <1>. QED BY <1>5, <1>6

-----------------------------------------------------------------------------
(* What evalEdge returns.                                                  *)

LEMMA SoundMiss ==
    ASSUME NEW j, NEW f, NEW world, Judging(j, f, world), f.stage = "pair",
           f.wi > Len(WriterVariants(j)) \/ ReaderVariants(j) = <<>>
    PROVE  Sound(j, f.imp)
  <1>1. f.imp = NoImpact /\ ~f.imp.confirmed
    BY DEF Judging, Measuring, Searching, NoImpact
  <1>2. Changing(j) = {}
    <2>1. ASSUME NEW p \in Changing(j) PROVE FALSE
      <3>1. /\ p[1] \in 1..Len(WriterVariants(j)) /\ p[2] \in 1..Len(ReaderVariants(j))
            /\ f.wi <= p[1]
        BY ChangingLemma DEF Judging, Places, Tried
      <3>. QED BY <3>1, VariantsShape DEF Judging, Places
    <2>. QED BY <2>1
  <1>. QED BY <1>1, <1>2 DEF Sound, ImpactOf, ImpactOfFirst, Changing, NoPairChanges

\* The largest change is at least that of one run, and is that of one run only
\* when the writer need not be run again.
LEMMA GrownReplays ==
    ASSUME OutputsAreWords, NEW w, NEW r, NEW imp, Grown(w, r, imp)
    PROVE  Replays(imp)
  <1>. DEFINE b == imp.maxRepeats
              N == Measured(w, r, MaxRepeats)
  <1>1. Shown(w, r, imp)
    BY DEF Grown
  <1>2. /\ imp.writerCall = <<w>> /\ imp.readerCall = <<r>>
        /\ imp.before = Alone(r) /\ imp.after = ReaderAfter(w, 1, r)
    BY <1>1, DeltaLemma
  <1>3. imp.writerCall[1] = w /\ imp.readerCall[1] = r
    BY <1>2
  <1>4. Changed(imp.before, imp.after)
    BY <1>1, <1>2, ChangedLemma DEF Shown
  <1>5. ASSUME imp.delta # NoDelta
        PROVE  /\ imp.maxDelta = <<Change(w, b, r)>>
               /\ Magnitude(imp.maxDelta[1]) >= Magnitude(imp.delta[1])
               /\ b = 1 <=> imp.maxDelta = imp.delta
    <2>1. /\ IsValue(Alone(r)) /\ IsValue(ReaderAfter(w, 1, r))
          /\ imp.delta = <<Change(w, 1, r)>>
      BY <1>1, <1>5, DeltaLemma
    <2>2. imp.maxDelta = <<Change(w, b, r)>> /\ Best(w, r, b, N)
      BY <1>5 DEF Grown
    <2>3. b \in 1..MaxRepeats /\ IsValue(ReaderAfter(w, b, r)) /\ 1 \in N
      BY <2>1, <2>2, EvaluatorAssumption DEF Best, Measured
    <2>4. Size(w, b, r) \in Nat /\ Size(w, 1, r) \in Nat /\ b \in Nat /\ b >= 1
          /\ Change(w, b, r) \in Int /\ Change(w, 1, r) \in Int
      BY <2>1, <2>3, ValueLemma, EvaluatorAssumption
    <2>5. Size(w, b, r) > Size(w, 1, r) \/ (Size(w, b, r) = Size(w, 1, r) /\ b <= 1)
      BY <2>2, <2>3 DEF Best
    <2>6. Magnitude(imp.maxDelta[1]) = Size(w, b, r) /\ Magnitude(imp.delta[1]) = Size(w, 1, r)
      BY <2>1, <2>2 DEF Size
    <2>7. b = 1 => imp.maxDelta = imp.delta
      BY <2>1, <2>2
    <2>8. imp.maxDelta = imp.delta => b = 1
      BY <2>4, <2>5, <2>6
    <2>. QED BY <2>2, <2>4, <2>5, <2>6, <2>7, <2>8
  <1>. QED BY <1>2, <1>3, <1>4, <1>5 DEF Replays

LEMMA GrownIsImpact ==
    ASSUME OutputsAreWords, NEW w, NEW r, NEW imp, Grown(w, r, imp)
    PROVE  imp = ImpactOfPair(w, r, MaxRepeats)
  <1>. DEFINE first == Confirm(Alone(r), ReaderAfter(w, 1, r), w, r)
              b     == imp.maxRepeats
              N     == Measured(w, r, MaxRepeats)
              size  == [n \in N |-> Magnitude(Change(w, n, r))]
  <1>1. /\ imp = [first EXCEPT !.maxRepeats = b, !.maxDelta = imp.maxDelta]
        /\ imp.delta = first.delta
    BY DEF Grown, Shown, Confirm
  <1>2. CASE imp.delta = NoDelta
    <2>1. first.maxRepeats = 1 /\ first.maxDelta = NoDelta
      BY <1>1, <1>2 DEF Confirm
    <2>2. imp = first
      BY <1>1, <1>2, <2>1 DEF Grown, Confirm
    <2>. QED BY <1>1, <1>2, <2>2 DEF ImpactOfPair, WithAmplification
  <1>3. CASE imp.delta # NoDelta
    <2>1. imp.maxDelta = <<Change(w, b, r)>> /\ Best(w, r, b, N)
      BY <1>3 DEF Grown
    <2>2. DOMAIN size = N /\ N \subseteq Nat /\ \A n \in N : size[n] = Size(w, n, r)
      BY EvaluatorAssumption DEF Measured, Size
    <2>3. \A n \in N : Size(w, n, r) \in Int
      <3>1. IsValue(Alone(r)) /\ \A n \in N : IsValue(ReaderAfter(w, n, r))
        BY <1>3, DeltaLemma, EvaluatorAssumption DEF Grown, Measured
      <3>. QED BY <3>1, ValueLemma
    <2>4. \A m \in N : size[b] > size[m] \/ (size[b] = size[m] /\ b <= m)
      BY <2>1, <2>2 DEF Best
    <2>5. b \in N
      BY <2>1 DEF Best
    <2>. HIDE DEF size, N
    <2>6. LargestAt(size) = b
      BY <2>2, <2>3, <2>4, <2>5, LargestAtLemma
    <2>7. imp = Amplified(first, w, r, b)
      BY <1>1, <2>1 DEF Amplified
    <2>. QED BY <1>1, <1>3, <2>6, <2>7 DEF ImpactOfPair, WithAmplification, size, N
  <1>. QED BY <1>2, <1>3

LEMMA SoundHit ==
    ASSUME OutputsAreWords, NEW j, NEW f, NEW world, Judging(j, f, world),
           f.stage = "return"
    PROVE  Sound(j, f.imp)
  <1>. DEFINE w == WCall(j, f)
              r == RCall(j, f)
              p == <<f.wi, f.ri>>
  <1>1. Grown(w, r, f.imp) /\ Within(j, f) /\ f.imp.confirmed
    BY DEF Judging, Places, Searching, Measuring
  <1>2. p \in Changing(j)
    BY <1>1, ChangingLemma DEF Grown, Shown
  <1>3. FirstPair(Changing(j)) = p
    BY <1>2, ChangingLemma, FirstPairLemma DEF Judging, Places, Tried
  <1>4. f.imp = ImpactOfPair(w, r, MaxRepeats)
    BY <1>1, GrownIsImpact
  <1>5. f.imp = ImpactOf(WriterVariants(j), ReaderVariants(j), MaxRepeats)
    BY <1>2, <1>3, <1>4 DEF ImpactOf, ImpactOfFirst, Changing, WCall, RCall
  <1>. QED BY <1>1, <1>5, GrownReplays DEF Sound

-----------------------------------------------------------------------------
(* Machines: what a snapshot and its revert leave behind. *)

Deployed(w) == wpc[w] \in {"recv", "run", "send"}

\* A machine on which exactly one snapshot, of the fresh deployment, is open.
OpenOnce(w) ==
    /\ exec[w] = [world |-> exec[w].world, journal |-> <<Baseline.world>>]
    /\ frame[w].snap = 1

\* SameBaseline is not inductive: it does not say what the open snapshot holds
\* or that a worker between edges is outside the loops.
Machine(w) ==
    /\ AFrame(frame[w])
    /\ w > spawned => wpc[w] = "unborn"
    /\ wpc[w] # "run" => frame[w] = EmptyFrame
    /\ Deployed(w) /\ ~Running(w) => exec[w] = Baseline
    /\ Running(w) => OpenOnce(w)

Machines ==
    /\ spawned \in Nat
    /\ wpc \in [Workers -> Pool!WorkerPCs]
    /\ exec = [w \in Workers |-> exec[w]]
    /\ frame = [w \in Workers |-> frame[w]]
    /\ \A w \in Workers : Machine(w)

LEMMA MachinesInit == Init => Machines
  <1>. SUFFICES ASSUME Init PROVE Machines
    OBVIOUS
  <1>1. AFrame(EmptyFrame) /\ EmptyFrame.stage = "pair"
    BY DEF AFrame, EmptyFrame
  <1>2. \A w \in Workers : wpc[w] = "unborn" /\ frame[w] = EmptyFrame
    BY DEF Init, Pool!Init, Workers
  <1>. QED
    BY <1>1, <1>2
    DEF Init, Pool!Init, Machines, Machine, Workers, Pool!WorkerPCs, Deployed, Running

\* A step that keeps the machines, and may start a worker or move it on.
LEMMA MachinesKept ==
    ASSUME Machines, UNCHANGED <<exec, frame>>, spawned' \in Nat,
           wpc' \in [Workers -> Pool!WorkerPCs],
           \A w \in Workers :
              /\ w > spawned' => wpc'[w] = "unborn"
              /\ \/ wpc'[w] = wpc[w]
                 \/ wpc[w] # "run" /\ (Deployed(w)' => Deployed(w))
    PROVE  Machines'
  BY DEF Machines, Machine, Deployed, OpenOnce, Running, AFrame

LEMMA MachinesMain == Machines /\ Main => Machines'
  <1>. SUFFICES ASSUME Machines, Main PROVE Machines'
    OBVIOUS
  <1>1. UNCHANGED <<exec, frame>> /\ Pool!Main
    BY DEF Main
  <1>2. CASE Pool!Spawn
    <2>1. spawned' = spawned + 1 /\ wpc' = [wpc EXCEPT ![spawned + 1] = "new"]
      BY <1>2 DEF Pool!Spawn
    <2>2. wpc' \in [Workers -> Pool!WorkerPCs]
      BY <2>1 DEF Machines, Pool!WorkerPCs
    <2>3. spawned' \in Nat
      BY <2>1 DEF Machines
    <2>4. ASSUME NEW w \in Workers
          PROVE  /\ w > spawned' => wpc'[w] = "unborn"
                 /\ \/ wpc'[w] = wpc[w]
                    \/ wpc[w] = "unborn" /\ wpc'[w] = "new"
      <3>1. w \in Int
        BY DEF Workers, Pool!Workers
      <3>. QED BY <2>1, <3>1 DEF Machines, Machine
    <2>. QED BY <1>1, <2>2, <2>3, <2>4, MachinesKept DEF Deployed
  <1>3. CASE ~Pool!Spawn
    <2>1. wpc' = wpc /\ spawned' = spawned
      BY <1>1, <1>3
      DEF Pool!Main, Pool!Enter, Pool!ProbeNew, Pool!ProbeDeploy, Pool!Fill, Pool!CloseJobs,
          Pool!Spawned, Pool!Wait, Pool!CloseRes, Pool!CloseErr, Pool!CheckErr,
          Pool!Collect, Pool!Sort, Pool!workerVars, Pool!mainVars
    <2>. QED BY <1>1, <2>1, MachinesKept DEF Machines, Machine
  <1>. QED BY <1>2, <1>3

\* The pool's steps of one worker but the deployment and the edge itself.
PoolStep(w) == NewMachine(w) \/ SendError(w) \/ TakeEdge(w) \/ SendImpact(w) \/ Exit(w)

LEMMA MachinesPoolStep ==
    ASSUME Machines, NEW w \in Workers, PoolStep(w)
    PROVE  Machines'
  <1>1. UNCHANGED <<exec, frame, spawned>> /\ wpc[w] # "run" /\ wpc[w] # "unborn"
    BY DEF PoolStep, NewMachine, SendError, TakeEdge, SendImpact, Exit, Pool!NewExecutor,
           Pool!SendError, Pool!TakeJob, Pool!SendResult, Pool!Done, Pool!mainVars
  <1>2. PICK s \in {"deploy", "newErr", "exit", "recv", "run", "gone"} :
           /\ wpc' = [wpc EXCEPT ![w] = s]
           /\ s \in {"recv", "run"} => Deployed(w)
    BY DEF PoolStep, NewMachine, SendError, TakeEdge, SendImpact, Exit, Pool!NewExecutor,
           Pool!SendError, Pool!TakeJob, Pool!SendResult, Pool!Done, Deployed
  <1>3. wpc' \in [Workers -> Pool!WorkerPCs] /\ wpc'[w] = s
        /\ \A v \in Workers \ {w} : wpc'[v] = wpc[v]
    BY <1>2 DEF Machines, Pool!WorkerPCs
  <1>. QED BY <1>1, <1>2, <1>3, MachinesKept DEF Machines, Machine, Deployed

LEMMA MachinesDeploy ==
    ASSUME Machines, NEW w \in Workers, DeployCopy(w)
    PROVE  Machines'
  <1>1. UNCHANGED <<frame, spawned>> /\ wpc[w] = "deploy"
        /\ exec' = [exec EXCEPT ![w] = Baseline]
    BY DEF DeployCopy, Pool!DeployCopy, Pool!mainVars, Baseline
  <1>2. PICK s \in {"recv", "deployErr"} : wpc' = [wpc EXCEPT ![w] = s]
    BY DEF DeployCopy, Pool!DeployCopy
  <1>3. wpc' \in [Workers -> Pool!WorkerPCs] /\ wpc'[w] = s
        /\ \A v \in Workers \ {w} : wpc'[v] = wpc[v]
    BY <1>2 DEF Machines, Pool!WorkerPCs
  <1>4. exec'[w] = Baseline /\ (\A v \in Workers \ {w} : exec'[v] = exec[v])
        /\ exec' = [v \in Workers |-> exec'[v]]
    BY <1>1 DEF Machines
  <1>5. ~Running(w)
    BY <1>1 DEF Machines, Machine, Running, EmptyFrame
  <1>. QED BY <1>1, <1>3, <1>4, <1>5 DEF Machines, Machine, Deployed, OpenOnce, Running, AFrame

\* A step of evalEdge changes the machine and the frame of one worker.
EdgeStep(w) ==
    /\ wpc[w] = "run" /\ spawned' = spawned
    /\ exec' = [exec EXCEPT ![w] = exec'[w]]
    /\ frame' = [frame EXCEPT ![w] = frame'[w]]
    /\ AFrame(frame'[w])

LEMMA MachinesEdgeStep ==
    ASSUME Machines, NEW w \in Workers, EdgeStep(w),
           \/ wpc' = wpc
           \/ wpc' = [wpc EXCEPT ![w] = "send"] /\ frame'[w] = EmptyFrame,
           IF Running(w)' THEN OpenOnce(w)' ELSE exec'[w] = Baseline
    PROVE  Machines'
  <1>1. /\ wpc' \in [Workers -> Pool!WorkerPCs]
        /\ \A v \in Workers \ {w} : wpc'[v] = wpc[v]
        /\ wpc'[w] \in {"run", "send"} /\ (wpc'[w] = "send" => frame'[w] = EmptyFrame)
    BY DEF Machines, Pool!WorkerPCs, EdgeStep
  <1>2. /\ exec' = [v \in Workers |-> exec'[v]]
        /\ frame' = [v \in Workers |-> frame'[v]]
        /\ \A v \in Workers \ {w} : exec'[v] = exec[v] /\ frame'[v] = frame[v]
    BY DEF Machines, EdgeStep
  <1>3. Machine(w)'
    BY <1>1 DEF Machines, Machine, Deployed, EdgeStep
  <1>4. ASSUME NEW v \in Workers \ {w} PROVE Machine(v)'
    BY <1>1, <1>2 DEF Machines, Machine, Deployed, OpenOnce, Running, EdgeStep, AFrame
  <1>. QED BY <1>1, <1>2, <1>3, <1>4 DEF Machines, EdgeStep

\* What a step of evalEdge may count on.
LEMMA MachinesAt ==
    ASSUME Machines, NEW w \in Workers, wpc[w] = "run"
    PROVE  /\ AFrame(frame[w])
           /\ Running(w) => OpenOnce(w)
           /\ ~Running(w) => exec[w] = Baseline
           /\ exec = [v \in Workers |-> exec[v]]
           /\ frame = [v \in Workers |-> frame[v]]
  BY DEF Machines, Machine, Deployed

\* A snapshot is taken of the fresh deployment.
LEMMA MachinesSnapshot ==
    ASSUME Machines, NEW w \in Workers, TryPair(w) \/ StartStack(w)
    PROVE  Machines'
  <1>1. /\ wpc[w] = "run" /\ UNCHANGED <<wpc, spawned>> /\ ~Running(w)
        /\ exec' = [exec EXCEPT ![w] = Snapshot(exec[w])]
    BY DEF TryPair, StartStack, At, Running, poolVars
  <1>2. exec[w] = Baseline
    BY <1>1, MachinesAt
  <1>3. exec'[w] = [world |-> Baseline.world, journal |-> <<Baseline.world>>]
        /\ SnapshotId(exec[w]) = 1
    BY <1>1, <1>2, MachinesAt, SnapshotLemma
  <1>4. /\ frame' = [frame EXCEPT ![w] = frame'[w]] /\ AFrame(frame'[w])
        /\ frame'[w].stage \in {"alone", "attack"} /\ frame'[w].snap = 1
    <2>1. CASE TryPair(w)
      BY <1>1, <1>3, <2>1, MachinesAt DEF TryPair, AFrame
    <2>2. CASE StartStack(w)
      BY <1>1, <1>3, <2>2, MachinesAt DEF StartStack, AFrame
    <2>. QED BY <2>1, <2>2
  <1>5. Running(w)' /\ OpenOnce(w)'
    BY <1>3, <1>4 DEF Running, OpenOnce
  <1>. QED BY <1>1, <1>3, <1>4, <1>5, MachinesAt, MachinesEdgeStep DEF EdgeStep

\* A call keeps the journal.
LEMMA MachinesCall ==
    ASSUME Machines, NEW w \in Workers, RunReaderAlone(w) \/ RunWriter(w) \/ RunVictim(w)
    PROVE  Machines'
  <1>1. /\ wpc[w] = "run" /\ UNCHANGED <<wpc, spawned>> /\ Running(w)
    BY DEF RunReaderAlone, RunWriter, RunVictim, At, Running, poolVars
  <1>2. PICK input : exec' = [exec EXCEPT ![w] = CallAs(w, input).exec]
    BY DEF RunReaderAlone, RunWriter, RunVictim
  <1>3. OpenOnce(w)
    BY <1>1, MachinesAt
  <1>4. exec[w] = [world |-> exec[w].world, journal |-> exec[w].journal]
        /\ exec[w].journal = <<Baseline.world>>
    BY <1>3 DEF OpenOnce
  <1>5. exec'[w] = CallAs(w, input).exec /\ exec' = [exec EXCEPT ![w] = exec'[w]]
    BY <1>1, <1>2, MachinesAt
  <1>6. exec'[w] = [world |-> exec'[w].world, journal |-> <<Baseline.world>>]
    BY <1>4, <1>5, CallKeepsJournal DEF CallAs
  <1>7. /\ frame' = [frame EXCEPT ![w] = frame'[w]] /\ AFrame(frame'[w])
        /\ frame'[w].stage \in {"aloneRewind", "attack", "attackRewind"}
        /\ frame'[w].snap = frame[w].snap
    <2>1. CASE RunReaderAlone(w)
      BY <1>1, <2>1, MachinesAt DEF RunReaderAlone, AFrame
    <2>2. CASE RunWriter(w)
      BY <1>1, <2>2, MachinesAt DEF RunWriter, AFrame, At
    <2>3. CASE RunVictim(w)
      BY <1>1, <2>3, MachinesAt DEF RunVictim, AFrame
    <2>. QED BY <2>1, <2>2, <2>3
  <1>8. Running(w)' /\ OpenOnce(w)'
    BY <1>3, <1>6, <1>7 DEF Running, OpenOnce
  <1>. QED BY <1>1, <1>5, <1>7, <1>8, MachinesEdgeStep DEF EdgeStep

\* The revert restores the fresh deployment, whatever the calls did.
LEMMA MachinesRewind ==
    ASSUME Machines, NEW w \in Workers, RewindAlone(w) \/ RewindAttack(w)
    PROVE  Machines'
  <1>1. /\ wpc[w] = "run" /\ UNCHANGED <<wpc, spawned>> /\ Running(w)
        /\ exec' = [exec EXCEPT ![w] = RevertToSnapshot(exec[w], frame[w].snap)]
    BY DEF RewindAlone, RewindAttack, At, Running, poolVars, Rewound
  <1>2. RevertToSnapshot(exec[w], frame[w].snap) = Baseline
    BY <1>1, MachinesAt, RevertLemma DEF OpenOnce
  <1>3. exec'[w] = Baseline /\ exec' = [exec EXCEPT ![w] = exec'[w]]
    BY <1>1, <1>2, MachinesAt
  <1>4. /\ frame' = [frame EXCEPT ![w] = frame'[w]] /\ AFrame(frame'[w])
        /\ frame'[w].stage \in {"stack", "measure", "compare"}
    <2>1. CASE RewindAlone(w)
      BY <1>1, <2>1, MachinesAt DEF RewindAlone, AFrame
    <2>2. CASE RewindAttack(w)
      BY <1>1, <2>2, MachinesAt DEF RewindAttack, AFrame
    <2>. QED BY <2>1, <2>2
  <1>. QED BY <1>1, <1>3, <1>4, MachinesEdgeStep DEF EdgeStep, Running

LEMMA RepeatFrame ==
    ASSUME NEW f, AFrame(f)
    PROVE  /\ AFrame(Repeat(f)) /\ Repeat(f).stage \in {"stack", "return"}
           /\ Repeat(f).imp = f.imp /\ Repeat(f).wi = f.wi /\ Repeat(f).ri = f.ri
  BY DEF Repeat, AFrame

\* A decision touches no machine.
LEMMA MachinesDecide ==
    ASSUME Machines, NEW w \in Workers, Compare(w) \/ Measure(w) \/ ReturnImpact(w)
    PROVE  Machines'
  <1>1. /\ wpc[w] = "run" /\ UNCHANGED <<exec, spawned>> /\ ~Running(w)
        /\ \/ wpc' = wpc
           \/ wpc' = [wpc EXCEPT ![w] = "send"] /\ ReturnImpact(w)
    BY DEF Compare, Measure, ReturnImpact, At, Running, poolVars
  <1>2. AFrame(frame[w])
    BY <1>1, MachinesAt
  <1>3. PICK f : /\ frame' = [frame EXCEPT ![w] = f] /\ AFrame(f)
                 /\ f.stage \in {"pair", "stack", "return"}
                 /\ ReturnImpact(w) => f = EmptyFrame
    <2>1. CASE Compare(w)
      <3>. DEFINE f   == frame[w]
                  imp == Confirm(f.before, f.after, WriterCall(w), ReaderCall(w))
                  hit == [f EXCEPT !.imp = imp]
                  miss == NextPair([f EXCEPT !.stage = "pair"], Len(ReaderCalls(w)))
                  done == [hit EXCEPT !.stage = "return"]
      <3>1. AFrame(hit)
        BY <1>2 DEF AFrame
      <3>2. AFrame(miss) /\ miss.stage = "pair"
        BY <1>2 DEF AFrame, NextPair
      <3>3. AFrame(done) /\ done.stage = "return"
        BY <3>1 DEF AFrame
      <3>4. AFrame(Repeat(hit)) /\ Repeat(hit).stage \in {"stack", "return"}
        BY <3>1, RepeatFrame
      <3>5. \E g \in {miss, done, Repeat(hit)} : frame' = [frame EXCEPT ![w] = g]
        BY <2>1 DEF Compare
      <3>6. ~ReturnImpact(w)
        BY <2>1 DEF Compare, ReturnImpact, At
      <3>. QED BY <3>2, <3>3, <3>4, <3>5, <3>6
    <2>2. CASE Measure(w)
      <3>. DEFINE f == frame[w]
                  d == ValueOf(f.after) - ValueOf(f.before)
                  more == [f EXCEPT !.imp.maxDelta = <<d>>, !.imp.maxRepeats = f.times]
                  done == [f EXCEPT !.stage = "return"]
      <3>1. AFrame(more)
        BY <1>2 DEF AFrame
      <3>2. AFrame(done) /\ done.stage = "return"
        BY <1>2 DEF AFrame
      <3>3. /\ AFrame(Repeat(f)) /\ Repeat(f).stage \in {"stack", "return"}
            /\ AFrame(Repeat(more)) /\ Repeat(more).stage \in {"stack", "return"}
        BY <1>2, <3>1, RepeatFrame
      <3>4. \E g \in {done, Repeat(f), Repeat(more)} : frame' = [frame EXCEPT ![w] = g]
        BY <2>2 DEF Measure
      <3>5. ~ReturnImpact(w)
        BY <2>2 DEF Measure, ReturnImpact, At
      <3>. QED BY <3>2, <3>3, <3>4, <3>5
    <2>3. CASE ReturnImpact(w)
      BY <2>3 DEF ReturnImpact, AFrame, EmptyFrame
    <2>. QED BY <2>1, <2>2, <2>3
  <1>4. frame'[w] = f
    BY <1>1, <1>3, MachinesAt
  <1>5. exec'[w] = Baseline /\ exec' = [exec EXCEPT ![w] = exec'[w]]
    BY <1>1, MachinesAt
  <1>. QED BY <1>1, <1>3, <1>4, <1>5, MachinesEdgeStep DEF EdgeStep, Running

LEMMA MachinesNext == Machines /\ [Next]_vars => Machines'
  <1>. SUFFICES ASSUME Machines, [Next]_vars PROVE Machines'
    OBVIOUS
  <1>1. CASE Main
    BY <1>1, MachinesMain
  <1>2. ASSUME NEW w \in Workers, Worker(w) PROVE Machines'
    BY <1>2, MachinesPoolStep, MachinesDeploy, MachinesSnapshot, MachinesCall,
       MachinesRewind, MachinesDecide
    DEF Worker, PoolStep
  <1>3. CASE Finished \/ UNCHANGED vars
    <2>1. UNCHANGED <<wpc, spawned, exec, frame>>
      BY <1>3 DEF Finished, Pool!Finished, Pool!vars, vars, poolVars
    <2>. QED BY <2>1 DEF Machines, Machine, Deployed, OpenOnce, Running, AFrame
  <1>. QED BY <1>1, <1>2, <1>3 DEF Next

LEMMA MachinesAlways == Spec => []Machines
  BY MachinesInit, MachinesNext, PTL DEF Spec

LEMMA MachinesMean == Machines => SameBaseline
  <1>. SUFFICES ASSUME Machines, NEW w \in Workers, wpc[w] \in {"recv", "run", "send"}
                PROVE  /\ ~Running(w) => exec[w] = Baseline
                       /\ Running(w) => /\ KnownSnapshot(exec[w], frame[w].snap)
                                        /\ RevertToSnapshot(exec[w], frame[w].snap) = Baseline
    BY DEF SameBaseline
  <1>1. ~Running(w) => exec[w] = Baseline
    BY DEF Machines, Machine, Deployed
  <1>2. ASSUME Running(w)
        PROVE  /\ KnownSnapshot(exec[w], frame[w].snap)
               /\ RevertToSnapshot(exec[w], frame[w].snap) = Baseline
    BY <1>2, RevertLemma DEF Machines, Machine, OpenOnce
  <1>. QED BY <1>1, <1>2

\* "then rewinds all of it": whatever the contract does, every run of a reader
\* or of a stacked writer starts from the fresh deployment, and the snapshot
\* that readerAlone and writerRepeatedThenReader rewind to is still known.
THEOREM EveryRunFromBaseline == Spec => []SameBaseline
  BY MachinesAlways, MachinesMean, PTL

-----------------------------------------------------------------------------
(* Answers: what the workers' locals mean, and what they send.             *)

SoundJobs == {j \in Jobs : Sound(j, Impacts[j])}
SoundAnswers == {[job |-> j, value |-> Impacts[j]] : j \in SoundJobs}

Judges(w) ==
    /\ wpc[w] = "run" => Judging(held[w], frame[w], exec[w].world)
    /\ wpc[w] = "send" => held[w] \in SoundJobs /\ out[w] = Impacts[held[w]]

Judged ==
    /\ jobCh \in Pool!Channel(Jobs)
    /\ resCh \in Pool!Channel(SoundAnswers)
    /\ wpc = [w \in Workers |-> wpc[w]]
    /\ held = [w \in Workers |-> held[w]]
    /\ out = [w \in Workers |-> out[w]]
    /\ \A w \in Workers : Judges(w)

LEMMA SoundLemma ==
    ASSUME NEW j \in Jobs, NEW imp, Sound(j, imp)
    PROVE  j \in SoundJobs /\ imp = Impacts[j]
  BY DEF Sound, SoundJobs, Impacts

LEMMA SendLemma ==
    ASSUME NEW S, NEW c \in Pool!Channel(S), NEW m \in S
    PROVE  Pool!Send(c, m) \in Pool!Channel(S)
  <1>1. c.buf \in Seq(S) /\ c.open \in BOOLEAN /\ c = [buf |-> c.buf, open |-> c.open]
    BY DEF Pool!Channel
  <1>2. Append(c.buf, m) \in Seq(S)
    BY <1>1
  <1>. QED BY <1>1, <1>2 DEF Pool!Send, Pool!Channel

LEMMA ReceiveLemma ==
    ASSUME NEW S, NEW c \in Pool!Channel(S), Pool!Pending(c)
    PROVE  Head(c.buf) \in S /\ Pool!Receive(c) \in Pool!Channel(S)
  <1>1. c.buf \in Seq(S) /\ c.open \in BOOLEAN /\ c = [buf |-> c.buf, open |-> c.open]
        /\ c.buf # <<>>
    BY DEF Pool!Channel, Pool!Pending
  <1>2. Head(c.buf) \in S /\ Tail(c.buf) \in Seq(S)
    BY <1>1
  <1>. QED BY <1>1, <1>2 DEF Pool!Receive, Pool!Channel

LEMMA JudgedInit == Init => Judged
  <1>. SUFFICES ASSUME Init PROVE Judged
    OBVIOUS
  <1>1. \A w \in Workers : wpc[w] = "unborn"
    BY DEF Init, Pool!Init, Workers
  <1>. QED
    BY <1>1 DEF Init, Pool!Init, Pool!EmptyChan, Pool!Channel, Judged, Judges, Workers

LEMMA JudgedMain == Judged /\ Main => Judged'
  <1>. SUFFICES ASSUME Judged, Main PROVE Judged'
    OBVIOUS
  <1>1. UNCHANGED <<exec, frame>> /\ Pool!Main
    BY DEF Main
  <1>2. jobCh' \in Pool!Channel(Jobs)
    <2>1. CASE Pool!Fill
      <3>1. jobCh.buf \in Seq(Jobs) /\ Len(jobCh.buf) + 1 \in Jobs
        BY <2>1, EvaluatorAssumption DEF Judged, Pool!Fill, Pool!Channel, Jobs
      <3>. QED BY <2>1, <3>1, SendLemma DEF Judged, Pool!Fill
    <2>2. CASE Pool!CloseJobs
      BY <2>2 DEF Judged, Pool!CloseJobs, Pool!Close, Pool!Channel
    <2>. QED
      BY <1>1, <2>1, <2>2
      DEF Judged, Pool!Main, Pool!Enter, Pool!ProbeNew, Pool!ProbeDeploy, Pool!Spawn,
          Pool!Spawned, Pool!Wait, Pool!CloseRes, Pool!CloseErr, Pool!CheckErr, Pool!Collect,
          Pool!Sort, Pool!chanVars
  <1>3. resCh' \in Pool!Channel(SoundAnswers)
    <2>1. CASE Pool!CloseRes
      BY <2>1 DEF Judged, Pool!CloseRes, Pool!Close, Pool!Channel
    <2>2. CASE Pool!Collect
      BY <2>2, ReceiveLemma DEF Judged, Pool!Collect
    <2>. QED
      BY <1>1, <2>1, <2>2
      DEF Judged, Pool!Main, Pool!Enter, Pool!ProbeNew, Pool!ProbeDeploy, Pool!Fill,
          Pool!CloseJobs, Pool!Spawn, Pool!Spawned, Pool!Wait, Pool!CloseErr, Pool!CheckErr,
          Pool!Sort, Pool!chanVars
  <1>4. UNCHANGED <<held, out>>
    BY <1>1
    DEF Pool!Main, Pool!Enter, Pool!ProbeNew, Pool!ProbeDeploy, Pool!Fill, Pool!CloseJobs,
        Pool!Spawn, Pool!Spawned, Pool!Wait, Pool!CloseRes, Pool!CloseErr, Pool!CheckErr,
        Pool!Collect, Pool!Sort, Pool!workerVars
  <1>5. wpc' = wpc \/ \E w : wpc' = [wpc EXCEPT ![w] = "new"]
    BY <1>1
    DEF Pool!Main, Pool!Enter, Pool!ProbeNew, Pool!ProbeDeploy, Pool!Fill, Pool!CloseJobs,
        Pool!Spawn, Pool!Spawned, Pool!Wait, Pool!CloseRes, Pool!CloseErr, Pool!CheckErr,
        Pool!Collect, Pool!Sort, Pool!workerVars
  <1>. QED BY <1>1, <1>2, <1>3, <1>4, <1>5 DEF Judged, Judges

\* A step of one worker that leaves the others what they were.
OneWorker(w) ==
    /\ wpc' = [wpc EXCEPT ![w] = wpc'[w]]
    /\ held' = [held EXCEPT ![w] = held'[w]]
    /\ out' = [out EXCEPT ![w] = out'[w]]
    /\ \A v \in Workers \ {w} : frame'[v] = frame[v] /\ exec'[v] = exec[v]

LEMMA JudgedOneWorker ==
    ASSUME Judged, NEW w \in Workers, OneWorker(w), Judges(w)',
           jobCh' \in Pool!Channel(Jobs), resCh' \in Pool!Channel(SoundAnswers)
    PROVE  Judged'
  <1>1. ASSUME NEW v \in Workers \ {w} PROVE Judges(v)'
    <2>1. wpc'[v] = wpc[v] /\ held'[v] = held[v] /\ out'[v] = out[v]
          /\ frame'[v] = frame[v] /\ exec'[v] = exec[v]
      BY DEF Judged, OneWorker
    <2>. QED BY <2>1 DEF Judged, Judges
  <1>. QED BY <1>1 DEF Judged, OneWorker

LEMMA JudgedPoolStep ==
    ASSUME Judged, Machines, NEW w \in Workers, PoolStep(w) \/ DeployCopy(w)
    PROVE  Judged'
  <1>1. CASE NewMachine(w) \/ SendError(w) \/ Exit(w) \/ DeployCopy(w)
    <2>1. /\ UNCHANGED <<held, out, jobCh, resCh, frame>>
          /\ exec' = exec \/ \E e : exec' = [exec EXCEPT ![w] = e]
          /\ \E s \in {"deploy", "newErr", "exit", "recv", "deployErr", "gone"} :
                wpc' = [wpc EXCEPT ![w] = s]
      BY <1>1
      DEF NewMachine, SendError, Exit, DeployCopy, Pool!NewExecutor, Pool!SendError, Pool!Done,
          Pool!DeployCopy, Pool!chanVars
    <2>2. OneWorker(w) /\ wpc'[w] \notin {"run", "send"}
      BY <2>1 DEF Judged, Machines, OneWorker
    <2>. QED BY <2>1, <2>2, JudgedOneWorker DEF Judged, Judges
  <1>2. CASE TakeEdge(w)
    <2>1. wpc[w] = "recv" /\ UNCHANGED <<exec, frame, out, resCh>>
      BY <1>2 DEF TakeEdge, Pool!TakeJob
    <2>2. CASE Pool!Pending(jobCh)
      <3>1. /\ held' = [held EXCEPT ![w] = Head(jobCh.buf)]
            /\ wpc' = [wpc EXCEPT ![w] = "run"]
            /\ jobCh' = Pool!Receive(jobCh)
        BY <1>2, <2>2 DEF TakeEdge, Pool!TakeJob, Pool!Drained, Pool!Pending, Pool!Taken
      <3>2. Head(jobCh.buf) \in Jobs /\ jobCh' \in Pool!Channel(Jobs)
        BY <2>2, <3>1, ReceiveLemma DEF Judged
      <3>3. OneWorker(w) /\ wpc'[w] = "run" /\ held'[w] \in Jobs
        BY <2>1, <3>1, <3>2 DEF Judged, OneWorker
      <3>4. frame'[w] = EmptyFrame
        BY <2>1 DEF Machines, Machine
      <3>5. Judges(w)'
        BY <3>3, <3>4, JudgeStart DEF Judges
      <3>. QED BY <2>1, <3>2, <3>3, <3>5, JudgedOneWorker DEF Judged
    <2>3. CASE ~Pool!Pending(jobCh)
      <3>1. UNCHANGED <<held, jobCh>> /\ wpc' = [wpc EXCEPT ![w] = "exit"]
        BY <1>2, <2>3 DEF TakeEdge, Pool!TakeJob, Pool!Pending
      <3>2. OneWorker(w) /\ wpc'[w] = "exit"
        BY <2>1, <3>1 DEF Judged, OneWorker
      <3>. QED BY <2>1, <3>1, <3>2, JudgedOneWorker DEF Judged, Judges
    <2>. QED BY <2>2, <2>3
  <1>3. CASE SendImpact(w)
    <2>1. /\ wpc[w] = "send" /\ UNCHANGED <<exec, frame, jobCh>>
          /\ resCh' = Pool!Send(resCh, [job |-> held[w], value |-> out[w]])
          /\ held' = [held EXCEPT ![w] = 0]
          /\ out' = [out EXCEPT ![w] = NoImpact]
          /\ wpc' = [wpc EXCEPT ![w] = "recv"]
      BY <1>3 DEF SendImpact, Pool!SendResult
    <2>2. [job |-> held[w], value |-> out[w]] \in SoundAnswers
      BY <2>1 DEF Judged, Judges, SoundAnswers
    <2>3. resCh' \in Pool!Channel(SoundAnswers)
      BY <2>1, <2>2, SendLemma DEF Judged
    <2>4. OneWorker(w) /\ wpc'[w] = "recv"
      BY <2>1 DEF Judged, OneWorker
    <2>. QED BY <2>1, <2>3, <2>4, JudgedOneWorker DEF Judged, Judges
  <1>. QED BY <1>1, <1>2, <1>3 DEF PoolStep

\* A step inside evalEdge keeps the edge and what is known of it.
LEMMA JudgedInside ==
    ASSUME Judged, NEW w \in Workers, UNCHANGED poolVars, wpc[w] = "run",
           \A v \in Workers \ {w} : frame'[v] = frame[v] /\ exec'[v] = exec[v],
           Judging(held[w], frame'[w], exec'[w].world)
    PROVE  Judged'
  <1>1. OneWorker(w)
    BY DEF Judged, OneWorker, poolVars
  <1>2. Judges(w)' /\ UNCHANGED <<jobCh, resCh>>
    BY DEF Judges, poolVars
  <1>. QED BY <1>1, <1>2, JudgedOneWorker DEF Judged

\* Between calls the world is that of the fresh deployment; in a call the
\* machine is one to which CallFresh applies.
LEMMA WorldAt ==
    ASSUME Machines, NEW w \in Workers, wpc[w] = "run"
    PROVE  /\ ~Running(w) => exec[w] = Baseline
           /\ Running(w) => exec[w] = [world |-> exec[w].world, journal |-> exec[w].journal]
  <1>1. ASSUME Running(w)
        PROVE  exec[w] = [world |-> exec[w].world, journal |-> exec[w].journal]
    <2>1. exec[w] = [world |-> exec[w].world, journal |-> <<Baseline.world>>]
      BY <1>1, MachinesAt DEF OpenOnce
    <2>2. exec[w].journal = <<Baseline.world>>
      BY <2>1
    <2>. QED BY <2>1, <2>2
  <1>. QED BY <1>1, MachinesAt

LEMMA JudgedCalls ==
    ASSUME Judged, Machines, NEW w \in Workers,
           \/ TryPair(w) \/ RunReaderAlone(w) \/ RewindAlone(w)
           \/ StartStack(w) \/ RunWriter(w) \/ RunVictim(w) \/ RewindAttack(w)
    PROVE  Judged'
  <1>. DEFINE j == held[w]
              f == frame[w]
              e == exec[w]
  <1>1. /\ wpc[w] = "run" /\ UNCHANGED poolVars /\ Judging(j, f, e.world)
        /\ \A v \in Workers \ {w} : frame'[v] = frame[v] /\ exec'[v] = exec[v]
    BY DEF Judged, Judges, Machines, At, TryPair, RunReaderAlone, RewindAlone, StartStack,
           RunWriter, RunVictim, RewindAttack
  <1>2. exec = [v \in Workers |-> exec[v]] /\ frame = [v \in Workers |-> frame[v]]
    BY DEF Machines
  <1>3. Judging(j, frame'[w], exec'[w].world)
    <2>1. CASE TryPair(w)
      <3>1. f.stage = "pair" /\ ~(f.wi > Len(WriterVariants(j)) \/ ReaderVariants(j) = <<>>)
        BY <2>1 DEF TryPair, At, NoPairLeft, WriterCalls, ReaderCalls
      <3>2. /\ frame'[w] = [f EXCEPT !.stage = "alone", !.snap = SnapshotId(e)]
            /\ exec'[w] = Snapshot(e)
        BY <1>2, <2>1 DEF TryPair
      <3>3. e = Baseline
        BY <1>1, <3>1, WorldAt DEF Running
      <3>4. exec'[w].world = Baseline.world
        BY <3>2, <3>3, SnapshotLemma
      <3>5. Judging(j, [f EXCEPT !.stage = "alone", !.snap = SnapshotId(e)], Baseline.world)
        <4>. HIDE DEF j, f, e
        <4>. QED BY <1>1, <3>1, JudgeTry
      <3>. QED BY <3>2, <3>4, <3>5
    <2>2. CASE RunReaderAlone(w)
      <3>. DEFINE res == Call(e, Caller, Contract, RCall(j, f))
      <3>1. f.stage = "alone"
        BY <2>2 DEF RunReaderAlone, At
      <3>2. frame'[w] = [f EXCEPT !.stage = "aloneRewind", !.before = Outcome(res)]
        BY <1>2, <2>2 DEF RunReaderAlone, CallAs, ReaderCall, ReaderCalls, RCall
      <3>3. e = [world |-> e.world, journal |-> e.journal]
        BY <1>1, <3>1, WorldAt DEF Running
      <3>4. Judging(j, [f EXCEPT !.stage = "aloneRewind", !.before = Outcome(res)],
                    exec'[w].world)
        <4>. HIDE DEF j, f, e
        <4>. QED BY <1>1, <3>1, <3>3, JudgeAlone
      <3>. QED BY <3>2, <3>4
    <2>3. CASE RewindAlone(w)
      <3>1. f.stage = "aloneRewind"
        BY <2>3 DEF RewindAlone, At
      <3>2. frame'[w] = [f EXCEPT !.stage = "stack", !.times = 1]
        BY <1>2, <2>3 DEF RewindAlone
      <3>3. Judging(j, [f EXCEPT !.stage = "stack", !.times = 1], exec'[w].world)
        <4>. HIDE DEF j, f, e
        <4>. QED BY <1>1, <3>1, JudgeRewindAlone
      <3>. QED BY <3>2, <3>3
    <2>4. CASE StartStack(w)
      <3>1. f.stage = "stack"
        BY <2>4 DEF StartStack, At
      <3>2. /\ frame'[w] = [f EXCEPT !.stage = "attack", !.snap = SnapshotId(e), !.left = f.times]
            /\ exec'[w] = Snapshot(e)
        BY <1>2, <2>4 DEF StartStack
      <3>3. e = Baseline
        BY <1>1, <3>1, WorldAt DEF Running
      <3>4. exec'[w].world = Baseline.world
        BY <3>2, <3>3, SnapshotLemma
      <3>5. Judging(j, [f EXCEPT !.stage = "attack", !.snap = SnapshotId(e), !.left = f.times],
                    Baseline.world)
        <4>. HIDE DEF j, f, e
        <4>. QED BY <1>1, <3>1, JudgeStack
      <3>. QED BY <3>2, <3>4, <3>5
    <2>5. CASE RunWriter(w)
      <3>. DEFINE res == Call(e, Caller, Contract, WCall(j, f))
      <3>1. f.stage = "attack" /\ f.left > 0
        BY <2>5 DEF RunWriter, At
      <3>2. frame'[w] = [f EXCEPT !.left = @ - 1] /\ exec'[w] = res.exec
        BY <1>2, <2>5 DEF RunWriter, CallAs, WriterCall, WriterCalls, WCall
      <3>3. e = [world |-> e.world, journal |-> e.journal]
        BY <1>1, <3>1, WorldAt DEF Running
      <3>4. Judging(j, [f EXCEPT !.left = @ - 1], res.exec.world)
        <4>. HIDE DEF j, f, e
        <4>. QED BY <1>1, <3>1, <3>3, JudgeWriter
      <3>. QED BY <3>2, <3>4
    <2>6. CASE RunVictim(w)
      <3>. DEFINE res == Call(e, Caller, Contract, RCall(j, f))
      <3>1. f.stage = "attack" /\ f.left = 0
        BY <2>6 DEF RunVictim, At
      <3>2. frame'[w] = [f EXCEPT !.stage = "attackRewind", !.after = Outcome(res)]
        BY <1>2, <2>6 DEF RunVictim, CallAs, ReaderCall, ReaderCalls, RCall
      <3>3. e = [world |-> e.world, journal |-> e.journal]
        BY <1>1, <3>1, WorldAt DEF Running
      <3>4. Judging(j, [f EXCEPT !.stage = "attackRewind", !.after = Outcome(res)],
                    exec'[w].world)
        <4>. HIDE DEF j, f, e
        <4>. QED BY <1>1, <3>1, <3>3, JudgeVictim
      <3>. QED BY <3>2, <3>4
    <2>7. CASE RewindAttack(w)
      <3>1. f.stage = "attackRewind"
        BY <2>7 DEF RewindAttack, At
      <3>2. frame'[w] = [f EXCEPT !.stage = IF f.imp.confirmed THEN "measure" ELSE "compare"]
        BY <1>2, <2>7 DEF RewindAttack
      <3>3. Judging(j, [f EXCEPT !.stage = IF f.imp.confirmed THEN "measure" ELSE "compare"],
                    exec'[w].world)
        <4>. HIDE DEF j, f, e
        <4>. QED BY <1>1, <3>1, JudgeRewindAttack
      <3>. QED BY <3>2, <3>3
    <2>. QED BY <2>1, <2>2, <2>3, <2>4, <2>5, <2>6, <2>7
  <1>. QED BY <1>1, <1>3, JudgedInside

LEMMA JudgedDecide ==
    ASSUME OutputsAreWords, Judged, Machines, NEW w \in Workers, Compare(w) \/ Measure(w)
    PROVE  Judged'
  <1>. DEFINE j == held[w]
              f == frame[w]
              world == exec[w].world
  <1>1. /\ wpc[w] = "run" /\ UNCHANGED <<poolVars, exec>> /\ Judging(j, f, world)
        /\ \A v \in Workers \ {w} : frame'[v] = frame[v]
    BY DEF Judged, Judges, Machines, At, Compare, Measure
  <1>2. frame = [v \in Workers |-> frame[v]]
    BY DEF Machines
  <1>3. Judging(j, frame'[w], world)
    <2>1. CASE Compare(w)
      <3>. DEFINE imp == Confirm(f.before, f.after, WCall(j, f), RCall(j, f))
                  hit == [f EXCEPT !.imp = imp]
      <3>1. f.stage = "compare"
        BY <2>1 DEF Compare, At
      <3>2. frame'[w] =
               IF ~Changed(f.before, f.after)
               THEN NextPair([f EXCEPT !.stage = "pair"], Len(ReaderVariants(j)))
               ELSE IF imp.delta = NoDelta THEN [hit EXCEPT !.stage = "return"]
               ELSE Repeat(hit)
        BY <1>2, <2>1
        DEF Compare, WriterCall, ReaderCall, WriterCalls, ReaderCalls, WCall, RCall
      <3>3. CASE ~Changed(f.before, f.after)
        <4>1. Judging(j, NextPair([f EXCEPT !.stage = "pair"], Len(ReaderVariants(j))), world)
          <5>. HIDE DEF j, f, world
          <5>. QED BY <1>1, <3>1, <3>3, JudgeMiss
        <4>. QED BY <3>2, <3>3, <4>1
      <3>4. CASE Changed(f.before, f.after)
        <4>1. IF imp.delta = NoDelta THEN Judging(j, [hit EXCEPT !.stage = "return"], world)
              ELSE Judging(j, Repeat(hit), world)
          <5>. HIDE DEF j, f, world
          <5>. QED BY <1>1, <3>1, <3>4, JudgeHit
        <4>. QED BY <3>2, <3>4, <4>1
      <3>. QED BY <3>3, <3>4
    <2>2. CASE Measure(w)
      <3>. DEFINE d    == ValueOf(f.after) - ValueOf(f.before)
                  more == [f EXCEPT !.imp.maxDelta = <<d>>, !.imp.maxRepeats = f.times]
      <3>1. f.stage = "measure"
        BY <2>2 DEF Measure, At
      <3>2. frame'[w] =
               IF ~IsValue(f.after) THEN [f EXCEPT !.stage = "return"]
               ELSE IF Larger(d, f.imp.maxDelta[1]) THEN Repeat(more) ELSE Repeat(f)
        BY <1>2, <2>2 DEF Measure
      <3>3. IF ~IsValue(f.after) THEN Judging(j, [f EXCEPT !.stage = "return"], world)
            ELSE IF Larger(d, f.imp.maxDelta[1]) THEN Judging(j, Repeat(more), world)
            ELSE Judging(j, Repeat(f), world)
        <4>. HIDE DEF j, f, world
        <4>. QED BY <1>1, <3>1, JudgeMeasure
      <3>. QED BY <3>2, <3>3
    <2>. QED BY <2>1, <2>2
  <1>. QED BY <1>1, <1>3, JudgedInside

\* What evalEdge returns is the impact of the edge.
LEMMA ReturnsImpact ==
    ASSUME OutputsAreWords, Judged, NEW w \in Workers, ReturnImpact(w)
    PROVE  /\ wpc[w] = "run" /\ held[w] \in SoundJobs
           /\ frame[w].imp = Impacts[held[w]]
  <1>1. wpc[w] = "run" /\ Judging(held[w], frame[w], exec[w].world)
    BY DEF ReturnImpact, At, Judged, Judges
  <1>2. Sound(held[w], frame[w].imp)
    BY <1>1, SoundMiss, SoundHit DEF ReturnImpact, At, NoPairLeft, WriterCalls, ReaderCalls
  <1>3. held[w] \in Jobs
    BY <1>1 DEF Judging
  <1>. QED BY <1>1, <1>2, <1>3, SoundLemma

LEMMA JudgedReturn ==
    ASSUME OutputsAreWords, Judged, Machines, NEW w \in Workers, ReturnImpact(w)
    PROVE  Judged'
  <1>1. /\ UNCHANGED <<jobCh, resCh, held, exec>>
        /\ out' = [out EXCEPT ![w] = frame[w].imp]
        /\ wpc' = [wpc EXCEPT ![w] = "send"]
        /\ frame' = [frame EXCEPT ![w] = EmptyFrame]
    BY DEF ReturnImpact
  <1>2. OneWorker(w)
    BY <1>1 DEF OneWorker, Judged, Machines
  <1>3. wpc'[w] = "send" /\ out'[w] = Impacts[held[w]] /\ held'[w] \in SoundJobs
    BY <1>1, ReturnsImpact DEF Judged
  <1>. QED BY <1>1, <1>2, <1>3, JudgedOneWorker DEF Judges, Judged

LEMMA JudgedNext ==
    ASSUME OutputsAreWords
    PROVE  Judged /\ Machines /\ [Next]_vars => Judged'
  <1>. SUFFICES ASSUME Judged, Machines, [Next]_vars PROVE Judged'
    OBVIOUS
  <1>1. CASE Main
    BY <1>1, JudgedMain
  <1>2. ASSUME NEW w \in Workers, Worker(w) PROVE Judged'
    BY <1>2, JudgedPoolStep, JudgedCalls, JudgedDecide, JudgedReturn DEF Worker, PoolStep
  <1>3. CASE Finished \/ UNCHANGED vars
    <2>1. UNCHANGED <<wpc, held, out, jobCh, resCh, exec, frame>>
      BY <1>3 DEF Finished, Pool!Finished, Pool!vars, vars, poolVars
    <2>. QED BY <2>1 DEF Judged, Judges
  <1>. QED BY <1>1, <1>2, <1>3 DEF Next

LEMMA JudgedAlways ==
    ASSUME OutputsAreWords
    PROVE  Spec => []Judged
  <1>1. Judged /\ Machines /\ [Next]_vars => Judged'
    BY JudgedNext
  <1>. QED BY <1>1, JudgedInit, MachinesAlways, PTL DEF Spec

LEMMA JudgedMeans ==
    ASSUME Judged, NEW i \in DOMAIN resCh.buf
    PROVE  Sound(resCh.buf[i].job, resCh.buf[i].value)
  <1>1. resCh.buf \in Seq(SoundAnswers)
    BY DEF Judged, Pool!Channel
  <1>2. resCh.buf[i] \in SoundAnswers
    BY <1>1
  <1>. QED BY <1>2 DEF SoundAnswers, SoundJobs

\* "reporting the first pairing that produces a change": whatever the contract
\* does with its words, evalEdge leaves an edge unconfirmed only when no pair of
\* its variants changes the reader.
THEOREM MissesNothing ==
    ASSUME OutputsAreWords
    PROVE  Spec => []NothingMissed
  <1>1. Judged => NothingMissed
    BY JudgedMeans DEF NothingMissed, Sound
  <1>. QED BY <1>1, JudgedAlways, PTL

\* A confirmed impact carries the calls that show it, alone, after one run of
\* the writer and after maxRepeats of them: gentest replays these very calls.
THEOREM EveryImpactReplays ==
    ASSUME OutputsAreWords
    PROVE  Spec => []ImpactsReplay
  <1>1. Judged => ImpactsReplay
    BY JudgedMeans DEF ImpactsReplay, Sound
  <1>. QED BY <1>1, JudgedAlways, PTL

-----------------------------------------------------------------------------
(* Every step of Evaluate is a step of the pool, or none.                  *)

LEMMA StepsOfThePool ==
    ASSUME OutputsAreWords
    PROVE  Judged /\ [Next]_vars => [Pool!Next]_(Pool!vars)
  <1>. SUFFICES ASSUME Judged, [Next]_vars PROVE [Pool!Next]_(Pool!vars)
    OBVIOUS
  <1>1. CASE Main
    BY <1>1 DEF Main, Pool!Next
  <1>2. ASSUME NEW w \in Workers, Worker(w) PROVE [Pool!Next]_(Pool!vars)
    <2>1. CASE \/ TryPair(w) \/ RunReaderAlone(w) \/ RewindAlone(w)
               \/ StartStack(w) \/ RunWriter(w) \/ RunVictim(w) \/ RewindAttack(w)
               \/ Compare(w) \/ Measure(w)
      BY <2>1
      DEF TryPair, RunReaderAlone, RewindAlone, StartStack, RunWriter, RunVictim,
          RewindAttack, Compare, Measure, poolVars, Pool!vars
    <2>2. CASE ReturnImpact(w)
      <3>1. Pool!RunJob(w)
        BY <2>2, ReturnsImpact DEF ReturnImpact, Pool!RunJob, Pool!mainVars, Pool!chanVars
      <3>. QED BY <3>1 DEF Pool!Next, Pool!Worker, Workers
    <2>3. CASE PoolStep(w) \/ DeployCopy(w)
      <3>1. Pool!Worker(w)
        BY <2>3
        DEF PoolStep, NewMachine, DeployCopy, SendError, TakeEdge, SendImpact, Exit, Pool!Worker
      <3>. QED BY <3>1 DEF Pool!Next, Workers
    <2>. QED BY <1>2, <2>1, <2>2, <2>3 DEF Worker, PoolStep
  <1>3. CASE UNCHANGED vars
    BY <1>3 DEF vars, poolVars, Pool!vars
  <1>4. CASE Finished
    BY <1>4 DEF Finished, Pool!Next
  <1>. QED BY <1>1, <1>2, <1>3, <1>4 DEF Next

\* Evaluate, one executor operation or decision at a time, is a pool whose jobs
\* yield ImpactOf atomically: the first changing pair of variants, and the least
\* number of writer runs with the largest change.
THEOREM EvaluateImplementsPool ==
    ASSUME OutputsAreWords
    PROVE  Spec => Pool!Init /\ [][Pool!Next]_(Pool!vars)
  <1>1. Init => Pool!Init
    BY DEF Init
  <1>2. Judged /\ [Next]_vars => [Pool!Next]_(Pool!vars)
    BY StepsOfThePool
  <1>. QED BY <1>1, <1>2, JudgedAlways, PTL DEF Spec
-----------------------------------------------------------------------------
(* What the pool's theorems say of Evaluate.                               *)

Facts == INSTANCE WorkerPoolProofs WITH Result <- Impacts, Nothing <- NoImpact

LEMMA SameInit == Pool!Init <=> Facts!Init
  BY Zenon DEF Pool!Init, Facts!Init, Pool!EmptyChan, Facts!EmptyChan, Pool!Workers, Facts!Workers,
           Pool!WorkersFor, Facts!WorkersFor, Pool!Most, Facts!Most, Pool!Least, Facts!Least,
           Pool!NoAnswer, Facts!NoAnswer

LEMMA SameNext == [Pool!Next]_(Pool!vars) <=> [Facts!Next]_(Facts!vars)
  BY Zenon
     DEF Pool!Least, Facts!Least, Pool!Most, Facts!Most, Pool!WorkersFor, Facts!WorkersFor,
         Pool!Workers, Facts!Workers, Pool!Jobs, Facts!Jobs, Pool!JobCap, Facts!JobCap, Pool!ResCap,
         Facts!ResCap, Pool!ErrCap, Facts!ErrCap, Pool!mainVars, Facts!mainVars, Pool!workerVars,
         Facts!workerVars, Pool!chanVars, Facts!chanVars, Pool!NoAnswer, Facts!NoAnswer,
         Pool!Success, Facts!Success, Pool!Failure, Facts!Failure, Pool!EmptyChan, Facts!EmptyChan,
         Pool!Send, Facts!Send, Pool!Receive, Facts!Receive, Pool!Close, Facts!Close, Pool!Pending,
         Facts!Pending, Pool!Drained, Facts!Drained, Pool!Room, Facts!Room, Pool!Return,
         Facts!Return, Pool!Enter, Facts!Enter, Pool!ProbeNew, Facts!ProbeNew, Pool!ProbeDeploy,
         Facts!ProbeDeploy, Pool!Fill, Facts!Fill, Pool!CloseJobs, Facts!CloseJobs, Pool!Raised,
         Facts!Raised, Pool!Spawn, Facts!Spawn, Pool!Spawned, Facts!Spawned, Pool!AllDone,
         Facts!AllDone, Pool!Wait, Facts!Wait, Pool!CloseRes, Facts!CloseRes, Pool!CloseErr,
         Facts!CloseErr, Pool!SomeError, Facts!SomeError, Pool!CheckErr, Facts!CheckErr,
         Pool!Collect, Facts!Collect, Pool!Rearrangements, Facts!Rearrangements, Pool!Ordered,
         Facts!Ordered, Pool!Sort, Facts!Sort, Pool!Main, Facts!Main, Pool!NewExecutor,
         Facts!NewExecutor, Pool!DeployCopy, Facts!DeployCopy, Pool!ErrorOf, Facts!ErrorOf,
         Pool!SendError, Facts!SendError, Pool!Taken, Facts!Taken, Pool!TakeJob, Facts!TakeJob,
         Pool!RunJob, Facts!RunJob, Pool!SendResult, Facts!SendResult, Pool!Done, Facts!Done,
         Pool!Worker, Facts!Worker, Pool!Quiet, Facts!Quiet, Pool!vars, Facts!vars, Pool!Finished,
         Facts!Finished, Pool!Next, Facts!Next

\* What PoolSafe is made of.
PoolIsSafe ==
    /\ Pool!TypeOK /\ Pool!NoSendOnClosed /\ Pool!EachJobInOnePlace
    /\ Pool!AllOrNothing /\ Pool!Deterministic

LEMMA SameMeaning == Facts!PoolSafe <=> PoolIsSafe
  <1>1. Pool!Workers = Facts!Workers /\ Pool!Jobs = Facts!Jobs
    BY Zenon DEF Pool!Workers, Facts!Workers, Pool!WorkersFor, Facts!WorkersFor, Pool!Most,
                 Facts!Most, Pool!Least, Facts!Least, Pool!Jobs, Facts!Jobs
  <1>2. Pool!TypeOK <=> Facts!TypeOK
    BY Zenon
       DEF Pool!TypeOK, Facts!TypeOK, Pool!MainPCs, Facts!MainPCs, Pool!WorkerPCs,
           Facts!WorkerPCs, Pool!Channel, Facts!Channel, Pool!Messages, Facts!Messages,
           Pool!Jobs, Facts!Jobs, Pool!Workers, Facts!Workers, Pool!WorkersFor,
           Facts!WorkersFor, Pool!Most, Facts!Most, Pool!Least, Facts!Least
  <1>3. Pool!NoSendOnClosed <=> Facts!NoSendOnClosed
    BY <1>1, Zenon DEF Pool!NoSendOnClosed, Facts!NoSendOnClosed
  <1>4. Pool!EachJobInOnePlace <=> Facts!EachJobInOnePlace
    BY Zenon
       DEF Pool!EachJobInOnePlace, Facts!EachJobInOnePlace, Pool!Places, Facts!Places,
           Pool!Cardinality, Facts!Cardinality,
           Pool!Jobs, Facts!Jobs, Pool!Workers, Facts!Workers, Pool!WorkersFor,
           Facts!WorkersFor, Pool!Most, Facts!Most, Pool!Least, Facts!Least
  <1>5. Pool!AllOrNothing <=> Facts!AllOrNothing
    BY <1>1, Zenon DEF Pool!AllOrNothing, Facts!AllOrNothing
  <1>6. Pool!Deterministic <=> Facts!Deterministic
    BY Zenon
       DEF Pool!Deterministic, Facts!Deterministic, Pool!Visible, Facts!Visible,
           Pool!Reference, Facts!Reference, Pool!Rearrangements, Facts!Rearrangements,
           Pool!Jobs, Facts!Jobs
  <1>. QED BY <1>2, <1>3, <1>4, <1>5, <1>6 DEF PoolIsSafe, Facts!PoolSafe

LEMMA EvaluatePool == Facts!PoolAssumption /\ Facts!SameNameSameResult
  <1>1. Facts!PoolAssumption
    BY EvaluatorAssumption, EvaluatePoolAssumption
       DEF Facts!Jobs, Jobs, Impacts, Facts!FaultKinds, Pool!FaultKinds
  <1>2. Facts!SameNameSameResult
    <2>1. ASSUME NEW i \in Jobs, NEW j \in Jobs, Name[i] = Name[j]
          PROVE  Impacts[i] = Impacts[j]
      <3>1. Writer[i] = Writer[j] /\ Reader[i] = Reader[j]
        BY <2>1, EvaluatePoolAssumption
      <3>. QED BY <3>1 DEF Impacts, WriterVariants, ReaderVariants
    <2>. QED BY <2>1 DEF Facts!Jobs, Jobs
  <1>. QED BY <1>1, <1>2

(***************************************************************************)
(* Evaluate as a whole: with the machines' steps interleaved in any way,   *)
(* the answer is every edge's impact, as ImpactOf gives it, in the order   *)
(* of the writers' and the readers' names, the same for every schedule and *)
(* number of workers, or an error and nothing else; and no edge is lost or *)
(* evaluated twice on the way.                                             *)
(***************************************************************************)
THEOREM EvaluateIsSafe ==
    ASSUME OutputsAreWords
    PROVE  Spec => []PoolIsSafe
  <1>1. Facts!PoolAssumption /\ Facts!SameNameSameResult
    BY EvaluatePool
  <1>2. Facts!Init /\ [][Facts!Next]_(Facts!vars) => []Facts!PoolSafe
    BY <1>1, Facts!SafelyRuns
  <1>3. Spec => Pool!Init /\ [][Pool!Next]_(Pool!vars)
    BY EvaluateImplementsPool
  <1>. QED BY <1>2, <1>3, SameInit, SameNext, SameMeaning, PTL

\* The writer runs still to come are counted only while the writer runs.
NoneLeft == \A w \in Workers : frame[w].stage # "attack" => frame[w].left = 0

LEMMA NoneLeftInit == Init => NoneLeft
  BY DEF Init, NoneLeft, EmptyFrame

LEMMA NoneLeftNext == NoneLeft /\ Machines /\ [Next]_vars => NoneLeft'
  <1>. SUFFICES ASSUME NoneLeft, Machines, [Next]_vars PROVE NoneLeft'
    OBVIOUS
  <1>1. CASE UNCHANGED frame
    BY <1>1 DEF NoneLeft
  <1>2. ASSUME NEW w \in Workers, NEW g, frame' = [frame EXCEPT ![w] = g],
               g.stage # "attack" => g.left = 0
        PROVE  NoneLeft'
    BY <1>2 DEF NoneLeft, Machines
  <1>3. ASSUME NEW w \in Workers, Worker(w), frame' # frame PROVE NoneLeft'
    <2>. DEFINE f == frame[w]
    <2>1. AFrame(f) /\ (f.stage # "attack" => f.left = 0)
      BY DEF Machines, Machine, NoneLeft
    <2>2. CASE TryPair(w) \/ RunReaderAlone(w) \/ RewindAlone(w) \/ StartStack(w)
      <3>1. /\ f.stage # "attack"
            /\ \A v \in Workers \ {w} : frame'[v] = frame[v]
            /\ frame'[w].stage = "attack" \/ frame'[w].left = f.left
        <4>1. frame = [v \in Workers |-> frame[v]]
          BY DEF Machines
        <4>2. CASE TryPair(w)
          BY <2>1, <4>1, <4>2 DEF TryPair, At, AFrame
        <4>3. CASE RunReaderAlone(w)
          BY <2>1, <4>1, <4>3 DEF RunReaderAlone, At, AFrame
        <4>4. CASE RewindAlone(w)
          BY <2>1, <4>1, <4>4 DEF RewindAlone, At, AFrame
        <4>5. CASE StartStack(w)
          BY <2>1, <4>1, <4>5 DEF StartStack, At, AFrame
        <4>. QED BY <2>2, <4>2, <4>3, <4>4, <4>5
      <3>. QED BY <2>1, <3>1 DEF NoneLeft
    <2>3. CASE RunWriter(w)
      BY <1>2, <2>1, <2>3 DEF RunWriter, At, AFrame
    <2>4. CASE RunVictim(w)
      BY <1>2, <2>1, <2>4, ZenonT(40) DEF RunVictim, At, AFrame
    <2>5. CASE RewindAttack(w)
      BY <1>2, <2>1, <2>5 DEF RewindAttack, At, AFrame
    <2>6. CASE Compare(w)
      BY <1>2, <2>1, <2>6 DEF Compare, At, AFrame, NextPair, Repeat
    <2>7. CASE Measure(w)
      BY <1>2, <2>1, <2>7 DEF Measure, At, AFrame, Repeat
    <2>8. CASE ReturnImpact(w)
      BY <1>2, <2>8 DEF ReturnImpact, EmptyFrame
    <2>9. CASE PoolStep(w) \/ DeployCopy(w)
      BY <1>3, <2>9 DEF PoolStep, NewMachine, DeployCopy, SendError, TakeEdge, SendImpact, Exit
    <2>. QED
      BY <1>3, <2>2, <2>3, <2>4, <2>5, <2>6, <2>7, <2>8, <2>9
      DEF Worker, PoolStep
  <1>. QED BY <1>1, <1>3 DEF Next, Main, Finished, vars

(***************************************************************************)
(* TypeOK of Evaluate: the pool's types, and a worker is inside the loops  *)
(* of evalEdge, at a pair of variants and a number of repeats that exist,  *)
(* only while it evaluates that edge.                                      *)
(***************************************************************************)
THEOREM EvaluateTypeCorrect ==
    ASSUME OutputsAreWords
    PROVE  Spec => []TypeOK
  <1>1. Machines /\ Judged /\ NoneLeft /\ PoolIsSafe => TypeOK
    <2>. SUFFICES ASSUME Machines, Judged, NoneLeft, PoolIsSafe PROVE TypeOK
      OBVIOUS
    <2>1. Pool!TypeOK
      BY DEF PoolIsSafe
    <2>2. ASSUME NEW w \in Workers, wpc[w] # "run"
          PROVE  frame[w] = EmptyFrame /\ frame[w].stage \in Stages
      BY <2>2 DEF Machines, Machine, EmptyFrame, Stages
    <2>3. ASSUME NEW w \in Workers, wpc[w] = "run"
          PROVE  /\ frame[w].stage \in Stages
                 /\ frame[w].stage # "pair" =>
                       /\ frame[w].wi \in DOMAIN WriterCalls(w)
                       /\ frame[w].ri \in DOMAIN ReaderCalls(w)
                       /\ frame[w].times \in 1..MaxRepeats
                       /\ frame[w].left \in 0..frame[w].times
      <3>. DEFINE f == frame[w]
                  j == held[w]
      <3>1. Judging(j, f, exec[w].world) /\ (f.stage # "attack" => f.left = 0)
        BY <2>3 DEF Judged, Judges, NoneLeft
      <3>. HIDE DEF f, j
      <3>2. f.stage \in Stages
        BY <3>1 DEF Judging, Searching, Measuring, Stages
      <3>3. f.times \in 1..MaxRepeats /\ MaxRepeats \in Nat
        BY <3>1, EvaluatorAssumption DEF Judging, Places
      <3>4. f.left \in 0..f.times
        BY <3>1, <3>3 DEF Judging, Underneath
      <3>5. f.stage # "pair" => f.wi \in DOMAIN WriterVariants(j) /\ f.ri \in DOMAIN ReaderVariants(j)
        BY <3>1, VariantsShape DEF Judging, Places, Within
      <3>. QED BY <3>2, <3>3, <3>4, <3>5 DEF f, j, WriterCalls, ReaderCalls
    <2>. QED BY <2>1, <2>2, <2>3 DEF TypeOK
  <1>2. Judged /\ Machines /\ [Next]_vars => Judged'
    BY JudgedNext
  <1>3. Spec => []PoolIsSafe
    BY EvaluateIsSafe
  <1>. QED
    BY <1>1, <1>2, <1>3, JudgedInit, MachinesAlways, NoneLeftInit, NoneLeftNext, PTL DEF Spec
=============================================================================
