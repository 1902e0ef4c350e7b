------------------------------- MODULE Scenario -------------------------------
(***************************************************************************)
(* What internal/analyze observes of one deployed contract, as definitions *)
(* with no loop, no worker and no executor shared between two calls: the   *)
(* footprint of a function (runJob, fuzz.go) and the impact of a writer on *)
(* a reader (evalEdge, scenario.go).  Modules Fuzzer and Evaluator are     *)
(* checked against them, and module Analysis composes them.                *)
(***************************************************************************)
EXTENDS Executor

CONSTANTS
    Bytecode,   \* the creation code, constructor arguments included
    Deployer, Caller, Contract

\* The state every call is meant to start from.
Baseline == Deploy(NewExecutor, Deployer, Bytecode).exec

\* main.go resolves the creation code first, so it is known to deploy.
ASSUME DeploysAssumption == Deploy(NewExecutor, Deployer, Bytecode).ok

\* What the calls touch, each made alone on a fresh deployment.
FootprintOf(calls) ==
    UNION {Call(Baseline, Caller, Contract, calls[i]).accesses : i \in DOMAIN calls}

-----------------------------------------------------------------------------
\* callOutcome: all that a call shows of a reader.
Outcome(res) == [output |-> res.output, reverted |-> res.reverted]
NoOutcome == [output |-> <<>>, reverted |-> FALSE]

\* A single 32-byte word, read as big.Int.SetBytes does: without a sign.
OneWord(o) == Len(o.output) = 1
IsValue(o) == ~o.reverted /\ Len(o.output) = 1
ValueOf(o) == o.output[1]

\* valueDelta: <<d>>, or <<>> for a nil delta.
NoDelta == <<>>
ValueDelta(b, a) ==
    IF IsValue(b) /\ IsValue(a) THEN <<ValueOf(a) - ValueOf(b)>> ELSE NoDelta

Magnitude(d) == IF d < 0 THEN -d ELSE d

NoCall == <<>>

NoImpact == [confirmed |-> FALSE, before |-> NoOutcome, after |-> NoOutcome,
             delta |-> NoDelta, writerCall |-> NoCall, readerCall |-> NoCall,
             maxRepeats |-> 0, maxDelta |-> NoDelta]

\* The impact of a pair of calls that changes the reader, before amplification.
Confirm(b, a, writerCall, readerCall) ==
    [confirmed |-> TRUE, before |-> b, after |-> a, delta |-> ValueDelta(b, a),
     writerCall |-> <<writerCall>>, readerCall |-> <<readerCall>>,
     maxRepeats |-> 1, maxDelta |-> ValueDelta(b, a)]

\* The fresh deployment after the writer has been called n times.
Stacked(writerCall, n) ==
    LET after[k \in 0..n] ==
            IF k = 0 THEN Baseline
            ELSE Call(after[k - 1], Caller, Contract, writerCall).exec
    IN  after[n]

Alone(readerCall) == Outcome(Call(Baseline, Caller, Contract, readerCall))

ReaderAfter(writerCall, n, readerCall) ==
    Outcome(Call(Stacked(writerCall, n), Caller, Contract, readerCall))

\* The pairs of a writer call and a reader call that change the reader, by
\* their places in the lists of variants ws and rs; and the first of them,
\* writer variants in the outer loop.
ChangingPairs(ws, rs) ==
    {p \in (DOMAIN ws) \X (DOMAIN rs) :
        Alone(rs[p[2]]) # ReaderAfter(ws[p[1]], 1, rs[p[2]])}

FirstPair(pairs) ==
    CHOOSE p \in pairs :
        \A q \in pairs : p[1] < q[1] \/ (p[1] = q[1] /\ p[2] <= q[2])

\* The change n runs of the writer make; the numbers of runs that are measured,
\* up to the first that gives no value; and the least of those whose change is
\* the largest.
Change(writerCall, n, readerCall) ==
    ValueOf(ReaderAfter(writerCall, n, readerCall)) - ValueOf(Alone(readerCall))

Measured(writerCall, readerCall, maxRepeats) ==
    {n \in 1..maxRepeats :
        \A m \in 1..n : IsValue(ReaderAfter(writerCall, m, readerCall))}

LargestAt(size) ==
    CHOOSE n \in DOMAIN size : \A m \in DOMAIN size :
        size[n] > size[m] \/ (size[n] = size[m] /\ n <= m)

\* measureAmplification: the change of one run, and the largest there is.
Amplified(imp, w, r, best) ==
    [imp EXCEPT !.maxRepeats = best, !.maxDelta = <<Change(w, best, r)>>]

WithAmplification(imp, w, r, maxRepeats) ==
    IF imp.delta = NoDelta THEN imp
    ELSE Amplified(imp, w, r,
             LargestAt([n \in Measured(w, r, maxRepeats) |-> Magnitude(Change(w, n, r))]))

\* evalEdge: the impact of writer call w on reader call r, and that of the first
\* pair of variants that has one.
ImpactOfPair(w, r, maxRepeats) ==
    WithAmplification(Confirm(Alone(r), ReaderAfter(w, 1, r), w, r), w, r, maxRepeats)

ImpactOfFirst(ws, rs, pairs, maxRepeats) ==
    IF pairs = {} THEN NoImpact
    ELSE LET p == FirstPair(pairs) IN ImpactOfPair(ws[p[1]], rs[p[2]], maxRepeats)

ImpactOf(ws, rs, maxRepeats) == ImpactOfFirst(ws, rs, ChangingPairs(ws, rs), maxRepeats)
=============================================================================
