------------------------------- MODULE Analysis -------------------------------
(***************************************************************************)
(* analyzeContract of cmd/sequent/main.go: Fuzz, the interaction graph,    *)
(* Evaluate and the report, each on the result of the one before.  Fuzz    *)
(* and Evaluate appear as what PoolPromise lets them answer: every result, *)
(* sorted by name with ties in any order, or an error.                     *)
(***************************************************************************)
EXTENDS Scenario, InteractionGraph, SequencesExt

CONSTANTS
    Contracts,   \* the contracts: lists of methods [name, variants]
    MaxRepeats,  \* FuzzConfig.maxRepeats
    MayFail      \* whether making a machine may fail

\* The ABI lists its methods; those of one name have one selector, so buildJobs
\* gives them the same calldata.
ASSUME AnalysisAssumption ==
    /\ MaxRepeats \in Nat \ {0}
    /\ \A abi \in Contracts :
          /\ abi \in Seq({abi[i] : i \in DOMAIN abi})
          /\ \A i \in DOMAIN abi :
                /\ abi[i].name \in Nat
                /\ abi[i].variants \in Seq({abi[i].variants[k] : k \in DOMAIN abi[i].variants})
          /\ \A i, j \in DOMAIN abi :
                abi[i].name = abi[j].name => abi[i].variants = abi[j].variants

VARIABLES
    methods,  \* the contract's ABI, with the calldata buildJobs makes
    stage,    \* the step of analyzeContract to come
    fns,      \* Fuzz's answer: [name, accesses] for each function
    edges,    \* the graph
    impacts,  \* Evaluate's answer: [writer, reader, impact] for each edge
    report    \* what the command prints

vars == <<methods, stage, fns, edges, impacts, report>>

Reporting == INSTANCE Report

\* buildJobs: a method without calldata is skipped.
AllMethods == DOMAIN methods
Jobs    == {m \in DOMAIN methods : methods[m].variants # <<>>}
Skipped == {m \in DOMAIN methods : methods[m].variants = <<>>}

\* Evaluate's map from a function's name to its calldata.  A function the ABI
\* lists twice has the same calldata twice.
VariantsNamed(n) == methods[CHOOSE m \in Jobs : methods[m].name = n].variants

Init ==
    /\ methods \in Contracts
    /\ stage = "fuzz"
    /\ fns = <<>> /\ edges = <<>> /\ impacts = <<>>
    /\ report = <<>>

\* Fuzz's sort of the jobs in S: by name, equal names in any order.
InOrder(S) ==
    {q \in SetToSeqs(S) :
        \A i, j \in DOMAIN q : i < j => methods[q[i]].name <= methods[q[j]].name}

TracedMethod(m) ==
    [name |-> methods[m].name, accesses |-> FootprintOf(methods[m].variants)]

Fuzz ==
    /\ stage = "fuzz"
    /\ \E q \in InOrder(Jobs) :
          fns' = [k \in DOMAIN q |-> TracedMethod(q[k])]
    /\ stage' = "graph"
    /\ UNCHANGED <<methods, edges, impacts, report>>

BuildGraph ==
    /\ stage = "graph"
    /\ edges' = Build(fns)
    /\ stage' = "evaluate"
    /\ UNCHANGED <<methods, fns, impacts, report>>

EvaluatedEdge(e) ==
    [writer |-> e.writer, reader |-> e.reader,
     impact |-> ImpactOf(VariantsNamed(e.writer), VariantsNamed(e.reader), MaxRepeats)]

\* Evaluate's sort compares the same names as the graph's, so its answer lists
\* the edges in the graph's order, but for edges of equal names.
Evaluate ==
    /\ stage = "evaluate"
    /\ impacts' = [k \in DOMAIN edges |-> EvaluatedEdge(edges[k])]
    /\ stage' = "report"
    /\ UNCHANGED <<methods, fns, edges, report>>

\* Neither makes a machine when there is nothing to run on it.
FailPool ==
    /\ MayFail
    /\ \/ stage = "fuzz" /\ Jobs # {}
       \/ stage = "evaluate" /\ edges # <<>>
    /\ stage' = "failed"
    /\ UNCHANGED <<methods, fns, edges, impacts, report>>

MakeReport ==
    /\ stage = "report"
    /\ report' = Reporting!BuildReport(Len(fns), Skipped, edges, impacts)
    /\ stage' = "done"
    /\ UNCHANGED <<methods, fns, edges, impacts>>

Next == Fuzz \/ BuildGraph \/ Evaluate \/ FailPool \/ MakeReport

Spec == Init /\ [][Next]_vars

-----------------------------------------------------------------------------
Findings == report.findings

\* Each stage's result is there exactly once its stage is over.
TypeOK ==
    /\ methods \in Contracts
    /\ stage \in {"fuzz", "graph", "evaluate", "report", "done", "failed"}
    /\ stage \in {"graph", "evaluate", "report", "done"} => Len(fns) = Cardinality(Jobs)
    /\ stage \in {"report", "done"} => Len(impacts) = Len(edges)
    /\ stage = "done" <=> report # <<>>
    /\ stage = "done" => report.analyzed + Cardinality(report.skipped) = Len(methods)

(***************************************************************************)
(* graph.go: "everything with no shared state is pruned".  Evaluate only   *)
(* runs the edges, so a pair without one must have no effect to miss: of a *)
(* contract that reaches nothing but its own storage, every two functions  *)
(* one of which changes the other when run first are in the report, as a   *)
(* confirmed finding.                                                      *)
(***************************************************************************)
Calldata ==
    UNION {UNION {{abi[i].variants[k] : k \in DOMAIN abi[i].variants} : i \in DOMAIN abi} :
           abi \in Contracts}

\* To reach nothing but its own storage: a writer leaves the slots a reader
\* reads as they are, but for those it writes itself; and a reader that finds
\* the slots it reads as they were shows the same.  What a call reads and writes
\* is what it runs, whatever the tracer makes of it.
Stored(exec, slot) == exec.world.storage[Contract][slot]

Touched(input) ==
    [accesses |-> Traced(Run(Fund(Baseline.world, Caller), Caller, Contract, input).steps, Contract)]

OwnStorageOnly ==
    \A w, r \in Calldata :
        LET written == Call(Baseline, Caller, Contract, w)
            first   == Call(Baseline, Caller, Contract, r)
            second  == Call(written.exec, Caller, Contract, r)
            Same(slot) == Stored(written.exec, slot) = Stored(Baseline, slot)
        IN  /\ \A slot \in Reads(Touched(r)) \ Writes(Touched(w)) : Same(slot)
            /\ (\A slot \in Reads(Touched(r)) : Same(slot)) => Outcome(second) = Outcome(first)

Reported(i, j) ==
    \E k \in DOMAIN Findings : /\ Findings[k].writer = methods[i].name
                               /\ Findings[k].reader = methods[j].name
                               /\ Findings[k].impact.confirmed

NoEffectPruned ==
    stage = "done" =>
        \A i, j \in DOMAIN methods :
            i # j /\ ChangingPairs(methods[i].variants, methods[j].variants) # {}
                => Reported(i, j)

(***************************************************************************)
(* Edges, impacts and findings meet by the names of their functions, after *)
(* three sorts.  Each finding carries the slots and the impact of its own  *)
(* writer and reader, and there are as many as overlapping pairs, also     *)
(* when the ABI lists a function twice.                                    *)
(***************************************************************************)
Overlap(i, j) == Writes(TracedMethod(i)) \cap Reads(TracedMethod(j))

OwnEvidence ==
    stage = "done" =>
        /\ Len(Findings) = Cardinality({p \in Jobs \X Jobs : p[1] # p[2] /\ Overlap(p[1], p[2]) # {}})
        /\ \A k \in DOMAIN Findings :
              \E i, j \in Jobs :
                  /\ i # j
                  /\ methods[i].name = Findings[k].writer
                  /\ methods[j].name = Findings[k].reader
                  /\ Findings[k].slots = Overlap(i, j)
                  /\ Findings[k].impact =
                        ImpactOf(methods[i].variants, methods[j].variants, MaxRepeats)

(***************************************************************************)
(* report.go: "the worst comes first".  No unconfirmed finding stands      *)
(* before a confirmed one, nor a smaller change of value before a larger;  *)
(* the findings are High exactly when their effect is a flip or a change   *)
(* of value; the counts cover them all; and only a change of value that    *)
(* grew with the repeats is said to compound.                              *)
(***************************************************************************)
WorstFirst ==
    stage = "done" =>
        /\ \A k, l \in DOMAIN Findings : k < l =>
              /\ Findings[l].impact.confirmed => Findings[k].impact.confirmed
              /\ Findings[k].effect = "value-change" /\ Findings[l].effect = "value-change"
                    => Magnitude(Findings[k].impact.delta[1]) >= Magnitude(Findings[l].impact.delta[1])
              /\ Findings[k].effect = "output-change" => Findings[l].effect \in {"output-change", "shared"}
        /\ report.high = Cardinality({k \in DOMAIN Findings :
                             Findings[k].effect \in {"revert-flip", "value-change"}})
        /\ report.high + report.medium + report.low = Len(Findings)

OnlyGrowthCompounds ==
    stage = "done" =>
        \A k \in DOMAIN Findings : Reporting!SaysCompounds(Findings[k]) =>
            /\ Findings[k].effect = "value-change"
            /\ Magnitude(Findings[k].impact.maxDelta[1]) > Magnitude(Findings[k].impact.delta[1])

(***************************************************************************)
(* The effect is decided three times, by effectOf, by describe and by the  *)
(* optional fields of WriteJSON, from the same impact: all three must tell *)
(* the same story.  JSON has a change of value, and a larger one over      *)
(* several transactions, exactly when the text has, and none of a reader   *)
(* that reverts before or after.                                           *)
(***************************************************************************)
ToldOf(effect) ==
    CASE effect = "shared"        -> {"no effect observed"}
      [] effect = "revert-flip"   -> {"flips"}
      [] effect = "value-change"  -> {"value", "value, compounding"}
      [] effect = "output-change" -> {"output"}

OutputsAgree ==
    stage = "done" =>
        \A k \in DOMAIN Findings :
            LET text   == Reporting!Describe(Findings[k])
                fields == Reporting!JsonFields(Findings[k])
            IN  /\ text \in ToldOf(Findings[k].effect)
                /\ fields = {} <=> text = "no effect observed"
                /\ "delta" \in fields <=> text \in {"value", "value, compounding"}
                /\ "maxDelta" \in fields <=> text = "value, compounding"
=============================================================================
