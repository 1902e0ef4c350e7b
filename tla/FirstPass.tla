------------------------------ MODULE FirstPass ------------------------------
(***************************************************************************)
(* The pass without a corpus: SpecsFromABI (specs.go) gives each method    *)
(* one call with zero arguments, and Traces (analyze.go) makes these calls *)
(* one after the other on one executor.  The command does not use it; the  *)
(* tests build their graphs from it.  Here it runs beside module Analysis, *)
(* on the same contract.                                                   *)
(***************************************************************************)
EXTENDS Analysis

\* ZeroCall(n): <<calldata>> of the method named n, or <<>> if its zero
\* arguments cannot be encoded.
CONSTANT ZeroCall(_)

Encodable == {i \in DOMAIN methods : ZeroCall(methods[i].name) # <<>>}
SpecOf(method) == [name |-> method.name, calldata |-> ZeroCall(method.name)[1]]

\* In the order of the names; the methods' places tell those of one name apart.
NamedBefore(i, j) ==
    \/ methods[i].name < methods[j].name
    \/ methods[i].name = methods[j].name /\ i < j

SpecsFromABI ==
    LET encoded == Sorted([i \in Encodable |-> {j \in Encodable : NamedBefore(j, i)}])
    IN  [k \in DOMAIN encoded |-> SpecOf(methods[encoded[k]])]

\* Traces: [exec, fns] after one more spec, called between a snapshot and its
\* revert.
NotRewound(exec, id) == exec
Rewound(exec, id) == RevertToSnapshot(exec, id)

TraceSpec(pass, spec) ==
    LET res == Call(Snapshot(pass.exec), Caller, Contract, spec.calldata)
    IN  [exec |-> Rewound(res.exec, SnapshotId(pass.exec)),
         fns  |-> Append(pass.fns, [name |-> spec.name, accesses |-> res.accesses])]

Traces(exec, specs) ==
    LET pass[k \in 0..Len(specs)] ==
            IF k = 0 THEN [exec |-> exec, fns |-> <<>>] ELSE TraceSpec(pass[k - 1], specs[k])
    IN  pass[Len(specs)]

-----------------------------------------------------------------------------
\* Whether the fuzzer makes the zero call of the method named n too.  It does if
\* all the arguments are Plain (FuzzCoversZero of module Preparation); it makes
\* other calls if one is a slice, fixed bytes other than an address, or an array
\* of several elements.
FuzzRepeatsZero(n) ==
    \E i \in DOMAIN methods :
        /\ methods[i].name = n
        /\ \E k \in DOMAIN methods[i].variants : ZeroCall(n) = <<methods[i].variants[k]>>

(***************************************************************************)
(* analyze.go:24-27: a trace of the first pass has nothing of "the         *)
(* leftovers of the function before it".  So an edge of its graph is       *)
(* reported by the analysis, with all its slots, if the fuzzer repeats the *)
(* zero calls of its two methods: although the first pass makes all calls  *)
(* on one executor in the order of the names, and the pool's workers do    *)
(* not.  The other edges of the first pass may be missing from the report. *)
(***************************************************************************)
FirstPassKept ==
    stage = "done" =>
        LET first == Build(Traces(Baseline, SpecsFromABI).fns)
        IN  \A k \in DOMAIN first :
                FuzzRepeatsZero(first[k].writer) /\ FuzzRepeatsZero(first[k].reader) =>
                    \E l \in DOMAIN Findings :
                        /\ Findings[l].writer = first[k].writer
                        /\ Findings[l].reader = first[k].reader
                        /\ first[k].slots \subseteq Findings[l].slots
=============================================================================
