-------------------------------- MODULE Report --------------------------------
(***************************************************************************)
(* internal/report: the edges of the graph and the impacts measured on     *)
(* them, assembled into findings, scored and ranked.  An edge is [writer,  *)
(* reader, slots], an impact [writer, reader, impact], with the impact as  *)
(* in module Scenario.                                                     *)
(***************************************************************************)
EXTENDS Integers, Sequences, FiniteSets, Sorting

CONSTANT NoImpact   \* the zero Impact, of an edge nobody evaluated

Size(d) == IF d < 0 THEN -d ELSE d

\* classify.  The severities are ordered as their iota constants are.
Low == 0
Medium == 1
High == 2

Flips(imp) == imp.before.reverted # imp.after.reverted
Moves(imp) == imp.delta # <<>> /\ imp.delta[1] # 0

Classify(imp) ==
    IF ~imp.confirmed THEN Low ELSE IF Flips(imp) \/ Moves(imp) THEN High ELSE Medium

EffectOf(imp) ==
    CASE ~imp.confirmed                                      -> "shared"
      [] imp.confirmed /\ Flips(imp)                         -> "revert-flip"
      [] imp.confirmed /\ ~Flips(imp) /\ imp.delta # <<>>    -> "value-change"
      [] OTHER                                               -> "output-change"

\* byEdge: the last impact of these names, if any.
ByWriter(impacts, e) ==
    LET at == {k \in DOMAIN impacts : impacts[k].writer = e.writer}
    IN  IF at = {} THEN NoImpact
        ELSE impacts[CHOOSE k \in at : \A l \in at : l <= k].impact
ImpactAt(impacts, e) ==
    LET at == {k \in DOMAIN impacts : impacts[k].writer = e.writer /\ impacts[k].reader = e.reader}
    IN  IF at = {} THEN NoImpact
        ELSE impacts[CHOOSE k \in at : \A l \in at : l <= k].impact

FindingOf(e, imp) ==
    [severity |-> Classify(imp), writer |-> e.writer, reader |-> e.reader,
     effect |-> EffectOf(imp), slots |-> e.slots, impact |-> imp]

\* rank: by severity, then by the size of the change, then by names; stable.
SizeOf(f) == IF f.impact.delta = <<>> THEN 0 ELSE Size(f.impact.delta[1])

BiggestFirst(f, g) ==
    \/ SizeOf(f) > SizeOf(g)
    \/ SizeOf(f) = SizeOf(g) /\ f.writer < g.writer
    \/ SizeOf(f) = SizeOf(g) /\ f.writer = g.writer /\ f.reader < g.reader
RanksBefore(f, g) ==
    \/ f.severity > g.severity
    \/ f.severity = g.severity /\ BiggestFirst(f, g)

Precedes(findings, i, j) ==
    \/ RanksBefore(findings[i], findings[j])
    \/ ~RanksBefore(findings[j], findings[i]) /\ i < j

Ranked(findings) ==
    LET places == DOMAIN findings
        order  == Sorted([j \in places |-> {i \in places : Precedes(findings, i, j)}])
    IN  [k \in DOMAIN findings |-> findings[order[k]]]

Scored(findings, s) == Cardinality({k \in DOMAIN findings : findings[k].severity = s})

\* Build.
BuildReport(analyzed, skipped, edges, impacts) ==
    LET findings == Ranked([k \in DOMAIN edges |->
                        FindingOf(edges[k], ImpactAt(impacts, edges[k]))])
    IN  [analyzed |-> analyzed, skipped |-> skipped, findings |-> findings,
         high |-> Scored(findings, High), medium |-> Scored(findings, Medium),
         low |-> Scored(findings, Low)]

\* The stacked change is told when it took several runs.
StackedAtAll(f) == f.impact.maxDelta # <<>>
SaysCompounds(f) == f.impact.maxRepeats > 1 /\ f.impact.maxDelta # <<>>

\* describe: what the text says of a finding.
Describe(f) ==
    CASE ~f.impact.confirmed -> "no effect observed"
      [] f.impact.confirmed /\ Flips(f.impact) -> "flips"
      [] f.impact.confirmed /\ ~Flips(f.impact) /\ f.impact.delta # <<>> ->
            IF SaysCompounds(f) THEN "value, compounding" ELSE "value"
      [] OTHER -> "output"

\* WriteJSON: the optional fields of a finding.
JsonFields(f) ==
    (IF f.impact.confirmed THEN {"readerBefore", "readerAfter"} ELSE {})
    \cup (IF f.impact.delta # <<>> THEN {"delta"} ELSE {})
    \cup (IF SaysCompounds(f) THEN {"maxRepeats", "maxDelta"} ELSE {})
=============================================================================
