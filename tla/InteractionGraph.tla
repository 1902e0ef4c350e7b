--------------------------- MODULE InteractionGraph ---------------------------
(***************************************************************************)
(* Build of internal/graph, over the traces of internal/trace.  A traced   *)
(* function is [name, accesses]; its name is a number, the rank of its     *)
(* signature in string order, and a sorted list of slots without repeats   *)
(* is the set of them.                                                     *)
(***************************************************************************)
EXTENDS Integers, Sequences, FiniteSets, Sorting

\* Function.slots, and Reads and Writes by it.
SlotsOf(f, kind) == {a.slot : a \in {x \in f.accesses : x.kind = kind}}
Reads(f)  == SlotsOf(f, "read")
Writes(f) == SlotsOf(f, "write")

\* What an ordering of the two could change: the reads present in the writes.
Shared(w, r) == Writes(w) \cap Reads(r)

\* Functions are compared by position, and never with themselves.
EdgePairs(fns) ==
    {p \in (DOMAIN fns) \X (DOMAIN fns) : p[1] # p[2] /\ Shared(fns[p[1]], fns[p[2]]) # {}}

EdgeOf(fns, p) ==
    [writer |-> fns[p[1]].name, reader |-> fns[p[2]].name, slots |-> Shared(fns[p[1]], fns[p[2]])]

\* sortEdges, by writer and then reader.  sort.Slice may order edges of equal
\* names either way; here they keep the order of their positions, which nobody
\* sees: functions of one name have the same calldata and the same accesses.
EdgeLess(fns, p, q) ==
    LET d == EdgeOf(fns, p)
        e == EdgeOf(fns, q)
    IN  \/ d.writer < e.writer
        \/ d.writer = e.writer /\ d.reader < e.reader
        \/ d.writer = e.writer /\ d.reader = e.reader
           /\ (p[1] < q[1] \/ (p[1] = q[1] /\ p[2] < q[2]))

Build(fns) ==
    LET pairs == EdgePairs(fns)
        order == Sorted([p \in pairs |-> {q \in pairs : EdgeLess(fns, q, p)}])
    IN  [k \in DOMAIN order |-> EdgeOf(fns, order[k])]
=============================================================================
