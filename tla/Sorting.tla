------------------------------- MODULE Sorting -------------------------------
(***************************************************************************)
(* Sorting as Go's sort package does it, up to the choice of an algorithm. *)
(* before[x] is the set of the elements that are to come before x, for     *)
(* each x of the finite set DOMAIN before.                                 *)
(***************************************************************************)
EXTENDS Integers, FiniteSets

\* The elements in order: the k-th has k - 1 before it.
Sorted(before) ==
    [k \in 1..Cardinality(DOMAIN before) |->
        CHOOSE x \in DOMAIN before : Cardinality(before[x]) = k - 1]
=============================================================================
