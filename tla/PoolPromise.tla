----------------------------- MODULE PoolPromise -----------------------------
(***************************************************************************)
(* What Fuzz (internal/analyze/fuzz.go) and Evaluate                       *)
(* (internal/analyze/scenario.go) promise their caller, whatever happens   *)
(* inside: one answer, given once.  Either every job's result, ordered by  *)
(* name, or one error and no result at all.  The channels, the goroutines  *)
(* and the virtual machines do not appear here; WorkerPool implements this *)
(* module.                                                                 *)
(***************************************************************************)
EXTENDS Naturals, Sequences

CONSTANTS
    NumJobs,   \* how many jobs were built
    Name,      \* Name[j]: the rank of job j's name in string order
    Result,    \* Result[j]: what running job j on a fresh deployment yields
    Faults     \* the operations the environment may make fail

VARIABLE answer

Jobs == 1..NumJobs

NoAnswer   == [kind |-> "none",  results |-> <<>>, err |-> "none"]
Success(r) == [kind |-> "ok",    results |-> r,    err |-> "none"]
Failure(e) == [kind |-> "error", results |-> <<>>, err |-> e]

\* The one-to-one rearrangements of the positions in S.
Rearrangements(S) == {p \in [S -> S] : \A i, j \in S : p[i] = p[j] => i = j}

Init == answer = NoAnswer

\* All results are handed over at once: every job once, in name order, jobs
\* with equal names in either order.
Succeed ==
    /\ answer = NoAnswer
    /\ \E p \in Rearrangements(Jobs) :
          /\ \A i, j \in Jobs : i < j => Name[p[i]] <= Name[p[j]]
          /\ answer' = Success([i \in Jobs |-> [job |-> p[i], value |-> Result[p[i]]]])

\* An error is only ever reported when something did fail, and there is
\* something to run only when there is a job.
Fail ==
    /\ answer = NoAnswer
    /\ NumJobs > 0
    /\ \E f \in Faults : answer' = Failure(f)

Next == Succeed \/ Fail

Safety == Init /\ [][Next]_answer

Spec == Safety /\ WF_answer(Next)
=============================================================================
