------------------------------ MODULE WorkerPool ------------------------------
(***************************************************************************)
(* The worker pool of internal/analyze: runJobs (fuzz.go) and its twin     *)
(* runEdges (scenario.go), inside their callers Fuzz and Evaluate.         *)
(*                                                                         *)
(* The main goroutine proves that the contract deploys, fills a buffered   *)
(* job channel and closes it, starts the workers, waits for them, closes   *)
(* the result and error channels and then either returns the first error   *)
(* or collects and sorts the results.  A worker makes its own virtual      *)
(* machine, deploys its own copy of the contract and runs jobs until the   *)
(* job channel is empty.  What a job computes is abstracted to Result[j];  *)
(* modules Fuzzer and Evaluator put the real job in its place.             *)
(***************************************************************************)
EXTENDS Integers, Sequences, FiniteSets

CONSTANTS
    NumJobs,    \* number of jobs (fuzzJobs or edges)
    Name,       \* Name[j]: rank of job j's name (or writer, reader pair)
    Result,     \* Result[j]: what job j yields on a fresh deployment
    Nothing,    \* the value of a worker that has computed no result
    Requested,  \* FuzzConfig.Workers
    Procs,      \* runtime.GOMAXPROCS(0)
    Faults      \* which operations may fail: a subset of FaultKinds

FaultKinds == {"probeNew", "probeDeploy", "new", "deploy"}

Jobs == 1..NumJobs

ASSUME PoolAssumption ==
    /\ NumJobs \in Nat
    /\ Name \in [Jobs -> Nat]
    /\ DOMAIN Result = Jobs
    /\ Requested \in Int
    /\ Procs \in Nat \ {0}
    /\ Faults \subseteq FaultKinds

(***************************************************************************)
(* An overloaded ABI may list one signature twice.  Both jobs then have    *)
(* the same selector and the same calldata, hence the same result.         *)
(***************************************************************************)
ASSUME SameNameSameResult ==
    \A i, j \in Jobs : Name[i] = Name[j] => Result[i] = Result[j]

Least(a, b) == IF a < b THEN a ELSE b
Most(a, b)  == IF a > b THEN a ELSE b

\* FuzzConfig.workers: at most one worker a job, and never none.
WorkersFor(jobs) ==
    Most(1, Least(jobs, IF Requested > 0 THEN Requested ELSE Procs))

Workers == 1..WorkersFor(NumJobs)

\* Channel capacities given to make.  With these, no send ever blocks.
JobCap == NumJobs
ResCap == NumJobs
ErrCapShort == 1
ErrCap == WorkersFor(NumJobs)

VARIABLES
    mpc,      \* where the main goroutine is
    jobCh, resCh, errCh,  \* the channels: what is buffered, and open or closed
    wg,       \* the wait group's counter
    spawned,  \* how many workers have been started
    wpc,      \* where each worker is
    held,     \* the job each worker has taken, 0 for none
    out,      \* the result each worker has computed and not yet sent
    results,  \* the slice the main goroutine collects into
    answer    \* what the caller has been given

mainVars   == <<mpc, spawned, results, answer>>
workerVars == <<wpc, held, out>>
chanVars   == <<jobCh, resCh, errCh>>
vars == <<mpc, jobCh, resCh, errCh, wg, spawned, wpc, held, out, results, answer>>

NoAnswer   == [kind |-> "none",  results |-> <<>>, err |-> "none"]
Success(r) == [kind |-> "ok",    results |-> r,    err |-> "none"]
Failure(e) == [kind |-> "error", results |-> <<>>, err |-> e]

EmptyChan    == [buf |-> <<>>, open |-> TRUE]
Send(c, m)   == [c EXCEPT !.buf = Append(@, m)]
Receive(c)   == [c EXCEPT !.buf = Tail(@)]
Close(c)     == [c EXCEPT !.open = FALSE]
Pending(c)   == c.buf # <<>>
Drained(c)   == c.buf = <<>> /\ ~c.open
Room(c, cap) == Len(c.buf) < cap

MainPCs == {"enter", "probeNew", "probeDeploy", "fill", "spawn", "wait",
            "closeRes", "closeErr", "check", "collect", "sort", "done"}
WorkerPCs == {"unborn", "new", "deploy", "recv", "run", "send",
              "newErr", "deployErr", "exit", "gone"}

Init ==
    /\ mpc = "enter"
    /\ jobCh = EmptyChan /\ resCh = EmptyChan /\ errCh = EmptyChan
    /\ wg = 0
    /\ spawned = 0
    /\ wpc  = [w \in Workers |-> "unborn"]
    /\ held = [w \in Workers |-> 0]
    /\ out  = [w \in Workers |-> Nothing]
    /\ results = <<>>
    /\ answer = NoAnswer

-----------------------------------------------------------------------------
(* The main goroutine. *)

Return(a) == mpc' = "done" /\ answer' = a

\* No job: an empty answer and no error, before any machine is made.
Enter ==
    /\ mpc = "enter"
    /\ \/ NumJobs = 0 /\ Return(Success(<<>>))
       \/ NumJobs > 0 /\ mpc' = "probeNew" /\ UNCHANGED answer
    /\ UNCHANGED <<chanVars, wg, workerVars, spawned, results>>

\* The probe: one machine and one deployment, for an early error.
ProbeNew ==
    /\ mpc = "probeNew"
    /\ \/ mpc' = "probeDeploy" /\ UNCHANGED answer
       \/ "probeNew" \in Faults /\ Return(Failure("probeNew"))
    /\ UNCHANGED <<chanVars, wg, workerVars, spawned, results>>

ProbeDeploy ==
    /\ mpc = "probeDeploy"
    /\ \/ mpc' = "fill" /\ UNCHANGED answer
       \/ "probeDeploy" \in Faults /\ Return(Failure("probeDeploy"))
    /\ UNCHANGED <<chanVars, wg, workerVars, spawned, results>>

\* Every job is sent before the first worker exists, so the send must not block.
Fill ==
    /\ mpc = "fill"
    /\ Len(jobCh.buf) < NumJobs
    /\ Room(jobCh, JobCap)
    /\ jobCh' = Send(jobCh, Len(jobCh.buf) + 1)
    /\ UNCHANGED <<mainVars, resCh, errCh, wg, workerVars>>

CloseJobs ==
    /\ mpc = "fill"
    /\ Len(jobCh.buf) = NumJobs
    /\ jobCh' = Close(jobCh)
    /\ mpc' = "spawn"
    /\ UNCHANGED <<resCh, errCh, wg, workerVars, spawned, results, answer>>

\* The counter is raised by the main goroutine, before the worker can run.
Raised(n) == n + 1

Spawn ==
    /\ mpc = "spawn"
    /\ spawned < WorkersFor(NumJobs)
    /\ wg' = Raised(wg)
    /\ spawned' = spawned + 1
    /\ wpc' = [wpc EXCEPT ![spawned + 1] = "new"]
    /\ UNCHANGED <<mpc, chanVars, held, out, results, answer>>

Spawned ==
    /\ mpc = "spawn"
    /\ spawned = WorkersFor(NumJobs)
    /\ mpc' = "wait"
    /\ UNCHANGED <<chanVars, wg, workerVars, spawned, results, answer>>

AllDoneButOne == wg <= 1
AllDone == wg = 0

Wait ==
    /\ mpc = "wait"
    /\ AllDone
    /\ mpc' = "closeRes"
    /\ UNCHANGED <<chanVars, wg, workerVars, spawned, results, answer>>

CloseRes ==
    /\ mpc = "closeRes"
    /\ resCh' = Close(resCh)
    /\ mpc' = "closeErr"
    /\ UNCHANGED <<jobCh, errCh, wg, workerVars, spawned, results, answer>>

CloseErr ==
    /\ mpc = "closeErr"
    /\ errCh' = Close(errCh)
    /\ mpc' = "check"
    /\ UNCHANGED <<jobCh, resCh, wg, workerVars, spawned, results, answer>>

\* A receive from the closed error channel: the first error, or nil when there
\* is none.  An error discards every result, those already computed included.
SomeErrorUnlessResults == Pending(errCh) /\ ~Pending(resCh)
SomeError == Pending(errCh)

CheckErr ==
    /\ mpc = "check"
    /\ Pending(errCh) \/ Drained(errCh)
    /\ \/ /\ SomeError
          /\ errCh' = Receive(errCh)
          /\ Return(Failure(Head(errCh.buf)))
       \/ /\ ~SomeError
          /\ mpc' = "collect"
          /\ UNCHANGED <<errCh, answer>>
    /\ UNCHANGED <<jobCh, resCh, wg, workerVars, spawned, results>>

Collect ==
    /\ mpc = "collect"
    /\ \/ /\ Pending(resCh)
          /\ results' = Append(results, Head(resCh.buf))
          /\ resCh' = Receive(resCh)
          /\ UNCHANGED mpc
       \/ /\ Drained(resCh)
          /\ mpc' = "sort"
          /\ UNCHANGED <<results, resCh>>
    /\ UNCHANGED <<jobCh, errCh, wg, workerVars, spawned, answer>>

\* sort.Slice is not stable: results of equal names may end in either order.
Rearrangements(S) == {p \in [S -> S] : \A i, j \in S : p[i] = p[j] => i = j}

AnyOrder(r) == TRUE
Ordered(r) == \A i, j \in DOMAIN r : i < j => Name[r[i].job] <= Name[r[j].job]

Sort ==
    /\ mpc = "sort"
    /\ \E p \in Rearrangements(DOMAIN results) :
          /\ results' = [i \in DOMAIN results |-> results[p[i]]]
          /\ Ordered(results')
    /\ Return(Success(results'))
    /\ UNCHANGED <<chanVars, wg, workerVars, spawned>>

Main ==
    \/ Enter \/ ProbeNew \/ ProbeDeploy \/ Fill \/ CloseJobs \/ Spawn \/ Spawned
    \/ Wait \/ CloseRes \/ CloseErr \/ CheckErr \/ Collect \/ Sort

-----------------------------------------------------------------------------
(* A worker goroutine. *)

\* evm.New, or its error.
NewExecutor(w) ==
    /\ wpc[w] = "new"
    /\ \/ wpc' = [wpc EXCEPT ![w] = "deploy"]
       \/ "new" \in Faults /\ wpc' = [wpc EXCEPT ![w] = "newErr"]
    /\ UNCHANGED <<mainVars, chanVars, wg, held, out>>

\* Deploy on the worker's own machine, or its error.
DeployCopy(w) ==
    /\ wpc[w] = "deploy"
    /\ \/ wpc' = [wpc EXCEPT ![w] = "recv"]
       \/ "deploy" \in Faults /\ wpc' = [wpc EXCEPT ![w] = "deployErr"]
    /\ UNCHANGED <<mainVars, chanVars, wg, held, out>>

\* errCh <- err; return
NilError(pc) == "none"
ErrorOf(pc) == IF pc = "newErr" THEN "new" ELSE "deploy"

SendError(w) ==
    /\ wpc[w] \in {"newErr", "deployErr"}
    /\ Room(errCh, ErrCap)
    /\ errCh' = Send(errCh, ErrorOf(wpc[w]))
    /\ wpc' = [wpc EXCEPT ![w] = "exit"]
    /\ UNCHANGED <<mainVars, jobCh, resCh, wg, held, out>>

\* for job := range jobCh
NotTaken(c) == c
Taken(c) == Receive(c)

TakeJob(w) ==
    /\ wpc[w] = "recv"
    /\ \/ /\ Pending(jobCh)
          /\ held' = [held EXCEPT ![w] = Head(jobCh.buf)]
          /\ jobCh' = Taken(jobCh)
          /\ wpc' = [wpc EXCEPT ![w] = "run"]
       \/ /\ Drained(jobCh)
          /\ wpc' = [wpc EXCEPT ![w] = "exit"]
          /\ UNCHANGED <<held, jobCh>>
    /\ UNCHANGED <<mainVars, resCh, errCh, wg, out>>

RunJob(w) ==
    /\ wpc[w] = "run"
    /\ out' = [out EXCEPT ![w] = Result[held[w]]]
    /\ wpc' = [wpc EXCEPT ![w] = "send"]
    /\ UNCHANGED <<mainVars, chanVars, wg, held>>

SendResult(w) ==
    /\ wpc[w] = "send"
    /\ Room(resCh, ResCap)
    /\ resCh' = Send(resCh, [job |-> held[w], value |-> out[w]])
    /\ held' = [held EXCEPT ![w] = 0]
    /\ out' = [out EXCEPT ![w] = Nothing]
    /\ wpc' = [wpc EXCEPT ![w] = "recv"]
    /\ UNCHANGED <<mainVars, jobCh, errCh, wg>>

\* The deferred wg.Done.
Done(w) ==
    /\ wpc[w] = "exit"
    /\ wg' = wg - 1
    /\ wpc' = [wpc EXCEPT ![w] = "gone"]
    /\ UNCHANGED <<mainVars, chanVars, held, out>>

Worker(w) ==
    \/ NewExecutor(w) \/ DeployCopy(w) \/ SendError(w) \/ TakeJob(w)
    \/ RunJob(w) \/ SendResult(w) \/ Done(w)

-----------------------------------------------------------------------------
\* The call has returned and no goroutine of it is left.
Quiet == mpc = "done" /\ \A w \in Workers : wpc[w] \in {"unborn", "gone"}

Finished == Quiet /\ UNCHANGED vars

Next == Main \/ (\E w \in Workers : Worker(w)) \/ Finished

\* Go schedules every goroutine that can run.
Fairness == WF_vars(Main) /\ \A w \in Workers : WF_vars(Worker(w))

Spec == Init /\ [][Next]_vars /\ Fairness

-----------------------------------------------------------------------------
Messages == {[job |-> j, value |-> Result[j]] : j \in Jobs}

Channel(S) == [buf : Seq(S), open : BOOLEAN]

\* Every variable keeps its type, and what is in hand agrees with where the
\* worker is; the workers not yet started are the last ones.
TypeOK ==
    /\ mpc \in MainPCs
    /\ jobCh \in Channel(Jobs)
    /\ resCh \in Channel(Messages)
    /\ errCh \in Channel({"new", "deploy"})
    /\ wg \in Int
    /\ spawned \in 0..WorkersFor(NumJobs)
    /\ wpc \in [Workers -> WorkerPCs]
    /\ held \in [Workers -> Jobs \cup {0}]
    /\ out \in [Workers -> {Result[j] : j \in Jobs} \cup {Nothing}]
    /\ \A w \in Workers :
          /\ wpc[w] = "unborn" <=> w > spawned
          /\ held[w] \in (IF wpc[w] \in {"run", "send"} THEN Jobs ELSE {0})
          /\ out[w] = (IF wpc[w] = "send" THEN Result[held[w]] ELSE Nothing)
    /\ results \in Seq(Messages)
    /\ answer.kind \in {"none", "ok", "error"}

(***************************************************************************)
(* runJobs, runEdges: resCh and errCh are closed by main while the workers *)
(* own their sending side; a send after the close would panic the program. *)
(* Only the wait group stands between the two.                             *)
(***************************************************************************)
NoSendOnClosed ==
    \A w \in Workers :
        /\ wpc[w] \in {"new", "deploy", "recv", "run", "send"} => resCh.open
        /\ wpc[w] \in {"new", "deploy", "newErr", "deployErr"} => errCh.open

(***************************************************************************)
(* From the moment the jobs are all queued until they are sorted, each job *)
(* is in exactly one place: queued, held by one worker, or answered once.  *)
(* No schedule, and no worker that dies on its deployment, loses or        *)
(* repeats a job.                                                          *)
(***************************************************************************)
Places(j) ==
      Cardinality({i \in DOMAIN jobCh.buf : jobCh.buf[i] = j})
    + Cardinality({w \in Workers : held[w] = j})
    + Cardinality({i \in DOMAIN resCh.buf : resCh.buf[i].job = j})
    + Cardinality({i \in DOMAIN results : results[i].job = j})

EachJobInOnePlace ==
    mpc \notin {"enter", "probeNew", "probeDeploy", "fill", "done"} =>
        \A j \in Jobs : Places(j) = 1

(***************************************************************************)
(* Fuzz and Evaluate return every result or an error, never a part of the  *)
(* results as if it were all of them: a worker that could not deploy must  *)
(* not silently shrink the answer, even when the others did all the work.  *)
(***************************************************************************)
AllOrNothing ==
    /\ answer.kind = "ok" =>
          /\ {answer.results[i].job : i \in DOMAIN answer.results} = Jobs
          /\ Len(answer.results) = NumJobs
          /\ errCh.buf = <<>>
    /\ answer.kind = "error" => answer.results = <<>>

(***************************************************************************)
(* fuzz.go: "the graph does not depend on how work was scheduled across    *)
(* goroutines".  The answer's names and values are the same in every       *)
(* schedule and for every number of workers, although the sort is not      *)
(* stable and names may repeat.                                            *)
(***************************************************************************)
Visible(r) == [i \in DOMAIN r |-> <<Name[r[i].job], r[i].value>>]

Reference ==
    LET p == CHOOSE q \in Rearrangements(Jobs) :
                 \A i, j \in Jobs : i < j => Name[q[i]] <= Name[q[j]]
    IN  [i \in Jobs |-> <<Name[p[i]], Result[p[i]]>>]

Deterministic == answer.kind = "ok" => Visible(answer.results) = Reference

(***************************************************************************)
(* Every call returns, whichever operations fail and however many workers  *)
(* fail together, and leaves no goroutine blocked behind it.               *)
(***************************************************************************)
Termination == <>Quiet

(***************************************************************************)
(* The pool implements the promise of Fuzz and Evaluate.                   *)
(***************************************************************************)
Promise == INSTANCE PoolPromise
PromiseKept == Promise!Spec
=============================================================================
