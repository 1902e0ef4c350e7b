-------------------------------- MODULE Fuzzer --------------------------------
(***************************************************************************)
(* Fuzz of internal/analyze/fuzz.go: the worker pool with the real job in  *)
(* it.  A worker owns one executor with a fresh deployment; runJob calls   *)
(* the function once per variant, each call between a snapshot and its     *)
(* revert, and unions the accesses seen.  Steps of different workers       *)
(* interleave at every executor operation.                                 *)
(***************************************************************************)
EXTENDS Scenario, FiniteSets

CONSTANTS
    NumJobs, Name, Requested, Procs, Faults,  \* as in WorkerPool
    Inputs,     \* the calldata the corpus can produce
    Variants    \* Variants[j]: the calldata tried for job j, in order

Jobs == 1..NumJobs

ASSUME FuzzerAssumption ==
    /\ NumJobs \in Nat
    /\ Variants \in [Jobs -> Seq(Inputs)]

\* Of what happens to a world in a call, SSTORE alone changes the storage of the
\* contract; the credit before the call does not.
ASSUME StoreAssumption ==
    LET funded == Fund(Baseline.world, Caller)
        stored == Baseline.world.storage[Contract]
    IN  /\ "storage" \in DOMAIN Baseline.world
        /\ \A input \in Inputs :
              LET receipt == Run(funded, Caller, Contract, input)
              IN  receipt.ok =>
                    \A s \in DOMAIN stored :
                       receipt.world.storage[Contract][s] # stored[s] =>
                          \E k \in DOMAIN receipt.steps :
                             /\ receipt.steps[k].op = "SSTORE"
                             /\ receipt.steps[k].addr = Contract
                             /\ receipt.steps[k].slot = s

\* What each job is to yield.
Footprint == [j \in Jobs |-> FootprintOf(Variants[j])]

VARIABLES
    mpc, jobCh, resCh, errCh, wg, spawned, wpc, held, out, results, answer,
    exec,      \* each worker's executor
    stage,     \* where in the loop of runJob each worker is
    snap,      \* the snapshot each worker took last
    variant,   \* the variant each worker calls next
    accesses   \* what each worker has seen of its job so far

machineVars == <<exec, stage, snap, variant, accesses>>

Pool == INSTANCE WorkerPool WITH Result <- Footprint, Nothing <- {}

\* A signature listed twice has one selector, and so one list of calldata.
ASSUME FuzzPoolAssumption ==
    /\ Name \in [Jobs -> Nat]
    /\ Requested \in Int
    /\ Procs \in Nat \ {0}
    /\ Faults \subseteq Pool!FaultKinds
    /\ \A i, j \in Jobs : Name[i] = Name[j] => Variants[i] = Variants[j]

Workers == Pool!Workers
poolVars == <<mpc, jobCh, resCh, errCh, wg, spawned, wpc, held, out, results, answer>>
vars == <<poolVars, machineVars>>

\* The executor of worker w: each goroutine makes its own.
SharedMachine(w) == 1
Machine(w) == w

Init ==
    /\ Pool!Init
    /\ exec     = [w \in Workers |-> NewExecutor]
    /\ stage    = [w \in Workers |-> "loop"]
    /\ snap     = [w \in Workers |-> 0]
    /\ variant  = [w \in Workers |-> 1]
    /\ accesses = [w \in Workers |-> {}]

\* The pool's own steps leave the machines alone, but for the deployment.
Main == Pool!Main /\ UNCHANGED machineVars

NewMachine(w) == Pool!NewExecutor(w) /\ UNCHANGED machineVars

DeployCopy(w) ==
    /\ Pool!DeployCopy(w)
    /\ exec' = [exec EXCEPT ![Machine(w)] = Deploy(NewExecutor, Deployer, Bytecode).exec]
    /\ UNCHANGED <<stage, snap, variant, accesses>>

SendError(w)  == Pool!SendError(w)  /\ UNCHANGED machineVars
TakeJob(w)    == Pool!TakeJob(w)    /\ UNCHANGED machineVars
SendResult(w) == Pool!SendResult(w) /\ UNCHANGED machineVars
Exit(w)       == Pool!Done(w)       /\ UNCHANGED machineVars

InJob(w, s)   == wpc[w] = "run" /\ stage[w] = s
OneTooMany(w) == variant[w] <= Len(Variants[held[w]]) + 1
HasVariant(w) == variant[w] <= Len(Variants[held[w]])

TakeSnapshot(w) ==
    /\ InJob(w, "loop") /\ HasVariant(w)
    /\ snap' = [snap EXCEPT ![w] = SnapshotId(exec[Machine(w)])]
    /\ exec' = [exec EXCEPT ![Machine(w)] = Snapshot(@)]
    /\ stage' = [stage EXCEPT ![w] = "call"]
    /\ UNCHANGED <<poolVars, variant, accesses>>

\* append(accesses, res.Accesses...), whether or not the call reverted.
LatestOnly(old, new) == new
Appended(old, new) == old \cup new

CallVariant(w) ==
    /\ InJob(w, "call")
    /\ LET res == Call(exec[Machine(w)], Caller, Contract, Variants[held[w]][variant[w]])
       IN  /\ exec' = [exec EXCEPT ![Machine(w)] = res.exec]
           /\ accesses' = [accesses EXCEPT ![w] = Appended(@, res.accesses)]
    /\ stage' = [stage EXCEPT ![w] = "revert"]
    /\ UNCHANGED <<poolVars, snap, variant>>

NotRewound(e, id) == e
Rewound(e, id) == RevertToSnapshot(e, id)

Rewind(w) ==
    /\ InJob(w, "revert")
    /\ exec' = [exec EXCEPT ![Machine(w)] = Rewound(@, snap[w])]
    /\ variant' = [variant EXCEPT ![w] = @ + 1]
    /\ stage' = [stage EXCEPT ![w] = "loop"]
    /\ UNCHANGED <<poolVars, snap, accesses>>

\* runJob returns: the pool sends what it collected.
FinishJob(w) ==
    /\ InJob(w, "loop") /\ ~HasVariant(w)
    /\ out' = [out EXCEPT ![w] = accesses[w]]
    /\ wpc' = [wpc EXCEPT ![w] = "send"]
    /\ variant' = [variant EXCEPT ![w] = 1]
    /\ accesses' = [accesses EXCEPT ![w] = {}]
    /\ snap' = [snap EXCEPT ![w] = 0]
    /\ UNCHANGED <<mpc, jobCh, resCh, errCh, wg, spawned, held, results, answer, exec, stage>>

Worker(w) ==
    \/ NewMachine(w) \/ DeployCopy(w) \/ SendError(w) \/ TakeJob(w) \/ SendResult(w) \/ Exit(w)
    \/ TakeSnapshot(w) \/ CallVariant(w) \/ Rewind(w) \/ FinishJob(w)

Finished == Pool!Finished /\ UNCHANGED machineVars

Next == Main \/ (\E w \in Workers : Worker(w)) \/ Finished

Fairness == WF_vars(Main) /\ \A w \in Workers : WF_vars(Worker(w))

Spec == Init /\ [][Next]_vars /\ Fairness

-----------------------------------------------------------------------------
Deployed(w) == wpc[w] \in {"recv", "run", "send"}

\* The pool's types, and the machine's: a worker is inside the loop only while
\* it runs a job.
TypeOK ==
    /\ Pool!TypeOK
    /\ stage \in [Workers -> {"loop", "call", "revert"}]
    /\ \A w \in Workers :
          /\ wpc[w] # "run" => stage[w] = "loop" /\ variant[w] = 1 /\ accesses[w] = {}
          /\ wpc[w] = "run" => variant[w] \in 1..(Len(Variants[held[w]]) + 1)
          /\ InJob(w, "call") \/ InJob(w, "revert") => variant[w] \in DOMAIN Variants[held[w]]

(***************************************************************************)
(* runJob: "variants and later jobs never see each other's writes".        *)
(* Between calls a worker's machine is exactly the fresh deployment, the   *)
(* sender's balance included, and a revert always names a snapshot the     *)
(* journal still knows (go-ethereum panics otherwise).                     *)
(***************************************************************************)
SameBaseline ==
    \A w \in Workers : Deployed(w) =>
        /\ stage[w] = "loop" => exec[Machine(w)] = Baseline
        /\ stage[w] # "loop" =>
              /\ KnownSnapshot(exec[Machine(w)], snap[w])
              /\ RevertToSnapshot(exec[Machine(w)], snap[w]) = Baseline

(***************************************************************************)
(* The footprint is sound for writes: a slot of the contract that a call   *)
(* really changed is among the writes recorded for its function.           *)
(***************************************************************************)
Changed(w) ==
    {s \in DOMAIN Baseline.world.storage[Contract] :
        exec[Machine(w)].world.storage[Contract][s] # Baseline.world.storage[Contract][s]}

ChangesAreRecorded ==
    \A w \in Workers : InJob(w, "revert") =>
        \A s \in Changed(w) : [kind |-> "write", slot |-> s] \in accesses[w]

(***************************************************************************)
(* fuzz.go: "each function's footprint is computed by a single worker from *)
(* the same baseline".  In every schedule the machines interleave in, the  *)
(* answer is that of the pool whose jobs yield, atomically, the accesses   *)
(* of their calls made alone on a fresh deployment.                        *)
(***************************************************************************)
PoolKept == Pool!Spec
=============================================================================
