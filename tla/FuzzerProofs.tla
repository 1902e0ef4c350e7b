----------------------------- MODULE FuzzerProofs -----------------------------
(***************************************************************************)
(* Theorems of Fuzz, for any contract (whatever Run and Create do), any    *)
(* calldata, and any number of jobs and workers: every call starts from    *)
(* the fresh deployment, and what a worker answers for a job is exactly    *)
(* the union of the accesses of its calls made alone.                      *)
(***************************************************************************)
EXTENDS Fuzzer, ScenarioProofs

-----------------------------------------------------------------------------
(* The invariant. *)

\* The accesses of the first n calls of job j, each from the fresh deployment.
Called(j, n) ==
    UNION {Call(Baseline, Caller, Contract, Variants[j][i]).accesses : i \in 1..n}

\* A machine on which exactly one snapshot, of the fresh deployment, is open.
OpenOnce(w) ==
    /\ exec[w] = [world |-> exec[w].world, journal |-> <<Baseline.world>>]
    /\ snap[w] = 1

\* SameBaseline is not inductive: it does not say what the open snapshot holds
\* or that a worker between jobs is outside the loop.
Local(w) ==
    /\ w > spawned => wpc[w] = "unborn"
    /\ Deployed(w) /\ stage[w] = "loop" => exec[w] = Baseline
    /\ stage[w] # "loop" => wpc[w] = "run" /\ OpenOnce(w)
    /\ stage[w] = "call" => exec[w].world = Baseline.world
    /\ wpc[w] # "run" => variant[w] = 1 /\ accesses[w] = {}
    /\ wpc[w] = "run" => held[w] \in Jobs
    /\ wpc[w] = "run" /\ stage[w] # "loop" => HasVariant(w)
    /\ wpc[w] = "run" /\ stage[w] = "loop" => variant[w] <= Len(Variants[held[w]]) + 1
    /\ wpc[w] = "run" => accesses[w] =
          Called(held[w], IF stage[w] = "revert" THEN variant[w] ELSE variant[w] - 1)

Inv ==
    /\ jobCh \in Pool!Channel(Jobs)
    /\ held \in [Workers -> Jobs \cup {0}]
    /\ wpc \in [Workers -> Pool!WorkerPCs]
    /\ DOMAIN exec = Workers /\ exec = [w \in Workers |-> exec[w]]
    /\ stage \in [Workers -> {"loop", "call", "revert"}]
    /\ variant \in [Workers -> Nat \ {0}]
    /\ DOMAIN accesses = Workers /\ accesses = [w \in Workers |-> accesses[w]]
    /\ DOMAIN snap = Workers /\ snap = [w \in Workers |-> snap[w]]
    /\ spawned \in Nat
    /\ \A w \in Workers : Local(w)

LEMMA CalledNone ==
    ASSUME NEW j
    PROVE  Called(j, 0) = {}
  BY DEF Called

LEMMA CalledNext ==
    ASSUME NEW j, NEW n \in Nat
    PROVE  Called(j, n + 1) =
             Called(j, n) \cup Call(Baseline, Caller, Contract, Variants[j][n + 1]).accesses
  <1>1. 1..(n + 1) = (1..n) \cup {n + 1}
    OBVIOUS
  <1>. QED BY <1>1 DEF Called

LEMMA VariantsShape ==
    ASSUME NEW j \in Jobs
    PROVE  /\ Len(Variants[j]) \in Nat
           /\ Footprint[j] = Called(j, Len(Variants[j]))
  <1>1. Variants[j] \in Seq(Inputs)
    BY FuzzerAssumption
  <1>2. Len(Variants[j]) \in Nat /\ DOMAIN Variants[j] = 1..Len(Variants[j])
    BY <1>1
  <1>. QED BY <1>2 DEF Footprint, FootprintOf, Called

LEMMA InvInit == Init => Inv
  <1>. SUFFICES ASSUME Init PROVE Inv
    OBVIOUS
  <1>1. jobCh \in Pool!Channel(Jobs)
    BY DEF Init, Pool!Init, Pool!EmptyChan, Pool!Channel
  <1>2. \A w \in Workers : /\ wpc[w] = "unborn" /\ held[w] = 0 /\ stage[w] = "loop"
                           /\ variant[w] = 1 /\ accesses[w] = {}
    BY DEF Init, Pool!Init, Workers
  <1>. QED
    BY <1>1, <1>2 DEF Init, Pool!Init, Inv, Local, Workers, Pool!WorkerPCs, Deployed

\* A step that keeps every worker's machine and job, and may start a worker.
LEMMA InvKept ==
    ASSUME Inv, UNCHANGED machineVars, jobCh' \in Pool!Channel(Jobs),
           wpc' \in [Workers -> Pool!WorkerPCs], held' \in [Workers -> Jobs \cup {0}],
           spawned' \in Nat, \A w \in Workers : w > spawned' => wpc'[w] = "unborn",
           \A w \in Workers :
              \/ wpc'[w] = wpc[w] /\ held'[w] = held[w]
              \/ wpc[w] # "run" /\ wpc'[w] # "run" /\ (Deployed(w)' => Deployed(w))
    PROVE  Inv'
  BY DEF Inv, Local, machineVars, Deployed, OpenOnce, HasVariant

LEMMA InvMain == Inv /\ Main => Inv'
  <1>. SUFFICES ASSUME Inv, Main PROVE Inv'
    OBVIOUS
  <1>1. UNCHANGED machineVars /\ Pool!Main
    BY DEF Main
  <1>2. jobCh' \in Pool!Channel(Jobs)
    <2>1. CASE Pool!Fill
      <3>1. jobCh.buf \in Seq(Jobs) /\ Len(jobCh.buf) + 1 \in Jobs
        BY <2>1, FuzzerAssumption DEF Inv, Pool!Fill, Pool!Channel, Jobs
      <3>2. Append(jobCh.buf, Len(jobCh.buf) + 1) \in Seq(Jobs)
        BY <3>1
      <3>. QED BY <2>1, <3>2 DEF Inv, Pool!Fill, Pool!Channel, Pool!Send
    <2>2. CASE Pool!CloseJobs
      BY <2>2 DEF Inv, Pool!CloseJobs, Pool!Close, Pool!Channel
    <2>. QED
      BY <1>1, <2>1, <2>2
      DEF Inv, Pool!Main, Pool!Enter, Pool!ProbeNew, Pool!ProbeDeploy, Pool!Spawn, Pool!Spawned,
          Pool!Wait, Pool!CloseRes, Pool!CloseErr, Pool!CheckErr, Pool!Collect, Pool!Sort,
          Pool!chanVars
  <1>3. held' = held
    BY <1>1
    DEF Pool!Main, Pool!Enter, Pool!ProbeNew, Pool!ProbeDeploy, Pool!Fill, Pool!CloseJobs,
        Pool!Spawn, Pool!Spawned, Pool!Wait, Pool!CloseRes, Pool!CloseErr, Pool!CheckErr,
        Pool!Collect, Pool!Sort, Pool!workerVars
  <1>4. CASE Pool!Spawn
    <2>1. spawned' = spawned + 1 /\ wpc' = [wpc EXCEPT ![spawned + 1] = "new"]
      BY <1>4 DEF Pool!Spawn
    <2>2. wpc' \in [Workers -> Pool!WorkerPCs]
      BY <2>1 DEF Inv, Pool!WorkerPCs
    <2>3. ASSUME NEW w \in Workers
          PROVE  /\ w > spawned' => wpc'[w] = "unborn"
                 /\ \/ wpc'[w] = wpc[w]
                    \/ wpc[w] = "unborn" /\ wpc'[w] = "new"
      <3>1. w \in Int
        BY DEF Workers, Pool!Workers
      <3>. QED BY <2>1, <3>1 DEF Inv, Local
    <2>. QED BY <1>1, <1>2, <1>3, <2>1, <2>2, <2>3, InvKept DEF Inv, Local, Deployed
  <1>5. CASE ~Pool!Spawn
    <2>1. wpc' = wpc /\ spawned' = spawned
      BY <1>1, <1>5
      DEF Pool!Main, Pool!Enter, Pool!ProbeNew, Pool!ProbeDeploy, Pool!Fill, Pool!CloseJobs,
          Pool!Spawned, Pool!Wait, Pool!CloseRes, Pool!CloseErr, Pool!CheckErr,
          Pool!Collect, Pool!Sort, Pool!workerVars, Pool!mainVars
    <2>. QED BY <1>1, <1>2, <1>3, <2>1, InvKept DEF Inv, Local
  <1>. QED BY <1>4, <1>5

\* The pool's steps of one worker but the deployment and the job itself.
LEMMA InvPoolStep ==
    ASSUME Inv, NEW w \in Workers,
           NewMachine(w) \/ SendError(w) \/ SendResult(w) \/ Exit(w)
    PROVE  Inv'
  <1>1. UNCHANGED <<machineVars, jobCh, spawned>> /\ wpc[w] # "run" /\ wpc[w] # "unborn"
    BY DEF NewMachine, SendError, SendResult, Exit, Pool!NewExecutor, Pool!SendError,
           Pool!SendResult, Pool!Done, Pool!chanVars, Pool!mainVars
  <1>2. PICK s \in {"deploy", "newErr", "exit", "recv", "gone"} :
           /\ wpc' = [wpc EXCEPT ![w] = s]
           /\ s = "recv" => wpc[w] = "send"
    BY DEF NewMachine, SendError, SendResult, Exit, Pool!NewExecutor, Pool!SendError,
           Pool!SendResult, Pool!Done
  <1>3. held' \in [Workers -> Jobs \cup {0}] /\ \A v \in Workers \ {w} : held'[v] = held[v]
    BY DEF Inv, NewMachine, SendError, SendResult, Exit, Pool!NewExecutor, Pool!SendError,
           Pool!SendResult, Pool!Done
  <1>4. wpc' \in [Workers -> Pool!WorkerPCs] /\ \A v \in Workers \ {w} : wpc'[v] = wpc[v]
    BY <1>2 DEF Inv, Pool!WorkerPCs
  <1>5. wpc'[w] = s
    BY <1>2 DEF Inv
  <1>. QED BY <1>1, <1>2, <1>3, <1>4, <1>5, InvKept DEF Inv, Local, Deployed

LEMMA InvDeploy ==
    ASSUME Inv, NEW w \in Workers, DeployCopy(w)
    PROVE  Inv'
  <1>1. /\ UNCHANGED <<stage, snap, variant, accesses, held, jobCh, spawned>>
        /\ wpc[w] = "deploy"
        /\ exec' = [exec EXCEPT ![w] = Baseline]
    BY DEF DeployCopy, Pool!DeployCopy, Pool!chanVars, Pool!mainVars, Machine, Baseline
  <1>2. PICK s \in {"recv", "deployErr"} : wpc' = [wpc EXCEPT ![w] = s]
    BY DEF DeployCopy, Pool!DeployCopy
  <1>3. wpc' \in [Workers -> Pool!WorkerPCs] /\ wpc'[w] = s
        /\ \A v \in Workers \ {w} : wpc'[v] = wpc[v]
    BY <1>2 DEF Inv, Pool!WorkerPCs
  <1>4. exec'[w] = Baseline /\ (\A v \in Workers \ {w} : exec'[v] = exec[v])
        /\ DOMAIN exec' = Workers /\ exec' = [v \in Workers |-> exec'[v]]
    BY <1>1 DEF Inv
  <1>. QED BY <1>1, <1>3, <1>4 DEF Inv, Local, Deployed, OpenOnce, HasVariant

LEMMA InvTakeJob ==
    ASSUME Inv, NEW w \in Workers, TakeJob(w)
    PROVE  Inv'
  <1>1. UNCHANGED machineVars /\ wpc[w] = "recv" /\ spawned' = spawned
    BY DEF TakeJob, Pool!TakeJob, Pool!mainVars
  <1>2. CASE Pool!Pending(jobCh)
    <2>1. /\ held' = [held EXCEPT ![w] = Head(jobCh.buf)]
          /\ wpc' = [wpc EXCEPT ![w] = "run"]
          /\ jobCh' = Pool!Receive(jobCh)
      BY <1>2 DEF TakeJob, Pool!TakeJob, Pool!Drained, Pool!Pending, Pool!Taken
    <2>2. jobCh.buf \in Seq(Jobs) /\ jobCh.buf # <<>>
      BY <1>2 DEF Inv, Local, Pool!Channel, Pool!Pending
    <2>3. Head(jobCh.buf) \in Jobs /\ Tail(jobCh.buf) \in Seq(Jobs)
      BY <2>2
    <2>4. jobCh' \in Pool!Channel(Jobs)
      BY <2>1, <2>3 DEF Inv, Pool!Channel, Pool!Receive
    <2>5. /\ held' \in [Workers -> Jobs \cup {0}] /\ held'[w] \in Jobs
          /\ \A v \in Workers \ {w} : held'[v] = held[v]
          /\ wpc' \in [Workers -> Pool!WorkerPCs] /\ wpc'[w] = "run"
          /\ \A v \in Workers \ {w} : wpc'[v] = wpc[v]
      BY <2>1, <2>3 DEF Inv, Pool!WorkerPCs
    <2>6. /\ stage[w] = "loop" /\ variant[w] = 1 /\ accesses[w] = {} /\ exec[w] = Baseline
      BY <1>1 DEF Inv, Local, Deployed
    <2>7. accesses[w] = Called(held'[w], variant[w] - 1)
      BY <2>6, CalledNone
    <2>8. variant[w] <= Len(Variants[held'[w]]) + 1
      BY <2>5, <2>6, VariantsShape
    <2>. QED
      BY <1>1, <2>4, <2>5, <2>6, <2>7, <2>8
      DEF Inv, Local, machineVars, Deployed, OpenOnce, HasVariant
  <1>3. CASE ~Pool!Pending(jobCh)
    <2>1. wpc' = [wpc EXCEPT ![w] = "exit"] /\ UNCHANGED <<held, jobCh>>
      BY <1>3 DEF TakeJob, Pool!TakeJob
    <2>2. wpc' \in [Workers -> Pool!WorkerPCs] /\ wpc'[w] = "exit"
          /\ \A v \in Workers \ {w} : wpc'[v] = wpc[v]
      BY <2>1 DEF Inv, Local, Pool!WorkerPCs
    <2>. QED BY <1>1, <2>1, <2>2, InvKept DEF Inv, Local, Deployed
  <1>. QED BY <1>2, <1>3

\* The steps of runJob touch one worker's machine and locals.
LEMMA InvTakeSnapshot ==
    ASSUME Inv, NEW w \in Workers, TakeSnapshot(w)
    PROVE  Inv'
  <1>1. /\ UNCHANGED <<jobCh, spawned, wpc, held, variant, accesses>>
        /\ wpc[w] = "run" /\ stage[w] = "loop" /\ HasVariant(w)
        /\ stage' = [stage EXCEPT ![w] = "call"]
        /\ exec' = [exec EXCEPT ![w] = Snapshot(exec[w])]
        /\ snap' = [snap EXCEPT ![w] = SnapshotId(exec[w])]
    BY DEF TakeSnapshot, InJob, poolVars, Machine
  <1>2. exec[w] = Baseline
    BY <1>1 DEF Inv, Local, Deployed
  <1>3. /\ exec'[w] = [world |-> Baseline.world, journal |-> <<Baseline.world>>]
        /\ snap'[w] = 1 /\ stage'[w] = "call"
    BY <1>1, <1>2, SnapshotLemma DEF Inv
  <1>4. OpenOnce(w)' /\ exec'[w].world = Baseline.world
    BY <1>3 DEF OpenOnce
  <1>5. /\ \A v \in Workers \ {w} : exec'[v] = exec[v] /\ snap'[v] = snap[v] /\ stage'[v] = stage[v]
        /\ DOMAIN exec' = Workers /\ exec' = [v \in Workers |-> exec'[v]]
        /\ DOMAIN snap' = Workers /\ snap' = [v \in Workers |-> snap'[v]]
        /\ stage' \in [Workers -> {"loop", "call", "revert"}]
    BY <1>1 DEF Inv
  <1>. QED BY <1>1, <1>3, <1>4, <1>5 DEF Inv, Local, Deployed, OpenOnce, HasVariant

LEMMA InvCallVariant ==
    ASSUME Inv, NEW w \in Workers, CallVariant(w)
    PROVE  Inv'
  <1>. DEFINE j    == held[w]
              n    == variant[w]
              e    == [world |-> Baseline.world, journal |-> <<Baseline.world>>]
              res  == Call(e, Caller, Contract, Variants[j][n])
              base == Call(Baseline, Caller, Contract, Variants[j][n])
  <1>1. wpc[w] = "run" /\ stage[w] = "call"
    BY DEF CallVariant, InJob
  <1>2. /\ exec[w] = e /\ snap[w] = 1
        /\ n \in Nat \ {0} /\ accesses[w] = Called(j, n - 1)
    BY <1>1 DEF Inv, Local, OpenOnce
  <1>3. /\ UNCHANGED <<jobCh, spawned, wpc, held, snap, variant>>
        /\ stage' = [stage EXCEPT ![w] = "revert"]
        /\ exec' = [exec EXCEPT ![w] = res.exec]
        /\ accesses' = [accesses EXCEPT ![w] = accesses[w] \cup res.accesses]
    BY <1>2 DEF CallVariant, poolVars, Machine, Appended
  <1>4. PICK x : res.exec = [world |-> x, journal |-> <<Baseline.world>>]
    BY DEF Call, Returned
  <1>5. res.accesses = base.accesses
    BY DEF Call, Returned
  <1>6. Called(j, n) = Called(j, n - 1) \cup base.accesses
    <2>1. n - 1 \in Nat /\ (n - 1) + 1 = n
      BY <1>2
    <2>. QED BY <2>1, CalledNext
  <1>. HIDE DEF res, base, e
  <1>7. /\ exec'[w] = [world |-> x, journal |-> <<Baseline.world>>]
        /\ stage'[w] = "revert" /\ accesses'[w] = Called(j, n)
    BY <1>2, <1>3, <1>4, <1>5, <1>6 DEF Inv
  <1>8. OpenOnce(w)'
    BY <1>2, <1>3, <1>7 DEF OpenOnce
  <1>9. /\ \A v \in Workers \ {w} :
              exec'[v] = exec[v] /\ accesses'[v] = accesses[v] /\ stage'[v] = stage[v]
        /\ DOMAIN exec' = Workers /\ exec' = [v \in Workers |-> exec'[v]]
        /\ DOMAIN accesses' = Workers /\ accesses' = [v \in Workers |-> accesses'[v]]
        /\ stage' \in [Workers -> {"loop", "call", "revert"}]
    BY <1>3 DEF Inv
  <1>10. Local(w)'
    BY <1>1, <1>2, <1>3, <1>7, <1>8 DEF Inv, Local, Deployed, HasVariant
  <1>11. \A v \in Workers \ {w} : Local(v)'
    BY <1>3, <1>9 DEF Inv, Local, Deployed, OpenOnce, HasVariant
  <1>. QED BY <1>3, <1>9, <1>10, <1>11 DEF Inv

LEMMA InvRewind ==
    ASSUME Inv, NEW w \in Workers, Rewind(w)
    PROVE  Inv'
  <1>1. /\ wpc[w] = "run" /\ stage[w] = "revert"
        /\ UNCHANGED <<jobCh, spawned, wpc, held, snap, accesses>>
        /\ exec' = [exec EXCEPT ![w] = RevertToSnapshot(exec[w], snap[w])]
        /\ variant' = [variant EXCEPT ![w] = variant[w] + 1]
        /\ stage' = [stage EXCEPT ![w] = "loop"]
    BY DEF Rewind, InJob, poolVars, Machine, Rewound
  <1>2. /\ OpenOnce(w) /\ variant[w] \in Nat \ {0} /\ HasVariant(w) /\ held[w] \in Jobs
        /\ accesses[w] = Called(held[w], variant[w])
    BY <1>1 DEF Inv, Local
  <1>3. RevertToSnapshot(exec[w], snap[w]) = Baseline
    BY <1>2, RevertLemma DEF OpenOnce
  <1>4. Len(Variants[held[w]]) \in Nat
    BY <1>2, VariantsShape
  <1>5. /\ exec'[w] = Baseline /\ stage'[w] = "loop" /\ variant'[w] = variant[w] + 1
        /\ variant'[w] <= Len(Variants[held[w]]) + 1 /\ variant'[w] - 1 = variant[w]
        /\ variant'[w] \in Nat \ {0}
    BY <1>1, <1>2, <1>3, <1>4 DEF Inv, Local, HasVariant
  <1>6. /\ \A v \in Workers \ {w} :
              exec'[v] = exec[v] /\ variant'[v] = variant[v] /\ stage'[v] = stage[v]
        /\ DOMAIN exec' = Workers /\ exec' = [v \in Workers |-> exec'[v]]
        /\ stage' \in [Workers -> {"loop", "call", "revert"}]
    BY <1>1, <1>2 DEF Inv
  <1>7. variant' \in [Workers -> Nat \ {0}]
    <2>1. variant[w] + 1 \in Nat \ {0} /\ variant \in [Workers -> Nat \ {0}]
      BY <1>2 DEF Inv
    <2>. QED BY <1>1, <2>1
  <1>. QED BY <1>1, <1>2, <1>5, <1>6, <1>7 DEF Inv, Local, Deployed, OpenOnce, HasVariant

\* What runJob returns is the footprint of its job.
LEMMA AnswersFootprint ==
    ASSUME Inv, NEW w \in Workers, FinishJob(w)
    PROVE  accesses[w] = Footprint[held[w]]
  <1>1. wpc[w] = "run" /\ stage[w] = "loop" /\ ~HasVariant(w)
    BY DEF FinishJob, InJob
  <1>2. /\ held[w] \in Jobs /\ variant[w] \in Nat
        /\ variant[w] <= Len(Variants[held[w]]) + 1
        /\ accesses[w] = Called(held[w], variant[w] - 1)
    BY <1>1 DEF Inv, Local
  <1>3. variant[w] - 1 = Len(Variants[held[w]])
    BY <1>1, <1>2, VariantsShape DEF HasVariant
  <1>. QED BY <1>2, <1>3, VariantsShape

LEMMA InvFinishJob ==
    ASSUME Inv, NEW w \in Workers, FinishJob(w)
    PROVE  Inv'
  <1>1. /\ wpc[w] = "run" /\ stage[w] = "loop"
        /\ UNCHANGED <<jobCh, spawned, held, exec, stage>>
        /\ wpc' = [wpc EXCEPT ![w] = "send"]
        /\ variant' = [variant EXCEPT ![w] = 1]
        /\ accesses' = [accesses EXCEPT ![w] = {}]
        /\ snap' = [snap EXCEPT ![w] = 0]
    BY DEF FinishJob, InJob
  <1>2. /\ wpc'[w] = "send" /\ variant'[w] = 1 /\ accesses'[w] = {}
        /\ \A v \in Workers \ {w} : /\ wpc'[v] = wpc[v] /\ variant'[v] = variant[v]
                                    /\ accesses'[v] = accesses[v] /\ snap'[v] = snap[v]
    BY <1>1 DEF Inv
  <1>3. wpc' \in [Workers -> Pool!WorkerPCs]
    BY <1>1 DEF Inv, Pool!WorkerPCs
  <1>4. variant' \in [Workers -> Nat \ {0}]
    <2>1. variant \in [Workers -> Nat \ {0}] /\ 1 \in Nat \ {0}
      BY DEF Inv
    <2>. QED BY <1>1, <2>1
  <1>5. /\ DOMAIN accesses' = Workers /\ accesses' = [v \in Workers |-> accesses'[v]]
        /\ DOMAIN snap' = Workers /\ snap' = [v \in Workers |-> snap'[v]]
    BY <1>1 DEF Inv
  <1>. QED BY <1>1, <1>2, <1>3, <1>4, <1>5 DEF Inv, Local, Deployed, OpenOnce, HasVariant

LEMMA InvStep == Inv /\ [Next]_vars => Inv'
  <1>. SUFFICES ASSUME Inv, [Next]_vars PROVE Inv'
    OBVIOUS
  <1>1. CASE Main
    BY <1>1, InvMain
  <1>2. ASSUME NEW w \in Workers, Worker(w) PROVE Inv'
    BY <1>2, InvPoolStep, InvDeploy, InvTakeJob, InvTakeSnapshot, InvCallVariant, InvRewind,
       InvFinishJob DEF Worker
  <1>3. CASE UNCHANGED vars
    BY <1>3 DEF Inv, Local, vars, poolVars, machineVars, Deployed, OpenOnce, HasVariant
  <1>4. CASE Finished
    <2>1. UNCHANGED vars
      BY <1>4 DEF Finished, Pool!Finished, Pool!vars, vars, poolVars
    <2>. QED BY <2>1, <1>3
  <1>. QED BY <1>1, <1>2, <1>3, <1>4 DEF Next

-----------------------------------------------------------------------------
(* runJob: "variants and later jobs never see each other's writes".        *)
THEOREM EveryCallFromBaseline == Spec => []SameBaseline
  <1>1. Inv => SameBaseline
    <2>. SUFFICES ASSUME Inv, NEW w \in Workers, Deployed(w)
                  PROVE  /\ stage[w] = "loop" => exec[w] = Baseline
                         /\ stage[w] # "loop" =>
                               /\ KnownSnapshot(exec[w], snap[w])
                               /\ RevertToSnapshot(exec[w], snap[w]) = Baseline
      BY DEF SameBaseline, Machine
    <2>1. CASE stage[w] = "loop"
      BY <2>1 DEF Inv, Local
    <2>2. CASE stage[w] # "loop"
      <3>1. OpenOnce(w)
        BY <2>2 DEF Inv, Local
      <3>. QED BY <2>2, <3>1, RevertLemma DEF OpenOnce
    <2>. QED BY <2>1, <2>2
  <1>. QED BY <1>1, InvInit, InvStep, PTL DEF Spec

(* Every step of Fuzz is a step of the pool whose jobs yield, in one step, *)
(* the accesses of their calls made alone on a fresh deployment, or is one *)
(* the pool does not see: the safety part of PoolKept.                     *)
LEMMA StepsOfThePool == Inv /\ [Next]_vars => [Pool!Next]_(Pool!vars)
  <1>. SUFFICES ASSUME Inv, [Next]_vars PROVE [Pool!Next]_(Pool!vars)
    OBVIOUS
  <1>1. CASE Main
    BY <1>1 DEF Main, Pool!Next
  <1>2. ASSUME NEW w \in Workers, Worker(w) PROVE [Pool!Next]_(Pool!vars)
    <2>1. CASE TakeSnapshot(w) \/ CallVariant(w) \/ Rewind(w)
      BY <2>1 DEF TakeSnapshot, CallVariant, Rewind, poolVars, Pool!vars
    <2>2. CASE FinishJob(w)
      <3>1. Pool!RunJob(w)
        BY <2>2, AnswersFootprint DEF FinishJob, InJob, Pool!RunJob, Pool!mainVars, Pool!chanVars
      <3>. QED BY <3>1 DEF Pool!Next, Pool!Worker, Workers
    <2>3. CASE \/ NewMachine(w) \/ DeployCopy(w) \/ SendError(w) \/ TakeJob(w)
               \/ SendResult(w) \/ Exit(w)
      <3>1. Pool!Worker(w)
        BY <2>3 DEF NewMachine, DeployCopy, SendError, TakeJob, SendResult, Exit, Pool!Worker
      <3>. QED BY <3>1 DEF Pool!Next, Workers
    <2>. QED BY <1>2, <2>1, <2>2, <2>3 DEF Worker
  <1>3. CASE UNCHANGED vars
    BY <1>3 DEF vars, poolVars, Pool!vars
  <1>4. CASE Finished
    BY <1>4 DEF Finished, Pool!Next
  <1>. QED BY <1>1, <1>2, <1>3, <1>4 DEF Next

THEOREM FuzzImplementsPool == Spec => Pool!Init /\ [][Pool!Next]_(Pool!vars)
  <1>1. Init => Pool!Init
    BY DEF Init
  <1>. QED BY <1>1, InvInit, InvStep, StepsOfThePool, PTL DEF Spec

-----------------------------------------------------------------------------
(* The footprint is sound for writes.                                      *)

\* While a call is still to be undone, its worker does nothing else.
LEMMA StaysCalled ==
    ASSUME Inv, [Next]_vars, NEW w \in Workers, InJob(w, "revert")'
    PROVE  \/ CallVariant(w)
           \/ InJob(w, "revert") /\ exec'[w] = exec[w] /\ accesses'[w] = accesses[w]
  <1>1. stage'[w] = "revert" /\ wpc'[w] = "run"
    BY DEF InJob
  <1>2. stage[w] = "revert" => InJob(w, "revert")
    BY DEF Inv, Local, InJob
  <1>3. ASSUME NEW v \in Workers, Worker(v), v # w
        PROVE  stage[w] = "revert" /\ exec'[w] = exec[w] /\ accesses'[w] = accesses[w]
    BY <1>1, <1>3
    DEF Inv, Worker, NewMachine, DeployCopy, SendError, TakeJob, SendResult, Exit, TakeSnapshot,
        CallVariant, Rewind, FinishJob, machineVars, Machine
  <1>4. ASSUME Worker(w), ~CallVariant(w)
        PROVE  stage[w] = "revert" /\ exec'[w] = exec[w] /\ accesses'[w] = accesses[w]
    <2>1. ~(TakeSnapshot(w) \/ Rewind(w) \/ FinishJob(w))
      BY <1>1 DEF Inv, TakeSnapshot, Rewind, FinishJob
    <2>2. ~DeployCopy(w)
      <3>1. DeployCopy(w) => wpc'[w] \in {"recv", "deployErr"}
        BY DEF Inv, DeployCopy, Pool!DeployCopy
      <3>. QED BY <1>1, <3>1
    <2>. QED
      BY <1>1, <1>4, <2>1, <2>2
      DEF Worker, NewMachine, SendError, TakeJob, SendResult, Exit, machineVars
  <1>5. CASE Main \/ Finished \/ UNCHANGED vars
    BY <1>1, <1>2, <1>5 DEF Main, Finished, vars, machineVars
  <1>. QED BY <1>2, <1>3, <1>4, <1>5 DEF Next

\* What a call from the fresh deployment changes, it recorded.
LEMMA CallRecords ==
    ASSUME NEW input \in Inputs, NEW journal,
           NEW s \in DOMAIN Baseline.world.storage[Contract]
    PROVE  LET res == Call([world |-> Baseline.world, journal |-> journal],
                           Caller, Contract, input)
           IN  res.exec.world.storage[Contract][s] # Baseline.world.storage[Contract][s] =>
                  [kind |-> "write", slot |-> s] \in res.accesses
  <1>. DEFINE e       == [world |-> Baseline.world, journal |-> journal]
              funded  == Fund(Baseline.world, Caller)
              receipt == Run(funded, Caller, Contract, input)
              res     == Call(e, Caller, Contract, input)
              stored  == Baseline.world.storage[Contract]
  <1>1. /\ res.exec.world = (IF receipt.ok THEN receipt.world ELSE funded)
        /\ res.accesses = Traced(receipt.steps, Contract)
    BY DEF Call, Returned, Accesses
  <1>2. funded.storage = Baseline.world.storage
    BY StoreAssumption DEF Fund
  <1>3. CASE receipt.ok
    <2>. SUFFICES ASSUME res.exec.world.storage[Contract][s] # stored[s]
                  PROVE  [kind |-> "write", slot |-> s] \in Traced(receipt.steps, Contract)
      BY <1>1
    <2>1. receipt.world.storage[Contract][s] # stored[s]
      BY <1>1, <1>3
    <2>2. PICK k \in DOMAIN receipt.steps : /\ receipt.steps[k].op = "SSTORE"
                                            /\ receipt.steps[k].addr = Contract
                                            /\ receipt.steps[k].slot = s
      <3>1. receipt.ok =>
               \A slot \in DOMAIN stored :
                  receipt.world.storage[Contract][slot] # stored[slot] =>
                     \E k \in DOMAIN receipt.steps :
                        /\ receipt.steps[k].op = "SSTORE"
                        /\ receipt.steps[k].addr = Contract
                        /\ receipt.steps[k].slot = slot
        BY StoreAssumption, Zenon
      <3>. HIDE DEF receipt
      <3>. QED BY <1>3, <2>1, <3>1
    <2>3. OfTarget(receipt.steps[k], Contract) /\ Kinds[receipt.steps[k].op] = "write"
      BY <2>2 DEF OfTarget, Kinds
    <2>. QED BY <2>2, <2>3 DEF Traced
  <1>4. CASE ~receipt.ok
    BY <1>1, <1>2, <1>4
  <1>. QED BY <1>3, <1>4

\* The slots a call really changed are among the writes of its function, for
\* every contract whose storage only SSTORE changes.
THEOREM ChangesStayRecorded == Spec => []ChangesAreRecorded
  <1>1. Init => ChangesAreRecorded
    BY DEF Init, ChangesAreRecorded, InJob
  <1>2. Inv /\ ChangesAreRecorded /\ [Next]_vars => ChangesAreRecorded'
    <2>. SUFFICES ASSUME Inv, ChangesAreRecorded, [Next]_vars,
                         NEW w \in Workers, InJob(w, "revert")',
                         NEW s \in DOMAIN Baseline.world.storage[Contract],
                         exec'[w].world.storage[Contract][s]
                            # Baseline.world.storage[Contract][s]
                  PROVE  [kind |-> "write", slot |-> s] \in accesses'[w]
      BY DEF ChangesAreRecorded, Changed, Machine, InJob
    <2>1. CASE CallVariant(w)
      <3>. DEFINE input == Variants[held[w]][variant[w]]
                  e     == [world |-> Baseline.world, journal |-> <<Baseline.world>>]
                  res   == Call(e, Caller, Contract, input)
      <3>1. wpc[w] = "run" /\ stage[w] = "call"
        BY <2>1 DEF CallVariant, InJob
      <3>2. exec[w] = e /\ held[w] \in Jobs /\ variant[w] \in Nat \ {0} /\ HasVariant(w)
        BY <3>1 DEF Inv, Local, OpenOnce
      <3>3. input \in Inputs
        <4>1. Variants[held[w]] \in Seq(Inputs)
          BY <3>2, FuzzerAssumption
        <4>. QED BY <3>2, <4>1 DEF HasVariant
      <3>4. exec' = [exec EXCEPT ![w] = res.exec]
            /\ accesses' = [accesses EXCEPT ![w] = accesses[w] \cup res.accesses]
        BY <2>1, <3>2 DEF CallVariant, Machine, Appended
      <3>. HIDE DEF input
      <3>5. res.exec.world.storage[Contract][s] # Baseline.world.storage[Contract][s] =>
               [kind |-> "write", slot |-> s] \in res.accesses
        BY <3>3, CallRecords
      <3>. HIDE DEF res
      <3>6. exec'[w] = res.exec /\ accesses'[w] = accesses[w] \cup res.accesses
        BY <3>4 DEF Inv
      <3>. QED BY <3>5, <3>6
    <2>2. CASE /\ InJob(w, "revert")
               /\ exec'[w] = exec[w]
               /\ accesses'[w] = accesses[w]
      BY <2>2 DEF ChangesAreRecorded, Changed, Machine
    <2>. QED BY <2>1, <2>2, StaysCalled
  <1>. QED BY <1>1, <1>2, InvInit, InvStep, PTL DEF Spec

-----------------------------------------------------------------------------
(* What the pool's theorems say with the real job in it: the pool's module *)
(* of proofs is about the same definitions, named Facts! here.             *)

Facts == INSTANCE WorkerPoolProofs WITH Result <- Footprint, Nothing <- {}

LEMMA SameInit == Pool!Init <=> Facts!Init
  BY Zenon DEF Pool!Init, Facts!Init, Pool!EmptyChan, Facts!EmptyChan, Pool!Workers, Facts!Workers,
           Pool!WorkersFor, Facts!WorkersFor, Pool!Most, Facts!Most, Pool!Least, Facts!Least,
           Pool!NoAnswer, Facts!NoAnswer

LEMMA SameNext == [Pool!Next]_(Pool!vars) <=> [Facts!Next]_(Facts!vars)
  BY Zenon
     DEF Pool!Least, Facts!Least, Pool!Most, Facts!Most, Pool!WorkersFor, Facts!WorkersFor,
         Pool!Workers, Facts!Workers, Pool!Jobs, Facts!Jobs, Pool!JobCap, Facts!JobCap, Pool!ResCap,
         Facts!ResCap, Pool!ErrCap, Facts!ErrCap, Pool!mainVars, Facts!mainVars, Pool!workerVars,
         Facts!workerVars, Pool!chanVars, Facts!chanVars, Pool!NoAnswer, Facts!NoAnswer,
         Pool!Success, Facts!Success, Pool!Failure, Facts!Failure, Pool!EmptyChan, Facts!EmptyChan,
         Pool!Send, Facts!Send, Pool!Receive, Facts!Receive, Pool!Close, Facts!Close, Pool!Pending,
         Facts!Pending, Pool!Drained, Facts!Drained, Pool!Room, Facts!Room, Pool!Return,
         Facts!Return, Pool!Enter, Facts!Enter, Pool!ProbeNew, Facts!ProbeNew, Pool!ProbeDeploy,
         Facts!ProbeDeploy, Pool!Fill, Facts!Fill, Pool!CloseJobs, Facts!CloseJobs, Pool!Raised,
         Facts!Raised, Pool!Spawn, Facts!Spawn, Pool!Spawned, Facts!Spawned, Pool!AllDone,
         Facts!AllDone, Pool!Wait, Facts!Wait, Pool!CloseRes, Facts!CloseRes, Pool!CloseErr,
         Facts!CloseErr, Pool!SomeError, Facts!SomeError, Pool!CheckErr, Facts!CheckErr,
         Pool!Collect, Facts!Collect, Pool!Rearrangements, Facts!Rearrangements, Pool!Ordered,
         Facts!Ordered, Pool!Sort, Facts!Sort, Pool!Main, Facts!Main, Pool!NewExecutor,
         Facts!NewExecutor, Pool!DeployCopy, Facts!DeployCopy, Pool!ErrorOf, Facts!ErrorOf,
         Pool!SendError, Facts!SendError, Pool!Taken, Facts!Taken, Pool!TakeJob, Facts!TakeJob,
         Pool!RunJob, Facts!RunJob, Pool!SendResult, Facts!SendResult, Pool!Done, Facts!Done,
         Pool!Worker, Facts!Worker, Pool!Quiet, Facts!Quiet, Pool!vars, Facts!vars, Pool!Finished,
         Facts!Finished, Pool!Next, Facts!Next

\* What PoolSafe is made of.
PoolIsSafe ==
    /\ Pool!TypeOK /\ Pool!NoSendOnClosed /\ Pool!EachJobInOnePlace
    /\ Pool!AllOrNothing /\ Pool!Deterministic

LEMMA SameMeaning == Facts!PoolSafe <=> PoolIsSafe
  <1>1. Pool!Workers = Facts!Workers /\ Pool!Jobs = Facts!Jobs
    BY Zenon DEF Pool!Workers, Facts!Workers, Pool!WorkersFor, Facts!WorkersFor, Pool!Most,
                 Facts!Most, Pool!Least, Facts!Least, Pool!Jobs, Facts!Jobs
  <1>2. Pool!TypeOK <=> Facts!TypeOK
    BY Zenon
       DEF Pool!TypeOK, Facts!TypeOK, Pool!MainPCs, Facts!MainPCs, Pool!WorkerPCs,
           Facts!WorkerPCs, Pool!Channel, Facts!Channel, Pool!Messages, Facts!Messages,
           Pool!Jobs, Facts!Jobs, Pool!Workers, Facts!Workers, Pool!WorkersFor,
           Facts!WorkersFor, Pool!Most, Facts!Most, Pool!Least, Facts!Least
  <1>3. Pool!NoSendOnClosed <=> Facts!NoSendOnClosed
    BY <1>1, Zenon DEF Pool!NoSendOnClosed, Facts!NoSendOnClosed
  <1>4. Pool!EachJobInOnePlace <=> Facts!EachJobInOnePlace
    BY Zenon
       DEF Pool!EachJobInOnePlace, Facts!EachJobInOnePlace, Pool!Places, Facts!Places,
           Pool!Cardinality, Facts!Cardinality,
           Pool!Jobs, Facts!Jobs, Pool!Workers, Facts!Workers, Pool!WorkersFor,
           Facts!WorkersFor, Pool!Most, Facts!Most, Pool!Least, Facts!Least
  <1>5. Pool!AllOrNothing <=> Facts!AllOrNothing
    BY <1>1, Zenon DEF Pool!AllOrNothing, Facts!AllOrNothing
  <1>6. Pool!Deterministic <=> Facts!Deterministic
    BY Zenon
       DEF Pool!Deterministic, Facts!Deterministic, Pool!Visible, Facts!Visible,
           Pool!Reference, Facts!Reference, Pool!Rearrangements, Facts!Rearrangements,
           Pool!Jobs, Facts!Jobs
  <1>. QED BY <1>2, <1>3, <1>4, <1>5, <1>6 DEF PoolIsSafe, Facts!PoolSafe

LEMMA FuzzPool == Facts!PoolAssumption /\ Facts!SameNameSameResult
  <1>1. Facts!PoolAssumption
    BY FuzzerAssumption, FuzzPoolAssumption
       DEF Facts!Jobs, Jobs, Footprint, Facts!FaultKinds, Pool!FaultKinds
  <1>2. Facts!SameNameSameResult
    BY FuzzPoolAssumption DEF Facts!Jobs, Jobs, Footprint
  <1>. QED BY <1>1, <1>2

(***************************************************************************)
(* Fuzz as a whole: with the machines' steps interleaved in any way, the   *)
(* answer is every function's footprint, each computed alone on a fresh    *)
(* deployment, in the order of the names, the same for every schedule and  *)
(* number of workers, or an error and nothing else; and no job is lost or  *)
(* done twice on the way.                                                  *)
(***************************************************************************)
THEOREM FuzzIsSafe == Spec => []PoolIsSafe
  <1>1. Facts!PoolAssumption /\ Facts!SameNameSameResult
    BY FuzzPool
  <1>2. Facts!Init /\ [][Facts!Next]_(Facts!vars) => []Facts!PoolSafe
    BY <1>1, Facts!SafelyRuns
  <1>. QED BY <1>2, FuzzImplementsPool, SameInit, SameNext, SameMeaning, PTL

(***************************************************************************)
(* TypeOK of Fuzz: the pool's types, and a worker is inside the loop of    *)
(* runJob, at one of its job's variants, only while it runs that job.      *)
(***************************************************************************)
THEOREM FuzzTypeCorrect == Spec => []TypeOK
  <1>1. Inv /\ PoolIsSafe => TypeOK
    <2>. SUFFICES ASSUME Inv, PoolIsSafe PROVE TypeOK
      OBVIOUS
    <2>1. Pool!TypeOK /\ stage \in [Workers -> {"loop", "call", "revert"}]
      BY DEF Inv, PoolIsSafe
    <2>2. ASSUME NEW w \in Workers
          PROVE  /\ wpc[w] # "run" => stage[w] = "loop" /\ variant[w] = 1 /\ accesses[w] = {}
                 /\ wpc[w] = "run" => variant[w] \in 1..(Len(Variants[held[w]]) + 1)
                 /\ InJob(w, "call") \/ InJob(w, "revert") => variant[w] \in DOMAIN Variants[held[w]]
      <3>1. Local(w) /\ variant[w] \in Nat \ {0}
        BY DEF Inv
      <3>2. wpc[w] # "run" => stage[w] = "loop" /\ variant[w] = 1 /\ accesses[w] = {}
        BY <2>1, <3>1 DEF Local
      <3>3. ASSUME wpc[w] = "run"
            PROVE  /\ variant[w] \in 1..(Len(Variants[held[w]]) + 1)
                   /\ stage[w] # "loop" => variant[w] \in DOMAIN Variants[held[w]]
        <4>1. held[w] \in Jobs
          BY <3>1, <3>3 DEF Local
        <4>2. /\ Len(Variants[held[w]]) \in Nat
              /\ DOMAIN Variants[held[w]] = 1..Len(Variants[held[w]])
          <5>1. Variants[held[w]] \in Seq(Inputs)
            BY <4>1, FuzzerAssumption
          <5>. QED BY <5>1
        <4>3. /\ stage[w] # "loop" => variant[w] <= Len(Variants[held[w]])
              /\ stage[w] = "loop" => variant[w] <= Len(Variants[held[w]]) + 1
          BY <3>1, <3>3 DEF Local, HasVariant
        <4>. QED BY <3>1, <4>2, <4>3
      <3>. QED BY <3>2, <3>3 DEF InJob
    <2>. QED BY <2>1, <2>2 DEF TypeOK
  <1>2. Spec => []Inv
    BY InvInit, InvStep, PTL DEF Spec
  <1>. QED BY <1>1, <1>2, FuzzIsSafe, PTL
=============================================================================
