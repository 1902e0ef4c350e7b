--------------------------- MODULE WorkerPoolProofs ---------------------------
(***************************************************************************)
(* Theorems of the worker pool, for any number of jobs and workers and any *)
(* set of faults: no send on a closed channel; no job is lost or repeated; *)
(* no part of the results passes for all of them; every step is one that   *)
(* PoolPromise allows; and the answer is the same in every schedule.       *)
(***************************************************************************)
EXTENDS WorkerPool, SortingProofs, FunctionTheorems

-----------------------------------------------------------------------------
(* Channels. *)

LEMMA SendLemma ==
    ASSUME NEW S, NEW c \in Channel(S), NEW m \in S
    PROVE  /\ Send(c, m) \in Channel(S)
           /\ Send(c, m).buf = Append(c.buf, m)
           /\ Send(c, m).open = c.open
  BY DEF Channel, Send

LEMMA ReceiveLemma ==
    ASSUME NEW S, NEW c \in Channel(S), Pending(c)
    PROVE  /\ Receive(c) \in Channel(S)
           /\ Receive(c).buf = Tail(c.buf)
           /\ Receive(c).open = c.open
           /\ Head(c.buf) \in S
  BY DEF Channel, Receive, Pending

LEMMA CloseLemma ==
    ASSUME NEW S, NEW c \in Channel(S)
    PROVE  /\ Close(c) \in Channel(S)
           /\ Close(c).buf = c.buf
           /\ Close(c).open = FALSE
  BY DEF Channel, Close

LEMMA EmptyLemma ==
    ASSUME NEW S
    PROVE  EmptyChan \in Channel(S)
  BY DEF Channel, EmptyChan

LEMMA WorkersLemma ==
    /\ WorkersFor(NumJobs) \in Nat \ {0}
    /\ Workers = 1..WorkersFor(NumJobs)
    /\ IsFiniteSet(Workers)
    /\ NumJobs > 0 => WorkersFor(NumJobs) <= NumJobs
  <1>1. WorkersFor(NumJobs) \in Nat \ {0}
    BY PoolAssumption DEF WorkersFor, Most, Least
  <1>2. NumJobs > 0 => WorkersFor(NumJobs) <= NumJobs
    BY PoolAssumption DEF WorkersFor, Most, Least
  <1>. QED BY <1>1, <1>2, FS_Interval DEF Workers

LEMMA MessagesLemma ==
    ASSUME NEW j \in Jobs
    PROVE  [job |-> j, value |-> Result[j]] \in Messages
  BY DEF Messages

-----------------------------------------------------------------------------
(* Types. *)

LEMMA TypeInit == Init => TypeOK
  <1>. SUFFICES ASSUME Init PROVE TypeOK
    OBVIOUS
  <1>1. jobCh \in Channel(Jobs) /\ resCh \in Channel(Messages)
        /\ errCh \in Channel({"new", "deploy"})
    BY EmptyLemma DEF Init
  <1>2. spawned \in 0..WorkersFor(NumJobs)
    BY WorkersLemma DEF Init
  <1>. QED
    BY <1>1, <1>2 DEF Init, TypeOK, MainPCs, WorkerPCs, NoAnswer

LEMMA TypeMain == TypeOK /\ Main => TypeOK'
  <1>. SUFFICES ASSUME TypeOK, Main PROVE TypeOK'
    OBVIOUS
  <1>. USE DEF TypeOK, MainPCs, WorkerPCs, workerVars, chanVars
  <1>1. CASE Enter \/ ProbeNew \/ ProbeDeploy
    BY <1>1 DEF Enter, ProbeNew, ProbeDeploy, Return, Success, Failure
  <1>2. CASE Fill
    <2>1. Len(jobCh.buf) + 1 \in Jobs
      BY <1>2, PoolAssumption DEF Fill, Jobs, Channel
    <2>. QED BY <1>2, <2>1, SendLemma DEF Fill, mainVars
  <1>3. CASE CloseJobs
    BY <1>3, CloseLemma DEF CloseJobs
  <1>4. CASE Spawn
    <2>1. spawned + 1 \in Workers /\ spawned + 1 \in 0..WorkersFor(NumJobs)
      BY <1>4, WorkersLemma DEF Spawn
    <2>2. wpc' \in [Workers -> WorkerPCs] /\ wg' \in Int
      BY <1>4, <2>1 DEF Spawn, Raised
    <2>3. ASSUME NEW w \in Workers
          PROVE  /\ wpc'[w] = "unborn" <=> w > spawned'
                 /\ held'[w] \in (IF wpc'[w] \in {"run", "send"} THEN Jobs ELSE {0})
                 /\ out'[w] = (IF wpc'[w] = "send" THEN Result[held'[w]] ELSE Nothing)
      <3>1. spawned \in Int /\ w \in Int /\ spawned' = spawned + 1
        BY <1>4, WorkersLemma DEF Spawn
      <3>2. CASE w = spawned + 1
        BY <1>4, <2>1, <3>1, <3>2 DEF Spawn
      <3>3. CASE w # spawned + 1
        BY <1>4, <2>1, <3>1, <3>3 DEF Spawn
      <3>. QED BY <3>2, <3>3
    <2>. QED BY <1>4, <2>1, <2>2, <2>3 DEF Spawn
  <1>5. CASE Spawned \/ Wait
    BY <1>5 DEF Spawned, Wait
  <1>6. CASE CloseRes \/ CloseErr
    BY <1>6, CloseLemma, ZenonT(40) DEF CloseRes, CloseErr
  <1>7. CASE CheckErr
    <2>1. errCh' \in Channel({"new", "deploy"})
      BY <1>7, ReceiveLemma DEF CheckErr, SomeError
    <2>. QED BY <1>7, <2>1 DEF CheckErr, Return, Failure
  <1>8. CASE Collect
    <2>1. resCh' \in Channel(Messages) /\ results' \in Seq(Messages)
      <3>1. CASE Pending(resCh)
        BY <1>8, <3>1, ReceiveLemma, SMTT(30) DEF Collect, Pending, Drained
      <3>2. CASE ~Pending(resCh)
        BY <1>8, <3>2 DEF Collect
      <3>. QED BY <3>1, <3>2
    <2>. QED BY <1>8, <2>1 DEF Collect
  <1>9. CASE Sort
    <2>1. PICK p \in Rearrangements(DOMAIN results) :
             results' = [i \in DOMAIN results |-> results[p[i]]]
      BY <1>9 DEF Sort
    <2>2. results' \in Seq(Messages)
      <3>1. Len(results) \in Nat /\ DOMAIN results = 1..Len(results)
        OBVIOUS
      <3>2. results' \in [1..Len(results) -> Messages]
        BY <2>1, <3>1 DEF Rearrangements
      <3>. QED BY <3>1, <3>2
    <2>. QED BY <1>9, <2>2 DEF Sort, Return, Success
  <1>. QED
    BY <1>1, <1>2, <1>3, <1>4, <1>5, <1>6, <1>7, <1>8, <1>9 DEF Main

LEMMA TypeWorker ==
    ASSUME TypeOK, NEW w \in Workers, Worker(w)
    PROVE  TypeOK'
  <1>. USE DEF TypeOK, MainPCs, WorkerPCs, mainVars, chanVars
  <1>1. CASE NewExecutor(w) \/ DeployCopy(w)
    BY <1>1 DEF NewExecutor, DeployCopy
  <1>2. CASE SendError(w)
    BY <1>2, SendLemma DEF SendError, ErrorOf
  <1>3. CASE TakeJob(w)
    <2>1. CASE Pending(jobCh)
      BY <1>3, <2>1, ReceiveLemma DEF TakeJob, Taken, Drained, Pending
    <2>2. CASE ~Pending(jobCh)
      BY <1>3, <2>2 DEF TakeJob
    <2>. QED BY <2>1, <2>2
  <1>4. CASE RunJob(w)
    BY <1>4 DEF RunJob
  <1>5. CASE SendResult(w)
    <2>1. [job |-> held[w], value |-> out[w]] \in Messages
      BY <1>5, MessagesLemma DEF SendResult
    <2>2. resCh' \in Channel(Messages)
      BY <1>5, <2>1, SendLemma DEF SendResult
    <2>. QED BY <1>5, <2>2 DEF SendResult
  <1>6. CASE Done(w)
    BY <1>6 DEF Done
  <1>. QED
    BY <1>1, <1>2, <1>3, <1>4, <1>5, <1>6 DEF Worker

(***************************************************************************)
(* Every variable keeps its type, and a worker's hands agree with where it *)
(* is.                                                                     *)
(***************************************************************************)
THEOREM TypeCorrect == Spec => []TypeOK
  <1>1. TypeOK /\ [Next]_vars => TypeOK'
    <2>. SUFFICES ASSUME TypeOK, [Next]_vars PROVE TypeOK'
      OBVIOUS
    <2>1. CASE Main
      BY <2>1, TypeMain
    <2>2. CASE \E w \in Workers : Worker(w)
      BY <2>2, TypeWorker
    <2>3. CASE UNCHANGED vars
      BY <2>3 DEF TypeOK, vars
    <2>. QED BY <2>1, <2>2, <2>3 DEF Next, Finished
  <1>. QED BY <1>1, TypeInit, PTL DEF Spec

-----------------------------------------------------------------------------
(* The barrier: why no worker sends on a channel main has closed.          *)

\* The workers the wait group counts.
Live == {w \in Workers : wpc[w] \notin {"unborn", "gone"}}

\* NoSendOnClosed is not inductive: that no worker is live after the wait
\* follows from what the counter counts, and that channels are open before it
\* from where main is.
Barrier ==
    /\ TypeOK
    /\ wg = Cardinality(Live)
    /\ mpc \in {"enter", "probeNew", "probeDeploy", "fill"} => spawned = 0
    /\ mpc \in {"closeRes", "closeErr", "check", "collect", "sort", "done"} => Live = {}
    /\ mpc \notin {"closeErr", "check", "collect", "sort", "done"} => resCh.open
    /\ mpc \notin {"check", "collect", "sort", "done"} => errCh.open

LEMMA LiveFinite ==
    /\ IsFiniteSet(Live)
    /\ Cardinality(Live) \in Nat
    /\ Cardinality(Live) = 0 <=> Live = {}
  <1>1. IsFiniteSet(Live)
    BY WorkersLemma, FS_Subset DEF Live
  <1>. QED BY <1>1, FS_CardinalityType, FS_EmptySet

LEMMA NoneSpawned ==
    ASSUME TypeOK, spawned = 0
    PROVE  Live = {}
  BY WorkersLemma DEF TypeOK, Live

LEMMA BarrierInit == Init => Barrier
  <1>. SUFFICES ASSUME Init PROVE Barrier
    OBVIOUS
  <1>1. TypeOK
    BY TypeInit
  <1>2. Live = {}
    BY DEF Init, Live
  <1>3. wg = Cardinality(Live)
    BY <1>2, FS_EmptySet DEF Init
  <1>. QED BY <1>1, <1>2, <1>3 DEF Init, Barrier, EmptyChan

LEMMA BarrierMain == Barrier /\ Main => Barrier'
  <1>. SUFFICES ASSUME Barrier, Main PROVE Barrier'
    OBVIOUS
  <1>0. TypeOK /\ TypeOK'
    BY TypeMain DEF Barrier
  <1>1. CASE Enter \/ ProbeNew \/ ProbeDeploy
    <2>1. Live' = Live /\ Live = {}
      BY <1>0, <1>1, NoneSpawned DEF Enter, ProbeNew, ProbeDeploy, workerVars, Live, Barrier
    <2>. QED
      BY <1>0, <1>1, <2>1 DEF Enter, ProbeNew, ProbeDeploy, Return, workerVars, chanVars, Barrier
  <1>2. CASE Fill \/ CloseJobs
    <2>1. Live' = Live
      BY <1>2 DEF Fill, CloseJobs, workerVars, Live
    <2>. QED
      BY <1>0, <1>2, <2>1 DEF Fill, CloseJobs, workerVars, mainVars, Barrier
  <1>3. CASE Spawn
    <2>1. spawned + 1 \in Workers /\ spawned + 1 > spawned
      BY <1>0, <1>3, WorkersLemma DEF Spawn, TypeOK
    <2>2. spawned + 1 \notin Live
      BY <1>0, <2>1 DEF Live, TypeOK
    <2>3. Live' = Live \cup {spawned + 1}
      BY <1>0, <1>3, <2>1 DEF Spawn, Live, TypeOK
    <2>4. Cardinality(Live') = Cardinality(Live) + 1
      BY <2>2, <2>3, LiveFinite, FS_AddElement
    <2>. QED
      BY <1>0, <1>3, <2>4 DEF Spawn, Raised, chanVars, Barrier
  <1>4. CASE Wait
    <2>1. Live' = Live /\ Live = {}
      BY <1>4, LiveFinite DEF Wait, AllDone, workerVars, Live, Barrier
    <2>. QED
      BY <1>0, <1>4, <2>1 DEF Wait, workerVars, chanVars, Barrier
  <1>5. CASE Spawned \/ CloseRes \/ CloseErr \/ CheckErr \/ Collect \/ Sort
    <2>1. Live' = Live
      BY <1>5 DEF Spawned, CloseRes, CloseErr, CheckErr, Collect, Sort, workerVars, Live
    <2>2. wg' = wg
      BY <1>5 DEF Spawned, CloseRes, CloseErr, CheckErr, Collect, Sort
    <2>3. CASE Spawned
      BY <1>0, <2>1, <2>2, <2>3 DEF Spawned, chanVars, Barrier
    <2>4. CASE CloseRes \/ CloseErr
      BY <1>0, <2>1, <2>2, <2>4 DEF CloseRes, CloseErr, Close, Barrier
    <2>5. CASE CheckErr \/ Collect \/ Sort
      BY <1>0, <2>1, <2>2, <2>5 DEF CheckErr, Collect, Sort, Return, Barrier
    <2>. QED BY <1>5, <2>3, <2>4, <2>5
  <1>. QED
    BY <1>1, <1>2, <1>3, <1>4, <1>5 DEF Main

LEMMA BarrierWorker ==
    ASSUME Barrier, NEW w \in Workers, Worker(w)
    PROVE  Barrier'
  <1>0. TypeOK /\ TypeOK'
    BY TypeWorker DEF Barrier
  <1>1. w \in Live
    BY <1>0 DEF Worker, NewExecutor, DeployCopy, SendError, TakeJob, RunJob, SendResult, Done,
                Live, TypeOK
  <1>2. mpc' = mpc /\ spawned' = spawned
    BY DEF Worker, NewExecutor, DeployCopy, SendError, TakeJob, RunJob, SendResult, Done, mainVars
  <1>3. resCh'.open = resCh.open /\ errCh'.open = errCh.open
    BY <1>0 DEF Worker, NewExecutor, DeployCopy, SendError, TakeJob, RunJob, SendResult, Done,
                chanVars, Send, TypeOK, Channel
  <1>4. CASE Done(w)
    <2>1. Live' = Live \ {w}
      BY <1>0, <1>4 DEF Done, Live, TypeOK
    <2>2. Cardinality(Live') = Cardinality(Live) - 1
      BY <1>1, <2>1, LiveFinite, FS_RemoveElement
    <2>. QED
      BY <1>0, <1>1, <1>2, <1>3, <1>4, <2>1, <2>2 DEF Done, Barrier
  <1>5. CASE ~Done(w)
    <2>1. Live' = Live
      BY <1>0, <1>1, <1>5 DEF Worker, NewExecutor, DeployCopy, SendError, TakeJob, RunJob,
                              SendResult, Live, TypeOK
    <2>2. wg' = wg
      BY <1>5 DEF Worker, NewExecutor, DeployCopy, SendError, TakeJob, RunJob, SendResult
    <2>. QED
      BY <1>0, <1>2, <1>3, <2>1, <2>2 DEF Barrier
  <1>. QED BY <1>4, <1>5

LEMMA BarrierInvariant == Spec => []Barrier
  <1>1. Barrier /\ [Next]_vars => Barrier'
    <2>. SUFFICES ASSUME Barrier, [Next]_vars PROVE Barrier'
      OBVIOUS
    <2>1. CASE UNCHANGED vars
      BY <2>1 DEF Barrier, TypeOK, Live, vars
    <2>. QED BY <2>1, BarrierMain, BarrierWorker DEF Next, Finished
  <1>. QED BY <1>1, BarrierInit, PTL DEF Spec

LEMMA BarrierMeans == Barrier => NoSendOnClosed
  BY DEF Barrier, NoSendOnClosed, Live, TypeOK, MainPCs

(***************************************************************************)
(* runJobs, runEdges: no worker that may still send finds its channel      *)
(* closed, for any number of jobs, workers and failures.                   *)
(***************************************************************************)
THEOREM NeverSendsOnClosed == Spec => []NoSendOnClosed
  BY BarrierMeans, BarrierInvariant, PTL

-----------------------------------------------------------------------------
(* Sequences without repetition, as sets. *)

Elems(s)    == {s[i] : i \in DOMAIN s}
Distinct(s) == \A i, k \in DOMAIN s : s[i] = s[k] => i = k

LEMMA AppendElems ==
    ASSUME NEW S, NEW s \in Seq(S), NEW x \in S, Distinct(s), x \notin Elems(s)
    PROVE  /\ Distinct(Append(s, x))
           /\ Elems(Append(s, x)) = Elems(s) \cup {x}
  <1>1. /\ DOMAIN s = 1..Len(s) /\ Len(s) \in Nat
        /\ DOMAIN Append(s, x) = 1..(Len(s) + 1)
        /\ \A i \in 1..Len(s) : Append(s, x)[i] = s[i]
        /\ Append(s, x)[Len(s) + 1] = x
    OBVIOUS
  <1>2. Elems(Append(s, x)) = Elems(s) \cup {x}
    <2>1. ASSUME NEW y \in Elems(Append(s, x)) PROVE y \in Elems(s) \cup {x}
      <3>1. PICK i \in 1..(Len(s) + 1) : y = Append(s, x)[i]
        BY <1>1 DEF Elems
      <3>. QED BY <1>1, <3>1 DEF Elems
    <2>2. ASSUME NEW y \in Elems(s) PROVE y \in Elems(Append(s, x))
      <3>1. PICK i \in 1..Len(s) : y = s[i]
        BY <1>1 DEF Elems
      <3>2. i \in 1..(Len(s) + 1) /\ y = Append(s, x)[i]
        BY <1>1, <3>1
      <3>. QED BY <1>1, <3>2 DEF Elems
    <2>3. x \in Elems(Append(s, x))
      BY <1>1 DEF Elems
    <2>. QED BY <2>1, <2>2, <2>3
  <1>3. Distinct(Append(s, x))
    <2>. SUFFICES ASSUME NEW i \in 1..(Len(s) + 1), NEW k \in 1..(Len(s) + 1),
                         Append(s, x)[i] = Append(s, x)[k]
                  PROVE  i = k
      BY <1>1 DEF Distinct
    <2>1. CASE i \in 1..Len(s) /\ k \in 1..Len(s)
      BY <1>1, <2>1 DEF Distinct
    <2>2. CASE i = Len(s) + 1 /\ k \in 1..Len(s)
      BY <1>1, <2>2 DEF Elems
    <2>3. CASE i \in 1..Len(s) /\ k = Len(s) + 1
      BY <1>1, <2>3 DEF Elems
    <2>. QED BY <1>1, <2>1, <2>2, <2>3
  <1>. QED BY <1>2, <1>3

LEMMA TailElems ==
    ASSUME NEW S, NEW s \in Seq(S), s # <<>>, Distinct(s)
    PROVE  /\ Distinct(Tail(s))
           /\ Elems(Tail(s)) = Elems(s) \ {Head(s)}
           /\ Head(s) \in Elems(s)
  <1>1. /\ DOMAIN s = 1..Len(s) /\ Len(s) \in Nat /\ Len(s) >= 1
        /\ DOMAIN Tail(s) = 1..(Len(s) - 1)
        /\ \A i \in 1..(Len(s) - 1) : Tail(s)[i] = s[i + 1]
        /\ Head(s) = s[1]
    OBVIOUS
  <1>2. Elems(Tail(s)) = Elems(s) \ {Head(s)}
    <2>1. ASSUME NEW y \in Elems(Tail(s)) PROVE y \in Elems(s) \ {Head(s)}
      <3>1. PICK i \in 1..(Len(s) - 1) : y = s[i + 1]
        BY <1>1 DEF Elems
      <3>2. i + 1 \in 1..Len(s) /\ i + 1 # 1 /\ 1 \in 1..Len(s)
        BY <1>1
      <3>. QED BY <1>1, <3>1, <3>2 DEF Elems, Distinct
    <2>2. ASSUME NEW y \in Elems(s) \ {Head(s)} PROVE y \in Elems(Tail(s))
      <3>1. PICK i \in 1..Len(s) : y = s[i] /\ i # 1
        BY <1>1 DEF Elems
      <3>2. i - 1 \in 1..(Len(s) - 1) /\ y = Tail(s)[i - 1]
        BY <1>1, <3>1
      <3>. QED BY <1>1, <3>2 DEF Elems
    <2>. QED BY <2>1, <2>2
  <1>3. Distinct(Tail(s))
    <2>. SUFFICES ASSUME NEW i \in 1..(Len(s) - 1), NEW k \in 1..(Len(s) - 1),
                         Tail(s)[i] = Tail(s)[k]
                  PROVE  i = k
      BY <1>1 DEF Distinct
    <2>1. i + 1 \in 1..Len(s) /\ k + 1 \in 1..Len(s) /\ s[i + 1] = s[k + 1]
      BY <1>1
    <2>. QED BY <1>1, <2>1 DEF Distinct
  <1>4. 1 \in DOMAIN s
    BY <1>1
  <1>. QED BY <1>1, <1>2, <1>3, <1>4 DEF Elems

\* The jobs a sequence of messages answers.
JobsOf(s) == {m.job : m \in Elems(s)}

LEMMA MessageShape ==
    ASSUME NEW m \in Messages
    PROVE  m.job \in Jobs /\ m = [job |-> m.job, value |-> Result[m.job]]
  BY DEF Messages

LEMMA AppendJobs ==
    ASSUME NEW s \in Seq(Messages), NEW m \in Messages, Distinct(s), m.job \notin JobsOf(s)
    PROVE  /\ Distinct(Append(s, m))
           /\ JobsOf(Append(s, m)) = JobsOf(s) \cup {m.job}
  <1>1. m \notin Elems(s)
    BY DEF JobsOf
  <1>2. Elems(Append(s, m)) = Elems(s) \cup {m} /\ Distinct(Append(s, m))
    BY <1>1, AppendElems
  <1>. QED BY <1>2 DEF JobsOf

LEMMA TailJobs ==
    ASSUME NEW s \in Seq(Messages), s # <<>>, Distinct(s)
    PROVE  /\ Distinct(Tail(s))
           /\ JobsOf(Tail(s)) = JobsOf(s) \ {Head(s).job}
           /\ Head(s).job \in JobsOf(s)
  <1>1. /\ Elems(Tail(s)) = Elems(s) \ {Head(s)} /\ Head(s) \in Elems(s)
        /\ Distinct(Tail(s))
    BY TailElems
  <1>2. Elems(s) \subseteq Messages
    BY DEF Elems
  <1>3. \A m \in Elems(s) : m.job = Head(s).job => m = Head(s)
    BY <1>1, <1>2, MessageShape
  <1>. QED BY <1>1, <1>3 DEF JobsOf

-----------------------------------------------------------------------------
(* Where the jobs are. *)

Queued    == Elems(jobCh.buf)
InHand    == {held[w] : w \in Workers} \ {0}
Sent      == JobsOf(resCh.buf)
Collected == JobsOf(results)

Before == {"enter", "probeNew", "probeDeploy", "fill"}
After  == {"spawn", "wait", "closeRes", "closeErr", "check", "collect", "sort"}

\* While main fills the queue nothing else has happened, and the queue is the
\* beginning of the list of jobs.
Filling ==
    /\ jobCh.buf = [i \in 1..Len(jobCh.buf) |-> i]
    /\ mpc # "fill" => jobCh.buf = <<>>
    /\ Len(jobCh.buf) <= NumJobs
    /\ resCh.buf = <<>> /\ errCh.buf = <<>> /\ results = <<>>

\* No place holds a job twice, and no two places hold the same job.
OnePlace ==
    /\ Distinct(jobCh.buf) /\ Distinct(resCh.buf) /\ Distinct(results)
    /\ \A v, w \in Workers : held[v] = held[w] /\ held[v] # 0 => v = w
    /\ Queued \cap InHand = {} /\ Queued \cap Sent = {} /\ Queued \cap Collected = {}
    /\ InHand \cap Sent = {} /\ InHand \cap Collected = {}
    /\ Sent \cap Collected = {}

NoneLost == Jobs \subseteq Queued \cup InHand \cup Sent \cup Collected

\* A worker that has left either found the queue empty or reported an error.
LeftForAReason ==
    \A w \in Workers : wpc[w] \in {"exit", "gone"} => jobCh.buf = <<>> \/ errCh.buf # <<>>

\* Only an operation that may fail is ever blamed.
Blamed ==
    /\ Elems(errCh.buf) \subseteq Faults
    /\ \A w \in Workers : /\ wpc[w] = "newErr" => "new" \in Faults
                          /\ wpc[w] = "deployErr" => "deploy" \in Faults

\* What each place of the main goroutine adds.
Progress ==
    /\ mpc \in After => ~jobCh.open
    /\ mpc \in After \ {"spawn"} => spawned = WorkersFor(NumJobs)
    /\ mpc \in {"collect", "sort"} => errCh.buf = <<>>
    /\ mpc = "sort" => resCh.buf = <<>>
    /\ mpc # "done" => answer = NoAnswer
    /\ mpc \in Before => spawned = 0 /\ jobCh.open
    /\ mpc \notin {"enter", "done"} => NumJobs > 0

Conserved ==
    /\ Barrier
    /\ Progress
    /\ mpc \in Before => Filling
    /\ mpc \in After => OnePlace /\ NoneLost /\ LeftForAReason /\ Blamed
    /\ mpc = "done" => AllOrNothing /\ answer # NoAnswer

LEMMA ConservedInit == Init => Conserved
  <1>. SUFFICES ASSUME Init PROVE Conserved
    OBVIOUS
  <1>1. Barrier
    BY BarrierInit
  <1>2. jobCh.buf = <<>> /\ resCh.buf = <<>> /\ errCh.buf = <<>> /\ results = <<>> /\ jobCh.open
    BY DEF Init, EmptyChan
  <1>3. Filling
    BY <1>2, PoolAssumption DEF Filling
  <1>. QED
    BY <1>1, <1>2, <1>3 DEF Init, Conserved, Progress, Before, After

\* The steps of main that move no job and leave the workers where they are.
LEMMA SamePlaces ==
    ASSUME OnePlace, NoneLost, LeftForAReason, Blamed,
           UNCHANGED <<held, results>>, jobCh'.buf = jobCh.buf, resCh'.buf = resCh.buf,
           errCh'.buf = errCh.buf,
           \A w \in Workers : wpc'[w] \in {"exit", "gone"} => wpc[w] \in {"exit", "gone"},
           \A w \in Workers : /\ wpc'[w] = "newErr" => wpc[w] = "newErr" \/ "new" \in Faults
                              /\ wpc'[w] = "deployErr" =>
                                    wpc[w] = "deployErr" \/ "deploy" \in Faults
    PROVE  OnePlace' /\ NoneLost' /\ LeftForAReason' /\ Blamed'
  <1>1. Queued' = Queued /\ InHand' = InHand /\ Sent' = Sent /\ Collected' = Collected
    BY DEF Queued, InHand, Sent, Collected
  <1>. QED BY <1>1 DEF OnePlace, NoneLost, LeftForAReason, Blamed

LEMMA ConservedStart ==
    ASSUME Conserved, Enter \/ ProbeNew \/ ProbeDeploy
    PROVE  Conserved'
  <1>1. Barrier'
    BY BarrierMain DEF Conserved, Main
  <1>2. mpc \in Before /\ Filling /\ Progress
    BY DEF Conserved, Before, Enter, ProbeNew, ProbeDeploy
  <1>3. UNCHANGED <<jobCh, resCh, errCh, results, spawned>>
    BY DEF Enter, ProbeNew, ProbeDeploy, chanVars
  <1>4. jobCh.buf = <<>>
    BY <1>2 DEF Filling, Enter, ProbeNew, ProbeDeploy
  <1>5. CASE mpc' = "done"
    <2>1. CASE Enter
      <3>1. NumJobs = 0 /\ answer' = Success(<<>>)
        BY <1>5, <2>1 DEF Enter, Return
      <3>2. answer'.results = <<>> /\ answer'.kind = "ok" /\ Jobs = {}
        BY <3>1 DEF Success, Jobs
      <3>3. {answer'.results[i].job : i \in DOMAIN answer'.results} = {}
        BY <3>2
      <3>4. Len(answer'.results) = NumJobs /\ errCh'.buf = <<>>
        BY <1>2, <1>3, <3>1, <3>2 DEF Filling
      <3>5. AllOrNothing' /\ answer' # NoAnswer
        BY <3>2, <3>3, <3>4 DEF AllOrNothing, NoAnswer
      <3>. QED BY <1>1, <1>5, <3>5 DEF Conserved, Before, After, Progress
    <2>2. CASE ProbeNew \/ ProbeDeploy
      <3>1. answer'.kind = "error" /\ answer'.results = <<>>
        BY <1>5, <2>2 DEF ProbeNew, ProbeDeploy, Return, Failure
      <3>2. AllOrNothing' /\ answer' # NoAnswer
        BY <3>1 DEF AllOrNothing, NoAnswer
      <3>. QED BY <1>1, <1>5, <3>2 DEF Conserved, Before, After, Progress
    <2>. QED BY <2>1, <2>2
  <1>6. CASE mpc' # "done"
    <2>1. mpc' \in Before /\ answer' = answer
      BY <1>6 DEF Before, Enter, ProbeNew, ProbeDeploy, Return
    <2>2. Filling'
      BY <1>2, <1>3, <1>4, <2>1 DEF Filling
    <2>3. NumJobs > 0
      BY <1>2, <1>6, PoolAssumption DEF Enter, ProbeNew, ProbeDeploy, Progress, Return
    <2>4. Progress'
      BY <1>2, <1>3, <2>1, <2>3 DEF Progress, Before, After
    <2>. QED BY <1>1, <1>6, <2>1, <2>2, <2>4 DEF Conserved, Before, After
  <1>. QED BY <1>5, <1>6

LEMMA ConservedFill ==
    ASSUME Conserved, Fill
    PROVE  Conserved'
  <1>1. Barrier'
    BY BarrierMain DEF Conserved, Main
  <1>2. Filling /\ Progress /\ mpc' = "fill" /\ mpc = "fill"
    BY DEF Conserved, Before, Fill, mainVars
  <1>3. jobCh \in Channel(Jobs)
    BY DEF Conserved, Barrier, TypeOK
  <1>. DEFINE n == Len(jobCh.buf)
  <1>4. n \in Nat /\ n < NumJobs /\ n + 1 \in Jobs /\ jobCh.buf \in Seq(Jobs)
    BY <1>3, PoolAssumption DEF Channel, Fill, Jobs
  <1>5. jobCh'.buf = Append(jobCh.buf, n + 1) /\ jobCh'.open = jobCh.open
    BY <1>3, <1>4, SendLemma DEF Fill
  <1>6. Len(jobCh'.buf) = n + 1 /\ jobCh'.buf = [i \in 1..(n + 1) |-> i]
    BY <1>2, <1>4, <1>5 DEF Filling
  <1>7. Filling'
    <2>1. jobCh'.buf = [i \in 1..Len(jobCh'.buf) |-> i] /\ Len(jobCh'.buf) <= NumJobs
      BY <1>4, <1>6, PoolAssumption
    <2>2. resCh'.buf = <<>> /\ errCh'.buf = <<>> /\ results' = <<>>
      BY <1>2 DEF Filling, Fill, mainVars
    <2>. QED BY <1>2, <2>1, <2>2 DEF Filling
  <1>8. Progress'
    BY <1>2, <1>5 DEF Progress, Before, After, Fill, mainVars
  <1>. QED BY <1>1, <1>2, <1>7, <1>8 DEF Conserved, Before, After

LEMMA ConservedCloseJobs ==
    ASSUME Conserved, CloseJobs
    PROVE  Conserved'
  <1>1. Barrier' /\ Barrier /\ TypeOK
    BY BarrierMain DEF Conserved, Main, Barrier
  <1>2. Filling /\ Progress /\ mpc' = "spawn"
    BY DEF Conserved, Before, CloseJobs
  <1>3. jobCh'.buf = jobCh.buf /\ jobCh'.open = FALSE
    BY <1>1, CloseLemma DEF CloseJobs, TypeOK
  <1>4. /\ jobCh.buf = [i \in 1..NumJobs |-> i]
        /\ resCh'.buf = <<>> /\ errCh'.buf = <<>> /\ results' = <<>>
    BY <1>2 DEF Filling, CloseJobs
  <1>5. \A w \in Workers : wpc'[w] = "unborn" /\ held'[w] = 0
    <2>1. spawned = 0
      BY <1>2 DEF Progress, Before, CloseJobs
    <2>. QED BY <1>1, <2>1, WorkersLemma DEF TypeOK, CloseJobs, workerVars
  <1>6. Queued' = Jobs /\ Distinct(jobCh'.buf)
    BY <1>3, <1>4 DEF Queued, Elems, Distinct, Jobs
  <1>7. InHand' = {} /\ Sent' = {} /\ Collected' = {}
        /\ Distinct(resCh'.buf) /\ Distinct(results')
    <2>1. Elems(<<>>) = {} /\ Distinct(<<>>)
      BY DEF Elems, Distinct
    <2>. QED BY <1>4, <1>5, <2>1 DEF InHand, Sent, Collected, JobsOf
  <1>8. OnePlace' /\ NoneLost' /\ LeftForAReason' /\ Blamed'
    <2>1. Elems(errCh'.buf) = {}
      BY <1>4 DEF Elems
    <2>. QED BY <1>5, <1>6, <1>7, <2>1 DEF OnePlace, NoneLost, LeftForAReason, Blamed
  <1>9. Progress'
    BY <1>2, <1>3 DEF Progress, Before, After, CloseJobs
  <1>. QED BY <1>1, <1>2, <1>8, <1>9 DEF Conserved, Before, After

LEMMA ConservedMiddle ==
    ASSUME Conserved, Spawn \/ Spawned \/ Wait \/ CloseRes \/ CloseErr
    PROVE  Conserved'
  <1>1. Barrier' /\ Barrier /\ TypeOK
    BY BarrierMain DEF Conserved, Main, Barrier
  <1>2. /\ OnePlace /\ NoneLost /\ LeftForAReason /\ Blamed /\ Progress
        /\ mpc \in After /\ mpc' \in After /\ mpc' \notin {"collect", "sort"}
    BY DEF Conserved, After, Spawn, Spawned, Wait, CloseRes, CloseErr
  <1>3. jobCh' = jobCh /\ resCh'.buf = resCh.buf /\ errCh'.buf = errCh.buf
        /\ results' = results /\ held' = held /\ answer' = answer
    BY <1>1, CloseLemma DEF Spawn, Spawned, Wait, CloseRes, CloseErr, chanVars, workerVars, TypeOK
  <1>4. \A w \in Workers : wpc'[w] \in {"exit", "gone"} => wpc[w] \in {"exit", "gone"}
    BY <1>1 DEF Spawn, Spawned, Wait, CloseRes, CloseErr, workerVars, TypeOK
  <1>41. \A w \in Workers : /\ wpc'[w] = "newErr" => wpc[w] = "newErr"
                            /\ wpc'[w] = "deployErr" => wpc[w] = "deployErr"
    BY <1>1 DEF Spawn, Spawned, Wait, CloseRes, CloseErr, workerVars, TypeOK
  <1>5. OnePlace' /\ NoneLost' /\ LeftForAReason' /\ Blamed'
    BY <1>2, <1>3, <1>4, <1>41, SamePlaces
  <1>6. Progress'
    BY <1>2, <1>3 DEF Progress, Before, After, Spawn, Spawned, Wait, CloseRes, CloseErr
  <1>. QED BY <1>1, <1>2, <1>5, <1>6 DEF Conserved, Before, After

LEMMA ConservedCheck ==
    ASSUME Conserved, CheckErr
    PROVE  Conserved'
  <1>1. Barrier' /\ Barrier /\ TypeOK
    BY BarrierMain DEF Conserved, Main, Barrier
  <1>2. OnePlace /\ NoneLost /\ LeftForAReason /\ Blamed /\ Progress /\ mpc = "check"
    BY DEF Conserved, After, CheckErr
  <1>3. CASE SomeError
    <2>1. mpc' = "done" /\ answer'.kind = "error" /\ answer'.results = <<>>
      BY <1>3 DEF CheckErr, Return, Failure
    <2>2. AllOrNothing' /\ answer' # NoAnswer
      BY <2>1 DEF AllOrNothing, NoAnswer
    <2>. QED BY <1>1, <2>1, <2>2 DEF Conserved, Progress, Before, After
  <1>4. CASE ~SomeError
    <2>1. mpc' = "collect" /\ errCh.buf = <<>>
          /\ UNCHANGED <<jobCh, resCh, errCh, results, held, wpc, answer, spawned>>
      BY <1>4 DEF CheckErr, SomeError, Pending, workerVars
    <2>2. OnePlace' /\ NoneLost' /\ LeftForAReason' /\ Blamed'
      BY <1>2, <2>1, SamePlaces
    <2>3. Progress'
      BY <1>2, <2>1 DEF Progress, Before, After
    <2>. QED BY <1>1, <2>1, <2>2, <2>3 DEF Conserved, Before, After
  <1>. QED BY <1>3, <1>4

LEMMA ConservedCollect ==
    ASSUME Conserved, Collect
    PROVE  Conserved'
  <1>1. Barrier' /\ Barrier /\ TypeOK
    BY BarrierMain DEF Conserved, Main, Barrier
  <1>2. OnePlace /\ NoneLost /\ LeftForAReason /\ Blamed /\ Progress /\ mpc = "collect"
    BY DEF Conserved, After, Collect
  <1>3. UNCHANGED <<jobCh, errCh, held, wpc, answer, spawned>>
    BY DEF Collect, workerVars
  <1>4. CASE Pending(resCh)
    <2>. DEFINE m == Head(resCh.buf)
    <2>1. /\ results' = Append(results, m) /\ resCh'.buf = Tail(resCh.buf)
          /\ mpc' = "collect" /\ m \in Messages
          /\ resCh.buf \in Seq(Messages) /\ resCh.buf # <<>> /\ results \in Seq(Messages)
      BY <1>1, <1>2, <1>4, ReceiveLemma DEF Collect, Drained, Pending, TypeOK, Channel
    <2>2. Distinct(resCh.buf) /\ Distinct(results) /\ Sent \cap Collected = {}
      BY <1>2 DEF OnePlace
    <2>3. /\ Distinct(resCh'.buf) /\ Sent' = Sent \ {m.job} /\ m.job \in Sent
      BY <2>1, <2>2, TailJobs DEF Sent
    <2>4. m.job \notin Collected
      BY <2>2, <2>3
    <2>5. Distinct(results') /\ Collected' = Collected \cup {m.job}
      BY <2>1, <2>2, <2>4, AppendJobs DEF Collected
    <2>6. Queued' = Queued /\ InHand' = InHand
      BY <1>3 DEF Queued, InHand
    <2>7. OnePlace'
      BY <1>2, <1>3, <2>3, <2>4, <2>5, <2>6 DEF OnePlace
    <2>8. NoneLost' /\ LeftForAReason' /\ Blamed'
      BY <1>2, <1>3, <2>3, <2>5, <2>6 DEF NoneLost, LeftForAReason, Blamed
    <2>9. Progress'
      BY <1>2, <1>3, <2>1 DEF Progress, Before, After
    <2>. QED BY <1>1, <2>1, <2>7, <2>8, <2>9 DEF Conserved, Before, After
  <1>5. CASE ~Pending(resCh)
    <2>1. mpc' = "sort" /\ resCh' = resCh /\ results' = results /\ resCh.buf = <<>>
      BY <1>5 DEF Collect, Drained, Pending
    <2>2. OnePlace' /\ NoneLost' /\ LeftForAReason' /\ Blamed'
      BY <1>2, <1>3, <2>1, SamePlaces
    <2>3. Progress'
      BY <1>2, <1>3, <2>1 DEF Progress, Before, After
    <2>. QED BY <1>1, <2>1, <2>2, <2>3 DEF Conserved, Before, After
  <1>. QED BY <1>4, <1>5

\* What main holds when it sorts: every worker has left without an error, so
\* the queue is empty, and the results are the jobs, each once.
LEMMA AtSort ==
    ASSUME Conserved, mpc = "sort"
    PROVE  /\ DOMAIN results = Jobs /\ Len(results) = NumJobs
           /\ \A i \in Jobs : results[i] \in Messages
           /\ \A i, k \in Jobs : results[i].job = results[k].job => i = k
  <1>1. Barrier /\ TypeOK /\ Progress /\ OnePlace /\ NoneLost /\ LeftForAReason /\ Blamed
    BY DEF Conserved, Barrier, After
  <1>2. Live = {} /\ spawned = WorkersFor(NumJobs) /\ errCh.buf = <<>> /\ resCh.buf = <<>>
    BY <1>1 DEF Barrier, Progress, After
  <1>3. \A w \in Workers : wpc[w] = "gone"
    BY <1>1, <1>2, WorkersLemma DEF Live, TypeOK
  <1>4. jobCh.buf = <<>>
    BY <1>1, <1>2, <1>3, WorkersLemma DEF LeftForAReason, Blamed
  <1>5. InHand = {}
    BY <1>1, <1>3 DEF InHand, TypeOK
  <1>6. Queued = {} /\ Sent = {}
    BY <1>2, <1>4 DEF Queued, Sent, JobsOf, Elems
  <1>7. results \in Seq(Messages) /\ DOMAIN results = 1..Len(results) /\ Len(results) \in Nat
    BY <1>1 DEF TypeOK
  <1>8. \A i \in DOMAIN results : results[i] \in Messages
    BY <1>7
  <1>9. \A i, k \in DOMAIN results : results[i].job = results[k].job => i = k
    <2>. SUFFICES ASSUME NEW i \in DOMAIN results, NEW k \in DOMAIN results,
                         results[i].job = results[k].job
                  PROVE  i = k
      OBVIOUS
    <2>1. results[i] = results[k]
      BY <1>8, MessageShape
    <2>. QED BY <1>1, <2>1 DEF OnePlace, Distinct
  <1>. DEFINE g == [i \in 1..Len(results) |-> results[i].job]
  <1>10. g \in Bijection(1..Len(results), Jobs)
    <2>1. g \in [1..Len(results) -> Jobs]
      BY <1>7, <1>8, MessageShape
    <2>2. ASSUME NEW j \in Jobs PROVE \E i \in 1..Len(results) : g[i] = j
      <3>1. j \in JobsOf(results)
        BY <1>1, <1>5, <1>6 DEF NoneLost, Collected
      <3>2. PICK m \in Elems(results) : m.job = j
        BY <3>1 DEF JobsOf
      <3>3. PICK i \in DOMAIN results : results[i] = m
        BY <3>2 DEF Elems
      <3>. QED BY <1>7, <3>2, <3>3
    <2>3. \A i, k \in 1..Len(results) : g[i] = g[k] => i = k
      BY <1>7, <1>9
    <2>. QED BY <2>1, <2>2, <2>3 DEF Bijection, Injection, Surjection, IsInjective
  <1>11. Len(results) = NumJobs
    <2>1. ExistsBijection(1..Len(results), Jobs)
      BY <1>10 DEF ExistsBijection
    <2>2. IsFiniteSet(1..Len(results)) /\ Cardinality(1..Len(results)) = Len(results)
      BY <1>7, FS_Interval, SMTT(20)
    <2>3. Cardinality(Jobs) = NumJobs
      BY PoolAssumption, FS_Interval DEF Jobs
    <2>. QED BY <2>1, <2>2, <2>3, FS_Bijection
  <1>. QED BY <1>7, <1>8, <1>9, <1>11 DEF Jobs

\* What Sort hands over: a rearrangement of the jobs, in name order.
LEMMA SortedAnswer ==
    ASSUME Conserved, Sort
    PROVE  \E p \in Rearrangements(Jobs) :
              /\ \A i, j \in Jobs : i < j => Name[p[i]] <= Name[p[j]]
              /\ results' = [i \in Jobs |-> [job |-> p[i], value |-> Result[p[i]]]]
  <1>1. /\ DOMAIN results = Jobs /\ Len(results) = NumJobs
        /\ \A i \in Jobs : results[i] \in Messages
        /\ \A i, k \in Jobs : results[i].job = results[k].job => i = k
    BY AtSort DEF Sort
  <1>2. PICK q \in Rearrangements(Jobs) :
           results' = [i \in Jobs |-> results[q[i]]] /\ Ordered(results')
    BY <1>1 DEF Sort
  <1>3. q \in [Jobs -> Jobs] /\ \A i, j \in Jobs : q[i] = q[j] => i = j
    BY <1>2 DEF Rearrangements
  <1>. DEFINE p == [i \in Jobs |-> results[q[i]].job]
  <1>4. p \in [Jobs -> Jobs]
    BY <1>1, <1>3, MessageShape
  <1>5. \A i, j \in Jobs : p[i] = p[j] => i = j
    BY <1>1, <1>3, ZenonT(40)
  <1>6. \A i \in Jobs : results'[i] = [job |-> p[i], value |-> Result[p[i]]]
    BY <1>1, <1>2, <1>3, MessageShape
  <1>7. \A i, j \in Jobs : i < j => Name[p[i]] <= Name[p[j]]
    BY <1>2, <1>6 DEF Ordered
  <1>8. results' = [i \in Jobs |-> [job |-> p[i], value |-> Result[p[i]]]]
    BY <1>2, <1>6
  <1>. HIDE DEF p
  <1>9. p \in Rearrangements(Jobs)
    BY <1>4, <1>5 DEF Rearrangements
  <1>. QED BY <1>7, <1>8, <1>9

LEMMA ConservedSort ==
    ASSUME Conserved, Sort
    PROVE  Conserved'
  <1>1. Barrier'
    BY BarrierMain DEF Conserved, Main
  <1>2. errCh'.buf = <<>> /\ mpc' = "done" /\ answer' = Success(results')
    BY DEF Conserved, Progress, Sort, Return, chanVars
  <1>3. PICK p \in Rearrangements(Jobs) :
           results' = [i \in Jobs |-> [job |-> p[i], value |-> Result[p[i]]]]
    BY SortedAnswer
  <1>4. p \in [Jobs -> Jobs] /\ \A i, j \in Jobs : p[i] = p[j] => i = j
    BY <1>3 DEF Rearrangements
  <1>5. \A j \in Jobs : \E i \in Jobs : p[i] = j
    <2>1. p \in Injection(Jobs, Jobs)
      BY <1>4 DEF Injection, IsInjective
    <2>2. IsFiniteSet(Jobs)
      BY PoolAssumption, FS_Interval DEF Jobs
    <2>3. p \in Surjection(Jobs, Jobs)
      BY <2>1, <2>2, FS_Injection
    <2>. QED BY <2>3 DEF Surjection
  <1>6. DOMAIN results' = Jobs /\ \A i \in Jobs : results'[i].job = p[i]
    BY <1>3
  <1>7. {results'[i].job : i \in DOMAIN results'} = Jobs
    BY <1>4, <1>5, <1>6
  <1>8. Len(results') = NumJobs
    BY <1>6, PoolAssumption, AtSort, <1>3 DEF Jobs, Sort
  <1>9. AllOrNothing' /\ answer' # NoAnswer
    BY <1>2, <1>7, <1>8 DEF AllOrNothing, Success, NoAnswer
  <1>. QED BY <1>1, <1>2, <1>9 DEF Conserved, Progress, Before, After

-----------------------------------------------------------------------------
(* The workers. *)

LEMMA Buffers ==
    ASSUME TypeOK
    PROVE  /\ jobCh \in Channel(Jobs) /\ jobCh.buf \in Seq(Jobs)
           /\ resCh \in Channel(Messages) /\ resCh.buf \in Seq(Messages)
           /\ errCh \in Channel({"new", "deploy"}) /\ errCh.buf \in Seq({"new", "deploy"})
  BY DEF TypeOK, Channel

LEMMA ConservedWorker ==
    ASSUME Conserved, NEW w \in Workers, Worker(w)
    PROVE  Conserved'
  <1>1. Barrier' /\ Barrier /\ TypeOK
    BY BarrierWorker DEF Conserved, Barrier
  <1>2. w \in Live
    BY <1>1 DEF Worker, NewExecutor, DeployCopy, SendError, TakeJob, RunJob, SendResult, Done,
                Live, TypeOK
  <1>3. mpc \in {"spawn", "wait"}
    <2>1. mpc \notin Before
      BY <1>1, <1>2, NoneSpawned DEF Conserved, Progress
    <2>. QED BY <1>1, <1>2, <2>1 DEF Barrier, TypeOK, MainPCs, Before
  <1>4. UNCHANGED mainVars
    BY DEF Worker, NewExecutor, DeployCopy, SendError, TakeJob, RunJob, SendResult, Done
  <1>5. Progress /\ OnePlace /\ NoneLost /\ LeftForAReason /\ Blamed
    BY <1>3 DEF Conserved, After
  <1>6. SUFFICES ASSUME ~jobCh'.open PROVE OnePlace' /\ NoneLost' /\ LeftForAReason' /\ Blamed'
    <2>1. ~jobCh'.open
      BY <1>1, <1>3, <1>5, ReceiveLemma
         DEF Progress, After, Worker, NewExecutor, DeployCopy, SendError, TakeJob, Taken, RunJob,
             SendResult, Done, chanVars, TypeOK
    <2>2. Progress'
      BY <1>3, <1>4, <1>5, <2>1 DEF Progress, Before, After, mainVars
    <2>. QED BY <1>1, <1>3, <1>4, <2>1, <2>2 DEF Conserved, Before, After, mainVars
  <1>7. CASE NewExecutor(w) \/ DeployCopy(w) \/ RunJob(w) \/ Done(w)
    <2>1. UNCHANGED <<held, results, jobCh, resCh, errCh>>
      BY <1>4, <1>7 DEF NewExecutor, DeployCopy, RunJob, Done, mainVars, chanVars
    <2>2. \A v \in Workers : wpc'[v] \in {"exit", "gone"} => wpc[v] \in {"exit", "gone"}
      BY <1>1, <1>7 DEF NewExecutor, DeployCopy, RunJob, Done, TypeOK
    <2>3. \A v \in Workers : /\ wpc'[v] = "newErr" => wpc[v] = "newErr" \/ "new" \in Faults
                             /\ wpc'[v] = "deployErr" =>
                                   wpc[v] = "deployErr" \/ "deploy" \in Faults
      BY <1>1, <1>7 DEF NewExecutor, DeployCopy, RunJob, Done, TypeOK
    <2>. QED BY <1>5, <2>1, <2>2, <2>3, SamePlaces
  <1>8. CASE SendError(w)
    <2>1. UNCHANGED <<held, results, jobCh, resCh>>
      BY <1>4, <1>8 DEF SendError, mainVars
    <2>2. errCh'.buf # <<>> /\ Elems(errCh'.buf) \subseteq Faults
      <3>1. PICK e \in {"new", "deploy"} : errCh' = Send(errCh, e) /\ e \in Faults
        BY <1>5, <1>8 DEF SendError, ErrorOf, Blamed
      <3>2. errCh.buf \in Seq({"new", "deploy"}) /\ errCh'.buf = Append(errCh.buf, e)
        BY <1>1, <3>1, SendLemma, Buffers
      <3>3. \A i \in DOMAIN Append(errCh.buf, e) :
               Append(errCh.buf, e)[i] \in Elems(errCh.buf) \cup {e}
        BY <3>2 DEF Elems
      <3>4. Elems(errCh'.buf) \subseteq Faults
        BY <1>5, <3>1, <3>2, <3>3 DEF Elems, Blamed
      <3>. QED BY <3>2, <3>4
    <2>3. Queued' = Queued /\ InHand' = InHand /\ Sent' = Sent /\ Collected' = Collected
      BY <2>1 DEF Queued, InHand, Sent, Collected
    <2>4. \A v \in Workers : wpc'[v] \in {"newErr", "deployErr"} => wpc'[v] = wpc[v]
      BY <1>1, <1>8 DEF SendError, TypeOK
    <2>5. OnePlace' /\ NoneLost'
      BY <1>5, <2>1, <2>3 DEF OnePlace, NoneLost
    <2>6. LeftForAReason' /\ Blamed'
      BY <1>5, <2>2, <2>4 DEF LeftForAReason, Blamed
    <2>. QED BY <2>5, <2>6
  <1>9. CASE TakeJob(w)
    <2>1. CASE Pending(jobCh)
      <3>. DEFINE j == Head(jobCh.buf)
      <3>1. /\ held' = [held EXCEPT ![w] = j] /\ jobCh'.buf = Tail(jobCh.buf)
            /\ wpc' = [wpc EXCEPT ![w] = "run"] /\ UNCHANGED <<results, resCh, errCh>>
            /\ jobCh.buf \in Seq(Jobs) /\ jobCh.buf # <<>> /\ j \in Jobs /\ j # 0
        <4>1. /\ held' = [held EXCEPT ![w] = j] /\ jobCh' = Receive(jobCh)
              /\ wpc' = [wpc EXCEPT ![w] = "run"] /\ UNCHANGED <<results, resCh, errCh>>
          BY <1>4, <1>9, <2>1 DEF TakeJob, Taken, Drained, Pending, mainVars
        <4>2. jobCh \in Channel(Jobs) /\ jobCh.buf \in Seq(Jobs) /\ jobCh.buf # <<>>
          BY <1>1, <2>1, Buffers DEF Pending
        <4>3. j \in Jobs
          BY <2>1, <4>2, ReceiveLemma
        <4>4. j # 0
          BY <4>3 DEF Jobs
        <4>. QED BY <2>1, <4>1, <4>2, <4>3, <4>4, ReceiveLemma
      <3>2. Distinct(jobCh'.buf) /\ Queued' = Queued \ {j} /\ j \in Queued
        BY <1>5, <3>1, TailElems DEF OnePlace, Queued
      <3>3. held[w] = 0
        BY <1>1, <1>9 DEF TakeJob, TypeOK
      <3>4. InHand' = InHand \cup {j}
        BY <1>1, <3>1, <3>3 DEF InHand, TypeOK
      <3>5. j \notin InHand /\ j \notin Sent /\ j \notin Collected
        BY <1>5, <3>2 DEF OnePlace
      <3>6. ASSUME NEW u \in Workers, NEW v \in Workers, held'[u] = held'[v], held'[u] # 0
            PROVE  u = v
        BY <1>1, <1>5, <3>1, <3>5, <3>6 DEF OnePlace, InHand, TypeOK
      <3>7. Sent' = Sent /\ Collected' = Collected
        BY <3>1 DEF Sent, Collected
      <3>8. OnePlace'
        BY <1>5, <3>1, <3>2, <3>4, <3>5, <3>6, <3>7 DEF OnePlace
      <3>9. NoneLost'
        BY <1>5, <3>2, <3>4, <3>7 DEF NoneLost
      <3>10. LeftForAReason' /\ Blamed'
        BY <1>1, <1>5, <3>1 DEF LeftForAReason, Blamed, TypeOK
      <3>. QED BY <3>8, <3>9, <3>10
    <2>2. CASE ~Pending(jobCh)
      <3>1. UNCHANGED <<held, jobCh, resCh, errCh, results>> /\ jobCh.buf = <<>>
        BY <1>4, <1>9, <2>2 DEF TakeJob, Pending, mainVars
      <3>2. Queued' = Queued /\ InHand' = InHand /\ Sent' = Sent /\ Collected' = Collected
        BY <3>1 DEF Queued, InHand, Sent, Collected
      <3>3. \A v \in Workers : wpc'[v] \in {"newErr", "deployErr"} => wpc'[v] = wpc[v]
        BY <1>1, <1>9, <2>2 DEF TakeJob, TypeOK
      <3>. QED BY <1>5, <3>1, <3>2, <3>3 DEF OnePlace, NoneLost, LeftForAReason, Blamed
    <2>. QED BY <2>1, <2>2
  <1>10. CASE SendResult(w)
    <2>. DEFINE m == [job |-> held[w], value |-> out[w]]
    <2>1. /\ m \in Messages /\ m.job = held[w] /\ held[w] # 0 /\ held[w] \in Jobs
      BY <1>1, <1>10, MessagesLemma DEF SendResult, TypeOK, Jobs
    <2>2. /\ resCh.buf \in Seq(Messages) /\ resCh'.buf = Append(resCh.buf, m)
          /\ held' = [held EXCEPT ![w] = 0] /\ UNCHANGED <<jobCh, errCh, results>>
          /\ wpc' = [wpc EXCEPT ![w] = "recv"]
      <3>1. resCh' = Send(resCh, m) /\ UNCHANGED <<jobCh, errCh, results>>
            /\ held' = [held EXCEPT ![w] = 0] /\ wpc' = [wpc EXCEPT ![w] = "recv"]
        BY <1>4, <1>10 DEF SendResult, mainVars
      <3>. QED BY <1>1, <2>1, <3>1, SendLemma, Buffers
    <2>3. held[w] \in InHand /\ held[w] \notin Queued /\ held[w] \notin Sent
          /\ held[w] \notin Collected
      BY <1>5, <2>1 DEF OnePlace, InHand
    <2>4. Distinct(resCh'.buf) /\ Sent' = Sent \cup {held[w]}
      BY <1>5, <2>1, <2>2, <2>3, AppendJobs DEF OnePlace, Sent
    <2>5. InHand' = InHand \ {held[w]}
      BY <1>1, <1>5, <2>1, <2>2 DEF InHand, OnePlace, TypeOK
    <2>6. Queued' = Queued /\ Collected' = Collected
      BY <2>2 DEF Queued, Collected
    <2>7. ASSUME NEW u \in Workers, NEW v \in Workers, held'[u] = held'[v], held'[u] # 0
          PROVE  u = v
      BY <1>1, <1>5, <2>2, <2>7 DEF OnePlace, TypeOK
    <2>8. OnePlace'
      BY <1>5, <2>2, <2>3, <2>4, <2>5, <2>6, <2>7 DEF OnePlace
    <2>9. NoneLost'
      BY <1>5, <2>4, <2>5, <2>6 DEF NoneLost
    <2>10. LeftForAReason' /\ Blamed'
      BY <1>1, <1>5, <2>2 DEF LeftForAReason, Blamed, TypeOK
    <2>. QED BY <2>8, <2>9, <2>10
  <1>. QED BY <1>7, <1>8, <1>9, <1>10 DEF Worker

LEMMA ConservedStep == Conserved /\ [Next]_vars => Conserved'
  <1>. SUFFICES ASSUME Conserved, [Next]_vars PROVE Conserved'
    OBVIOUS
  <1>1. CASE Main
    BY <1>1, ConservedStart, ConservedFill, ConservedCloseJobs, ConservedMiddle, ConservedCheck,
       ConservedCollect, ConservedSort DEF Main
  <1>2. CASE UNCHANGED vars
    BY <1>2 DEF vars, Conserved, Barrier, TypeOK, Live, Progress, Filling, OnePlace, NoneLost,
                LeftForAReason, Blamed, AllOrNothing, Queued, InHand, Sent, Collected
  <1>. QED BY <1>1, <1>2, ConservedWorker DEF Next, Finished

LEMMA ConservedInvariant == Spec => []Conserved
  BY ConservedInit, ConservedStep, PTL DEF Spec

-----------------------------------------------------------------------------
LEMMA OnlyOne ==
    ASSUME NEW S, NEW x \in S, \A y \in S : y = x
    PROVE  Cardinality(S) = 1
  <1>1. S = {x}
    OBVIOUS
  <1>. QED BY <1>1, FS_Singleton

LEMMA PlacesCounted ==
    ASSUME TypeOK, OnePlace, NEW j \in Jobs
    PROVE  /\ Cardinality({i \in DOMAIN jobCh.buf : jobCh.buf[i] = j}) = IF j \in Queued THEN 1 ELSE 0
           /\ Cardinality({w \in Workers : held[w] = j}) = IF j \in InHand THEN 1 ELSE 0
           /\ Cardinality({i \in DOMAIN resCh.buf : resCh.buf[i].job = j}) = IF j \in Sent THEN 1 ELSE 0
           /\ Cardinality({i \in DOMAIN results : results[i].job = j}) = IF j \in Collected THEN 1 ELSE 0
  <1>. DEFINE A == {i \in DOMAIN jobCh.buf : jobCh.buf[i] = j}
              B == {w \in Workers : held[w] = j}
              C == {i \in DOMAIN resCh.buf : resCh.buf[i].job = j}
              D == {i \in DOMAIN results : results[i].job = j}
  <1>0. j # 0
    BY DEF Jobs
  <1>1. Cardinality(A) = IF j \in Queued THEN 1 ELSE 0
    <2>1. CASE j \in Queued
      <3>1. PICK i \in DOMAIN jobCh.buf : jobCh.buf[i] = j
        BY <2>1 DEF Queued, Elems
      <3>2. i \in A /\ \A k \in A : k = i
        BY <3>1 DEF OnePlace, Distinct
      <3>. HIDE DEF A
      <3>. QED BY <2>1, <3>2, OnlyOne
    <2>2. CASE j \notin Queued
      <3>1. A = {}
        BY <2>2 DEF Queued, Elems
      <3>. QED BY <2>2, <3>1, FS_EmptySet
    <2>. QED BY <2>1, <2>2
  <1>2. Cardinality(B) = IF j \in InHand THEN 1 ELSE 0
    <2>1. CASE j \in InHand
      <3>1. PICK w \in Workers : held[w] = j
        BY <2>1 DEF InHand
      <3>2. w \in B /\ \A v \in B : v = w
        BY <1>0, <3>1 DEF OnePlace
      <3>. HIDE DEF B
      <3>. QED BY <2>1, <3>2, OnlyOne
    <2>2. CASE j \notin InHand
      <3>1. B = {}
        BY <1>0, <2>2 DEF InHand
      <3>. QED BY <2>2, <3>1, FS_EmptySet
    <2>. QED BY <2>1, <2>2
  <1>3. ASSUME NEW s \in Seq(Messages), Distinct(s)
        PROVE  Cardinality({i \in DOMAIN s : s[i].job = j}) = IF j \in JobsOf(s) THEN 1 ELSE 0
    <2>. DEFINE E == {i \in DOMAIN s : s[i].job = j}
    <2>1. CASE j \in JobsOf(s)
      <3>1. PICK i \in DOMAIN s : s[i].job = j
        BY <2>1 DEF JobsOf, Elems
      <3>2. \A k \in E : s[k] = s[i]
        BY <3>1, MessageShape
      <3>3. i \in E /\ \A k \in E : k = i
        BY <1>3, <3>1, <3>2 DEF Distinct
      <3>. HIDE DEF E
      <3>4. Cardinality(E) = 1
        BY <3>3, OnlyOne
      <3>. QED BY <2>1, <3>4 DEF E
    <2>2. CASE j \notin JobsOf(s)
      <3>1. E = {}
        BY <2>2 DEF JobsOf, Elems
      <3>. QED BY <2>2, <3>1, FS_EmptySet
    <2>. QED BY <2>1, <2>2
  <1>4. resCh.buf \in Seq(Messages) /\ results \in Seq(Messages)
    BY Buffers DEF TypeOK
  <1>5. Cardinality(C) = IF j \in Sent THEN 1 ELSE 0
    BY <1>3, <1>4 DEF Sent, OnePlace
  <1>6. Cardinality(D) = IF j \in Collected THEN 1 ELSE 0
    BY <1>3, <1>4 DEF Collected, OnePlace
  <1>. QED BY <1>1, <1>2, <1>5, <1>6

LEMMA JobsConserved == Conserved => EachJobInOnePlace
  <1>. SUFFICES ASSUME Conserved, mpc \in After, NEW j \in Jobs
                PROVE  Places(j) = 1
    BY DEF EachJobInOnePlace, Conserved, Barrier, TypeOK, MainPCs, After
  <1>1. TypeOK /\ OnePlace /\ NoneLost
    BY DEF Conserved, Barrier
  <1>2. \/ j \in Queued /\ j \notin InHand /\ j \notin Sent /\ j \notin Collected
        \/ j \notin Queued /\ j \in InHand /\ j \notin Sent /\ j \notin Collected
        \/ j \notin Queued /\ j \notin InHand /\ j \in Sent /\ j \notin Collected
        \/ j \notin Queued /\ j \notin InHand /\ j \notin Sent /\ j \in Collected
    BY <1>1 DEF OnePlace, NoneLost
  <1>. QED BY <1>1, <1>2, PlacesCounted DEF Places

(***************************************************************************)
(* From the closing of the job queue to the sort, every job is in exactly  *)
(* one place, in every schedule and with any workers lost to an error.     *)
(***************************************************************************)
THEOREM KeepsEachJob == Spec => []EachJobInOnePlace
  BY JobsConserved, ConservedInvariant, PTL

LEMMA ConservedMeans == Conserved => TypeOK /\ Barrier /\ AllOrNothing
  BY DEF Conserved, Barrier, Progress, AllOrNothing, NoAnswer

(***************************************************************************)
(* Fuzz and Evaluate return the result of every job or an error, and no    *)
(* result beside an error, whichever workers fail.                         *)
(***************************************************************************)
THEOREM AnswersAllOrNothing == Spec => []AllOrNothing
  BY ConservedMeans, ConservedInvariant, PTL

LEMMA PromiseStep == Conserved /\ [Next]_vars => [Promise!Next]_answer
  <1>. SUFFICES ASSUME Conserved, Next, answer' # answer
                PROVE  Promise!Next
    BY DEF vars
  <1>. USE DEF Promise!Next, Promise!Succeed, Promise!Fail, NoAnswer, Promise!NoAnswer,
               Success, Promise!Success, Failure, Promise!Failure
  <1>1. CASE Enter
    <2>1. NumJobs = 0 /\ answer' = Success(<<>>) /\ answer = NoAnswer
      BY <1>1 DEF Enter, Return, Conserved, Progress
    <2>. DEFINE p == [i \in Jobs |-> i]
    <2>2. Jobs = {} /\ Promise!Jobs = {}
      BY <2>1 DEF Jobs, Promise!Jobs
    <2>3. p \in Promise!Rearrangements(Promise!Jobs)
      BY <2>2 DEF Promise!Rearrangements
    <2>4. [i \in Promise!Jobs |-> [job |-> p[i], value |-> Result[p[i]]]] = <<>>
      BY <2>2
    <2>. QED BY <2>1, <2>2, <2>3, <2>4
  <1>2. CASE ProbeNew \/ ProbeDeploy
    <2>1. answer = NoAnswer /\ \E f \in Faults : answer' = Failure(f)
      BY <1>2 DEF ProbeNew, ProbeDeploy, Return, Conserved, Progress
    <2>2. NumJobs > 0
      BY <1>2 DEF ProbeNew, ProbeDeploy, Conserved, Progress
    <2>. QED BY <2>1, <2>2
  <1>3. CASE CheckErr
    <2>1. /\ answer = NoAnswer /\ answer' = Failure(Head(errCh.buf)) /\ errCh.buf # <<>>
          /\ NumJobs > 0 /\ Elems(errCh.buf) \subseteq Faults
      BY <1>3 DEF CheckErr, Return, SomeError, Pending, Conserved, Progress, After, Blamed
    <2>2. errCh.buf \in Seq({"new", "deploy"})
      BY Buffers DEF Conserved, Barrier
    <2>3. 1 \in DOMAIN errCh.buf /\ Head(errCh.buf) = errCh.buf[1]
      BY <2>1, <2>2
    <2>4. Head(errCh.buf) \in Faults
      BY <2>1, <2>3 DEF Elems
    <2>. QED BY <2>1, <2>4
  <1>4. CASE Sort
    <2>1. PICK p \in Rearrangements(Jobs) :
            /\ \A i, j \in Jobs : i < j => Name[p[i]] <= Name[p[j]]
            /\ results' = [i \in Jobs |-> [job |-> p[i], value |-> Result[p[i]]]]
      BY <1>4, SortedAnswer
    <2>2. answer = NoAnswer /\ answer' = Success(results')
      BY <1>4 DEF Sort, Return, Conserved, Progress
    <2>. QED
      BY <2>1, <2>2 DEF Promise!Rearrangements, Rearrangements, Promise!Jobs, Jobs
  <1>. QED
    BY <1>1, <1>2, <1>3, <1>4
    DEF Next, Main, Finished, vars, mainVars, Fill, CloseJobs, Spawn, Spawned, Wait, CloseRes,
        CloseErr, Collect, Worker, NewExecutor, DeployCopy, SendError, TakeJob, RunJob,
        SendResult, Done

(***************************************************************************)
(* Every step of the pool is a step of PoolPromise or leaves the answer    *)
(* alone: the answer is given once, and is the sorted list of all results  *)
(* or one error that may really have happened.                             *)
(***************************************************************************)
THEOREM KeepsPromise == Spec => Promise!Safety
  <1>1. Init => Promise!Init
    BY DEF Init, Promise!Init, NoAnswer, Promise!NoAnswer
  <1>. QED BY <1>1, PromiseStep, ConservedInvariant, PTL DEF Spec, Promise!Safety

-----------------------------------------------------------------------------
(* Determinism follows from the promise alone.                             *)

InNameOrder(p) == \A i, j \in Jobs : i < j => Name[p[i]] <= Name[p[j]]

\* Of two lists of the jobs in name order, neither is ahead of the other: the
\* jobs up to the i-th name of p are at least i by p, and fewer by q if q's i-th
\* name is later.
LEMMA NotAhead ==
    ASSUME NEW p \in Rearrangements(Jobs), NEW q \in Rearrangements(Jobs),
           InNameOrder(p), InNameOrder(q), NEW i \in Jobs
    PROVE  ~(Name[p[i]] < Name[q[i]])
  <1>. SUFFICES ASSUME Name[p[i]] < Name[q[i]] PROVE FALSE
    OBVIOUS
  <1>. DEFINE A == {j \in Jobs : Name[j] <= Name[p[i]]}
              first == [k \in 1..i |-> p[k]]
  <1>1. Name \in [Jobs -> Nat] /\ NumJobs \in Nat /\ Jobs = 1..NumJobs
    BY PoolAssumption DEF Jobs
  <1>p. p \in [Jobs -> Jobs] /\ \A a, b \in Jobs : p[a] = p[b] => a = b
    BY DEF Rearrangements
  <1>q. q \in [Jobs -> Jobs] /\ \A a, b \in Jobs : q[a] = q[b] => a = b
    BY DEF Rearrangements
  <1>a. \A k \in Jobs : /\ p[k] \in Jobs /\ q[k] \in Jobs
                         /\ Name[p[k]] \in Nat /\ Name[q[k]] \in Nat
    <2>1. \A k \in Jobs : Name[k] \in Nat
      BY <1>1
    <2>. QED BY <1>p, <1>q, <2>1
  <1>i. i \in Nat /\ i <= NumJobs /\ \A k \in Jobs : k \in Nat /\ 1 <= k
    BY <1>1
  <1>b. \A k \in 1..i : k \in Jobs /\ (k < i \/ k = i)
    BY <1>1, <1>i
  <1>2. IsFiniteSet(Jobs) /\ Cardinality(Jobs) = NumJobs
    BY <1>1, IntervalLemma
  <1>3. IsFiniteSet(A)
    BY <1>2, FS_Subset
  <1>4. IsFiniteSet(1..i) /\ Cardinality(1..i) = i
    BY <1>i, IntervalLemma
  <1>5. IsFiniteSet(1..(i - 1)) /\ Cardinality(1..(i - 1)) = i - 1
    <2>1. i - 1 \in Nat
      BY <1>i, <1>1
    <2>. QED BY <2>1, IntervalLemma
  <1>6. first \in Injection(1..i, A)
    <2>1. ASSUME NEW k \in 1..i PROVE p[k] \in A
      <3>1. Name[p[k]] <= Name[p[i]]
        BY <1>a, <1>b DEF InNameOrder
      <3>. QED BY <1>a, <1>b, <3>1
    <2>2. \A a, b \in 1..i : p[a] = p[b] => a = b
      BY <1>p, <1>b, Zenon
    <2>. HIDE DEF A
    <2>. QED BY <2>1, <2>2 DEF Injection, IsInjective
  <1>7. i <= Cardinality(A)
    <2>. HIDE DEF A, first
    <2>. QED BY <1>3, <1>4, <1>6, FS_Injection
  <1>8. q \in Surjection(Jobs, Jobs)
    <2>1. q \in Injection(Jobs, Jobs)
      BY <1>q DEF Injection, IsInjective
    <2>. QED BY <1>2, <2>1, FS_Injection
  <1>9. \A j \in A : \E k \in 1..(i - 1) : q[k] = j
    <2>. SUFFICES ASSUME NEW j \in A PROVE \E k \in 1..(i - 1) : q[k] = j
      OBVIOUS
    <2>1. PICK k \in Jobs : q[k] = j
      BY <1>8 DEF Surjection
    <2>2. k < i
      <3>1. Name[q[k]] < Name[q[i]]
        BY <1>a, <2>1
      <3>2. ~(i < k)
        BY <1>a, <3>1 DEF InNameOrder
      <3>3. k # i
        BY <1>a, <3>1
      <3>. QED BY <1>i, <3>2, <3>3
    <2>. QED BY <1>i, <2>1, <2>2
  <1>. DEFINE place == [j \in A |-> CHOOSE k \in 1..(i - 1) : q[k] = j]
  <1>10. place \in Injection(A, 1..(i - 1))
    <2>1. \A j \in A : place[j] \in 1..(i - 1) /\ q[place[j]] = j
      BY <1>9
    <2>2. place \in [A -> 1..(i - 1)]
      BY <2>1
    <2>. HIDE DEF place, A
    <2>3. \A a, b \in A : place[a] = place[b] => a = b
      BY <2>1
    <2>. QED BY <2>2, <2>3 DEF Injection, IsInjective
  <1>11. Cardinality(A) <= i - 1
    <2>. HIDE DEF A, place
    <2>. QED BY <1>3, <1>5, <1>10, FS_Injection
  <1>12. Cardinality(A) \in Nat
    <2>. HIDE DEF A
    <2>. QED BY <1>3, FS_CardinalityType
  <1>. HIDE DEF A
  <1>. QED BY <1>i, <1>7, <1>11, <1>12

\* What the promise says of an answer that is not an error.
Promised ==
    answer.kind = "ok" =>
        \E p \in Rearrangements(Jobs) :
            /\ InNameOrder(p)
            /\ answer.results = [i \in Jobs |-> [job |-> p[i], value |-> Result[p[i]]]]

LEMMA PromisedLemma == Promise!Safety => []Promised
  <1>1. Promise!Init => Promised
    BY DEF Promise!Init, Promise!NoAnswer, Promised
  <1>2. Promised /\ [Promise!Next]_answer => Promised'
    <2>. SUFFICES ASSUME Promised, [Promise!Next]_answer PROVE Promised'
      OBVIOUS
    <2>1. CASE Promise!Succeed
      <3>1. Promise!Jobs = Jobs /\ Promise!Rearrangements(Jobs) = Rearrangements(Jobs)
        BY DEF Promise!Jobs, Jobs, Promise!Rearrangements, Rearrangements
      <3>2. PICK p \in Rearrangements(Jobs) :
               /\ \A i, j \in Jobs : i < j => Name[p[i]] <= Name[p[j]]
               /\ answer' = Promise!Success([i \in Jobs |-> [job |-> p[i], value |-> Result[p[i]]]])
        BY <2>1, <3>1 DEF Promise!Succeed
      <3>3. answer'.results = [i \in Jobs |-> [job |-> p[i], value |-> Result[p[i]]]]
        BY <3>2 DEF Promise!Success
      <3>. QED BY <3>2, <3>3 DEF Promised, InNameOrder
    <2>2. CASE Promise!Fail
      <3>1. answer'.kind = "error"
        BY <2>2 DEF Promise!Fail, Promise!Failure
      <3>. QED BY <3>1 DEF Promised
    <2>3. CASE UNCHANGED answer
      BY <2>3 DEF Promised
    <2>. QED BY <2>1, <2>2, <2>3 DEF Promise!Next
  <1>. QED BY <1>1, <1>2, PTL DEF Promise!Safety

LEMMA PromisedIsDeterministic == Promised => Deterministic
  <1>. SUFFICES ASSUME Promised, answer.kind = "ok" PROVE Visible(answer.results) = Reference
    BY DEF Deterministic
  <1>1. PICK p \in Rearrangements(Jobs) :
           /\ InNameOrder(p)
           /\ answer.results = [i \in Jobs |-> [job |-> p[i], value |-> Result[p[i]]]]
    BY DEF Promised
  <1>. DEFINE q == CHOOSE q \in Rearrangements(Jobs) : InNameOrder(q)
  <1>2. q \in Rearrangements(Jobs) /\ InNameOrder(q)
    <2>. DEFINE R == Rearrangements(Jobs)
    <2>1. p \in R /\ InNameOrder(p)
      BY <1>1
    <2>. HIDE DEF R
    <2>2. \E x \in R : InNameOrder(x)
      BY <2>1
    <2>. QED BY <2>2 DEF R
  <1>3. Reference = [i \in Jobs |-> <<Name[q[i]], Result[q[i]]>>]
    BY DEF Reference, InNameOrder
  <1>. HIDE DEF q
  <1>4. Visible(answer.results) = [i \in Jobs |-> <<Name[p[i]], Result[p[i]]>>]
    BY <1>1 DEF Visible
  <1>5. ASSUME NEW i \in Jobs PROVE Name[p[i]] = Name[q[i]] /\ Result[p[i]] = Result[q[i]]
    <2>1. ~(Name[p[i]] < Name[q[i]]) /\ ~(Name[q[i]] < Name[p[i]])
      BY <1>1, <1>2, NotAhead
    <2>2. p[i] \in Jobs /\ q[i] \in Jobs
      BY <1>1, <1>2 DEF Rearrangements
    <2>3. Name[p[i]] \in Nat /\ Name[q[i]] \in Nat
      BY <2>2, PoolAssumption
    <2>4. Name[p[i]] = Name[q[i]]
      BY <2>1, <2>3
    <2>. QED BY <2>2, <2>4, SameNameSameResult
  <1>. QED BY <1>3, <1>4, <1>5

\* fuzz.go: "the graph does not depend on how work was scheduled across
\* goroutines".  What the caller sees of the answer is the same for every number
\* of workers, every schedule and whatever the sort does with equal names.
THEOREM SameInEverySchedule == Spec => []Deterministic
  BY KeepsPromise, PromisedLemma, PromisedIsDeterministic, PTL

-----------------------------------------------------------------------------
(* The same for whoever runs the pool with a job of its own in it, and has *)
(* its own scheduling.                                                     *)

PoolSafe == TypeOK /\ NoSendOnClosed /\ EachJobInOnePlace /\ AllOrNothing /\ Deterministic

LEMMA SafelyRuns == Init /\ [][Next]_vars => []PoolSafe
  <1>1. Conserved => TypeOK /\ NoSendOnClosed /\ EachJobInOnePlace /\ AllOrNothing
    BY ConservedMeans, BarrierMeans, JobsConserved
  <1>2. Init => Promise!Init
    BY DEF Init, Promise!Init, NoAnswer, Promise!NoAnswer
  <1>3. Init /\ [][Next]_vars => []Conserved /\ Promise!Safety
    BY <1>2, ConservedInit, ConservedStep, PromiseStep, PTL DEF Promise!Safety
  <1>4. TypeOK /\ NoSendOnClosed /\ EachJobInOnePlace /\ AllOrNothing /\ Deterministic => PoolSafe
    BY DEF PoolSafe
  <1>. QED BY <1>1, <1>3, <1>4, PromisedLemma, PromisedIsDeterministic, PTL
=============================================================================
