# Sequent in TLA+

A verification project for [Sequent](../src/README.md), a scanner that runs the
functions of a compiled contract on an in-memory EVM, draws an edge from every
function that writes a storage slot to every function that reads it, replays
each edge in both orders and ranks the pairs whose outcome changes.

Modules are checked with TLC and proved with TLAPS; `PROJECT.json` lists the
runs, what each definition stands for in the source (`map`), the mutations every
property was tested against, and the hazards the properties are aimed at.

## 1. The system

```
main.go runAnalyze
  loadContract -> ResolveCreationCode -> analyzeContract -> report -> tests
                    (deploy.go)              |
                       Fuzz (fuzz.go) -> graph.Build -> Evaluate (scenario.go) -> report.Build
                        |                                  |
                     runJobs: worker pool               runEdges: worker pool
                        |                                  |
                     runJob per function                evalEdge per edge
                        \__________ evm.Executor + tracer _/   (one per worker)
```

| Component | State it keeps | Operations | How it meets the others |
|---|---|---|---|
| Worker pools: `Fuzz`/`runJobs`, `Evaluate`/`runEdges` | job, result and error channels, wait group, one goroutine per worker, the collected results | probe deployment, fill and close the jobs, spawn, wait, close, check the error, collect, sort; per worker: make a machine, deploy, take, run, send, exit | channels and a wait group between the main goroutine and the workers; one executor a worker |
| `evm.Executor` and `storageTracer` | go-ethereum's `StateDB` and its snapshot journal; the access list of the current call | `New`, `Deploy`, `Call`, `fund`, `Snapshot`, `RevertToSnapshot`, `onOpcode` | called by workers, called back by the interpreter at every opcode |
| `runJob` | the accesses collected so far | snapshot, call and revert once per variant | a job of the first pool |
| `evalEdge`, `measureAmplification` | the pair of variants, the two outcomes, the impact so far | reader alone, writers then reader, compare, measure | a job of the second pool |
| Interaction graph (`graph.Build`, `trace.Function`) | none: a function of the traces | edges with their shared slots, sorted | between the pools |
| Report (`report.Build`) | none: a function of graph and impacts | classify, score, rank, count | joined to the graph by the two names of an edge |
| `analyzeContract` | the result of each stage | the stages in order, or the first error | |
| Corpus and `buildJobs` | the calldata seen so far | per method: one set of arguments a round, repeats dropped; a job, or its reason to be skipped | input of both pools |
| `ResolveCreationCode` | the last error | try the constructor's argument sets in order | makes sure that everything after it can deploy |
| Command: `runAnalyze`, `loadContract`, `writeTests`, the loaders | stdout, two test files, the exit code | parse, load, resolve, analyze, print, write the proofs, write the guards | runs everything else; what earlier steps wrote stays when a later one fails |
| Test generation (`gentest`) | how often a name was used | filter, name and write a test per confirmed finding | reads the report; its tests run later, under Foundry, on a source that has changed |
| `Traces`, `SpecsFromABI` | one executor for all calls | snapshot, call and revert once per method | tests only |

What is hard here, and what makes each part correct:

- **The pools.** Everything is sent before anyone receives, channels are closed
  by a goroutine that does not send on them, workers die on their own, results
  come back in the order of the schedule and are sorted by an unstable sort.
  Right means: every call returns and leaves no goroutine behind; no send on a
  closed channel; no job lost or run twice; all of the results or an error;
  the same answer in every schedule.
- **Reuse of an executor.** One `StateDB` serves every variant, every pair and
  every later job of a worker. Right means that every call starts from the fresh
  deployment, after calls that failed half-way as after calls that worked, so
  that a job's result is the one it would have alone.
- **Evidence.** An impact carries the calls that show it; they are replayed on
  fresh deployments later. Right means they replay, nothing with a changing pair
  of variants is left unconfirmed, and the measured amplification is true.
- **Pruning.** Pairs without an edge are never run. Right means that a pair
  without an edge has no effect to find.
- **Joining and ranking.** Three lists sorted apart meet by names. Right means
  each finding has its own slots and impact and the worst stands first, and the
  three places that say what happened to a reader say the same.
- **Values that line up.** A dependency through a mapping is found only if two
  functions are called with a common key, picked by round, type and place in an
  array. Right means that every two arguments of a kind meet, that no method is
  lost between called and skipped, and that a constructor which wants non-zero
  arguments gets them.
- **Partial outputs.** Each step of the command may fail after earlier ones have
  written. Right means that the exit code tells what is there.
- **Tests that outlive the analysis.** A test shows on two deployments, later and
  elsewhere, what was seen by rewinding one. Right means that it passes or fails
  exactly with the effect, and that the file compiles.

## 2. The modules

Each module says at its head what it stands for; `map` in `PROJECT.json` has
the lines of every definition.

| Module | Stands for | Variables |
|---|---|---|
| `PoolPromise` | what `Fuzz` and `Evaluate` promise their caller: one answer, once, complete and sorted by name, or the error of an operation that can fail | `answer` |
| `WorkerPool` | both pools, with the result of job j left open as `Result[j]` | `mpc` the main goroutine's place; `jobCh`, `resCh`, `errCh` a buffer and an open flag each; `wg`; `spawned`; per worker `wpc`, `held`, `out`; `results`; `answer` |
| `Executor` | `evm.Executor` and the tracer, as operators on a value `[world, journal]`; what a contract does is the constant operator `Run` | |
| `Scenario` | the footprint of a function and the impact of a pair, defined with no loop and no shared machine, over `Executor` | |
| `Fuzzer` | `runJob` inside the pool, one executor operation a step | the pool's, and per worker `exec`, `stage`, `snap`, `variant`, `accesses` |
| `Evaluator` | `evalEdge`, `readerAlone`, `writerRepeatedThenReader`, `measureAmplification` inside the pool, one executor operation or decision a step | the pool's, and per worker `exec` and `frame`, the locals |
| `Sorting` | Go's `sort` package, without an algorithm: the k-th of a sorted sequence is the element with k - 1 before it | |
| `InteractionGraph` | `trace.Function.Reads/Writes`, `graph.Build` | |
| `Report` | `report.Build`, `classify`, `effectOf`, `rank`, the compounding clause | |
| `Analysis` | `analyzeContract`; the two pools appear as what `PoolPromise` allows | `methods`, `stage`, `fns`, `edges`, `impacts`, `report` |
| `FirstPass` | `SpecsFromABI` and `Traces`, beside `Analysis` on the same contract | those of `Analysis` |
| `Corpus` | `setFromCorpus`, `fillByteArray`, `fillZero`, the variants of a method and of a constructor; operators on trees of types | |
| `Preparation` | `ResolveCreationCode`, then `buildJobs` | `abi`, `accepts`, `rounds`; `stage`, `candidates`, `tries`, `code`, `error`; `jobs`, `skipped` |
| `GenTest` | `Generate`, `testFuncName`, `identifier`, `deploySource`, `writeTest`; what such a test does when it is run | |
| `Command` | `runAnalyze`, `loadContract`, `guardSource`, `writeTests` around the actions of `Analysis` | `use`, `place`, `printed`, `files`, `exit`, and those of `Analysis` |
| `ContractCode` | contracts to run, for TLC only: operations on one register, with storage, transient storage, balances, failure and words that wrap | |
| `MC...` | the instances of the runs | |
| `SortingProofs`, `ScenarioProofs` | lemmas on `Sorted` and on finite sets; on executors, calls and impacts; no state | |
| `WorkerPoolProofs`, `FuzzerProofs`, `EvaluatorProofs`, `AnalysisProofs`, `PreparationProofs`, `CommandProofs` | theorems and proofs | |

How they compose:

```
PoolPromise <--implements-- WorkerPool <--implements-- Fuzzer, Evaluator
                                                           |
ContractCode --Run, Create--> Executor <--- Scenario <-----+
                                               ^
     InteractionGraph, Report <--- Analysis ---+--- GenTest
                                    ^    ^             ^
                              FirstPass  Command ------+
Preparation ---> Corpus ---calldata---> (the contracts of Analysis)
```

`Fuzzer` and `Evaluator` instantiate `WorkerPool` with `Result` replaced by the
definitions of `Scenario`: "a worker computes `FootprintOf(j)`" is what their
step-by-step loops are shown to implement. `Analysis` then uses `PoolPromise`'s
answer and `Scenario`'s definitions in place of the loops. `Command` instantiates
`Analysis` and takes its steps between loading and printing. The calldata of the
`analysis` run is what `Corpus` makes of the functions' types. `Preparation`
ends with code that deploys (`FirstThatDeploys`), which is what
`DeploysAssumption` of `Scenario` takes for granted. `FuzzCoversZero` says for
which methods the fuzzer repeats the call with zero arguments; `FirstPassKept` is
about the edges between two such methods.

### Correspondence with the code

- **Channels.** A buffered Go channel is a buffer and an open flag; send waits
  for room, receive for a message or the close. The capacities are those given
  to `make`. A send on a closed channel would panic: it has no action, and
  `NoSendOnClosed` says that it is never about to happen.
- **Faults.** `evm.New` and `Deploy` may fail where the code checks their
  errors: in the probe and in each worker. `Faults` says which of the four may.
- **The sort.** `sort.Slice` by name: any order of equal names. Names are
  numbers, their ranks in string order; a pair of names is one rank too. Where the
  order is fixed by the elements (edges, findings, specs) it is `Sorted`. An ABI
  that lists a signature twice gives two jobs of one name with the same
  calldata and so the same result: the assumption `SameNameSameResult`.
- **Executor.** `Call` and `Deploy` credit the sender first (`fund`), outside
  the frame that a failure undoes; a successful call keeps its world; a snapshot
  is its place in the journal, and reverting drops it and every later one.
  The deferred reverts of `readerAlone` and `writerRepeatedThenReader` are steps
  of their own, after the call whose result they return.
- **Traces.** Sets instead of lists: their readers sort and drop repeats.
  A step of the interpreter is recorded before it runs, whatever becomes of its
  frame, and only if its storage belongs to the called contract.
- **Values.** `delta` is a sequence of length 0 or 1, for a nil `*big.Int`. A
  value is an output of exactly one word, read without a sign. Words wrap at
  `WordSize`, so a drop below zero is seen as the jump it is in the code.
- **Types and values.** A type is the tree of Go kinds that reflection finds, a
  value a tree of the same shape. Numbers are picked by kind: `bigint` stands
  for `*big.Int`, `uint` and `int` for Go's own integers. The encoder is
  external: it refuses a tuple two of whose field names are equal once
  capitalised, the only way for `Pack` to fail on these values, and gives
  different values different bytes, so `seen` compares arguments.
- **Constructors.** Whether one reverts is a set of accepted arguments, chosen
  freely at the start. Creation code is `[init, args]`: the guard tests take
  `args` from what was resolved and `init` from the source.
- **Invocations.** `use` is what the arguments ask for and what is in the files
  they name; parsing and loading are functions of it. A test file is `[state,
  tests]`: not there, an older one, torn, or written now.
- **Tests under Foundry.** Two deployments in one world, then reader, writer,
  reader; no call is credited, none is taken back. A world knows which version
  of the code is at an address, so the same test runs on the contract that was
  analysed and on one in which every function has storage of its own, where no
  order matters any more.
- **Names of tests.** Signatures and names are sequences of words, underscores
  and characters that may not be in a name: what `identifier` drops, and the
  numbers `testFuncName` appends, are what two names can differ in.
- **Steps.** A worker's executor is its own, so nobody sees it between two
  operations; the steps are separate because the claims are about what is in it
  between them, and because workers interleave there.

## 3. The runs

| Run | Instance | Question |
|---|---|---|
| `pool` | 3 jobs (two of one name), 5 workers asked for, 3 made, each of the four faults possible; 12 556 states | the pool's safety, determinism, termination, and that it implements `PoolPromise` with its liveness |
| `fuzz` | 3 functions, 5 variants, 2 workers, either may fail to deploy; 1 727 states | do reuse of executors and interleaving leave the footprints alone |
| `evaluate_parallel` | 2 edges (one with 2x2 pairs of variants, one measured up to 3 runs), 2 workers, deployment faults; 7 044 states | the same for `evalEdge` |
| `evaluate_branches` | 7 edges, one per way an evaluation can end, two of them with several pairs of variants, 1 worker; 343 states | does the evidence replay, is anything missed, and is every branch what `Scenario` defines |
| `analysis` | all 286 contracts made of 3 functions out of 11, repeats included, either pool may fail; 1 901 states | is pruning sound; are findings joined, ranked and described right; does fuzzing find what the first pass finds with calls that both make |
| `corpus` | 13 constructors x every set of arguments they accept; two methods, the arguments all pairs of 20 types; rounds 0 (the default), 1 and 5; the machine may fail; 18 114 states | which code is analysed, and with which calldata |
| `command` | 6 contracts of two or three functions; 50 invocations, 16 of them wrong; loading, resolving, either pool, stdout and either file may fail; 5 586 states | what is on disk and on stdout at each exit code; what the written tests show |
| `funding`, `transient`, `largest` | one edge, one worker | the first three disagreements of section 6 |
| `unique_names`, `guard_fixed` | one invocation, one contract | the last two |

What the properties say, beyond types:

- `pool`: `NoSendOnClosed`; `EachJobInOnePlace` (queued, held or answered, one
  of them, whichever workers die); `AllOrNothing` (an error never comes with
  results, results never come short or with an unread error);
  `Deterministic` (names and values of the answer equal in every schedule);
  `Termination`; `PromiseKept`.
- `fuzz`: `SameBaseline` (between calls a machine is exactly the fresh
  deployment, the journal and the sender's balance included, and the snapshot
  to revert to is known); `ChangesAreRecorded` (a slot really changed is in the
  footprint as a write); `FootprintsByHand` (footprints written out by hand, a
  reverted call's and a helper contract's included); `PoolKept` (implements the
  pool whose jobs are atomic).
- `evaluate_*`: `SameBaseline` and `PoolKept` again; `ImpactsReplay` (the calls
  an impact carries show it on fresh deployments, amplification included);
  `NothingMissed` (unconfirmed only if no pair of variants changes the reader).
- `analysis`: `NoEffectPruned`; `OwnEvidence`; `WorstFirst`;
  `OnlyGrowthCompounds`; `OutputsAgree` (effect, text and JSON decide alike);
  `FirstPassKept` (an edge of the zero-value pass is in the report too, if the
  fuzzer repeats the zero calls of its two methods; the pool has a method with a
  `bytes32` whose zero call is not repeated, and TLC finds edges of it that the
  report lacks once that condition is dropped).
- `corpus`: `FirstThatDeploys` (the code deploys and no earlier arguments did;
  "reverts for all" is said only if all revert); `NonZeroDeploys` (a constructor
  that accepts everything without a zero in it is resolved, if its arrays leave
  room: they may put a number two rounds ahead, a string or a truth value none);
  `EveryMethodOnce` (called with every round's arguments once, or skipped);
  `KeysMeet` (two arguments of a kind see the same values, wherever they stand
  in their functions, and fixed bytes at least one in common, if the arrays
  around them do not keep their rounds apart); `FuzzCoversZero` (the fuzzer
  calls what the zero-value pass calls, and skips what it skips).
- `command`: `ExitCodes` (after 0 all tests asked for are there, and a report in
  JSON is complete; of a report as text it says nothing); `OutputsInOrder` (no
  output before the analysis is done, no file before a report in JSON is
  complete, no guards before the proofs asked for; a report as text may be
  missing though the files are there); `TestPerFinding`; `UniqueNames`;
  `TestsReplay` (on the analysed contract proofs pass and guards fail);
  `GuardsFollowTheFix` (guards pass on the fixed contract). The last three hold of contracts that meet the hypotheses
  named in section 4; section 6 has contracts that break two of them.

**Why the bounds are enough.** The pool's code treats jobs alike and workers
alike, and no two steps concern more than two workers and the main goroutine;
three workers and three jobs give a worker that dies, one that takes two jobs
and one that takes none, in all orders, and `Requested = 5` passes through the
clamping. The pool's theorems hold for any number, so here the bounds matter for
liveness only. In `fuzz` and `evaluate_parallel` two workers share nothing but
the channels, and each function or edge has the cases its loop distinguishes:
first and later variant, success, failure half-way, failure at the end.
`MaxRepeats = 3` is the code's default. In `analysis` three functions is the
least that has two edges into one reader, two out of one writer, and a duplicate
beside another function. The types of `corpus` are one of every kind that
`setFromCorpus` and `fillByteArray` tell apart, every way to nest them once,
arrays on both sides of the length at which a corpus wraps, and arrays of fixed
bytes on both sides of the number of rounds; two methods are enough, since
`KeysMeet` is about pairs. The contracts of `command` have readers that return a
word, two words, nothing, or revert, that change state themselves, and writers
that are readers too, with a constructor that fails without its argument; the
invocations vary each flag that a step looks at. `Ether = 1` keeps numbers
small; only whether a balance differs matters. `WordSize` 8 or 16 is larger than
any sum the contracts build, but for the one that wraps on purpose. No counter
is unbounded, and no constraint cuts a behaviour short.

**Fairness.** Weak fairness of the main goroutine and of each worker: the Go
scheduler runs every goroutine that can run, and each of their steps, once
enabled, stays enabled (a channel's room or its message may be taken by another
worker, but then the action of that worker is still enabled by the rest or by
the close). No fairness is assumed of a fault. Contracts are assumed to stop,
as the gas limit makes them.

**Deadlock** is checked in all runs but `analysis` and `corpus`, which end when
the last stage is done or one has failed. `Command` stops in `Exited` alone: any
other stop would be a command that hangs without an exit code. In the pools the
end is the explicit step `Finished`, possible only when the call has returned
and all goroutines are gone, so any other stop is an error.

## 4. The proofs

All theorems hold for every value of the constants under the named assumptions of
the modules. TLC evaluates each of them on the constants of every run. They are

- of the code: `PoolAssumption`, `FuzzPoolAssumption`, `EvaluatePoolAssumption`
  (sizes, names and faults are what they say; equal names have equal calldata,
  since the selector is a hash of the name), `FuzzerAssumption`,
  `EvaluatorAssumption`, `AnalysisAssumption`, `ContractsAssumption`,
  `AbisAssumption`, `UsesAssumption`, `SignaturesAssumption`,
  `BytecodeAssumption` (shapes of ABIs, calldata, invocations, signatures and
  creation code; the names of an ABI given to `buildJobs` are the keys of a Go
  map); `TypesAssumption` (a type is a finite tree, as Solidity's types are: a
  part is less deep than the whole); `DeployerAssumption` (the deployer is not the
  zero address: `main.go:29` fixes it);
- of what another module establishes: `SameNameSameResult`; `DeploysAssumption`
  (the creation code deploys: `FirstThatDeploys`);
- of the EVM: `StoreAssumption` of `Fuzzer` (only SSTORE changes the storage of
  the contract). No other theorem assumes anything of what a contract does, but
  where it is an explicit hypothesis: `OutputsAreWords` (outputs are sequences of
  numbers, for theorems that compare values), and `OwnStorageOnly` for
  `PruningLosesNothing`, which without it is not claimed by the code either (see
  section 5). The `analysis` run evaluates `OwnStorageOnly` on its contracts;
- of the contract, for the tests only, as hypotheses of the theorems that need
  them, since findings 4 and 5 are what becomes of the tests without:
  `Contained(source)` (two deployments of the source leave each other alone, and
  what a call shows and leaves is decided by what the called contract keeps, not by
  its address or anyone's balance), `FixedIn(source)` (the analysis of the source
  would confirm none of the pairs), `BasesApart` (a base that several pairs of
  functions share is, with a number after it, no other base). `MCCommand` assumes
  that the contracts of `command` meet them, that those of `guard_fixed` and
  `unique_names` do not, and that the current source is not fixed, so TLC has seen
  each hypothesis both hold and fail.

**Induction and sorting** (`SortingProofs`). The library's induction theorems
take an operator, so `LeastNatural` (a set of numbers that is not empty has a
least one) and `SetInduction` are stated of sets, and the predicate is given as
the set of numbers that satisfy it. `SortedLemma`, in this way: if `before` is a
strict total order, `Sorted` is a bijection in that order; `SelectedLemma` is its
case of places in a list, for filters.

**The pools** (`WorkerPoolProofs`). `TypeCorrect` proves `TypeOK`, which is
inductive since it ties what is in a worker's hand to its place.
`NeverSendsOnClosed` needs more: that channels are open while a worker lives
holds only because main waits, so the invariant `Barrier` says that `wg` is the
number of live workers (a cardinality over a set that grows with `spawn` and
shrinks with `Done`) and that the channels are open until main has seen it at
zero. The invariant `Conserved` partitions the jobs: those in the job channel, in
hand, in the result channel and collected are pairwise disjoint, without repeats,
and together all; a worker has left either because the job channel is closed and
drained or with an error in `errCh`; and an error in `errCh` is of a kind that may
happen. `KeepsEachJob` is its first half counted; `AnswersAllOrNothing` follows
since, at the check, everything is in the result channel unless an error is
there; `KeepsPromise` shows that every step is a step of `PoolPromise` or a
stutter, the final sort being the one that needs the partition (a sequence of
all jobs without repeats is a rearrangement). `SameInEverySchedule` uses the
promise alone: two rearrangements of the jobs that are sorted by name have the
same name at every place (the jobs of smaller names fill the same first places
of both), and equal names have equal results.

**The jobs in the pools.** `FuzzerProofs`: the invariant gives each worker's
journal exactly (empty, or the baseline alone), so that reverting to the snapshot
restores it whatever the call did: `EveryCallFromBaseline`. It also says that
`accesses` is the union over the variants called so far; when the loop ends this
is `FootprintOf`, so `FinishJob` is the pool's `RunJob`: `FuzzImplementsPool`.
`ChangesStayRecorded` needs that invariant to know that a call starts from the
baseline, so that what differs afterwards is what this call stored.
`EvaluatorProofs`: `Machines` gives each worker's machine exactly, as for
`Fuzzer` (`EveryRunFromBaseline`). `Judged` says what every local of `evalEdge`
means at every stage (`Judging`): no pair before the current one changes the
reader; `before` and `after` are `Alone` and `ReaderAfter` of the pair; half-way
through a stacked attack the world is what that many calls of the writer lead to;
and while measuring, the best number of runs so far is the least with the largest
change. When the loops end, these are the conditions that the choices in
`ImpactOf` ask for, so `ReturnImpact` is the pool's `RunJob`
(`EvaluateImplementsPool`), and what is in the result channel is sound:
`MissesNothing`, `EveryImpactReplays`. "n calls of the writer" is a recursive
function; the proof follows the worker, which makes the calls one by one, and
`Reached` carries with it both that n calls lead to a machine and that they lead
to no other.

Both refinements are then put to use: the module of the pool's proofs is
instantiated with the real results (`Facts`), and `FuzzIsSafe` and
`EvaluateIsSafe` say of the real loops what was proved of the atomic jobs.
`FuzzTypeCorrect` and `EvaluateTypeCorrect` add the workers' own types, the
latter with the invariant `NoneLeft` for the counter of a stacked attack.

**The pipeline** (`AnalysisProofs`). The invariant `History` says of each stage's
result that it is the function of the earlier ones that the stage computes, the
order that the first pool gives equal names being the only freedom
(`HistoryKept`). What the report says is then a matter of functions:
`BiggestFirst` and `EdgeLess` are strict total orders on findings and pairs of
places, so that sorting loses and doubles nothing (`EvidenceIsOwn`,
`WorstComesFirst`, with the counts by induction on the length); an impact found
by name is that of the pair, since jobs of equal names have equal calldata;
`CompoundingGrows` and `OutputsTellTheSame` split on what the impact of a pair
can be (`Telling`). `PruningLosesNothing`: without an edge no slot that the
writer wrote is read by the reader, so the reader runs alike after it
(`OwnStorageOnly`, which speaks of the opcodes that run; `TouchedLemma`: the
tracer hands over all of them), for the first pair and so for all. `FirstPassIsKept`: by
induction on the specs, the executor is the baseline again after each, so each
trace is that of the zero call alone, and that of the fuzzer is larger if it makes
this call too.

**What is analysed** (`PreparationProofs`). `Prepared` says that the search has
refused exactly the candidates before the current try (`SearchFindsTheFirst`),
and that the methods before the current one are each in `jobs`, with the
arguments of all rounds once, or in `skipped`, never in both
(`EveryMethodIsHandledOnce`). The list of variants grows round by round; that it
has each round's arguments and no repeats is `Gathered`, by induction over the
rounds.

The rest is about what `Corpus` yields for a type, by `TypeInduction`: what
holds of a type if it holds of its parts holds of all, since `Depth` falls. A
recursive function over `Types` is what its equation says because the function
that it describes exists, and that is one such induction for each of them
(`GrowthLemma`, which adds one type at a time, as in `FillLemma`). A leaf is
reached along one trail only (`LeadsTo`, `TrailUnique`), and at its end stands
what the corpus has for its type so many rounds ahead as the arrays on the way
put it (`LeafLemma`). What a leaf is given over the rounds is then a question of
residues: four rounds go through a corpus of two, three or four entries wherever
they start (`ResidueLemma`, `HeldLemma`), which is `FunctionsMeet`; the third
round has no zero in it unless an array goes on into one (`SearchTriesNonZero`);
the second has only zeros where nothing is ahead (`FuzzingCoversTheFirstPass`).

`NonZeroDeploys` and `KeysMeet` were too strong before they were proved, and the
run had no type to tell: an array of truth values holds a zero from two elements on, not
from four; arrays in arrays add up; and arrays of five fixed-byte elements or more
put their patterns out of each other's reach. They now say what the code does, and
the run has such types.

**The command** (`CommandProofs`). The invariant `IInv` ties `place` to how far the
analysis is, to what is printed, and to which file is untouched and which is as
asked, place by place: `ExitsTruly` and `FailsInOrder`. `Kept` adds that a file is
new exactly when it has the tests of the report that is there. The theorems of
the pipeline hold of the analysis inside the command, whose every step is one of
the pipeline's or leaves it alone (`RunsTheChain`; the instance `Chain`):
`CommandTypeCorrect`. `EveryFindingIsTested` takes from it that a confirmed
finding has both calls and that they show the change (`FindingsShow`), so the
filter of `Generate` drops none, and `SelectedLemma` gives the place of each.

`TestsShowTheIssue` and `GuardsPassOnceFixed` say what these tests do when they
are run. `SidesAgree` goes through the three calls of a test and finds at each
that the contract it meets keeps what it kept when the analysis made that call,
though the other deployment, the credits and the rewinding differ; so the test
sees a difference exactly if the analysis of the code that it deploys would
(`PassesAsAnalysed`). Of the analysed code it does, since every test's calls are
those of a confirmed finding (`OwnTests`); of a fixed one it does not.
`NamesAreUnique`: of two tests with one base the later has counted more uses
(`NamesLemma`), numbers are the last of the two elements that a name ends in
(`EndsAlike`), and two names of different bases meet only as `BasesApart`
excludes. That names are sequences at all is an induction over the fold of
`identifier` (`FoldingType`).

Only model-checked, and why:

- `Termination` and the liveness half of `PromiseKept` and `PoolKept`: liveness
  is outside the prover.
- `FootprintsByHand`: compares one contract with footprints written by hand.
- That a contract is `Contained`, a source `FixedIn`, and the bases of its tests
  apart: these are facts of a contract, and `MCCommand` evaluates them on those of
  the run.

## 5. What is not modelled

- The EVM's interpreter and go-ethereum's state are external: `Executor` has
  what `internal/evm` uses of them, and `ContractCode` as many opcodes as the
  analysis can tell apart. Gas, nonces and the addresses of new contracts are
  left out, and so is a call that never returns.
- `NoEffectPruned` is checked for contracts that reach only their own storage.
  For others it is not claimed by the code either: the tracer looks at one
  address, and balances and transient storage are not traced.
- Reading files, parsing JSON and hex: `Command` has their outcomes. Slots as
  bytes and hex (`trace.go`), wording and layout of the outputs, and the text
  around the tests with `effectComment`.
- `flag`'s own parsing: an invocation parses or does not.
- The contract's name, in the report and in file names. The two test files never
  share a name, since their suffixes differ.
- A constructor that reads its sender, and readers of their sender's balance,
  under Foundry: the deployer there is the test contract, and nobody is credited.
  `TestsReplay` is checked and proved for contracts that are `Contained`.

## 6. Findings

Five places where a comment says more than the code does, each a run that TLC
ends with a counterexample:

1. *Confirmed effects* (`funding`). `scenario.go:29-30`: "Confirmed means the
   effect was observed: the writer really does move what the victim reads."
   Every `Call` credits its sender with one ether, so the reader after the writer
   sees a richer caller than the reader alone. A writer that reverts is confirmed
   to change a reader of its sender's balance.
2. *Several transactions* (`transient`). `scenario.go:238-240`: the sequence
   models "an attacker who sends several transactions before the victim". The
   calls run on one `StateDB` that nobody tells of a new transaction, so
   transient storage survives from one to the next and an effect that no two
   transactions show is confirmed.
3. *Largest change* (`largest`). `scenario.go:48-50`: "MaxRepeats is the number
   of writer transactions that produced the largest value change". The loop ends
   at the first count whose reader gives no value; a larger change at a higher
   count within the limit is not seen.
4. *Unique names* (`unique_names`). `gentest.go:190`: "testFuncName builds a
   unique, valid Solidity test function name for a finding." The number of a
   repeated base may be the end of another base: with `price()`, `price_()` and
   `price_2()` as readers of one writer two functions get the name
   `..._price_2`, and the file does not compile.
5. *Guards of fixed contracts* (`guard_fixed`). `gentest.go:31-32`: "These tests
   fail on the current contract and pass once the issue is fixed". The two
   deployments of a test have different addresses, so the guard of a reader that
   returns something of its address fails whatever the source has become.

Met on the way, and without a run of their own. Two of these are at odds with a
doc: the misuse that exits with 1 where `main.go:48` and `README.md:318` have 2,
which `ExitCodes` accepts, and the corpus that is not quite the same. The others
are things no doc promises:

- Text output drops the errors of its writes: a report cut short or not there at
  all is followed by the files and exits with 0; JSON exits with 1
  (`main.go:102-109`). `ExitCodes` and `OutputsInOrder` promise no more.
- `--guard-tests` without a source to import is found out after the analysis,
  the report and the proofs, and exits with 1 although it is a misuse
  (`main.go:118-122`). `ExitCodes` gives 2 to what is wrong before loading only.
- When nothing is confirmed any more a test file of an earlier run stays as it is,
  and the command exits with 0 (`main.go:207-210`).
- The fuzzer does not make every call of the zero-value pass, so the report may
  lack an edge of that pass: fixed bytes other than addresses are never all zero, a
  slice is never empty, and an array of several elements is never all zeros
  (`corpus.go:70-85, 98-110` against `specs.go:73-91`).
- The constructor's addresses are led by the deployer, the fuzzer's by the
  caller, so "the same corpus the fuzzer uses" (`deploy.go:15`) differs in one
  value. A contract whose constructor stores an owner has the deployer there.
- An array of numbers with four elements or more always contains a zero
  (`corpus.go:82-84`), so a constructor that wants none in it never deploys.
- Two arguments of one type in a call are always equal (`corpus.go:44-47`).
- An effect that stands on the credit of finding 1 gets a proof test that fails,
  since Foundry credits nobody.

## 7. Plan

All parts are done, in this order.

1. *Core.* `PoolPromise`, `WorkerPool` and their proofs; `Executor`,
   `Scenario`, `Fuzzer` and its proofs; `Evaluator`; `InteractionGraph`,
   `Report`, `Analysis`.
2. *The edges of the pipeline.* `Corpus`, `Preparation`, `FirstPass`,
   `GenTest`, `Command`, and their runs.
3. *More proofs.* `EvaluatorProofs`, `AnalysisProofs` with the pruning
   theorem, `PreparationProofs`, the pools with the real jobs in them, and the
   tests of `Command`.
4. *The corpus and the tests.* Induction over the depth of types, and with it
   `NonZeroDeploys`, `KeysMeet` and `FuzzCoversZero` for all types; `TestsReplay`,
   `GuardsFollowTheFix` and `UniqueNames` for all contracts that meet their
   hypotheses.

What could follow: outputs of several words as `report.go` cuts them for its text,
and slots as bytes.
