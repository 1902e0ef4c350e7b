------------------------------ MODULE Evaluator ------------------------------
(***************************************************************************)
(* Evaluate of internal/analyze/scenario.go: the worker pool whose jobs    *)
(* are edges of the interaction graph.  For one edge, evalEdge runs the    *)
(* reader alone and then after the writer, for every pair of variants,     *)
(* until a pair changes what the reader does; a change of value is then    *)
(* measured again with the writer run 2, 3, ... MaxRepeats times.  Every   *)
(* run is between a snapshot and its revert on the worker's own executor.  *)
(***************************************************************************)
EXTENDS Scenario, FiniteSets

CONSTANTS
    NumJobs, Name, Requested, Procs, Faults,  \* as in WorkerPool
    Writer, Reader,  \* Writer[j], Reader[j]: the functions of edge j
    Variants,        \* Variants[f]: the calldata tried for function f, in order
    MaxRepeats       \* FuzzConfig.maxRepeats

Jobs == 1..NumJobs

\* A function the corpus cannot call has no entry in the map of variants.
VariantsOf(f) == IF f \in DOMAIN Variants THEN Variants[f] ELSE <<>>

ASSUME EvaluatorAssumption ==
    /\ NumJobs \in Nat
    /\ MaxRepeats \in Nat \ {0}
    /\ \A f \in DOMAIN Variants :
          Variants[f] \in Seq({Variants[f][i] : i \in DOMAIN Variants[f]})

WriterVariants(j) == VariantsOf(Writer[j])
ReaderVariants(j) == VariantsOf(Reader[j])

\* What each edge's evaluation is to yield.
Impacts == [j \in Jobs |-> ImpactOf(WriterVariants(j), ReaderVariants(j), MaxRepeats)]

\* changed
Changed(a, b) == a.reverted # b.reverted \/ a.output # b.output

LargerOrEqual(d, best) == Magnitude(d) >= Magnitude(best)
Larger(d, best) == Magnitude(d) > Magnitude(best)   \* CmpAbs

-----------------------------------------------------------------------------
VARIABLES
    mpc, jobCh, resCh, errCh, wg, spawned, wpc, held, out, results, answer,
    exec,    \* each worker's executor
    frame    \* each worker's locals in evalEdge and the functions it calls

poolVars == <<mpc, jobCh, resCh, errCh, wg, spawned, wpc, held, out, results, answer>>
vars == <<poolVars, exec, frame>>

Pool == INSTANCE WorkerPool WITH Result <- Impacts, Nothing <- NoImpact

\* An edge's name is its writer's and its reader's.
ASSUME EvaluatePoolAssumption ==
    /\ Name \in [Jobs -> Nat]
    /\ Requested \in Int
    /\ Procs \in Nat \ {0}
    /\ Faults \subseteq Pool!FaultKinds
    /\ \A i, j \in Jobs : Name[i] = Name[j] => Writer[i] = Writer[j] /\ Reader[i] = Reader[j]

Workers == Pool!Workers

Stages == {"pair", "alone", "aloneRewind", "stack", "attack", "attackRewind",
           "compare", "measure", "return"}

\* Before the first pair: writer variant 1, reader variant 1.
EmptyFrame == [stage |-> "pair", snap |-> 0, wi |-> 1, ri |-> 1, times |-> 1, left |-> 0,
               before |-> NoOutcome, after |-> NoOutcome, imp |-> NoImpact]

Init ==
    /\ Pool!Init
    /\ exec  = [w \in Workers |-> NewExecutor]
    /\ frame = [w \in Workers |-> EmptyFrame]

Main          == Pool!Main          /\ UNCHANGED <<exec, frame>>
NewMachine(w) == Pool!NewExecutor(w) /\ UNCHANGED <<exec, frame>>
SendError(w)  == Pool!SendError(w)  /\ UNCHANGED <<exec, frame>>
TakeEdge(w)   == Pool!TakeJob(w)    /\ UNCHANGED <<exec, frame>>
SendImpact(w) == Pool!SendResult(w) /\ UNCHANGED <<exec, frame>>
Exit(w)       == Pool!Done(w)       /\ UNCHANGED <<exec, frame>>

DeployCopy(w) ==
    /\ Pool!DeployCopy(w)
    /\ exec' = [exec EXCEPT ![w] = Deploy(NewExecutor, Deployer, Bytecode).exec]
    /\ UNCHANGED frame

-----------------------------------------------------------------------------
(* evalEdge, one executor operation or one decision a step. *)

At(w, s) == wpc[w] = "run" /\ frame[w].stage = s

WriterCalls(w) == WriterVariants(held[w])
ReaderCalls(w) == ReaderVariants(held[w])
WriterCall(w)  == WriterCalls(w)[frame[w].wi]
ReaderCall(w)  == ReaderCalls(w)[frame[w].ri]

CallAs(w, input) == Call(exec[w], Caller, Contract, input)

\* The end of the inner loop is the next writer variant; of the outer, the end.
SameReaderNext(f, readers) == [f EXCEPT !.wi = @ + 1]
PastTheEnd(f, readers) ==
    IF f.ri <= readers THEN [f EXCEPT !.ri = @ + 1]
                       ELSE [f EXCEPT !.ri = 1, !.wi = @ + 1]
NextPair(f, readers) ==
    IF f.ri < readers THEN [f EXCEPT !.ri = @ + 1]
                      ELSE [f EXCEPT !.ri = 1, !.wi = @ + 1]

NoPairLeft(w) ==
    \/ frame[w].wi > Len(WriterCalls(w))
    \/ ReaderCalls(w) = <<>>

\* readerAlone: the snapshot ...
TryPair(w) ==
    /\ At(w, "pair") /\ ~NoPairLeft(w)
    /\ exec' = [exec EXCEPT ![w] = Snapshot(@)]
    /\ frame' = [frame EXCEPT ![w].stage = "alone", ![w].snap = SnapshotId(exec[w])]
    /\ UNCHANGED poolVars

\* ... the call ...
RunReaderAlone(w) ==
    /\ At(w, "alone")
    /\ LET res == CallAs(w, ReaderCall(w))
       IN  /\ exec' = [exec EXCEPT ![w] = res.exec]
           /\ frame' = [frame EXCEPT ![w].stage = "aloneRewind", ![w].before = Outcome(res)]
    /\ UNCHANGED poolVars

\* ... and the deferred revert.
NotRewound(e, id) == e
Rewound(e, id) == RevertToSnapshot(e, id)

RewindAlone(w) ==
    /\ At(w, "aloneRewind")
    /\ exec' = [exec EXCEPT ![w] = Rewound(@, frame[w].snap)]
    /\ frame' = [frame EXCEPT ![w].stage = "stack", ![w].times = 1]
    /\ UNCHANGED poolVars

\* writerRepeatedThenReader: the snapshot, the writer calls, whose own failure
\* nobody looks at, the reader call, and the deferred revert.
StartStack(w) ==
    /\ At(w, "stack")
    /\ exec' = [exec EXCEPT ![w] = Snapshot(@)]
    /\ frame' = [frame EXCEPT ![w].stage = "attack", ![w].snap = SnapshotId(exec[w]),
                              ![w].left = frame[w].times]
    /\ UNCHANGED poolVars

RunWriter(w) ==
    /\ At(w, "attack") /\ frame[w].left > 0
    /\ exec' = [exec EXCEPT ![w] = CallAs(w, WriterCall(w)).exec]
    /\ frame' = [frame EXCEPT ![w].left = @ - 1]
    /\ UNCHANGED poolVars

RunVictim(w) ==
    /\ At(w, "attack") /\ frame[w].left = 0
    /\ LET res == CallAs(w, ReaderCall(w))
       IN  /\ exec' = [exec EXCEPT ![w] = res.exec]
           /\ frame' = [frame EXCEPT ![w].stage = "attackRewind", ![w].after = Outcome(res)]
    /\ UNCHANGED poolVars

RewindAttack(w) ==
    /\ At(w, "attackRewind")
    /\ exec' = [exec EXCEPT ![w] = Rewound(@, frame[w].snap)]
    /\ frame' = [frame EXCEPT ![w].stage =
                    IF frame[w].imp.confirmed THEN "measure" ELSE "compare"]
    /\ UNCHANGED poolVars

\* What follows a measurement with the writer run times times.
Repeat(f) ==
    IF f.times < MaxRepeats THEN [f EXCEPT !.stage = "stack", !.times = @ + 1]
                            ELSE [f EXCEPT !.stage = "return"]

Compare(w) ==
    /\ At(w, "compare")
    /\ LET f   == frame[w]
           imp == Confirm(f.before, f.after, WriterCall(w), ReaderCall(w))
           hit == [f EXCEPT !.imp = imp]
       IN  frame' = [frame EXCEPT ![w] =
               IF ~Changed(f.before, f.after)
               THEN NextPair([f EXCEPT !.stage = "pair"], Len(ReaderCalls(w)))
               ELSE IF imp.delta = NoDelta THEN [hit EXCEPT !.stage = "return"]
               ELSE Repeat(hit)]
    /\ UNCHANGED <<poolVars, exec>>

\* measureAmplification: the loop ends at the first run that gives no value.
Measure(w) ==
    /\ At(w, "measure")
    /\ LET f == frame[w]
           d == ValueOf(f.after) - ValueOf(f.before)
       IN  frame' = [frame EXCEPT ![w] =
               IF ~IsValue(f.after) THEN [f EXCEPT !.stage = "return"]
               ELSE IF Larger(d, f.imp.maxDelta[1])
               THEN Repeat([f EXCEPT !.imp.maxDelta = <<d>>, !.imp.maxRepeats = f.times])
               ELSE Repeat(f)]
    /\ UNCHANGED <<poolVars, exec>>

ReturnImpact(w) ==
    /\ \/ At(w, "return")
       \/ At(w, "pair") /\ NoPairLeft(w)
    /\ out' = [out EXCEPT ![w] = frame[w].imp]
    /\ wpc' = [wpc EXCEPT ![w] = "send"]
    /\ frame' = [frame EXCEPT ![w] = EmptyFrame]
    /\ UNCHANGED <<mpc, jobCh, resCh, errCh, wg, spawned, held, results, answer, exec>>

Worker(w) ==
    \/ NewMachine(w) \/ DeployCopy(w) \/ SendError(w) \/ TakeEdge(w) \/ SendImpact(w) \/ Exit(w)
    \/ TryPair(w) \/ RunReaderAlone(w) \/ RewindAlone(w)
    \/ StartStack(w) \/ RunWriter(w) \/ RunVictim(w) \/ RewindAttack(w)
    \/ Compare(w) \/ Measure(w) \/ ReturnImpact(w)

Finished == Pool!Finished /\ UNCHANGED <<exec, frame>>

Next == Main \/ (\E w \in Workers : Worker(w)) \/ Finished

Fairness == WF_vars(Main) /\ \A w \in Workers : WF_vars(Worker(w))

Spec == Init /\ [][Next]_vars /\ Fairness

-----------------------------------------------------------------------------
\* The pool's types; the indices stay in the variants they index; and outside
\* evalEdge the frame is empty.
TypeOK ==
    /\ Pool!TypeOK
    /\ \A w \in Workers :
          /\ frame[w].stage \in Stages
          /\ wpc[w] # "run" => frame[w] = EmptyFrame
          /\ wpc[w] = "run" /\ frame[w].stage # "pair" =>
                /\ frame[w].wi \in DOMAIN WriterCalls(w)
                /\ frame[w].ri \in DOMAIN ReaderCalls(w)
                /\ frame[w].times \in 1..MaxRepeats
                /\ frame[w].left \in 0..frame[w].times

(***************************************************************************)
(* readerAlone, writerRepeatedThenReader: each "then rewinds all of it".   *)
(* Whatever pair came before, and whichever call failed, every run of the  *)
(* reader or of the stacked writer starts from the fresh deployment, and   *)
(* the snapshot to rewind to is still known.                               *)
(***************************************************************************)
Running(w) == frame[w].stage \in {"alone", "aloneRewind", "attack", "attackRewind"}

SameBaseline ==
    \A w \in Workers : wpc[w] \in {"recv", "run", "send"} =>
        /\ ~Running(w) => exec[w] = Baseline
        /\ Running(w) => /\ KnownSnapshot(exec[w], frame[w].snap)
                         /\ RevertToSnapshot(exec[w], frame[w].snap) = Baseline

(***************************************************************************)
(* gentest replays an impact's calldata against fresh deployments, so a    *)
(* confirmed impact must carry the very calls that show it: the reader     *)
(* call alone gives before, after the writer call it gives after, they     *)
(* differ, and the writer call repeated maxRepeats times gives maxDelta.   *)
(***************************************************************************)
Replays(imp) ==
    LET w == imp.writerCall[1]
        r == imp.readerCall[1]
    IN  /\ Alone(r) = imp.before
        /\ ReaderAfter(w, 1, r) = imp.after
        /\ Changed(imp.before, imp.after)
        /\ imp.delta # NoDelta =>
              /\ imp.maxDelta = <<Change(w, imp.maxRepeats, r)>>
              /\ Magnitude(imp.maxDelta[1]) >= Magnitude(imp.delta[1])
              /\ imp.maxRepeats = 1 <=> imp.maxDelta = imp.delta

ImpactsReplay ==
    \A i \in DOMAIN resCh.buf :
        resCh.buf[i].value.confirmed => Replays(resCh.buf[i].value)

(***************************************************************************)
(* "reporting the first pairing that produces a change": an edge is left   *)
(* unconfirmed only when no pair of variants changes the reader.           *)
(***************************************************************************)
NoPairChanges(j) == ChangingPairs(WriterVariants(j), ReaderVariants(j)) = {}

NothingMissed ==
    \A i \in DOMAIN resCh.buf :
        ~resCh.buf[i].value.confirmed => NoPairChanges(resCh.buf[i].job)

(***************************************************************************)
(* "Edges are evaluated in parallel, each on its own EVM, and the results  *)
(* are sorted, so the outcome does not depend on scheduling": the answer   *)
(* is that of the pool whose jobs yield ImpactOf atomically.               *)
(***************************************************************************)
PoolKept == Pool!Spec
=============================================================================
