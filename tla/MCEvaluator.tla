---------------------------- MODULE MCEvaluator ----------------------------
(***************************************************************************)
(* One contract with a writer and a reader for every way evalEdge can end, *)
(* and lists of edges over it for the runs to choose from.                 *)
(***************************************************************************)
EXTENDS Evaluator, SequencesExt

CONSTANTS Addresses, Slots, WordSize

Ops == INSTANCE ContractCode WITH Code <- <<>>

\* at: the analysed contract's own storage.
at == "pool"
MCCode ==
    [\* writers
     set    |-> <<Ops!Arg, Ops!SStore(at, -1)>>,
     bump   |-> <<Ops!SLoad(at, 0), Ops!Add(1), Ops!SStore(at, 0)>>,
     drain  |-> <<Ops!SLoad(at, 0), Ops!Add(-1), Ops!SStore(at, 0)>>,
     once   |-> <<Ops!SLoad(at, 1), Ops!AtMost(0), Ops!Arg, Ops!SStore(at, 1)>>,
     wreck  |-> <<Ops!Push(1), Ops!SStore(at, 0), Ops!Fail>>,
     lock   |-> <<Ops!Push(1), Ops!TStore(at, 0), Ops!SLoad(at, 0), Ops!SStore(at, 0)>>,
     \* readers
     get    |-> <<Ops!SLoad(at, -1), Ops!Return(1)>>,
     price  |-> <<Ops!SLoad(at, 0), Ops!Return(1)>>,
     swap   |-> <<Ops!SLoad(at, 0), Ops!Unless(2), Ops!Return(1)>>,
     exit   |-> <<Ops!SLoad(at, 0), Ops!AtMost(0), Ops!Return(0)>>,
     quote  |-> <<Ops!SLoad(at, 0), Ops!Return(2)>>,
     free   |-> <<Ops!SLoad(at, 0), Ops!TLoad(at, 0), Ops!Return(1)>>,
     wealth |-> <<Ops!SLoad(at, 0), Ops!Balance, Ops!Return(1)>>]

Contracts == INSTANCE ContractCode WITH Code <- MCCode

MCRun(world, from, to, input) == Contracts!RunCode(world, from, to, input)
MCCreate(world, code) == Contracts!CreateWith(world, code)
MCEmptyWorld == Contracts!NoState
MCBytecode == [ok |-> TRUE, storage |-> Contracts!Zeroes]

\* set and get take a key, tried in opposite orders, and once what it stores.
MCVariants ==
    [f \in DOMAIN MCCode |->
        CASE f = "set" -> <<[fn |-> f, arg |-> 0], [fn |-> f, arg |-> 1]>>
          [] f = "once" -> <<[fn |-> f, arg |-> 0], [fn |-> f, arg |-> 2]>>
          [] f = "get" -> <<[fn |-> f, arg |-> 2], [fn |-> f, arg |-> 1]>>
          [] OTHER     -> <<[fn |-> f, arg |-> 0]>>]

WriterIn(edges) == [j \in DOMAIN edges |-> edges[j][1]]
ReaderIn(edges) == [j \in DOMAIN edges |-> edges[j][2]]

\* Two edges with several pairs and an amplification, for two workers.
ParallelEdges  == <<<<"set", "get">>, <<"bump", "price">>>>
ParallelName   == <<2, 1>>
ParallelWriter == WriterIn(ParallelEdges)
ParallelReader == ReaderIn(ParallelEdges)

\* Every way to end, for one worker: a change that compounds, one that does
\* not (the last of four pairs of variants shows it, and the second run of the
\* writer fails), a reader that stops at two runs, a flip to a revert, two words,
\* no change at all over two pairs, and a wrap to the largest word.
BranchEdges  == <<<<"bump", "price">>, <<"once", "get">>, <<"bump", "swap">>,
                  <<"bump", "exit">>, <<"bump", "quote">>, <<"wreck", "get">>,
                  <<"drain", "price">>>>
BranchName   == <<2, 6, 4, 1, 3, 7, 5>>
BranchWriter == WriterIn(BranchEdges)
BranchReader == ReaderIn(BranchEdges)

\* The edges of the disagreements with the documentation, one each.
OneName == <<1>>
RevertingWriter == <<"wreck">>
WealthReader    == <<"wealth">>
LockingWriter   == <<"lock">>
FreeReader      == <<"free">>
BumpingWriter   == <<"bump">>
SwapReader      == <<"swap">>

Confirmed == {i \in DOMAIN resCh.buf : resCh.buf[i].value.confirmed}
WriterOf(i) == resCh.buf[i].value.writerCall[1]
ReaderOf(i) == resCh.buf[i].value.readerCall[1]

(***************************************************************************)
(* scenario.go:29-30: "Confirmed means the effect was observed: the writer *)
(* really does move what the victim reads."  If so, a writer that leaves   *)
(* the state as it found it, but for the ether every call credits to its   *)
(* sender, confirms nothing.                                               *)
(***************************************************************************)
WriterMovesReader ==
    \A i \in Confirmed : Stacked(WriterOf(i), 1).world # Fund(Baseline.world, Caller)

(***************************************************************************)
(* scenario.go:238-240: the runs of the writer and of the reader model     *)
(* "an attacker who sends several transactions before the victim".         *)
(* Transient storage does not outlive a transaction, so the change must be *)
(* there when it is cleared between the two.                               *)
(***************************************************************************)
NextTransaction(e) == [e EXCEPT !.world.transient = Baseline.world.transient]

TransactionsSeparate ==
    \A i \in Confirmed :
        LET attacked == NextTransaction(Stacked(WriterOf(i), 1))
        IN  Changed(Alone(ReaderOf(i)),
                    Outcome(Call(attacked, Caller, Contract, ReaderOf(i))))

(***************************************************************************)
(* scenario.go:48-50: "MaxRepeats is the number of writer transactions     *)
(* that produced the largest value change".  No number of runs up to the   *)
(* maximum gives a larger one.                                             *)
(***************************************************************************)
LargestChange ==
    \A i \in Confirmed :
        LET imp == resCh.buf[i].value
        IN  imp.delta # NoDelta =>
              \A n \in 1..MaxRepeats :
                  IsValue(ReaderAfter(WriterOf(i), n, ReaderOf(i))) =>
                      Magnitude(Change(WriterOf(i), n, ReaderOf(i))) <= Magnitude(imp.maxDelta[1])
=============================================================================
