------------------------------- MODULE GenTest -------------------------------
(***************************************************************************)
(* internal/gentest: the Foundry tests made of the confirmed findings, and *)
(* what such a test does when Foundry runs it (external).  Creation code is*)
(* [init, args], the bytecode and the constructor arguments after it; the  *)
(* init of code compiled from source is the name of the source's version.  *)
(***************************************************************************)
EXTENDS Scenario, FiniteSets, SequencesExt, Sorting

CONSTANTS
    Signature,       \* Signature[n]: the function signature of name n, in tokens
    CreateAt(_,_,_), \* CreateAt(world, addr, code): [ok, world] of a deployment
    StateAt(_,_)     \* StateAt(world, addr): what the contract at addr keeps

\* Creation code is an init code and constructor arguments.
ASSUME BytecodeAssumption == Bytecode = [init |-> Bytecode.init, args |-> Bytecode.args]

Proof == "proof"
Guard == "guard"

-----------------------------------------------------------------------------
\* identifier: a token is a word, an underscore, or a character that may not be
\* in a name; each run of the last becomes one underscore.
Punctuation == {"(", ")", ",", "[", "]"}

AddToken(acc, t) ==
    IF t \notin Punctuation THEN [text |-> Append(acc.text, t), lastUnderscore |-> FALSE]
    ELSE IF acc.lastUnderscore THEN acc
    ELSE [text |-> Append(acc.text, "_"), lastUnderscore |-> TRUE]

Trim(s) ==
    LET kept == {i \in DOMAIN s : s[i] # "_"}
    IN  IF kept = {} THEN <<"fn">> ELSE SubSeq(s, Min(kept), Max(kept))

Identifier(tokens) ==
    Trim(FoldLeft(AddToken, [text |-> <<>>, lastUnderscore |-> FALSE], tokens).text)

\* testFuncName: a base that was used before gets the number of its uses.
Base(f, kind) ==
    <<"test", "_">> \o Identifier(Signature[f.writer]) \o <<"_", "before", "_">>
        \o Identifier(Signature[f.reader])
        \o (IF kind = Guard THEN <<"_", "is", "_", "fixed">> ELSE <<>>)

Unnumbered(base, uses) == base
Numbered(base, uses) == IF uses > 1 THEN base \o <<"_", ToString(uses)>> ELSE base

TimesUsed(findings, k, kind) ==
    Cardinality({l \in 1..k : Base(findings[l], kind) = Base(findings[k], kind)})

TestFuncName(findings, k, kind) ==
    Numbered(Base(findings[k], kind), TimesUsed(findings, k, kind))

-----------------------------------------------------------------------------
\* Generate: a finding without calldata cannot be reproduced.
WithValue(f) == f.impact.delta # NoDelta
Testable(f) == f.impact.confirmed /\ f.impact.writerCall # NoCall /\ f.impact.readerCall # NoCall

NoArgs(kind) == <<>>
ConstructorArgs(kind) == IF kind = Guard THEN Bytecode.args ELSE <<>>

TestOf(findings, k, kind) ==
    [name |-> TestFuncName(findings, k, kind), kind |-> kind, args |-> ConstructorArgs(kind),
     writerCall |-> findings[k].impact.writerCall[1],
     readerCall |-> findings[k].impact.readerCall[1]]

TestsOf(confirmed, kind) == [k \in DOMAIN confirmed |-> TestOf(confirmed, k, kind)]

Reproducible(findings) == {k \in DOMAIN findings : Testable(findings[k])}

Generate(findings, kind) ==
    LET order == Sorted([k \in Reproducible(findings) |->
                            {l \in Reproducible(findings) : l < k}])
    IN  TestsOf([n \in DOMAIN order |-> findings[order[n]]], kind)

-----------------------------------------------------------------------------
\* deploySource: a proof embeds the bytecode that was analysed, a guard takes
\* what the source compiles to by now.
CreationCode(test, source) ==
    IF test.kind = Proof THEN Bytecode ELSE [init |-> source, args |-> test.args]

\* The two deployments of a test, in one world.
BaselineAt == "first"
AttackedAt == "second"

Left(world, receipt) == IF receipt.ok THEN receipt.world ELSE world
OutputAlone(receipt) == receipt.output
Seen(receipt) == [output |-> receipt.output, reverted |-> ~receipt.ok]

\* The calls of a test, in the order it makes them: nothing is taken back, and
\* no call is credited anything.
Differs(world, test) ==
    LET before == Run(world, Caller, BaselineAt, test.readerCall)
        world1 == Left(world, before)
        writer == Run(world1, Caller, AttackedAt, test.writerCall)
        after  == Run(Left(world1, writer), Caller, AttackedAt, test.readerCall)
    IN  Seen(before) # Seen(after)

Passes(test, source) ==
    LET first  == CreateAt(EmptyWorld, BaselineAt, CreationCode(test, source))
        second == CreateAt(first.world, AttackedAt, CreationCode(test, source))
    IN  /\ first.ok /\ second.ok
        /\ Differs(second.world, test) = (test.kind = Proof)

-----------------------------------------------------------------------------
\* Where calls are made: a contract in a world.
Place(world, addr) == [world |-> world, at |-> addr]
Shows(p, input) == Seen(Run(p.world, Caller, p.at, input))
AfterCall(p, input) == [p EXCEPT !.world = Left(@, Run(@, Caller, p.at, input))]
Keeps(p) == StateAt(p.world, p.at)
Credited(p) == [p EXCEPT !.world = Fund(@, Caller)]

\* The contract as the analysis of code meets it, and as a test meets it: each
\* deployment at its turn.
Analysed(code) == Credited(Place(Deploy(NewExecutor, Deployer, code).exec.world, Contract))
AnalysedAfter(code, w) == Credited(AfterCall(Analysed(code), w))

FirstOf(code)  == CreateAt(EmptyWorld, BaselineAt, code)
SecondOf(code) == CreateAt(FirstOf(code).world, AttackedAt, code)

InBaseline(code)     == Place(SecondOf(code).world, BaselineAt)
InAttacked(code, r)  == Place(AfterCall(InBaseline(code), r).world, AttackedAt)
InAttackedAfter(code, w, r) == AfterCall(InAttacked(code, r), w)

Places(code, inputs) ==
    {Analysed(code), InBaseline(code)}
    \cup {AnalysedAfter(code, w) : w \in inputs}
    \cup {InAttacked(code, r) : r \in inputs}
    \cup {InAttackedAfter(code, w, r) : w, r \in inputs}

(***************************************************************************)
(* What a test takes for granted of the code it deploys: it deploys twice, *)
(* side by side, in one state; a call of one deployment leaves the other's *)
(* alone, and so does a credit; and what a call shows and leaves follows   *)
(* from what the contract itself keeps, not from its address, from balances*)
(* or from other contracts.                                                *)
(***************************************************************************)
SelfContained(code, inputs) ==
    /\ FirstOf(code).ok /\ SecondOf(code).ok
    /\ Keeps(InBaseline(code)) = Keeps(Analysed(code))
    /\ \A r \in inputs : Keeps(InAttacked(code, r)) = Keeps(Analysed(code))
    /\ \A w \in inputs : Keeps(AnalysedAfter(code, w)) = Keeps(AfterCall(Analysed(code), w))
    /\ \A p, q \in Places(code, inputs) : Keeps(p) = Keeps(q) =>
          \A input \in inputs : /\ Shows(p, input) = Shows(q, input)
                                /\ Keeps(AfterCall(p, input)) = Keeps(AfterCall(q, input))

\* Whether the analysis of code would confirm a pair of calls.
Confirms(code, w, r) == Shows(AnalysedAfter(code, w), r) # Shows(Analysed(code), r)
=============================================================================
