------------------------------- MODULE Command -------------------------------
(***************************************************************************)
(* The command sequent analyze (cmd/sequent/main.go): parse, load, resolve,*)
(* analyze, print the report, write the test files, exit.  Each step may   *)
(* fail, and what the steps before it left behind stays.  The analysis is  *)
(* module Analysis, step by step; the tests are those of module GenTest.   *)
(***************************************************************************)
EXTENDS GenTest

CONSTANTS
    Uses,           \* the invocations, see UseType
    Contracts, MaxRepeats, MayFail,   \* as in module Analysis
    OutputMayFail   \* whether stdout, a directory or a file may refuse a write

VARIABLES
    use,      \* this invocation
    place,    \* the step to come
    printed,  \* how much of the report is on stdout
    files,    \* files[kind]: the test file of that kind
    exit,     \* the exit code, or Running
    methods, stage, fns, edges, impacts, report   \* module Analysis

analysis == <<methods, stage, fns, edges, impacts, report>>
vars == <<use, place, printed, files, exit, analysis>>

Pipeline == INSTANCE Analysis

Running == -1
Kind == {Proof, Guard}

\* What the arguments ask for, and what the files they name are like: analyze is
\* whether they begin with that subcommand, flags whether the rest parses; abi, bin and positional are the inputs given, artifact,
\* abiFile and codeFile what is in them; sol whether the artifact's or the
\* bytecode's directory is named like a source.
UseType ==
    [analyze : BOOLEAN, flags : BOOLEAN, abi : BOOLEAN, bin : BOOLEAN, positional : 0..2,
     artifact : {"unreadable", "malformed", "no abi", "no code", "good"},
     abiFile : {"unreadable", "malformed", "good"},
     codeFile : {"unreadable", "malformed", "empty", "good"},
     json : BOOLEAN, asked : SUBSET Kind, src : BOOLEAN, sol : BOOLEAN, old : BOOLEAN]

ASSUME UsesAssumption == Uses \subseteq UseType

\* The methods and their calldata are as module Analysis takes them.
ASSUME ContractsAssumption == Pipeline!AnalysisAssumption

\* Every method has a signature.
ASSUME SignaturesAssumption ==
    \A abi \in Contracts : \A i \in DOMAIN abi :
        LET tokens == Signature[abi[i].name] IN tokens \in Seq({tokens[k] : k \in DOMAIN tokens})

\* A test file, with its tests when this invocation has written it.
File(state) == [state |-> state, tests |-> <<>>]
FileBefore(u) == IF u.old THEN File("old") ELSE File("none")

Init ==
    /\ use \in Uses
    /\ place = "parse"
    /\ printed = "nothing"
    /\ files = [kind \in Kind |-> FileBefore(use)]
    /\ exit = Running
    /\ Pipeline!Init

Exit(status) ==
    /\ place' = "exit"
    /\ exit' = status

Go(next) ==
    /\ place' = next
    /\ UNCHANGED exit

\* The subcommand, the flags, and the choice of the input in loadContract.
FromBoth(u) == u.abi /\ u.bin /\ u.positional = 0
FromArtifact(u) == ~u.abi /\ ~u.bin /\ u.positional = 1

Parse ==
    /\ place = "parse"
    /\ IF use.analyze /\ use.flags /\ (FromBoth(use) \/ FromArtifact(use)) THEN Go("load")
       ELSE Exit(2)
    /\ UNCHANGED <<use, printed, files, analysis>>

\* The loaders: nothing may be missing, malformed or empty.
FromFoundryArtifact(u) == u.artifact = "good"
FromFiles(u) == u.abiFile = "good" /\ u.codeFile = "good"
Loads(u) == IF FromBoth(u) THEN FromFiles(u) ELSE FromFoundryArtifact(u)

Load ==
    /\ place = "load"
    /\ IF Loads(use) THEN Go("resolve") ELSE Exit(1)
    /\ UNCHANGED <<use, printed, files, analysis>>

\* ResolveCreationCode, module Preparation: Bytecode, or an error.
Resolve ==
    /\ place = "resolve"
    /\ Go("analyze") \/ Exit(1)
    /\ UNCHANGED <<use, printed, files, analysis>>

Analyze ==
    /\ place = "analyze"
    /\ Pipeline!Next
    /\ UNCHANGED <<use, place, printed, files, exit>>

Analyzed ==
    /\ place = "analyze"
    /\ \/ stage = "failed" /\ Exit(1)
       \/ stage = "done" /\ Go("print")
    /\ UNCHANGED <<use, printed, files, analysis>>

\* What is written, in which order.
GuardsFirst == [print |-> Guard, guard |-> Proof, proof |-> "end"]
After == [print |-> Proof, proof |-> Guard, guard |-> "end"]

\* WriteJSON returns the error of a write, WriteText drops it.
PrintReport ==
    /\ place = "print"
    /\ \/ /\ printed' = "all"
          /\ Go(After[place])
       \/ /\ OutputMayFail
          /\ printed' \in {"nothing", "part"}
          /\ IF use.json THEN Exit(1) ELSE Go(After[place])
    /\ UNCHANGED <<use, files, analysis>>

\* writeTests: without tests nothing is touched; a directory or file that cannot
\* be opened leaves things as they were, and a write that fails cuts the file.
EvenNothing(tests) == TRUE
AnyTest(tests) == tests # <<>>

ErrorsIgnored == Go(After[place])
WriteFailed == Exit(1)

WriteTests(kind, tests) ==
    \/ /\ ~AnyTest(tests)
       /\ Go(After[place])
       /\ UNCHANGED files
    \/ /\ AnyTest(tests)
       /\ Go(After[place])
       /\ files' = [files EXCEPT ![kind] = [state |-> "new", tests |-> tests]]
    \/ /\ AnyTest(tests) /\ OutputMayFail
       /\ WriteFailed
       /\ files' = files \/ files' = [files EXCEPT ![kind] = File("torn")]

\* guardSource: --src, or the place of the artifact among its sources.
HasSource(u) == u.src \/ u.sol

WriteFile ==
    /\ place \in Kind
    /\ \/ /\ place \notin use.asked
          /\ Go(After[place])
          /\ UNCHANGED files
       \/ /\ place \in use.asked
          /\ place = Guard => HasSource(use)
          /\ WriteTests(place, Generate(report.findings, place))
       \/ /\ place = Guard /\ Guard \in use.asked
          /\ ~HasSource(use)
          /\ Exit(1)
          /\ UNCHANGED files
    /\ UNCHANGED <<use, printed, analysis>>

End ==
    /\ place = "end"
    /\ Exit(0)
    /\ UNCHANGED <<use, printed, files, analysis>>

\* The only way to stop.
Exited ==
    /\ place = "exit"
    /\ UNCHANGED vars

Next == Parse \/ Load \/ Resolve \/ Analyze \/ Analyzed \/ PrintReport \/ WriteFile \/ End \/ Exited

Spec == Init /\ [][Next]_vars

-----------------------------------------------------------------------------
\* The steps up to the analysis leave no output, and the exit code is there at
\* the end only.
TypeOK ==
    /\ use \in Uses
    /\ place \in {"parse", "load", "resolve", "analyze", "print", Proof, Guard, "end", "exit"}
    /\ printed \in {"nothing", "part", "all"}
    /\ \A kind \in Kind : /\ files[kind].state \in {"none", "old", "torn", "new"}
                          /\ files[kind].state = "new" <=> files[kind].tests # <<>>
    /\ exit \in {Running, 0, 1, 2}
    /\ place = "exit" <=> exit # Running
    /\ place \in {"parse", "load", "resolve"} => stage = "fuzz"
    /\ place \in {"print", Proof, Guard, "end"} => stage = "done"
    /\ Pipeline!TypeOK

Tests(kind) == Generate(report.findings, kind)
Untouched(kind) == files[kind] = FileBefore(use)
AsAsked(kind) ==
    \/ Tests(kind) = <<>> /\ Untouched(kind)
    \/ Tests(kind) # <<>> /\ files[kind] = [state |-> "new", tests |-> Tests(kind)]

(***************************************************************************)
(* main.go:48: "the process exit code: 0 on success, 1 on an analysis      *)
(* error, 2 on misuse".  After 0 every file asked for has the tests of all *)
(* confirmed findings, or none was due and an earlier file is as it was,   *)
(* and the report is complete if it is JSON: of a report as text it says   *)
(* nothing, since WriteText drops the errors of its writes.  After 2       *)
(* nothing at all was done.  1 is never returned of a command that has     *)
(* done everything it was asked; it is returned too of the one misuse that *)
(* is found out late, guards without a source.                             *)
(***************************************************************************)
ExitCodes ==
    /\ exit = 0 => /\ stage = "done"
                   /\ use.json => printed = "all"
                   /\ \A kind \in Kind : IF kind \in use.asked THEN AsAsked(kind) ELSE Untouched(kind)
    /\ exit = 2 => stage = "fuzz" /\ printed = "nothing" /\ \A kind \in Kind : Untouched(kind)
    /\ exit = 1 /\ stage = "done" =>
          \/ printed # "all"
          \/ Guard \in use.asked /\ ~HasSource(use)
          \/ \E kind \in use.asked : ~AsAsked(kind)

(***************************************************************************)
(* What is there after a failure (main.go:102-132): nothing is printed and *)
(* no file touched before the analysis is done; only files asked for are   *)
(* touched; none is while a report in JSON is not complete; and the guards *)
(* are not while the proofs asked for are missing or torn.  A report as    *)
(* text stands outside this order: it may be cut short or not there at     *)
(* all, and the files follow all the same.                                 *)
(***************************************************************************)
OutputsInOrder ==
    /\ printed # "nothing" => stage = "done"
    /\ \A kind \in Kind : ~Untouched(kind) =>
          /\ kind \in use.asked /\ stage = "done"
          /\ use.json => printed = "all"
    /\ ~Untouched(Guard) /\ Proof \in use.asked => AsAsked(Proof)

(***************************************************************************)
(* A file that was written has a test for every confirmed finding of the   *)
(* report, in the report's order, that makes that finding's own calls.     *)
(***************************************************************************)
TestPerFinding ==
    \A kind \in Kind : files[kind].state = "new" =>
        LET confirmed == {k \in DOMAIN report.findings : report.findings[k].impact.confirmed}
            tests     == files[kind].tests
        IN  /\ Len(tests) = Cardinality(confirmed)
            /\ \A k \in confirmed :
                  LET test == tests[Cardinality({l \in confirmed : l <= k})]
                      f    == report.findings[k]
                  IN  /\ test.writerCall = f.impact.writerCall[1]
                      /\ test.readerCall = f.impact.readerCall[1]
                      /\ Alone(test.readerCall) # ReaderAfter(test.writerCall, 1, test.readerCall)

(***************************************************************************)
(* gentest.go:190: testFuncName "builds a unique, valid Solidity test      *)
(* function name for a finding".  No two tests of a file share a name;     *)
(* if they did, the file would not compile.                                *)
(***************************************************************************)
UniqueNames ==
    \A kind \in Kind : \A i, j \in DOMAIN files[kind].tests :
        i # j => files[kind].tests[i].name # files[kind].tests[j].name

\* What it rests on: a base that several pairs of functions share is, with a number
\* after it, no other base, and different numbers are written differently.
NameOf(abi, p, kind) == Base([writer |-> abi[p[1]].name, reader |-> abi[p[2]].name], kind)

BasesApart ==
    \A abi \in Contracts : LET times == 2..(Len(abi) * Len(abi))
                              pairs == (DOMAIN abi) \X (DOMAIN abi) IN
        /\ \A m, n \in times : ToString(m) = ToString(n) => m = n
        /\ \A kind \in Kind : \A p, q, o \in pairs :
              q # o /\ NameOf(abi, q, kind) = NameOf(abi, o, kind) =>
                 \A n \in times : NameOf(abi, p, kind) # NameOf(abi, q, kind) \o <<"_", ToString(n)>>

\* What the two properties below rest on: the code is self-contained, and a
\* source is fixed if its analysis confirms no two calls of different functions.
Contained(source) ==
    SelfContained([init |-> source, args |-> Bytecode.args], Pipeline!Calldata)

FixedIn(source) ==
    \A abi \in Contracts : \A i, j \in DOMAIN abi : i # j =>
        \A a \in DOMAIN abi[i].variants, b \in DOMAIN abi[j].variants :
            ~Confirms([init |-> source, args |-> Bytecode.args],
                      abi[i].variants[a], abi[j].variants[b])

(***************************************************************************)
(* gentest.go:27-32: proofs "pass on the current (vulnerable)              *)
(* contract", and guards "fail on the current contract".  What two runs on *)
(* one deployment showed shows again on two deployments side by side, with *)
(* nothing rewound and nobody credited.                                    *)
(***************************************************************************)
TestsReplay ==
    place = "exit" =>
        \A kind \in Kind : \A test \in ToSet(files[kind].tests) :
            Passes(test, Bytecode.init) <=> kind = Proof

(***************************************************************************)
(* gentest.go:31-32: guards "pass once the issue is fixed", also when the  *)
(* reader changes state itself and the constructor takes arguments.        *)
(***************************************************************************)
GuardsFollowTheFix ==
    place = "exit" => \A test \in ToSet(files[Guard].tests) : Passes(test, "fixed")
=============================================================================
