---------------------------- MODULE CommandProofs ----------------------------
(***************************************************************************)
(* What the exit code of the command says, what a failure leaves behind,   *)
(* what is in the test files, what the tests do when they are run and how  *)
(* they are named, for all invocations and contracts.  The first part uses *)
(* nothing of module Analysis but that it starts at its first stage; the   *)
(* others, what AnalysisProofs says of its reports.                        *)
(***************************************************************************)
EXTENDS Command, ScenarioProofs

\* Where the command is decides how far the analysis is...
Stages ==
    /\ exit \in {Running, 0, 1, 2}
    /\ place = "exit" <=> exit # Running
    /\ place \in {"parse", "load", "resolve"} => stage = "fuzz"
    /\ place \in {"print", Proof, Guard, "end"} => stage = "done"

\* ...what is on stdout and which files are as they were...
Before ==
    /\ place \in {"parse", "load", "resolve", "analyze", "print"} => printed = "nothing"
    /\ place \in {"parse", "load", "resolve", "analyze", "print", Proof} => Untouched(Proof)
    /\ place \in {"parse", "load", "resolve", "analyze", "print", Proof, Guard} => Untouched(Guard)

\* ...and which have been dealt with.
Handled(kind) == IF kind \in use.asked THEN AsAsked(kind) ELSE Untouched(kind)

Dealt ==
    /\ place \in {Proof, Guard, "end"} => (use.json => printed = "all")
    /\ place \in {Guard, "end"} => Handled(Proof)
    /\ place = "end" => Handled(Guard)

Shape ==
    /\ use \in UseType
    /\ files = [kind \in Kind |-> files[kind]]

IInv == Shape /\ Stages /\ Before /\ Dealt /\ ExitCodes /\ OutputsInOrder

-----------------------------------------------------------------------------
LEMMA KindLemma == Proof \in Kind /\ Guard \in Kind /\ Proof # Guard
  BY DEF Kind, Proof, Guard

LEMMA SameFile ==
    ASSUME NEW kind \in Kind, UNCHANGED use, files'[kind] = files[kind]
    PROVE  Untouched(kind)' <=> Untouched(kind)
  BY DEF Untouched

\* What was asked for is settled by the report and the file alone.
LEMMA SameAnswer ==
    ASSUME NEW kind \in Kind, UNCHANGED <<use, report>>, files'[kind] = files[kind]
    PROVE  /\ AsAsked(kind)' <=> AsAsked(kind)
           /\ Handled(kind)' <=> Handled(kind)
  <1>1. Tests(kind)' = Tests(kind)
    BY DEF Tests
  <1>2. AsAsked(kind)' <=> AsAsked(kind)
    BY <1>1, SameFile DEF AsAsked
  <1>. QED BY <1>2, SameFile DEF Handled

LEMMA InvInit == Init => IInv
  <1>. SUFFICES ASSUME Init PROVE IInv
    OBVIOUS
  <1>1. stage = "fuzz"
    BY DEF Init, Pipeline!Init
  <1>2. Shape
    BY UsesAssumption DEF Init, Shape
  <1>3. \A kind \in Kind : Untouched(kind)
    BY DEF Init, Untouched
  <1>4. Stages /\ Before /\ Dealt
    BY <1>1, <1>3, KindLemma DEF Init, Stages, Before, Dealt, Proof, Guard, Running
  <1>5. ExitCodes
    BY DEF Init, ExitCodes, Running
  <1>6. OutputsInOrder
    BY <1>3, KindLemma DEF Init, OutputsInOrder
  <1>. QED BY <1>2, <1>4, <1>5, <1>6 DEF IInv

-----------------------------------------------------------------------------
\* Up to the analysis nothing is written, whichever way a step ends.
Quiet == {"parse", "load", "resolve", "analyze"}

LEMMA QuietStep ==
    ASSUME IInv, place \in Quiet, UNCHANGED <<use, printed, files>>, Stages',
           place' \in Quiet \cup {"print", "exit"},
           exit' # 0,
           exit' = 1 => stage' # "done",
           exit' = 2 => stage' = "fuzz"
    PROVE  IInv'
  <1>1. \A kind \in Kind : Untouched(kind) /\ Untouched(kind)'
    BY SameFile, KindLemma DEF IInv, Before, Quiet, Kind
  <1>2. printed = "nothing" /\ printed' = "nothing"
    BY DEF IInv, Before, Quiet
  <1>3. Shape'
    BY DEF IInv, Shape
  <1>4. Before' /\ Dealt'
    BY <1>1, <1>2, KindLemma DEF Before, Dealt, Quiet, Proof, Guard
  <1>5. ExitCodes'
    BY <1>1, <1>2 DEF ExitCodes
  <1>6. OutputsInOrder'
    BY <1>1, <1>2, KindLemma DEF OutputsInOrder
  <1>. QED BY <1>3, <1>4, <1>5, <1>6 DEF IInv

LEMMA ParseStep == IInv /\ Parse => IInv'
  <1>. SUFFICES ASSUME IInv, Parse PROVE IInv'
    OBVIOUS
  <1>1. stage = "fuzz" /\ stage' = "fuzz" /\ place = "parse"
    BY DEF IInv, Stages, Parse, analysis
  <1>2. Stages' /\ place' \in Quiet \cup {"print", "exit"} /\ exit' \notin {0, 1}
    BY <1>1 DEF IInv, Stages, Parse, Exit, Go, Quiet, Running, Proof, Guard
  <1>. QED BY <1>1, <1>2, QuietStep DEF Parse, Quiet

LEMMA LoadStep == IInv /\ Load => IInv'
  <1>. SUFFICES ASSUME IInv, Load PROVE IInv'
    OBVIOUS
  <1>1. stage = "fuzz" /\ stage' = "fuzz" /\ place = "load"
    BY DEF IInv, Stages, Load, analysis
  <1>2. Stages' /\ place' \in Quiet \cup {"print", "exit"} /\ exit' # 0
    BY <1>1 DEF IInv, Stages, Load, Exit, Go, Quiet, Running, Proof, Guard
  <1>. QED BY <1>1, <1>2, QuietStep DEF Load, Quiet

LEMMA ResolveStep == IInv /\ Resolve => IInv'
  <1>. SUFFICES ASSUME IInv, Resolve PROVE IInv'
    OBVIOUS
  <1>1. stage = "fuzz" /\ stage' = "fuzz" /\ place = "resolve"
    BY DEF IInv, Stages, Resolve, analysis
  <1>2. Stages' /\ place' \in Quiet \cup {"print", "exit"} /\ exit' # 0
    BY <1>1 DEF IInv, Stages, Resolve, Exit, Go, Quiet, Running, Proof, Guard
  <1>. QED BY <1>1, <1>2, QuietStep DEF Resolve, Quiet

\* Whatever a step of the analysis does, the command stays where it is.
LEMMA AnalyzeStep == IInv /\ Analyze => IInv'
  <1>. SUFFICES ASSUME IInv, Analyze PROVE IInv'
    OBVIOUS
  <1>1. place = "analyze" /\ place' = "analyze" /\ exit = Running /\ exit' = Running
    BY DEF IInv, Stages, Analyze
  <1>2. Stages'
    BY <1>1 DEF Stages, Running, Proof, Guard
  <1>. QED BY <1>1, <1>2, QuietStep DEF Analyze, Quiet, Running

LEMMA AnalyzedStep == IInv /\ Analyzed => IInv'
  <1>. SUFFICES ASSUME IInv, Analyzed PROVE IInv'
    OBVIOUS
  <1>1. place = "analyze" /\ exit = Running /\ stage' = stage
    BY DEF IInv, Stages, Analyzed, analysis
  <1>2. CASE stage = "failed" /\ Exit(1)
    <2>1. Stages'
      BY <1>1, <1>2 DEF Stages, Exit, Running, Proof, Guard
    <2>. QED BY <1>1, <1>2, <2>1, QuietStep DEF Analyzed, Exit, Quiet
  <1>3. CASE stage = "done" /\ Go("print")
    <2>1. Stages'
      BY <1>1, <1>3 DEF Stages, Go, Running, Proof, Guard
    <2>. QED BY <1>1, <1>3, <2>1, QuietStep DEF Analyzed, Go, Quiet, Running
  <1>. QED BY <1>2, <1>3 DEF Analyzed

-----------------------------------------------------------------------------
\* After it the analysis stands still.
LEMMA PrintStep == IInv /\ PrintReport => IInv'
  <1>. SUFFICES ASSUME IInv, PrintReport PROVE IInv'
    OBVIOUS
  <1>1. /\ place = "print" /\ exit = Running
        /\ UNCHANGED <<use, files, report, stage>>
        /\ stage = "done"
    BY DEF IInv, Stages, PrintReport, analysis
  <1>2. \A kind \in Kind : Untouched(kind)'
    BY <1>1, SameFile, KindLemma DEF IInv, Before, Kind
  <1>3. \/ place' = Proof /\ exit' = Running /\ (use.json => printed' = "all")
        \/ place' = "exit" /\ exit' = 1 /\ printed' # "all"
    BY <1>1 DEF PrintReport, After, Go, Exit
  <1>4. Shape'
    BY <1>1 DEF IInv, Shape
  <1>5. Stages'
    BY <1>1, <1>3 DEF Stages, Running, Proof, Guard
  <1>6. Before' /\ Dealt'
    BY <1>1, <1>2, <1>3, KindLemma DEF Before, Dealt, Proof, Guard
  <1>7. ExitCodes'
    BY <1>1, <1>3 DEF ExitCodes, Running
  <1>8. OutputsInOrder'
    BY <1>1, <1>2, KindLemma DEF OutputsInOrder
  <1>. QED BY <1>4, <1>5, <1>6, <1>7, <1>8 DEF IInv

\* A test file, once it is dealt with, and one that ends the command.
LEMMA FileDealt ==
    ASSUME IInv, NEW kind \in Kind, place = kind,
           UNCHANGED <<use, printed, report, stage>>, Shape',
           \A other \in Kind \ {kind} : files'[other] = files[other],
           Handled(kind)', Go(After[kind])
    PROVE  IInv'
  <1>1. stage = "done" /\ exit = Running /\ exit' = Running /\ (use.json => printed = "all")
    BY DEF IInv, Stages, Dealt, Kind, Go, Proof, Guard
  <1>2. Stages'
    BY <1>1 DEF Stages, Go, After, Kind, Running, Proof, Guard
  <1>3. ExitCodes'
    BY <1>1 DEF ExitCodes, Running
  <1>4. CASE kind = Proof
    <2>1. place' = Guard /\ Untouched(Guard)'
      BY <1>4, SameFile, KindLemma DEF IInv, Before, Go, After, Proof, Guard
    <2>2. Before' /\ Dealt'
      BY <1>1, <1>4, <2>1 DEF Before, Dealt, Proof, Guard
    <2>3. OutputsInOrder'
      BY <1>1, <1>4, <2>1 DEF OutputsInOrder, Handled, Kind
    <2>. QED BY <1>2, <1>3, <2>2, <2>3 DEF IInv
  <1>5. CASE kind = Guard
    <2>1. place' = "end" /\ Handled(Proof)'
      BY <1>5, SameAnswer, KindLemma DEF IInv, Dealt, Go, After, Proof, Guard
    <2>2. Before' /\ Dealt'
      BY <1>1, <1>5, <2>1 DEF Before, Dealt, Proof, Guard
    <2>3. OutputsInOrder'
      BY <1>1, <1>5, <2>1 DEF OutputsInOrder, Handled, Kind
    <2>. QED BY <1>2, <1>3, <2>2, <2>3 DEF IInv
  <1>. QED BY <1>4, <1>5 DEF Kind

LEMMA FileFailed ==
    ASSUME IInv, NEW kind \in Kind, place = kind, kind \in use.asked,
           UNCHANGED <<use, printed, report, stage>>, Shape',
           \A other \in Kind \ {kind} : files'[other] = files[other],
           Exit(1),
           (kind = Guard /\ ~HasSource(use)) \/ ~AsAsked(kind)'
    PROVE  IInv'
  <1>1. stage = "done" /\ (use.json => printed = "all") /\ place' = "exit" /\ exit' = 1
    BY DEF IInv, Stages, Dealt, Kind, Exit, Proof, Guard
  <1>2. Stages' /\ Before' /\ Dealt'
    BY <1>1 DEF Stages, Before, Dealt, Running, Proof, Guard
  <1>3. ExitCodes'
    BY <1>1 DEF ExitCodes, HasSource
  <1>4. \A other \in Kind : ~Untouched(other)' => other \in use.asked
    <2>1. ASSUME NEW other \in Kind, other # kind, ~Untouched(other)'
          PROVE  other \in use.asked
      BY <2>1, SameFile DEF IInv, Before, Dealt, Handled, Kind, Proof, Guard
    <2>. QED BY <2>1
  <1>5. ~Untouched(Guard)' /\ Proof \in use.asked => AsAsked(Proof)'
    <2>1. CASE kind = Proof
      BY <2>1, SameFile, KindLemma DEF IInv, Before
    <2>2. CASE kind = Guard
      BY <2>2, SameAnswer, KindLemma DEF IInv, Dealt, Handled
    <2>. QED BY <2>1, <2>2 DEF Kind
  <1>6. OutputsInOrder'
    BY <1>1, <1>4, <1>5 DEF OutputsInOrder
  <1>. QED BY <1>2, <1>3, <1>6 DEF IInv

\* A write that fails leaves no file of this report's tests.
LEMMA NotWritten ==
    ASSUME NEW kind \in Kind, Tests(kind)' # <<>>,
           files'[kind] = FileBefore(use') \/ files'[kind] = File("torn")
    PROVE  ~AsAsked(kind)'
  BY DEF AsAsked, FileBefore, File

LEMMA WriteStep == IInv /\ WriteFile => IInv'
  <1>. SUFFICES ASSUME IInv, WriteFile, NEW kind \in Kind, place = kind PROVE IInv'
    BY DEF WriteFile
  <1>1. UNCHANGED <<use, printed, report, stage>>
    BY DEF WriteFile, analysis
  <1>2. Untouched(kind)
    BY DEF IInv, Before, Kind
  <1>3. CASE kind \notin use.asked /\ Go(After[kind]) /\ UNCHANGED files
    <2>1. Shape' /\ Handled(kind)'
      BY <1>1, <1>2, <1>3, SameFile DEF IInv, Shape, Handled
    <2>. QED BY <1>1, <1>3, <2>1, FileDealt
  <1>4. CASE kind \in use.asked /\ WriteTests(kind, Tests(kind))
    <2>1. Tests(kind)' = Tests(kind)
      BY <1>1 DEF Tests
    <2>2. CASE Tests(kind) = <<>> /\ Go(After[kind]) /\ UNCHANGED files
      <3>1. Shape' /\ Handled(kind)'
        BY <1>1, <1>2, <1>4, <2>1, <2>2, SameFile DEF IInv, Shape, Handled, AsAsked
      <3>. QED BY <1>1, <2>2, <3>1, FileDealt
    <2>3. CASE /\ Tests(kind) # <<>> /\ Go(After[kind])
               /\ files' = [files EXCEPT ![kind] = [state |-> "new", tests |-> Tests(kind)]]
      <3>1. Shape' /\ files'[kind] = [state |-> "new", tests |-> Tests(kind)]
        BY <1>1, <2>3 DEF IInv, Shape
      <3>2. Handled(kind)'
        BY <1>1, <1>4, <2>1, <2>3, <3>1 DEF Handled, AsAsked
      <3>3. \A other \in Kind \ {kind} : files'[other] = files[other]
        BY <2>3 DEF IInv, Shape
      <3>. QED BY <1>1, <2>3, <3>1, <3>2, <3>3, FileDealt
    <2>4. CASE /\ Tests(kind) # <<>> /\ Exit(1)
               /\ files' = files \/ files' = [files EXCEPT ![kind] = File("torn")]
      <3>1. /\ Shape'
            /\ \A other \in Kind \ {kind} : files'[other] = files[other]
            /\ files'[kind] = files[kind] \/ files'[kind] = File("torn")
        BY <1>1, <2>4 DEF IInv, Shape
      <3>2. ~AsAsked(kind)'
        BY <1>1, <1>2, <2>1, <2>4, <3>1, NotWritten DEF Untouched
      <3>. QED BY <1>1, <1>4, <2>4, <3>1, <3>2, FileFailed
    <2>. QED BY <1>4, <2>2, <2>3, <2>4 DEF WriteTests, AnyTest, WriteFailed
  <1>5. CASE /\ kind = Guard /\ kind \in use.asked /\ ~HasSource(use)
             /\ Exit(1) /\ UNCHANGED files
    <2>1. Shape'
      BY <1>1, <1>5 DEF IInv, Shape
    <2>. QED BY <1>1, <1>5, <2>1, FileFailed
  <1>. QED BY <1>3, <1>4, <1>5 DEF WriteFile, Tests

LEMMA EndStep == IInv /\ End => IInv'
  <1>. SUFFICES ASSUME IInv, End PROVE IInv'
    OBVIOUS
  <1>1. /\ place = "end" /\ place' = "exit" /\ exit' = 0 /\ stage = "done"
        /\ UNCHANGED <<use, printed, files, report, stage>>
    BY DEF IInv, Stages, End, Exit, analysis
  <1>2. \A kind \in Kind : Handled(kind) /\ Handled(kind)'
    BY <1>1, SameAnswer DEF IInv, Dealt, Kind
  <1>3. Shape'
    BY <1>1 DEF IInv, Shape
  <1>4. Stages' /\ Before' /\ Dealt'
    BY <1>1 DEF Stages, Before, Dealt, Running, Proof, Guard
  <1>5. ExitCodes'
    BY <1>1, <1>2 DEF IInv, Dealt, ExitCodes, Handled
  <1>6. OutputsInOrder'
    BY <1>1, SameFile, SameAnswer, KindLemma DEF IInv, OutputsInOrder
  <1>. QED BY <1>3, <1>4, <1>5, <1>6 DEF IInv

LEMMA Stutter == IInv /\ UNCHANGED vars => IInv'
  <1>. SUFFICES ASSUME IInv, UNCHANGED vars PROVE IInv'
    OBVIOUS
  <1>1. UNCHANGED <<use, place, printed, files, exit, report, stage>>
    BY DEF vars, analysis
  <1>2. Shape' /\ Stages'
    BY <1>1 DEF IInv, Shape, Stages
  <1>3. Before' /\ Dealt'
    BY <1>1, SameFile, SameAnswer, KindLemma DEF IInv, Before, Dealt
  <1>4. ExitCodes'
    BY <1>1, SameFile, SameAnswer DEF IInv, Shape, UseType, ExitCodes, HasSource
  <1>5. OutputsInOrder'
    BY <1>1, SameFile, SameAnswer, KindLemma DEF IInv, OutputsInOrder
  <1>. QED BY <1>2, <1>3, <1>4, <1>5 DEF IInv

-----------------------------------------------------------------------------
LEMMA InvNext == IInv /\ [Next]_vars => IInv'
  <1>. SUFFICES ASSUME IInv, [Next]_vars PROVE IInv'
    OBVIOUS
  <1>1. CASE Parse
    BY <1>1, ParseStep
  <1>2. CASE Load
    BY <1>2, LoadStep
  <1>3. CASE Resolve
    BY <1>3, ResolveStep
  <1>4. CASE Analyze
    BY <1>4, AnalyzeStep
  <1>5. CASE Analyzed
    BY <1>5, AnalyzedStep
  <1>6. CASE PrintReport
    BY <1>6, PrintStep
  <1>7. CASE WriteFile
    BY <1>7, WriteStep
  <1>8. CASE End
    BY <1>8, EndStep
  <1>9. CASE Exited \/ UNCHANGED vars
    BY <1>9, Stutter DEF Exited
  <1>. QED BY <1>1, <1>2, <1>3, <1>4, <1>5, <1>6, <1>7, <1>8, <1>9 DEF Next

LEMMA InvAlways == Spec => []IInv
  <1>. QED BY InvInit, InvNext, PTL DEF Spec

(***************************************************************************)
(* main.go:48, for every invocation and contract and any failures: 0 means *)
(* that the analysis is done, all the tests asked for are there, and a     *)
(* report in JSON is complete (of a report as text nothing is known); 2    *)
(* that nothing was done; and 1 that something asked for is missing.       *)
(***************************************************************************)
THEOREM ExitsTruly == Spec => []ExitCodes
  <1>1. IInv => ExitCodes
    BY DEF IInv
  <1>. QED BY <1>1, InvAlways, PTL

(***************************************************************************)
(* Whatever fails in runAnalyze, nothing is there before the analysis is   *)
(* done, no file before a report in JSON is complete, and no guards before *)
(* the proofs asked for.  A report as text is not part of this order: it   *)
(* may be missing though the files are there.                              *)
(***************************************************************************)
THEOREM FailsInOrder == Spec => []OutputsInOrder
  <1>1. IInv => OutputsInOrder
    BY DEF IInv
  <1>. QED BY <1>1, InvAlways, PTL
-----------------------------------------------------------------------------
(* What is in the files.                                                   *)

\* A file is new exactly when it has the tests of the report that is there.
Written(kind) ==
    /\ files[kind].state \in {"none", "old", "torn", "new"}
    /\ files[kind].state = "new" =>
          stage = "done" /\ files[kind].tests = Tests(kind) /\ files[kind].tests # <<>>
    /\ files[kind].state # "new" => files[kind].tests = <<>>

Kept ==
    /\ use \in Uses
    /\ place \in {"parse", "load", "resolve", "analyze", "print", Proof, Guard, "end", "exit"}
    /\ printed \in {"nothing", "part", "all"}
    /\ \A kind \in Kind : Written(kind)

LEMMA NotNew ==
    ASSUME NEW kind \in Kind, Untouched(kind)
    PROVE  Written(kind)
  BY DEF Untouched, Written, FileBefore, File

LEMMA SameWritten ==
    ASSUME NEW kind \in Kind, Written(kind), UNCHANGED <<stage, report>>,
           files'[kind] = files[kind]
    PROVE  Written(kind)'
  <1>1. Tests(kind)' = Tests(kind)
    BY DEF Tests
  <1>. QED BY <1>1 DEF Written

LEMMA KeptInit == Init => Kept
  <1>. SUFFICES ASSUME Init PROVE Kept
    OBVIOUS
  <1>1. \A kind \in Kind : Untouched(kind)
    BY DEF Init, Untouched
  <1>. QED BY <1>1, NotNew DEF Init, Kept

LEMMA KeptNext == IInv /\ Kept /\ [Next]_vars => Kept'
  <1>. SUFFICES ASSUME IInv, Kept, [Next]_vars PROVE Kept'
    OBVIOUS
  <1>1. use' = use /\ use \in Uses
    BY DEF Kept, Next, Parse, Load, Resolve, Analyze, Analyzed, PrintReport, WriteFile, End,
           Exited, vars
  <1>2. CASE Parse \/ Load \/ Resolve \/ Analyze
    <2>1. UNCHANGED <<use, printed, files>> /\ place \in Quiet
          /\ place' \in {"load", "resolve", "analyze", "exit"}
      BY <1>2 DEF Parse, Load, Resolve, Analyze, Go, Exit, Quiet
    <2>2. \A kind \in Kind : Untouched(kind) /\ Untouched(kind)'
      BY <2>1, SameFile, KindLemma DEF IInv, Before, Quiet, Kind
    <2>3. \A kind \in Kind : Written(kind)'
      BY <2>2 DEF Untouched, Written, FileBefore, File
    <2>. QED BY <1>1, <2>1, <2>3 DEF Kept
  <1>3. CASE Analyzed \/ PrintReport \/ End \/ Exited \/ UNCHANGED vars
    <2>1. UNCHANGED <<files, stage, report>>
      BY <1>3 DEF Analyzed, PrintReport, End, Exited, vars, analysis
    <2>2. /\ place' \in {place, "exit", "print", Proof}
          /\ printed' \in {printed, "all", "nothing", "part"}
      BY <1>3 DEF Analyzed, PrintReport, End, Exited, vars, Go, Exit, After
    <2>3. \A kind \in Kind : Written(kind)'
      BY <2>1, SameWritten DEF Kept
    <2>. QED BY <1>1, <2>2, <2>3 DEF Kept
  <1>4. CASE WriteFile
    <2>1. UNCHANGED <<printed, stage, report>> /\ place \in Kind /\ stage = "done"
      BY <1>4 DEF WriteFile, analysis, IInv, Stages, Kind
    <2>2. place' \in {Guard, "end", "exit"}
      BY <1>4, <2>1 DEF WriteFile, WriteTests, WriteFailed, Go, Exit, After, Kind, Proof, Guard
    <2>3. \/ files' = files
          \/ /\ Tests(place) # <<>>
             /\ files' = [files EXCEPT ![place] = [state |-> "new", tests |-> Tests(place)]]
          \/ files' = [files EXCEPT ![place] = File("torn")]
      BY <1>4 DEF WriteFile, WriteTests, AnyTest, Tests
    <2>4. ASSUME NEW kind \in Kind PROVE Written(kind)'
      <3>1. Tests(kind)' = Tests(kind)
        BY <2>1 DEF Tests
      <3>2. \/ files'[kind] = files[kind]
            \/ /\ Tests(kind) # <<>>
               /\ files'[kind] = [state |-> "new", tests |-> Tests(kind)]
            \/ files'[kind] = File("torn")
        BY <2>1, <2>3 DEF IInv, Shape
      <3>3. CASE files'[kind] = files[kind]
        BY <2>1, <3>3, SameWritten DEF Kept
      <3>4. CASE files'[kind] # files[kind]
        BY <2>1, <3>1, <3>2, <3>4 DEF Written, File
      <3>. QED BY <3>3, <3>4
    <2>. QED BY <1>1, <2>1, <2>2, <2>4 DEF Kept
  <1>. QED BY <1>2, <1>3, <1>4 DEF Next

-----------------------------------------------------------------------------
(* What module Analysis says of the report.  Its module of proofs is about *)
(* the same definitions, named Chain! here; it is one about the first pass *)
(* too, which the command does not make.                                   *)

NoZeroCall(n) == <<>>

Chain == INSTANCE AnalysisProofs WITH ZeroCall <- NoZeroCall

LEMMA ChainAssumptions ==
    Chain!AnalysisAssumption /\ Chain!DeploysAssumption
  <1>1. Chain!DeploysAssumption
    BY DeploysAssumption, Zenon
       DEF Deploy, Chain!Deploy, NewExecutor, Chain!NewExecutor, Fund, Chain!Fund, Created,
           Chain!Created
  <1>2. Chain!AnalysisAssumption
    BY ContractsAssumption
  <1>. QED BY <1>1, <1>2

LEMMA SamePipelineInit == Pipeline!Init <=> Chain!Init
  BY Zenon DEF Pipeline!Init, Chain!Init

LEMMA SameCallsOfChain ==
    /\ \A calls : Pipeline!FootprintOf(calls) = Chain!FootprintOf(calls)
    /\ \A r : Pipeline!Alone(r) = Chain!Alone(r)
    /\ \A w, n, r : Pipeline!ReaderAfter(w, n, r) = Chain!ReaderAfter(w, n, r)
  <1>1. \A e, from, to, input : Pipeline!Call(e, from, to, input) = Chain!Call(e, from, to, input)
    <2>1. \A step, target : Pipeline!OfTarget(step, target) <=> Chain!OfTarget(step, target)
      BY Zenon DEF Pipeline!OfTarget, Chain!OfTarget, Pipeline!Kinds, Chain!Kinds
    <2>2. \A steps, target : Pipeline!Traced(steps, target) = Chain!Traced(steps, target)
      <3>1. ASSUME NEW steps, NEW target
            PROVE  Pipeline!Traced(steps, target) = Chain!Traced(steps, target)
        <4>1. {k \in DOMAIN steps : Pipeline!OfTarget(steps[k], target)}
                 = {k \in DOMAIN steps : Chain!OfTarget(steps[k], target)}
          BY <2>1
        <4>. QED
          BY <4>1, Zenon DEF Pipeline!Traced, Chain!Traced, Pipeline!Kinds, Chain!Kinds
      <3>. QED BY <3>1
    <2>3. \A world, who : Pipeline!Fund(world, who) = Chain!Fund(world, who)
      BY Zenon DEF Pipeline!Fund, Chain!Fund
    <2>4. \A e, funded, receipt, to :
             Pipeline!Returned(e, funded, receipt, to) = Chain!Returned(e, funded, receipt, to)
      BY <2>2, Zenon
      DEF Pipeline!Returned, Chain!Returned, Pipeline!Accesses, Chain!Accesses
    <2>. QED BY <2>3, <2>4, Zenon DEF Pipeline!Call, Chain!Call
  <1>2. Pipeline!Baseline = Chain!Baseline
    BY Zenon
       DEF Pipeline!Baseline, Chain!Baseline, Pipeline!NewExecutor, Chain!NewExecutor,
           Pipeline!Deploy, Chain!Deploy, Pipeline!Created, Chain!Created,
           Pipeline!Fund, Chain!Fund
  <1>3. ASSUME NEW calls
        PROVE  Pipeline!FootprintOf(calls) = Chain!FootprintOf(calls)
    <2>. DEFINE A == {Pipeline!Call(Pipeline!Baseline, Caller, Contract, calls[i]).accesses :
                         i \in DOMAIN calls}
                B == {Chain!Call(Chain!Baseline, Caller, Contract, calls[i]).accesses :
                         i \in DOMAIN calls}
    <2>1. A = B
      BY <1>1, <1>2, Zenon
    <2>. QED BY <2>1, Zenon DEF Pipeline!FootprintOf, Chain!FootprintOf
  <1>4. \A r : Pipeline!Alone(r) = Chain!Alone(r)
    BY <1>1, <1>2, Zenon DEF Pipeline!Alone, Chain!Alone, Pipeline!Outcome, Chain!Outcome
  <1>5. \A w, n : Pipeline!Stacked(w, n) = Chain!Stacked(w, n)
    BY Zenon
       DEF Pipeline!Stacked, Chain!Stacked, Pipeline!Baseline, Chain!Baseline,
           Pipeline!NewExecutor, Chain!NewExecutor, Pipeline!Deploy, Chain!Deploy,
           Pipeline!Created, Chain!Created, Pipeline!Fund, Chain!Fund, Pipeline!Call, Chain!Call,
           Pipeline!Returned, Chain!Returned, Pipeline!Accesses, Chain!Accesses,
           Pipeline!Traced, Chain!Traced, Pipeline!OfTarget, Chain!OfTarget,
           Pipeline!Kinds, Chain!Kinds
  <1>6. \A w, n, r : Pipeline!ReaderAfter(w, n, r) = Chain!ReaderAfter(w, n, r)
    BY <1>1, <1>5, Zenon
    DEF Pipeline!ReaderAfter, Chain!ReaderAfter, Pipeline!Outcome, Chain!Outcome
  <1>. QED BY <1>3, <1>4, <1>6

LEMMA SameImpacts ==
    \A ws, rs, max : Pipeline!ImpactOf(ws, rs, max) = Chain!ImpactOf(ws, rs, max)
  <1>. SUFFICES ASSUME NEW ws, NEW rs, NEW max
                PROVE  Pipeline!ImpactOf(ws, rs, max) = Chain!ImpactOf(ws, rs, max)
    OBVIOUS
  <1>1. Pipeline!ChangingPairs(ws, rs) = Chain!ChangingPairs(ws, rs)
    BY SameCallsOfChain, Zenon DEF Pipeline!ChangingPairs, Chain!ChangingPairs
  <1>2. \A pairs : Pipeline!FirstPair(pairs) = Chain!FirstPair(pairs)
    BY Zenon DEF Pipeline!FirstPair, Chain!FirstPair
  <1>3. ASSUME NEW w, NEW r
        PROVE  Pipeline!ImpactOfPair(w, r, max) = Chain!ImpactOfPair(w, r, max)
    <2>1. \A n : Pipeline!Change(w, n, r) = Chain!Change(w, n, r)
      BY SameCallsOfChain, Zenon
         DEF Pipeline!Change, Chain!Change, Pipeline!ValueOf, Chain!ValueOf
    <2>2. Pipeline!Measured(w, r, max) = Chain!Measured(w, r, max)
      BY SameCallsOfChain, Zenon
         DEF Pipeline!Measured, Chain!Measured, Pipeline!IsValue, Chain!IsValue
    <2>3. [n \in Pipeline!Measured(w, r, max) |-> Pipeline!Magnitude(Pipeline!Change(w, n, r))]
             = [n \in Chain!Measured(w, r, max) |-> Chain!Magnitude(Chain!Change(w, n, r))]
      BY <2>1, <2>2 DEF Pipeline!Magnitude, Chain!Magnitude
    <2>4. \A size : Pipeline!LargestAt(size) = Chain!LargestAt(size)
      BY Zenon DEF Pipeline!LargestAt, Chain!LargestAt
    <2>5. \A b, a : Pipeline!Confirm(b, a, w, r) = Chain!Confirm(b, a, w, r)
      BY Zenon
         DEF Pipeline!Confirm, Chain!Confirm, Pipeline!ValueDelta, Chain!ValueDelta,
             Pipeline!IsValue, Chain!IsValue, Pipeline!ValueOf, Chain!ValueOf,
             Pipeline!NoDelta, Chain!NoDelta
    <2>6. \A imp, best : Pipeline!Amplified(imp, w, r, best) = Chain!Amplified(imp, w, r, best)
      BY <2>1, Zenon DEF Pipeline!Amplified, Chain!Amplified
    <2>7. \A imp : Pipeline!WithAmplification(imp, w, r, max) = Chain!WithAmplification(imp, w, r, max)
      BY <2>3, <2>4, <2>6, Zenon
         DEF Pipeline!WithAmplification, Chain!WithAmplification, Pipeline!NoDelta, Chain!NoDelta
    <2>. QED BY <2>5, <2>7, SameCallsOfChain, Zenon DEF Pipeline!ImpactOfPair, Chain!ImpactOfPair
  <1>4. Pipeline!NoImpact = Chain!NoImpact
    BY Zenon
       DEF Pipeline!NoImpact, Chain!NoImpact, Pipeline!NoOutcome, Chain!NoOutcome,
           Pipeline!NoDelta, Chain!NoDelta, Pipeline!NoCall, Chain!NoCall
  <1>. QED
    <2>1. \A pairs : Pipeline!ImpactOfFirst(ws, rs, pairs, max) = Chain!ImpactOfFirst(ws, rs, pairs, max)
      <3>1. ASSUME NEW pairs
            PROVE  Pipeline!ImpactOfFirst(ws, rs, pairs, max) = Chain!ImpactOfFirst(ws, rs, pairs, max)
        <4>1. Pipeline!ImpactOfPair(ws[Pipeline!FirstPair(pairs)[1]], rs[Pipeline!FirstPair(pairs)[2]], max)
                = Chain!ImpactOfPair(ws[Chain!FirstPair(pairs)[1]], rs[Chain!FirstPair(pairs)[2]], max)
          BY <1>2, <1>3, Zenon
        <4>. QED BY <1>4, <4>1, Zenon DEF Pipeline!ImpactOfFirst, Chain!ImpactOfFirst
      <3>. QED BY <3>1
    <2>. QED BY <1>1, <2>1, Zenon DEF Pipeline!ImpactOf, Chain!ImpactOf

LEMMA SameSorting ==
    \A before : Pipeline!Sorted(before) = Chain!Sorted(before)
  BY Zenon DEF Pipeline!Sorted, Chain!Sorted, Pipeline!Cardinality, Chain!Cardinality

LEMMA SameGraph == \A f : Pipeline!Build(f) = Chain!Build(f)
  <1>1. \A w, r : Pipeline!Shared(w, r) = Chain!Shared(w, r)
    BY Zenon
       DEF Pipeline!Shared, Chain!Shared, Pipeline!Reads, Chain!Reads, Pipeline!Writes,
           Chain!Writes, Pipeline!SlotsOf, Chain!SlotsOf
  <1>2. \A f, p : Pipeline!EdgeOf(f, p) = Chain!EdgeOf(f, p)
    BY <1>1, Zenon DEF Pipeline!EdgeOf, Chain!EdgeOf
  <1>3. ASSUME NEW f
        PROVE  Pipeline!Build(f) = Chain!Build(f)
    <2>1. Pipeline!EdgePairs(f) = Chain!EdgePairs(f)
      BY <1>1, Zenon DEF Pipeline!EdgePairs, Chain!EdgePairs
    <2>2. \A p, q : Pipeline!EdgeLess(f, p, q) <=> Chain!EdgeLess(f, p, q)
      BY <1>2, Zenon DEF Pipeline!EdgeLess, Chain!EdgeLess
    <2>. DEFINE A == [p \in Pipeline!EdgePairs(f) |->
                         {q \in Pipeline!EdgePairs(f) : Pipeline!EdgeLess(f, q, p)}]
                B == [p \in Chain!EdgePairs(f) |->
                         {q \in Chain!EdgePairs(f) : Chain!EdgeLess(f, q, p)}]
    <2>3. A = B
      BY <2>1, <2>2
    <2>4. Pipeline!Sorted(A) = Chain!Sorted(B)
      BY <2>3, SameSorting, Zenon
    <2>. DEFINE P == Pipeline!Sorted(A)
                C == Chain!Sorted(B)
    <2>5. [k \in DOMAIN P |-> Pipeline!EdgeOf(f, P[k])] = [k \in DOMAIN C |-> Chain!EdgeOf(f, C[k])]
      BY <1>2, <2>4, Zenon
    <2>. QED BY <2>5, Zenon DEF Pipeline!Build, Chain!Build
  <1>. QED BY <1>3

LEMMA SameReport ==
    \A n, s, e, i : Pipeline!Reporting!BuildReport(n, s, e, i) = Chain!Reporting!BuildReport(n, s, e, i)
  <1>1. \A i, e : Pipeline!Reporting!ImpactAt(i, e) = Chain!Reporting!ImpactAt(i, e)
    BY Zenon
       DEF Pipeline!Reporting!ImpactAt, Chain!Reporting!ImpactAt, Pipeline!NoImpact, Chain!NoImpact,
           Pipeline!NoOutcome, Chain!NoOutcome, Pipeline!NoDelta, Chain!NoDelta,
           Pipeline!NoCall, Chain!NoCall
  <1>2. \A e, imp : Pipeline!Reporting!FindingOf(e, imp) = Chain!Reporting!FindingOf(e, imp)
    BY Zenon
       DEF Pipeline!Reporting!FindingOf, Chain!Reporting!FindingOf,
           Pipeline!Reporting!Classify, Chain!Reporting!Classify,
           Pipeline!Reporting!EffectOf, Chain!Reporting!EffectOf,
           Pipeline!Reporting!Flips, Chain!Reporting!Flips,
           Pipeline!Reporting!Moves, Chain!Reporting!Moves,
           Pipeline!Reporting!Low, Chain!Reporting!Low,
           Pipeline!Reporting!Medium, Chain!Reporting!Medium,
           Pipeline!Reporting!High, Chain!Reporting!High
  <1>3. \A f : Pipeline!Reporting!Ranked(f) = Chain!Reporting!Ranked(f)
    <2>1. \A f, i, j : Pipeline!Reporting!Precedes(f, i, j) <=> Chain!Reporting!Precedes(f, i, j)
      <3>1. \A g : Pipeline!Reporting!SizeOf(g) = Chain!Reporting!SizeOf(g)
        BY Zenon
           DEF Pipeline!Reporting!SizeOf, Chain!Reporting!SizeOf,
               Pipeline!Reporting!Size, Chain!Reporting!Size
      <3>2. \A g, h : Pipeline!Reporting!BiggestFirst(g, h) <=> Chain!Reporting!BiggestFirst(g, h)
        BY <3>1, Zenon DEF Pipeline!Reporting!BiggestFirst, Chain!Reporting!BiggestFirst
      <3>3. \A g, h : Pipeline!Reporting!RanksBefore(g, h) <=> Chain!Reporting!RanksBefore(g, h)
        BY <3>2, Zenon DEF Pipeline!Reporting!RanksBefore, Chain!Reporting!RanksBefore
      <3>. QED BY <3>3, Zenon DEF Pipeline!Reporting!Precedes, Chain!Reporting!Precedes
    <2>2. \A before : Pipeline!Reporting!Sorted(before) = Chain!Reporting!Sorted(before)
      BY Zenon
         DEF Pipeline!Reporting!Sorted, Chain!Reporting!Sorted,
             Pipeline!Reporting!Cardinality, Chain!Reporting!Cardinality
    <2>3. \A f : [j \in DOMAIN f |-> {i \in DOMAIN f : Pipeline!Reporting!Precedes(f, i, j)}]
                  = [j \in DOMAIN f |-> {i \in DOMAIN f : Chain!Reporting!Precedes(f, i, j)}]
      BY <2>1, Zenon
    <2>. QED
      BY <2>2, <2>3, Zenon DEF Pipeline!Reporting!Ranked, Chain!Reporting!Ranked
  <1>4. \A f, v : Pipeline!Reporting!Scored(f, v) = Chain!Reporting!Scored(f, v)
    BY Zenon
       DEF Pipeline!Reporting!Scored, Chain!Reporting!Scored,
           Pipeline!Reporting!Cardinality, Chain!Reporting!Cardinality
  <1>5. ASSUME NEW e, NEW i
        PROVE  [k \in DOMAIN e |-> Pipeline!Reporting!FindingOf(e[k], Pipeline!Reporting!ImpactAt(i, e[k]))]
                  = [k \in DOMAIN e |-> Chain!Reporting!FindingOf(e[k], Chain!Reporting!ImpactAt(i, e[k]))]
    BY <1>1, <1>2, Zenon
  <1>. QED
    BY <1>3, <1>4, <1>5, Zenon
    DEF Pipeline!Reporting!BuildReport, Chain!Reporting!BuildReport,
        Pipeline!Reporting!Low, Chain!Reporting!Low, Pipeline!Reporting!Medium,
        Chain!Reporting!Medium, Pipeline!Reporting!High, Chain!Reporting!High

LEMMA SamePipelineNext == [Pipeline!Next]_analysis <=> [Chain!Next]_(Chain!vars)
  <1>0. /\ Pipeline!Jobs = Chain!Jobs /\ Pipeline!Skipped = Chain!Skipped
        /\ \A n : Pipeline!VariantsNamed(n) = Chain!VariantsNamed(n)
        /\ \A S : Pipeline!InOrder(S) = Chain!InOrder(S)
    BY Zenon
       DEF Pipeline!Jobs, Chain!Jobs, Pipeline!Skipped, Chain!Skipped, Pipeline!VariantsNamed,
           Chain!VariantsNamed, Pipeline!InOrder, Chain!InOrder, Pipeline!SetToSeqs,
           Chain!SetToSeqs, Pipeline!Cardinality, Chain!Cardinality
  <1>1. Pipeline!Fuzz <=> Chain!Fuzz
    <2>1. \A m : Pipeline!TracedMethod(m) = Chain!TracedMethod(m)
      BY SameCallsOfChain, Zenon DEF Pipeline!TracedMethod, Chain!TracedMethod
    <2>2. \A q : [k \in DOMAIN q |-> Pipeline!TracedMethod(q[k])]
                  = [k \in DOMAIN q |-> Chain!TracedMethod(q[k])]
      BY <2>1, Zenon
    <2>. QED BY <1>0, <2>2, Zenon DEF Pipeline!Fuzz, Chain!Fuzz
  <1>2. Pipeline!BuildGraph <=> Chain!BuildGraph
    BY SameGraph, Zenon DEF Pipeline!BuildGraph, Chain!BuildGraph
  <1>3. Pipeline!Evaluate <=> Chain!Evaluate
    <2>1. \A e : Pipeline!EvaluatedEdge(e) = Chain!EvaluatedEdge(e)
      BY <1>0, SameImpacts, Zenon DEF Pipeline!EvaluatedEdge, Chain!EvaluatedEdge
    <2>2. [k \in DOMAIN edges |-> Pipeline!EvaluatedEdge(edges[k])]
             = [k \in DOMAIN edges |-> Chain!EvaluatedEdge(edges[k])]
      BY <2>1, Zenon
    <2>. QED BY <2>2, Zenon DEF Pipeline!Evaluate, Chain!Evaluate
  <1>4. Pipeline!FailPool <=> Chain!FailPool
    BY <1>0, Zenon DEF Pipeline!FailPool, Chain!FailPool
  <1>5. Pipeline!MakeReport <=> Chain!MakeReport
    BY <1>0, SameReport, Zenon DEF Pipeline!MakeReport, Chain!MakeReport
  <1>. QED
    BY <1>1, <1>2, <1>3, <1>4, <1>5, Zenon
    DEF Pipeline!Next, Chain!Next, Chain!vars, analysis

LEMMA SamePipelineTypes == Pipeline!TypeOK <=> Chain!TypeOK
  BY Zenon
     DEF Pipeline!TypeOK, Chain!TypeOK, Pipeline!Jobs, Chain!Jobs, Pipeline!Cardinality,
         Chain!Cardinality

\* The command goes through the analysis, and through nothing else.
LEMMA StepsOfTheChain == [Next]_vars => [Pipeline!Next]_analysis
  BY DEF Next, Parse, Load, Resolve, Analyze, Analyzed, PrintReport, WriteFile, End, Exited, vars

LEMMA RunsTheChain == Spec => Chain!Init /\ [][Chain!Next]_(Chain!vars)
  <1>1. Init => Pipeline!Init
    BY DEF Init
  <1>. QED BY <1>1, SamePipelineInit, SamePipelineNext, StepsOfTheChain, PTL DEF Spec

(***************************************************************************)
(* TypeOK of the command: the analysis runs only at its place, the exit    *)
(* code comes at the end, a file is new exactly when it holds tests, and   *)
(* the analysis has its own types throughout.                              *)
(***************************************************************************)
THEOREM CommandTypeCorrect == Spec => []TypeOK
  <1>1. IInv /\ Kept /\ Chain!TypeOK => TypeOK
    <2>. SUFFICES ASSUME IInv, Kept, Chain!TypeOK PROVE TypeOK
      OBVIOUS
    <2>1. Pipeline!TypeOK
      BY SamePipelineTypes
    <2>2. \A kind \in Kind : /\ files[kind].state \in {"none", "old", "torn", "new"}
                             /\ files[kind].state = "new" <=> files[kind].tests # <<>>
      BY DEF Kept, Written
    <2>. QED BY <2>1, <2>2 DEF IInv, Stages, Kept, TypeOK
  <1>2. Chain!Init /\ [][Chain!Next]_(Chain!vars) => []Chain!TypeOK
    BY ChainAssumptions, Chain!AnalysisTypeCorrect DEF Chain!Spec
  <1>. QED BY <1>1, <1>2, InvAlways, InvInit, InvNext, KeptInit, KeptNext, RunsTheChain, PTL DEF Spec

-----------------------------------------------------------------------------
(* The tests.                                                              *)

LEMMA SameCalls ==
    /\ Chain!OutputsAreWords <=> OutputsAreWords
    /\ \A imp : Chain!Showing(imp) <=> Showing(imp)
  <1>1. \A e, from, to, input : Call(e, from, to, input) = Chain!Call(e, from, to, input)
    <2>1. \A step, target : OfTarget(step, target) <=> Chain!OfTarget(step, target)
      BY Zenon DEF OfTarget, Chain!OfTarget, Kinds, Chain!Kinds
    <2>2. \A steps, target : Traced(steps, target) = Chain!Traced(steps, target)
      <3>1. ASSUME NEW steps, NEW target
            PROVE  Traced(steps, target) = Chain!Traced(steps, target)
        <4>1. {k \in DOMAIN steps : OfTarget(steps[k], target)}
                 = {k \in DOMAIN steps : Chain!OfTarget(steps[k], target)}
          BY <2>1
        <4>. QED
          BY <4>1, Zenon DEF Traced, Chain!Traced, Kinds, Chain!Kinds
      <3>. QED BY <3>1
    <2>3. \A world, who : Fund(world, who) = Chain!Fund(world, who)
      BY Zenon DEF Fund, Chain!Fund
    <2>4. \A e, funded, receipt, to :
             Returned(e, funded, receipt, to) = Chain!Returned(e, funded, receipt, to)
      BY <2>2, Zenon
      DEF Returned, Chain!Returned, Accesses, Chain!Accesses
    <2>. QED BY <2>3, <2>4, Zenon DEF Call, Chain!Call
  <1>2. Baseline = Chain!Baseline
    BY Zenon
       DEF Baseline, Chain!Baseline, NewExecutor, Chain!NewExecutor,
           Deploy, Chain!Deploy, Created, Chain!Created,
           Fund, Chain!Fund
  <1>3. \A r : Alone(r) = Chain!Alone(r)
    BY <1>1, <1>2, Zenon DEF Alone, Chain!Alone, Outcome, Chain!Outcome
  <1>4. \A w, n : Stacked(w, n) = Chain!Stacked(w, n)
    BY Zenon
       DEF Stacked, Chain!Stacked, Baseline, Chain!Baseline,
           NewExecutor, Chain!NewExecutor, Deploy, Chain!Deploy,
           Created, Chain!Created, Fund, Chain!Fund, Call, Chain!Call,
           Returned, Chain!Returned, Accesses, Chain!Accesses,
           Traced, Chain!Traced, OfTarget, Chain!OfTarget,
           Kinds, Chain!Kinds
  <1>5. \A w, n, r : ReaderAfter(w, n, r) = Chain!ReaderAfter(w, n, r)
    BY <1>1, <1>4, Zenon
    DEF ReaderAfter, Chain!ReaderAfter, Outcome, Chain!Outcome
  <1>6. Chain!OutputsAreWords <=> OutputsAreWords
    BY Zenon DEF Chain!OutputsAreWords, OutputsAreWords
  <1>7. ASSUME NEW imp PROVE Chain!Showing(imp) <=> Showing(imp)
    BY <1>3, <1>5, Zenon DEF Chain!Showing, Showing
  <1>. QED BY <1>6, <1>7

\* What a test takes from its finding.
MadeOf(test, f, kind) ==
    /\ test.kind = kind /\ test.args = ConstructorArgs(kind)
    /\ test.writerCall = f.impact.writerCall[1] /\ test.readerCall = f.impact.readerCall[1]

\* Of findings whose confirmed ones have both calls, Generate takes these, in
\* their order.
Confirmed(findings) == {k \in DOMAIN findings : findings[k].impact.confirmed}

ConfirmedHaveCalls(findings) ==
    /\ Len(findings) \in Nat /\ DOMAIN findings = 1..Len(findings)
    /\ \A k \in Confirmed(findings) : Showing(findings[k].impact)

Choosing(chosen, findings) ==
    LET m == Cardinality(Confirmed(findings))
    IN  /\ m \in Nat /\ m <= Len(findings) /\ DOMAIN chosen = 1..m
        /\ \E order \in [1..m -> Confirmed(findings)] :
              /\ \A i, j \in 1..m : order[i] = order[j] => i = j
              /\ \A n \in 1..m : chosen[n] = findings[order[n]]
        /\ \A k \in Confirmed(findings) :
              LET at == Cardinality({l \in Confirmed(findings) : l <= k})
              IN  at \in 1..m /\ chosen[at] = findings[k]

LEMMA ChosenLemma ==
    ASSUME NEW findings, NEW kind, ConfirmedHaveCalls(findings)
    PROVE  \E chosen : Choosing(chosen, findings) /\ Generate(findings, kind) = TestsOf(chosen, kind)
  <1>. DEFINE confirmed == Confirmed(findings)
              order     == Sorted([k \in confirmed |-> {l \in confirmed : l < k}])
              m         == Cardinality(confirmed)
              chosen    == [n \in DOMAIN order |-> findings[order[n]]]
  <1>1. \A k \in DOMAIN findings : Testable(findings[k]) <=> findings[k].impact.confirmed
    BY DEF Testable, ConfirmedHaveCalls, Confirmed, Showing, NoCall
  <1>2. Reproducible(findings) = confirmed
    BY <1>1 DEF Reproducible, Confirmed
  <1>3. Generate(findings, kind) = TestsOf(chosen, kind)
    BY <1>2 DEF Generate
  <1>4. confirmed \in SUBSET (1..Len(findings)) /\ Len(findings) \in Nat
    BY DEF ConfirmedHaveCalls, Confirmed
  <1>. HIDE DEF confirmed
  <1>5. /\ m \in Nat /\ order \in [1..m -> confirmed]
        /\ \A i, j \in 1..m : order[i] = order[j] => i = j
        /\ \A k \in confirmed : LET at == Cardinality({l \in confirmed : l <= k})
                                IN  at \in 1..m /\ order[at] = k
    BY <1>4, SelectedLemma
  <1>6. m <= Len(findings)
    <2>1. IsFiniteSet(1..Len(findings)) /\ Cardinality(1..Len(findings)) = Len(findings)
      BY <1>4, IntervalLemma
    <2>. QED BY <1>4, <2>1, FS_Subset
  <1>. HIDE DEF order
  <1>7. DOMAIN chosen = 1..m /\ \A n \in 1..m : chosen[n] = findings[order[n]]
    BY <1>5
  <1>. HIDE DEF chosen
  <1>8. Choosing(chosen, findings)
    BY <1>5, <1>6, <1>7 DEF Choosing, confirmed
  <1>. QED BY <1>3, <1>8

\* The test of each is at the place that counts them, and there is no other.
LEMMA GenerateLemma ==
    ASSUME NEW findings, NEW kind, ConfirmedHaveCalls(findings)
    PROVE  LET tests == Generate(findings, kind)
           IN  /\ Len(tests) = Cardinality(Confirmed(findings))
               /\ \A k \in Confirmed(findings) :
                     MadeOf(tests[Cardinality({l \in Confirmed(findings) : l <= k})], findings[k], kind)
               /\ \A test \in ToSet(tests) :
                     \E k \in Confirmed(findings) : MadeOf(test, findings[k], kind)
  <1>. DEFINE confirmed == Confirmed(findings)
              m         == Cardinality(confirmed)
              tests     == Generate(findings, kind)
  <1>1. PICK chosen : Choosing(chosen, findings) /\ tests = TestsOf(chosen, kind)
    BY ChosenLemma
  <1>2. /\ m \in Nat /\ DOMAIN chosen = 1..m
        /\ \A n \in 1..m : \E k \in confirmed : chosen[n] = findings[k]
        /\ \A k \in confirmed :
              LET at == Cardinality({l \in confirmed : l <= k})
              IN  at \in 1..m /\ chosen[at] = findings[k]
    BY <1>1 DEF Choosing
  <1>3. tests = [n \in 1..m |-> TestOf(chosen, n, kind)]
    BY <1>1, <1>2 DEF TestsOf
  <1>. HIDE DEF m, tests, confirmed
  <1>4. Len(tests) = m
    BY <1>2, <1>3
  <1>5. ASSUME NEW n \in 1..m, NEW k, chosen[n] = findings[k] PROVE MadeOf(tests[n], findings[k], kind)
    <2>1. tests[n] = TestOf(chosen, n, kind)
      BY <1>3
    <2>. QED BY <1>5, <2>1 DEF TestOf, MadeOf
  <1>6. \A k \in confirmed : MadeOf(tests[Cardinality({l \in confirmed : l <= k})], findings[k], kind)
    BY <1>2, <1>5
  <1>7. ASSUME NEW test \in ToSet(tests)
        PROVE  \E k \in confirmed : MadeOf(test, findings[k], kind)
    <2>1. PICK n \in 1..m : test = tests[n]
      BY <1>3 DEF ToSet
    <2>. QED BY <1>2, <1>5, <2>1
  <1>. QED BY <1>4, <1>6, <1>7 DEF m, tests, confirmed

(***************************************************************************)
(* Of a contract that returns words, a file that was written has a test    *)
(* for every confirmed finding of the report, in the report's order, with  *)
(* that finding's calls, and these calls make the change they are to show. *)
(***************************************************************************)
THEOREM EveryFindingIsTested ==
    ASSUME OutputsAreWords
    PROVE  Spec => []TestPerFinding
  <1>1. IInv /\ Kept /\ Chain!CallsShow => TestPerFinding
    <2>. SUFFICES ASSUME IInv, Kept, Chain!CallsShow, NEW kind \in Kind, files[kind].state = "new"
                  PROVE  LET confirmed == {k \in DOMAIN report.findings :
                                              report.findings[k].impact.confirmed}
                             tests     == files[kind].tests
                         IN  /\ Len(tests) = Cardinality(confirmed)
                             /\ \A k \in confirmed :
                                   LET test == tests[Cardinality({l \in confirmed : l <= k})]
                                       f    == report.findings[k]
                                   IN  /\ test.writerCall = f.impact.writerCall[1]
                                       /\ test.readerCall = f.impact.readerCall[1]
                                       /\ Alone(test.readerCall)
                                             # ReaderAfter(test.writerCall, 1, test.readerCall)
      BY DEF TestPerFinding
    <2>. DEFINE findings  == report.findings
                confirmed == {k \in DOMAIN findings : findings[k].impact.confirmed}
                tests     == Generate(findings, kind)
                At(k)     == Cardinality({l \in confirmed : l <= k})
    <2>1. files[kind].tests = tests /\ stage = "done"
      BY DEF Kept, Written, Tests
    <2>2. ConfirmedHaveCalls(findings)
      BY <2>1, SameCalls DEF Chain!CallsShow, Chain!Findings, ConfirmedHaveCalls, Confirmed
    <2>. HIDE DEF findings
    <2>3. /\ Len(tests) = Cardinality(confirmed)
          /\ \A k \in confirmed :
                /\ tests[At(k)].writerCall = findings[k].impact.writerCall[1]
                /\ tests[At(k)].readerCall = findings[k].impact.readerCall[1]
      BY <2>2, GenerateLemma DEF Confirmed, MadeOf
    <2>. HIDE DEF tests, At
    <2>4. \A k \in confirmed :
             Alone(tests[At(k)].readerCall)
                # ReaderAfter(tests[At(k)].writerCall, 1, tests[At(k)].readerCall)
      <3>. SUFFICES ASSUME NEW k \in confirmed
                    PROVE  Alone(tests[At(k)].readerCall)
                              # ReaderAfter(tests[At(k)].writerCall, 1, tests[At(k)].readerCall)
        OBVIOUS
      <3>1. PICK w, r : /\ findings[k].impact.writerCall = <<w>>
                        /\ findings[k].impact.readerCall = <<r>>
                        /\ Alone(r) # ReaderAfter(w, 1, r)
        BY <2>2 DEF ConfirmedHaveCalls, Confirmed, Showing
      <3>2. tests[At(k)].writerCall = w /\ tests[At(k)].readerCall = r
        BY <2>3, <3>1
      <3>. QED BY <3>1, <3>2
    <2>. QED BY <2>1, <2>3, <2>4 DEF findings, tests, At
  <1>2. Chain!Init /\ [][Chain!Next]_(Chain!vars) => []Chain!CallsShow
    BY SameCalls, ChainAssumptions, Chain!FindingsShow DEF Chain!Spec
  <1>. QED
    BY <1>1, <1>2, InvAlways, InvInit, InvNext, KeptInit, KeptNext, RunsTheChain, PTL DEF Spec

-----------------------------------------------------------------------------
(* What the tests do when they are run.                                    *)

\* Every test makes two calls of different methods that the analysis saw differ.
TestsAreOwn ==
    \A kind \in Kind : \A test \in ToSet(files[kind].tests) :
        /\ test.kind = kind /\ test.args = ConstructorArgs(kind)
        /\ Alone(test.readerCall) # ReaderAfter(test.writerCall, 1, test.readerCall)
        /\ \E i, j \in DOMAIN methods : i # j /\
              \E a \in DOMAIN methods[i].variants, b \in DOMAIN methods[j].variants :
                 test.writerCall = methods[i].variants[a] /\ test.readerCall = methods[j].variants[b]

LEMMA OwnTests ==
    ASSUME OutputsAreWords
    PROVE  Spec => [](TestsAreOwn /\ methods \in Contracts)
  <1>1. IInv /\ Kept /\ Chain!CallsShow => TestsAreOwn
    <2>. SUFFICES ASSUME IInv, Kept, Chain!CallsShow,
                         NEW kind \in Kind, NEW test \in ToSet(files[kind].tests)
                  PROVE  /\ test.kind = kind /\ test.args = ConstructorArgs(kind)
                         /\ Alone(test.readerCall) # ReaderAfter(test.writerCall, 1, test.readerCall)
                         /\ \E i, j \in DOMAIN methods : i # j /\
                               \E a \in DOMAIN methods[i].variants, b \in DOMAIN methods[j].variants :
                                  /\ test.writerCall = methods[i].variants[a]
                                  /\ test.readerCall = methods[j].variants[b]
      BY DEF TestsAreOwn
    <2>. DEFINE findings == report.findings
    <2>1. files[kind].tests # <<>>
      BY DEF ToSet
    <2>2. files[kind].tests = Generate(findings, kind) /\ stage = "done"
      BY <2>1 DEF Kept, Written, Tests
    <2>3. /\ ConfirmedHaveCalls(findings)
          /\ \A k \in Confirmed(findings) : Chain!CarriesOwn(findings[k])
      BY <2>2, SameCalls DEF Chain!CallsShow, Chain!Findings, ConfirmedHaveCalls, Confirmed
    <2>. HIDE DEF findings
    <2>4. PICK k \in Confirmed(findings) : MadeOf(test, findings[k], kind)
      BY <2>2, <2>3, GenerateLemma
    <2>. DEFINE imp == findings[k].impact
    <2>5. PICK w, r : /\ imp.writerCall = <<w>> /\ imp.readerCall = <<r>>
                      /\ Alone(r) # ReaderAfter(w, 1, r)
      BY <2>3, <2>4 DEF ConfirmedHaveCalls, Showing
    <2>6. test.writerCall = w /\ test.readerCall = r
      BY <2>4, <2>5 DEF MadeOf
    <2>7. PICK i, j \in DOMAIN methods :
             i # j /\ Chain!Carries(imp, methods[i].variants, methods[j].variants)
      BY <2>3, <2>4 DEF Chain!CarriesOwn
    <2>8. PICK a \in DOMAIN methods[i].variants, b \in DOMAIN methods[j].variants :
             imp.writerCall = <<methods[i].variants[a]>> /\ imp.readerCall = <<methods[j].variants[b]>>
      BY <2>7 DEF Chain!Carries
    <2>9. w = methods[i].variants[a] /\ r = methods[j].variants[b]
      BY <2>5, <2>8
    <2>10. test.kind = kind /\ test.args = ConstructorArgs(kind)
      BY <2>4 DEF MadeOf
    <2>. QED BY <2>5, <2>6, <2>7, <2>9, <2>10
  <1>2. Chain!Init /\ [][Chain!Next]_(Chain!vars) => []Chain!CallsShow
    BY SameCalls, ChainAssumptions, Chain!FindingsShow DEF Chain!Spec
  <1>3. TypeOK => methods \in Contracts
    BY DEF TypeOK, Pipeline!TypeOK
  <1>. QED
    BY <1>1, <1>2, <1>3, CommandTypeCorrect, InvAlways, InvInit, InvNext, KeptInit, KeptNext,
       RunsTheChain, PTL DEF Spec

\* Two deployments side by side show of two calls what the analysis of the code
\* would see.
LEMMA SidesAgree ==
    ASSUME NEW code, NEW inputs, SelfContained(code, inputs), NEW test,
           test.writerCall \in inputs, test.readerCall \in inputs
    PROVE  Differs(SecondOf(code).world, test)
              <=> Confirms(code, test.writerCall, test.readerCall)
  <1>. DEFINE w == test.writerCall
              r == test.readerCall
              alone    == Analysed(code)
              after    == AnalysedAfter(code, w)
              baseline == InBaseline(code)
              attacked == InAttacked(code, r)
              second   == InAttackedAfter(code, w, r)
  <1>1. {alone, after, baseline, attacked, second} \subseteq Places(code, inputs)
    BY DEF Places
  <1>2. /\ Keeps(baseline) = Keeps(alone) /\ Keeps(attacked) = Keeps(alone)
        /\ Keeps(after) = Keeps(AfterCall(alone, w))
        /\ \A p, q \in Places(code, inputs) : Keeps(p) = Keeps(q) =>
              \A input \in inputs : /\ Shows(p, input) = Shows(q, input)
                                    /\ Keeps(AfterCall(p, input)) = Keeps(AfterCall(q, input))
    BY DEF SelfContained
  <1>3. second = AfterCall(attacked, w)
    BY DEF InAttackedAfter
  <1>4. Differs(SecondOf(code).world, test) <=> Shows(baseline, r) # Shows(second, r)
    <2>1. baseline = [world |-> SecondOf(code).world, at |-> BaselineAt]
      BY DEF InBaseline, Place
    <2>2. attacked = [world |-> Left(baseline.world, Run(baseline.world, Caller, BaselineAt, r)),
                      at |-> AttackedAt]
      BY <2>1 DEF InAttacked, AfterCall, Place, InBaseline
    <2>3. second = [world |-> Left(attacked.world, Run(attacked.world, Caller, AttackedAt, w)),
                    at |-> AttackedAt]
      BY <1>3, <2>2 DEF AfterCall
    <2>. HIDE DEF baseline, attacked, second
    <2>. QED BY <2>1, <2>2, <2>3 DEF Differs, Shows
  <1>. HIDE DEF alone, after, baseline, attacked, second
  <1>5. w \in inputs /\ r \in inputs
    OBVIOUS
  <1>. HIDE DEF w, r
  <1>6. Shows(baseline, r) = Shows(alone, r)
    BY <1>1, <1>2, <1>5
  <1>7. Keeps(second) = Keeps(after)
    BY <1>1, <1>2, <1>3, <1>5
  <1>8. Shows(second, r) = Shows(after, r)
    BY <1>1, <1>2, <1>5, <1>7
  <1>. QED BY <1>4, <1>6, <1>8 DEF Confirms, alone, after, w, r

\* So a test passes as the analysis of what it deploys would say.
LEMMA PassesAsAnalysed ==
    ASSUME NEW test, NEW source, NEW inputs, SelfContained(CreationCode(test, source), inputs),
           test.writerCall \in inputs, test.readerCall \in inputs
    PROVE  Passes(test, source) <=>
              (Confirms(CreationCode(test, source), test.writerCall, test.readerCall)
                 <=> test.kind = Proof)
  <1>. DEFINE code == CreationCode(test, source)
              differs == Differs(SecondOf(code).world, test)
  <1>1. differs <=> Confirms(code, test.writerCall, test.readerCall)
    BY SidesAgree
  <1>2. FirstOf(code).ok /\ SecondOf(code).ok
    BY DEF SelfContained
  <1>3. Passes(test, source) <=>
           FirstOf(code).ok /\ SecondOf(code).ok /\ differs = (test.kind = Proof)
    BY Zenon DEF Passes, FirstOf, SecondOf
  <1>4. differs \in BOOLEAN
    BY DEF Differs
  <1>. HIDE DEF differs, code
  <1>. QED BY <1>1, <1>2, <1>3, <1>4 DEF code

\* The analysis that was made is that of the bytecode.
LEMMA AnalysisConfirms ==
    ASSUME NEW w, NEW r
    PROVE  Confirms(Bytecode, w, r) <=> Alone(r) # ReaderAfter(w, 1, r)
  <1>. DEFINE funded  == Fund(Baseline.world, Caller)
              written == Run(funded, Caller, Contract, w)
              again   == Fund(Left(funded, written), Caller)
  <1>1. Analysed(Bytecode) = [world |-> funded, at |-> Contract]
    BY DEF Analysed, Credited, Place, Baseline
  <1>2. AnalysedAfter(Bytecode, w) = [world |-> again, at |-> Contract]
    <2>1. AfterCall([world |-> funded, at |-> Contract], w)
             = [world |-> Left(funded, written), at |-> Contract]
      <3>. HIDE DEF funded
      <3>. QED BY DEF AfterCall
    <2>2. ASSUME NEW world
          PROVE  Credited([world |-> world, at |-> Contract])
                    = [world |-> Fund(world, Caller), at |-> Contract]
      BY DEF Credited
    <2>. HIDE DEF funded, written
    <2>. QED BY <1>1, <2>1, <2>2 DEF AnalysedAfter
  <1>3. Alone(r) = Seen(Run(funded, Caller, Contract, r))
    BY DEF Alone, Outcome, Call, Returned, Seen
  <1>4. Call(Baseline, Caller, Contract, w).exec.world = Left(funded, written)
    <2>1. Baseline = [world |-> Baseline.world, journal |-> <<>>]
      BY BaselineShape
    <2>. QED BY <2>1 DEF Call, Returned, Left
  <1>5. ReaderAfter(w, 1, r) = Seen(Run(again, Caller, Contract, r))
    BY <1>4, StackedOnce DEF ReaderAfter, Outcome, Call, Returned, Seen
  <1>. HIDE DEF funded, again
  <1>. QED BY <1>1, <1>2, <1>3, <1>5 DEF Confirms, Shows

\* The calls of two methods are calldata.
LEMMA OwnCalldata ==
    ASSUME methods \in Contracts, NEW i \in DOMAIN methods, NEW a \in DOMAIN methods[i].variants
    PROVE  methods[i].variants[a] \in Pipeline!Calldata
  BY DEF Pipeline!Calldata

(***************************************************************************)
(* gentest.go:27-32: if the bytecode is self-contained and returns words,  *)
(* every proof that was written passes on the contract as it was analysed, *)
(* and every guard fails, whatever the contract does and whatever else the *)
(* invocation asked for.                                                   *)
(***************************************************************************)
THEOREM TestsShowTheIssue ==
    ASSUME OutputsAreWords, Contained(Bytecode.init)
    PROVE  Spec => []TestsReplay
  <1>1. TestsAreOwn /\ methods \in Contracts => TestsReplay
    <2>. SUFFICES ASSUME TestsAreOwn, methods \in Contracts,
                         NEW kind \in Kind, NEW test \in ToSet(files[kind].tests)
                  PROVE  Passes(test, Bytecode.init) <=> kind = Proof
      BY DEF TestsReplay
    <2>1. /\ test.kind = kind /\ test.args = ConstructorArgs(kind)
          /\ Alone(test.readerCall) # ReaderAfter(test.writerCall, 1, test.readerCall)
      BY DEF TestsAreOwn
    <2>2. CreationCode(test, Bytecode.init) = Bytecode
      BY <2>1, BytecodeAssumption DEF CreationCode, ConstructorArgs, Kind
    <2>3. test.writerCall \in Pipeline!Calldata /\ test.readerCall \in Pipeline!Calldata
      BY OwnCalldata DEF TestsAreOwn
    <2>4. SelfContained(Bytecode, Pipeline!Calldata)
      BY BytecodeAssumption DEF Contained
    <2>5. Confirms(Bytecode, test.writerCall, test.readerCall)
      BY <2>1, AnalysisConfirms
    <2>. QED BY <2>1, <2>2, <2>3, <2>4, <2>5, PassesAsAnalysed
  <1>. QED BY <1>1, OwnTests, PTL

(***************************************************************************)
(* gentest.go:31-32: every guard that was written passes on a source that  *)
(* takes the same constructor arguments, is self-contained, and in which   *)
(* the issues are fixed: the analysis of it would confirm nothing.         *)
(***************************************************************************)
THEOREM GuardsPassOnceFixed ==
    ASSUME OutputsAreWords, Contained("fixed"), FixedIn("fixed")
    PROVE  Spec => []GuardsFollowTheFix
  <1>. DEFINE code == [init |-> "fixed", args |-> Bytecode.args]
  <1>1. TestsAreOwn /\ methods \in Contracts => GuardsFollowTheFix
    <2>. SUFFICES ASSUME TestsAreOwn, methods \in Contracts, NEW test \in ToSet(files[Guard].tests)
                  PROVE  Passes(test, "fixed")
      BY DEF GuardsFollowTheFix
    <2>1. test.kind = Guard /\ test.args = Bytecode.args
      BY KindLemma DEF TestsAreOwn, ConstructorArgs
    <2>2. CreationCode(test, "fixed") = code /\ test.kind # Proof
      BY <2>1, KindLemma DEF CreationCode
    <2>3. PICK i, j \in DOMAIN methods : i # j /\
             \E a \in DOMAIN methods[i].variants, b \in DOMAIN methods[j].variants :
                test.writerCall = methods[i].variants[a] /\ test.readerCall = methods[j].variants[b]
      BY KindLemma DEF TestsAreOwn
    <2>4. PICK a \in DOMAIN methods[i].variants, b \in DOMAIN methods[j].variants :
             test.writerCall = methods[i].variants[a] /\ test.readerCall = methods[j].variants[b]
      BY <2>3
    <2>5. test.writerCall \in Pipeline!Calldata /\ test.readerCall \in Pipeline!Calldata
      BY <2>4, OwnCalldata
    <2>6. ~Confirms(code, test.writerCall, test.readerCall)
      BY <2>3, <2>4 DEF FixedIn
    <2>7. SelfContained(code, Pipeline!Calldata)
      BY DEF Contained
    <2>. QED BY <2>2, <2>5, <2>6, <2>7, PassesAsAnalysed
  <1>. QED BY <1>1, OwnTests, PTL

-----------------------------------------------------------------------------
(* The names of the tests.  An identifier is a sequence of words, whatever *)
(* the signature: identifier is a fold, so this takes an induction over the*)
(* places it has come to.                                                  *)

\* identifier goes through the tokens from left to right; F[s] is what it has
\* made of those at the places s.
Underscore == "_"
Fn == "fn"
Begun == [text |-> <<>>, lastUnderscore |-> FALSE]
Partial(S) == [text : Seq(S), lastUnderscore : BOOLEAN]

Folding(F, tokens, k) ==
    F = [s \in SUBSET (1..k) |->
            IF s = {} THEN Begun ELSE AddToken(F[s \ {Max(s)}], tokens[Max(s)])]

LEMMA MaxLemma ==
    ASSUME NEW k \in Nat, NEW s \in SUBSET (1..(k + 1)), k + 1 \in s
    PROVE  Max(s) = k + 1
  <1>1. \A y \in s : y \in Int /\ k + 1 >= y
    OBVIOUS
  <1>2. \A x \in s : (\A y \in s : x >= y) => x = k + 1
    BY <1>1
  <1>. QED BY <1>1, <1>2, Zenon DEF Max

LEMMA ExtremesIn ==
    ASSUME NEW n \in Nat, NEW s \in SUBSET (1..n), s # {}
    PROVE  Min(s) \in s /\ Max(s) \in s
  <1>1. \E m \in s : \A y \in s : m =< y
    <2>1. s \in SUBSET Nat
      OBVIOUS
    <2>. QED BY <2>1, LeastNatural
  <1>2. \E m \in s : \A y \in s : m >= y
    <2>. DEFINE T == {n - y : y \in s}
    <2>1. T \in SUBSET Nat /\ T # {}
      <3>1. \A y \in s : n - y \in Nat
        OBVIOUS
      <3>. QED BY <3>1
    <2>. HIDE DEF T
    <2>2. PICK d \in T : \A e \in T : d <= e
      BY <2>1, LeastNatural
    <2>3. PICK m \in s : d = n - m
      BY DEF T
    <2>4. \A y \in s : n - y \in T
      BY DEF T
    <2>5. \A y \in s : n - m <= n - y
      BY <2>2, <2>3, <2>4
    <2>. QED BY <2>5
  <1>3. Min(s) \in s
    BY <1>1, Zenon DEF Min
  <1>4. Max(s) \in s
    BY <1>2, Zenon DEF Max
  <1>. QED BY <1>3, <1>4

LEMMA FoldingExists ==
    ASSUME NEW tokens, NEW n \in Nat
    PROVE  \E F : Folding(F, tokens, n)
  <1>. DEFINE S == {k \in Nat : \E F : Folding(F, tokens, k)}
  <1>1. 0 \in S
    <2>1. 1..0 = {} /\ SUBSET {} = {{}}
      OBVIOUS
    <2>2. Folding([s \in {{}} |-> Begun], tokens, 0)
      BY <2>1 DEF Folding
    <2>. QED BY <2>2
  <1>2. ASSUME NEW k \in S PROVE k + 1 \in S
    <2>1. PICK F : Folding(F, tokens, k)
      OBVIOUS
    <2>. DEFINE G == [s \in SUBSET (1..(k + 1)) |->
                         IF k + 1 \in s THEN AddToken(F[s \ {k + 1}], tokens[k + 1]) ELSE F[s]]
                H == [s \in SUBSET (1..(k + 1)) |->
                         IF s = {} THEN Begun ELSE AddToken(G[s \ {Max(s)}], tokens[Max(s)])]
    <2>2. ASSUME NEW s \in SUBSET (1..(k + 1)) PROVE G[s] = H[s]
      <3>1. CASE k + 1 \in s
        <4>1. Max(s) = k + 1
          BY <3>1, MaxLemma
        <4>2. s \ {k + 1} \in SUBSET (1..(k + 1)) /\ k + 1 \notin s \ {k + 1}
          OBVIOUS
        <4>3. G[s \ {k + 1}] = F[s \ {k + 1}]
          BY <4>2
        <4>4. G[s] = AddToken(F[s \ {k + 1}], tokens[k + 1])
          BY <3>1
        <4>5. H[s] = AddToken(G[s \ {k + 1}], tokens[k + 1])
          <5>. HIDE DEF G
          <5>. QED BY <3>1, <4>1
        <4>. QED BY <4>3, <4>4, <4>5
      <3>2. CASE k + 1 \notin s
        <4>1. s \in SUBSET (1..k)
          BY <3>2
        <4>2. F[s] = IF s = {} THEN Begun ELSE AddToken(F[s \ {Max(s)}], tokens[Max(s)])
          BY <2>1, <4>1 DEF Folding
        <4>3. s \ {Max(s)} \in SUBSET (1..(k + 1)) /\ k + 1 \notin s \ {Max(s)}
          BY <3>2
        <4>4. G[s] = F[s] /\ G[s \ {Max(s)}] = F[s \ {Max(s)}]
          BY <3>2, <4>3
        <4>5. H[s] = IF s = {} THEN Begun ELSE AddToken(G[s \ {Max(s)}], tokens[Max(s)])
          <5>. HIDE DEF G
          <5>. QED OBVIOUS
        <4>. QED BY <4>2, <4>4, <4>5
      <3>. QED BY <3>1, <3>2
    <2>3. DOMAIN G = SUBSET (1..(k + 1)) /\ DOMAIN H = SUBSET (1..(k + 1))
      <3>. HIDE DEF S
      <3>. QED OBVIOUS
    <2>4. G = H
      <3>1. G = [s \in SUBSET (1..(k + 1)) |-> G[s]] /\ H = [s \in SUBSET (1..(k + 1)) |-> H[s]]
        OBVIOUS
      <3>. HIDE DEF G, H
      <3>. QED BY <2>2, <3>1
    <2>. HIDE DEF G
    <2>5. Folding(G, tokens, k + 1)
      BY <2>4 DEF Folding
    <2>. QED BY <2>5
  <1>3. S = Nat
    <2>1. S \in SUBSET Nat
      OBVIOUS
    <2>. HIDE DEF S
    <2>. QED BY <1>1, <1>2, <2>1, SetInduction
  <1>. QED BY <1>3

LEMMA AddTokenType ==
    ASSUME NEW W, Underscore \in W, NEW acc \in Partial(W), NEW t \in W
    PROVE  AddToken(acc, t) \in Partial(W)
  <1>. DEFINE text == acc.text
  <1>1. text \in Seq(W)
    BY DEF Partial
  <1>. HIDE DEF text
  <1>3. \A u \in W : Append(text, u) \in Seq(W)
    BY <1>1
  <1>4. \A s \in Seq(W), b \in BOOLEAN : [text |-> s, lastUnderscore |-> b] \in Partial(W)
    BY DEF Partial
  <1>5. \/ AddToken(acc, t) = acc
        \/ AddToken(acc, t) = [text |-> Append(text, t), lastUnderscore |-> FALSE]
        \/ AddToken(acc, t) = [text |-> Append(text, Underscore), lastUnderscore |-> TRUE]
    BY Zenon DEF AddToken, Underscore, text
  <1>6. Append(text, t) \in Seq(W) /\ Append(text, Underscore) \in Seq(W)
    BY <1>3
  <1>. QED BY <1>4, <1>5, <1>6

LEMMA FoldingType ==
    ASSUME NEW W, Underscore \in W, NEW tokens, NEW n \in Nat, \A i \in 1..n : tokens[i] \in W,
           NEW F, Folding(F, tokens, n)
    PROVE  F[1..n] \in Partial(W)
  <1>. DEFINE S == {k \in Nat : k <= n => F[1..k] \in Partial(W)}
  <1>0. \A s \in SUBSET (1..n) :
           F[s] = IF s = {} THEN Begun ELSE AddToken(F[s \ {Max(s)}], tokens[Max(s)])
    BY DEF Folding
  <1>1. 0 \in S
    <2>1. 1..0 = {} /\ {} \in SUBSET (1..n)
      OBVIOUS
    <2>2. Begun \in Partial(W)
      BY DEF Begun, Partial
    <2>3. F[1..0] = Begun
      BY <1>0, <2>1
    <2>. QED BY <2>2, <2>3
  <1>2. ASSUME NEW k \in S PROVE k + 1 \in S
    <2>. SUFFICES ASSUME k + 1 <= n PROVE F[1..(k + 1)] \in Partial(W)
      OBVIOUS
    <2>1. k \in Nat /\ k <= n /\ F[1..k] \in Partial(W)
      OBVIOUS
    <2>. HIDE DEF S
    <2>2. /\ 1..(k + 1) \in SUBSET (1..n) /\ k + 1 \in 1..(k + 1) /\ 1..(k + 1) # {}
      <3>1. \A x \in 1..(k + 1) : x \in 1..n
        BY <2>1
      <3>2. k + 1 \in 1..(k + 1)
        BY <2>1
      <3>. QED BY <3>1, <3>2
    <2>5. (1..(k + 1)) \ {k + 1} = 1..k
      <3>1. \A x : x \in 1..(k + 1) /\ x # k + 1 <=> x \in 1..k
        BY <2>1
      <3>. QED BY <3>1
    <2>3. Max(1..(k + 1)) = k + 1
      BY <2>1, <2>2, MaxLemma
    <2>4. F[1..(k + 1)] = AddToken(F[1..k], tokens[k + 1])
      BY <1>0, <2>2, <2>3, <2>5
    <2>6. tokens[k + 1] \in W
      BY <2>1
    <2>. QED BY <2>1, <2>4, <2>6, AddTokenType
  <1>3. S = Nat
    <2>1. S \in SUBSET Nat
      OBVIOUS
    <2>. HIDE DEF S
    <2>. QED BY <1>1, <1>2, <2>1, SetInduction
  <1>. QED BY <1>3

LEMMA IdentifierType ==
    ASSUME NEW W, Underscore \in W, Fn \in W, NEW tokens \in Seq(W)
    PROVE  Identifier(tokens) \in Seq(W)
  <1>. DEFINE n == Len(tokens)
              F == CHOOSE G : Folding(G, tokens, n)
  <1>1. n \in Nat /\ DOMAIN tokens = 1..n /\ \A i \in 1..n : tokens[i] \in W
    OBVIOUS
  <1>2. FoldLeft(AddToken, Begun, tokens) = F[1..n]
    BY <1>1, Zenon DEF FoldLeft, MapThenFoldSet, Folding
  <1>3. Folding(F, tokens, n)
    BY <1>1, FoldingExists
  <1>. HIDE DEF F, n
  <1>4. F[1..n] \in Partial(W)
    BY <1>1, <1>3, FoldingType
  <1>. DEFINE text == FoldLeft(AddToken, Begun, tokens).text
  <1>5. text \in Seq(W)
    BY <1>2, <1>4 DEF Partial
  <1>6. Identifier(tokens) = Trim(text)
    BY Zenon DEF Identifier, Begun
  <1>. HIDE DEF text
  <1>7. Trim(text) \in Seq(W)
    <2>. DEFINE kept == {i \in DOMAIN text : text[i] # Underscore}
    <2>1. CASE kept = {}
      <3>1. Trim(text) = <<Fn>>
        BY <2>1, Zenon DEF Trim, Fn, Underscore
      <3>2. \A t \in W : <<t>> \in Seq(W)
        OBVIOUS
      <3>. QED BY <3>1, <3>2
    <2>2. CASE kept # {}
      <3>1. Trim(text) = SubSeq(text, Min(kept), Max(kept))
        BY <2>2, Zenon DEF Trim, Underscore
      <3>2. Len(text) \in Nat /\ DOMAIN text = 1..Len(text)
        BY <1>5
      <3>3. Min(kept) \in kept /\ Max(kept) \in kept
        <4>1. kept \in SUBSET (1..Len(text))
          BY <3>2
        <4>. HIDE DEF kept
        <4>. QED BY <2>2, <3>2, <4>1, ExtremesIn
      <3>4. Min(kept) \in 1..Len(text) /\ Max(kept) \in 1..Len(text)
        BY <3>2, <3>3
      <3>. HIDE DEF kept
      <3>5. \A a, b \in 1..Len(text) : SubSeq(text, a, b) \in Seq(W)
        BY <1>5, <3>2
      <3>. QED BY <3>1, <3>4, <3>5
    <2>. QED BY <2>1, <2>2
  <1>. QED BY <1>6, <1>7

Alike(b, c, p, q) == b = c /\ p[2] = q[2]

LEMMA EndsAlike ==
    ASSUME NEW V, NEW b \in Seq(V), NEW c \in Seq(V), NEW p \in Seq(V), NEW q \in Seq(V),
           Len(p) = 2, Len(q) = 2, b \o p = c \o q
    PROVE  Alike(b, c, p, q)
  <1>1. Len(b \o p) = Len(b) + 2 /\ Len(c \o q) = Len(c) + 2 /\ Len(b) \in Nat /\ Len(c) \in Nat
    <2>1. \A s, t \in Seq(V) : Len(s \o t) = Len(s) + Len(t) /\ Len(s) \in Nat
      OBVIOUS
    <2>. QED BY <2>1
  <1>2. Len(b) = Len(c)
    BY <1>1
  <1>3. \A i \in 1..Len(b) : (b \o p)[i] = b[i] /\ (c \o q)[i] = c[i]
    BY <1>1, <1>2
  <1>4. (b \o p)[Len(b) + 2] = p[2] /\ (c \o q)[Len(b) + 2] = q[2]
    BY <1>1, <1>2
  <1>5. p[2] = q[2] /\ \A i \in 1..Len(b) : b[i] = c[i]
    BY <1>3, <1>4
  <1>6. b = [i \in 1..Len(b) |-> b[i]] /\ c = [i \in 1..Len(c) |-> c[i]]
    OBVIOUS
  <1>. QED BY <1>2, <1>5, <1>6 DEF Alike

\* A name is its base, the second and later times with the number of uses.
LEMMA NamesLemma ==
    ASSUME NEW W, NEW findings, NEW m \in Nat, NEW kind, NEW max \in Nat, m <= max,
           \A k \in 1..m : Base(findings[k], kind) \in Seq(W),
           \A a, b \in 2..max : ToString(a) = ToString(b) => a = b,
           \A k, l, i \in 1..m : l # i /\ Base(findings[l], kind) = Base(findings[i], kind) =>
              \A a \in 2..max :
                 Base(findings[k], kind) # Base(findings[l], kind) \o <<Underscore, ToString(a)>>,
           NEW k \in 1..m, NEW l \in 1..m, k < l
    PROVE  TestFuncName(findings, k, kind) # TestFuncName(findings, l, kind)
  <1>. DEFINE B(i) == Base(findings[i], kind)
              Same(i) == {j \in 1..i : B(j) = B(i)}
              U(i) == TimesUsed(findings, i, kind)
  <1>1. \A i : U(i) = Cardinality(Same(i)) /\ TestFuncName(findings, i, kind) = Numbered(B(i), U(i))
    BY DEF TimesUsed, TestFuncName
  <1>2. \A b, n : Numbered(b, n) = IF n > 1 THEN b \o <<Underscore, ToString(n)>> ELSE b
    BY Zenon DEF Numbered, Underscore
  <1>3. ASSUME NEW i \in 1..m PROVE IsFiniteSet(Same(i)) /\ U(i) \in 1..max
    <2>1. i \in Nat /\ IsFiniteSet(1..i) /\ Cardinality(1..i) = i
      BY IntervalLemma
    <2>2. IsFiniteSet(Same(i)) /\ Cardinality(Same(i)) <= i
      BY <2>1, FS_Subset
    <2>3. Cardinality(Same(i)) \in Nat
      BY <2>2, FS_CardinalityType
    <2>4. i \in Same(i)
      OBVIOUS
    <2>5. Cardinality(Same(i)) # 0
      BY <2>2, <2>4, FS_EmptySet
    <2>. HIDE DEF Same, U
    <2>. QED BY <1>1, <2>1, <2>2, <2>3, <2>5
  <1>4. ASSUME B(k) = B(l) PROVE U(k) < U(l)
    <2>1. Same(k) \subseteq Same(l) /\ l \in Same(l) /\ l \notin Same(k)
      BY <1>4
    <2>2. IsFiniteSet(Same(k)) /\ IsFiniteSet(Same(l))
      BY <1>3
    <2>. HIDE DEF Same, U
    <2>3. Cardinality(Same(k)) <= Cardinality(Same(l))
          /\ (Cardinality(Same(k)) = Cardinality(Same(l)) => Same(k) = Same(l))
      BY <2>1, <2>2, FS_Subset
    <2>4. Cardinality(Same(k)) \in Nat /\ Cardinality(Same(l)) \in Nat
      BY <2>2, FS_CardinalityType
    <2>. QED BY <1>1, <2>1, <2>3, <2>4
  <1>5. U(k) \in 1..max /\ U(l) \in 1..max
    BY <1>3
  <1>6. \A i \in 1..m : B(i) \in Seq(W)
    OBVIOUS
  <1>7. ASSUME NEW i \in 1..m, NEW j \in 1..m, U(i) > 1
        PROVE  \A a \in 2..max : B(j) # B(i) \o <<Underscore, ToString(a)>>
    <2>1. \E o \in Same(i) : o # i
      <3>1. Cardinality({i}) = 1
        BY FS_Singleton, Zenon
      <3>2. i \in Same(i)
        OBVIOUS
      <3>3. U(i) = Cardinality(Same(i))
        BY <1>1, Zenon
      <3>4. U(i) \in 1..max
        BY <1>3
      <3>. HIDE DEF Same, U
      <3>5. U(i) # 1
        BY <1>7, <3>4
      <3>6. Same(i) # {i}
        BY <3>1, <3>3, <3>5, Zenon
      <3>. QED BY <3>2, <3>6
    <2>2. PICK o \in 1..m : o # i /\ B(i) = B(o)
      BY <2>1
    <2>. QED BY <2>2
  <1>. HIDE DEF B, U
  <1>8. Numbered(B(k), U(k)) # Numbered(B(l), U(l))
    <2>1. CASE U(k) > 1 /\ U(l) > 1
      <3>. SUFFICES ASSUME Numbered(B(k), U(k)) = Numbered(B(l), U(l)) PROVE FALSE
        OBVIOUS
      <3>1. B(k) \o <<Underscore, ToString(U(k))>> = B(l) \o <<Underscore, ToString(U(l))>>
        BY <1>2, <2>1
      <3>2. B(k) = B(l) /\ ToString(U(k)) = ToString(U(l))
        <4>. DEFINE b == B(k)
                    c == B(l)
                    p == <<Underscore, ToString(U(k))>>
                    q == <<Underscore, ToString(U(l))>>
                    V == W \cup {Underscore, ToString(U(k)), ToString(U(l))}
        <4>1. p \in Seq(V) /\ q \in Seq(V) /\ Len(p) = 2 /\ Len(q) = 2
          OBVIOUS
        <4>2. b \in Seq(V) /\ c \in Seq(V)
          <5>1. \A s \in Seq(W) : s \in Seq(V)
            OBVIOUS
          <5>. HIDE DEF V
          <5>. QED BY <1>6, <5>1
        <4>3. p[2] = ToString(U(k)) /\ q[2] = ToString(U(l))
          OBVIOUS
        <4>4. b \o p = c \o q
          BY <3>1
        <4>. HIDE DEF b, c, p, q, V
        <4>5. Alike(b, c, p, q)
          BY <4>1, <4>2, <4>4, EndsAlike
        <4>. QED BY <4>3, <4>5 DEF Alike, b, c
      <3>3. U(k) \in 2..max /\ U(l) \in 2..max
        BY <1>5, <2>1
      <3>4. U(k) = U(l)
        BY <3>2, <3>3
      <3>. QED BY <1>4, <1>5, <3>2, <3>4
    <2>2. CASE ~(U(k) > 1) /\ ~(U(l) > 1)
      <3>1. U(k) = 1 /\ U(l) = 1
        BY <1>5, <2>2
      <3>2. B(k) # B(l)
        BY <1>4, <3>1
      <3>. QED BY <1>2, <2>2, <3>2
    <2>3. CASE U(k) > 1 /\ ~(U(l) > 1)
      <3>1. U(k) \in 2..max
        BY <1>5, <2>3
      <3>. QED BY <1>2, <1>7, <2>3, <3>1
    <2>4. CASE ~(U(k) > 1) /\ U(l) > 1
      <3>1. U(l) \in 2..max
        BY <1>5, <2>4
      <3>. QED BY <1>2, <1>7, <2>4, <3>1
    <2>. QED BY <2>1, <2>2, <2>3, <2>4
  <1>. QED BY <1>1, <1>8

\* The tokens of a contract's signatures, and what a name adds to them.
Words(abi) ==
    {Underscore, Fn, "test", "before", "is", "fixed"} \cup
    UNION {LET tokens == Signature[abi[i].name] IN {tokens[k] : k \in DOMAIN tokens} :
              i \in DOMAIN abi}

LEMMA WordsLemma ==
    ASSUME NEW abi \in Contracts, NEW i \in DOMAIN abi
    PROVE  Identifier(Signature[abi[i].name]) \in Seq(Words(abi))
  <1>. DEFINE tokens == Signature[abi[i].name]
              T == {tokens[k] : k \in DOMAIN tokens}
              W == Words(abi)
  <1>1. tokens \in Seq(T)
    BY SignaturesAssumption
  <1>2. \A x \in T : x \in W
    BY DEF Words
  <1>3. Underscore \in W /\ Fn \in W
    BY DEF Words
  <1>. HIDE DEF tokens, T, W
  <1>4. tokens \in Seq(W)
    BY <1>1, <1>2
  <1>. QED BY <1>3, <1>4, IdentifierType DEF tokens, W

LEMMA BaseType ==
    ASSUME NEW abi \in Contracts, NEW i \in DOMAIN abi, NEW j \in DOMAIN abi, NEW kind,
           NEW f, f.writer = abi[i].name, f.reader = abi[j].name
    PROVE  Base(f, kind) \in Seq(Words(abi))
  <1>. DEFINE W == Words(abi)
              a == Identifier(Signature[f.writer])
              b == Identifier(Signature[f.reader])
              start == <<"test", Underscore>>
              between == <<Underscore, "before", Underscore>>
              fixed == <<Underscore, "is", Underscore, "fixed">>
              end == IF kind = Guard THEN fixed ELSE <<>>
  <1>1. a \in Seq(W) /\ b \in Seq(W)
    BY WordsLemma
  <1>2. Underscore \in W /\ "test" \in W /\ "before" \in W /\ "is" \in W /\ "fixed" \in W
    BY DEF Words
  <1>3. Base(f, kind) = start \o a \o between \o b \o end
    BY Zenon DEF Base, Underscore
  <1>. HIDE DEF W, a, b
  <1>4. start \in Seq(W) /\ between \in Seq(W) /\ end \in Seq(W)
    <2>1. start \in Seq(W) /\ between \in Seq(W)
      BY <1>2
    <2>2. fixed \in Seq(W) /\ <<>> \in Seq(W)
      BY <1>2
    <2>. QED BY <2>1, <2>2
  <1>. HIDE DEF start, between, end
  <1>5. \A s, t \in Seq(W) : s \o t \in Seq(W)
    OBVIOUS
  <1>. QED BY <1>1, <1>3, <1>4, <1>5 DEF W

(***************************************************************************)
(* No two tests of a file share a name, if no base that several pairs of   *)
(* functions share is, with a number after it, the base of another pair.   *)
(***************************************************************************)
THEOREM NamesAreUnique ==
    ASSUME OutputsAreWords, BasesApart
    PROVE  Spec => []UniqueNames
  <1>1. ASSUME IInv, Kept, Chain!CallsShow, methods \in Contracts PROVE UniqueNames
    <2>. SUFFICES ASSUME NEW kind \in Kind,
                         NEW k \in DOMAIN files[kind].tests, NEW l \in DOMAIN files[kind].tests, k # l
                  PROVE  files[kind].tests[k].name # files[kind].tests[l].name
      BY DEF UniqueNames
    <2>. DEFINE findings == report.findings
                tests    == files[kind].tests
                m        == Cardinality(Confirmed(findings))
                max      == Len(methods) * Len(methods)
    <2>1. tests # <<>>
      OBVIOUS
    <2>2. tests = Generate(findings, kind) /\ stage = "done"
      BY <1>1, <2>1 DEF Kept, Written, Tests
    <2>3. /\ ConfirmedHaveCalls(findings) /\ Len(findings) <= max
          /\ \E o : Chain!OwnPairs(o)
      BY <1>1, <2>2, SameCalls DEF Chain!CallsShow, Chain!Findings, ConfirmedHaveCalls, Confirmed
    <2>4. PICK o : Chain!OwnPairs(o)
      BY <2>3
    <2>5. /\ \A n \in DOMAIN findings :
                /\ o[n] \in (DOMAIN methods) \X (DOMAIN methods)
                /\ findings[n].writer = methods[o[n][1]].name
                /\ findings[n].reader = methods[o[n][2]].name
          /\ \A n, n2 \in DOMAIN findings : o[n] = o[n2] => n = n2
      BY <2>4 DEF Chain!OwnPairs, Chain!Findings
    <2>. HIDE DEF findings, tests
    <2>6. PICK chosen : Choosing(chosen, findings) /\ Generate(findings, kind) = TestsOf(chosen, kind)
      BY <2>3, ChosenLemma
    <2>7. m \in Nat /\ m <= Len(findings) /\ DOMAIN chosen = 1..m
      BY <2>6 DEF Choosing
    <2>8. PICK order \in [1..m -> Confirmed(findings)] :
             /\ \A i, j \in 1..m : order[i] = order[j] => i = j
             /\ \A n \in 1..m : chosen[n] = findings[order[n]]
      BY <2>6 DEF Choosing
    <2>. DEFINE P(n) == o[order[n]]
                B(n) == Base(chosen[n], kind)
    <2>9. ASSUME NEW n \in 1..m
          PROVE  /\ P(n) \in (DOMAIN methods) \X (DOMAIN methods)
                 /\ chosen[n].writer = methods[P(n)[1]].name
                 /\ chosen[n].reader = methods[P(n)[2]].name
                 /\ order[n] \in DOMAIN findings
      BY <2>5, <2>8 DEF Confirmed
    <2>10. \A n, n2 \in 1..m : P(n) = P(n2) => n = n2
      BY <2>5, <2>8, <2>9
    <2>11. max \in Nat /\ m <= max
      <3>1. Len(methods) \in Nat
        <4>1. methods \in Seq({methods[i] : i \in DOMAIN methods})
          BY <1>1, ChainAssumptions DEF Chain!AnalysisAssumption
        <4>. QED BY <4>1
      <3>2. Len(findings) \in Nat
        BY <2>3 DEF ConfirmedHaveCalls
      <3>3. max \in Nat
        BY <3>1
      <3>. HIDE DEF m, max
      <3>. QED BY <2>3, <2>7, <3>2, <3>3
    <2>. HIDE DEF P, m
    <2>12. ASSUME NEW n \in 1..m
           PROVE  B(n) \in Seq(Words(methods)) /\ B(n) = NameOf(methods, P(n), kind)
      <3>1. P(n)[1] \in DOMAIN methods /\ P(n)[2] \in DOMAIN methods
        BY <2>9
      <3>2. B(n) \in Seq(Words(methods))
        BY <1>1, <2>9, <3>1, BaseType
      <3>3. B(n) = NameOf(methods, P(n), kind)
        <4>. DEFINE f == [writer |-> methods[P(n)[1]].name, reader |-> methods[P(n)[2]].name]
        <4>1. f.writer = chosen[n].writer /\ f.reader = chosen[n].reader
          BY <2>9
        <4>. HIDE DEF f
        <4>2. Base(f, kind) = Base(chosen[n], kind)
          BY <4>1, Zenon DEF Base
        <4>. QED BY <4>2, Zenon DEF NameOf, f
      <3>. QED BY <3>2, <3>3
    <2>13. \A a, b \in 2..max : ToString(a) = ToString(b) => a = b
      BY <1>1, Zenon DEF BasesApart
    <2>14. \A p, q, r \in (DOMAIN methods) \X (DOMAIN methods) :
              q # r /\ NameOf(methods, q, kind) = NameOf(methods, r, kind) =>
                 \A a \in 2..max :
                    NameOf(methods, p, kind) # NameOf(methods, q, kind) \o <<Underscore, ToString(a)>>
      BY <1>1, Zenon DEF BasesApart, Underscore
    <2>. HIDE DEF max
    <2>15. ASSUME NEW x \in 1..m, NEW y \in 1..m, NEW i \in 1..m, y # i, B(y) = B(i)
           PROVE  \A a \in 2..max : B(x) # B(y) \o <<Underscore, ToString(a)>>
      <3>. HIDE DEF B
      <3>1. P(y) # P(i)
        BY <2>10, <2>15
      <3>2. NameOf(methods, P(y), kind) = NameOf(methods, P(i), kind)
        BY <2>12, <2>15
      <3>3. \A a \in 2..max :
               NameOf(methods, P(x), kind) # NameOf(methods, P(y), kind) \o <<Underscore, ToString(a)>>
        BY <2>9, <2>14, <3>1, <3>2
      <3>4. B(x) = NameOf(methods, P(x), kind) /\ B(y) = NameOf(methods, P(y), kind)
        BY <2>12
      <3>. QED BY <3>3, <3>4
    <2>16. ASSUME NEW x \in 1..m, NEW y \in 1..m, x < y
           PROVE  TestFuncName(chosen, x, kind) # TestFuncName(chosen, y, kind)
      <3>1. \A i \in 1..m : B(i) \in Seq(Words(methods))
        BY <2>12
      <3>2. \A i, j, h \in 1..m : j # h /\ B(j) = B(h) =>
               \A a \in 2..max : B(i) # B(j) \o <<Underscore, ToString(a)>>
        BY <2>15
      <3>. QED BY <2>7, <2>11, <2>13, <2>16, <3>1, <3>2, NamesLemma
    <2>17. \A n \in 1..m : tests[n].name = TestFuncName(chosen, n, kind)
      <3>1. tests = [n \in 1..m |-> TestOf(chosen, n, kind)]
        BY <2>2, <2>6, <2>7 DEF TestsOf, tests
      <3>. QED BY <3>1 DEF TestOf
    <2>18. k \in 1..m /\ l \in 1..m
      BY <2>2, <2>6, <2>7 DEF TestsOf, tests
    <2>19. k < l \/ l < k
      BY <2>7, <2>18
    <2>. QED BY <2>16, <2>17, <2>18, <2>19 DEF tests
  <1>2. Chain!Init /\ [][Chain!Next]_(Chain!vars) => []Chain!CallsShow
    BY SameCalls, ChainAssumptions, Chain!FindingsShow DEF Chain!Spec
  <1>3. TypeOK => methods \in Contracts
    BY DEF TypeOK, Pipeline!TypeOK
  <1>. QED
    BY <1>1, <1>2, <1>3, CommandTypeCorrect, InvAlways, InvInit, InvNext, KeptInit, KeptNext,
       RunsTheChain, PTL DEF Spec
=============================================================================
