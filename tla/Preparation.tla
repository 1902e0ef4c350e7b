----------------------------- MODULE Preparation -----------------------------
(***************************************************************************)
(* What comes before anything is run: ResolveCreationCode (deploy.go) finds*)
(* constructor arguments the contract deploys with, then buildJobs         *)
(* (fuzz.go) turns the ABI into calldata, method after method.             *)
(***************************************************************************)
EXTENDS Corpus

CONSTANTS
    Abis,              \* the ABIs: [inputs (the constructor's), methods], a
                       \* method [name, inputs], in the order of the names
    Deployer, Caller,
    RequestedRounds,   \* values of FuzzConfig.Rounds
    MachineMayFail     \* whether evm.New may fail

\* The methods are the entries of a map, so no two have one name.
ASSUME AbisAssumption ==
    /\ RequestedRounds \subseteq Int
    /\ \A a \in Abis :
          /\ a.inputs \in Seq(Types) /\ \A i \in DOMAIN a.methods : a.methods[i].inputs \in Seq(Types)
          /\ a.methods \in Seq({a.methods[i] : i \in DOMAIN a.methods})
          /\ \A i, j \in DOMAIN a.methods : a.methods[i].name = a.methods[j].name => i = j

\* The deployer's address is not the zero address.
ASSUME DeployerAssumption == Deployer # "zero"

VARIABLES
    abi,
    accepts,     \* the argument sets the constructor does not revert on
    rounds,      \* FuzzConfig.Rounds
    stage,       \* "candidates", "try", "jobs", "done" or "failed"
    candidates,  \* constructorArgVariants
    tries,       \* how many of them have been tried
    code,        \* <<args>> once the bytecode with args has deployed
    error,       \* "none", or what ended the search
    jobs,        \* [name, variants]
    skipped      \* the names of the methods that are skipped

vars == <<abi, accepts, rounds, stage, candidates, tries, code, error, jobs, skipped>>

\* Every argument set that some round of the corpus has.
CorpusArgSets(inputs) ==
    {CorpusArgs(inputs, r, Deployer) : r \in 0..(Len(BigCorpus) - 1)}

Init ==
    /\ abi \in Abis
    /\ accepts \in SUBSET CorpusArgSets(abi.inputs)
    /\ rounds \in RequestedRounds
    /\ stage = "candidates"
    /\ candidates = <<>> /\ tries = 0
    /\ code = <<>> /\ error = "none"
    /\ jobs = <<>> /\ skipped = {}

FailWith(reason) ==
    /\ stage' = "failed"
    /\ error' = reason
    /\ UNCHANGED <<abi, accepts, rounds, candidates, tries, code, jobs, skipped>>

ListCandidates ==
    /\ stage = "candidates"
    /\ LET listed == ConstructorArgVariants(abi.inputs, Deployer)
       IN  \/ /\ listed = <<>>
              /\ FailWith("cannot encode")
           \/ /\ listed # <<>>
              /\ candidates' = listed
              /\ stage' = "try"
              /\ UNCHANGED <<abi, accepts, rounds, tries, code, error, jobs, skipped>>

\* The loop ends at the first argument set that deploys; a machine that cannot
\* be made ends it too.
Deploys(args) == args \in accepts

SkipOne(tried) == tried + 2
AfterRevert(tried) == tried + 1

TryCandidate ==
    /\ stage = "try"
    /\ tries < Len(candidates)
    /\ LET args == candidates[tries + 1]
       IN  \/ /\ Deploys(args)
              /\ code' = <<args>>
              /\ stage' = "jobs"
              /\ UNCHANGED <<abi, accepts, rounds, candidates, tries, error, jobs, skipped>>
           \/ /\ ~Deploys(args)
              /\ tries' = AfterRevert(tries)
              /\ UNCHANGED <<abi, accepts, rounds, stage, candidates, code, error, jobs, skipped>>
           \/ /\ MachineMayFail
              /\ FailWith("no machine")

NoneDeploys ==
    /\ stage = "try"
    /\ tries = Len(candidates)
    /\ FailWith("reverted")

\* buildJobs: a method none of whose rounds can be encoded is skipped.
Handled == Len(jobs) + Cardinality(skipped)
CallsOf(method) == Variants(method.inputs, RoundsFor(rounds), Caller)

BuildJob ==
    /\ stage = "jobs"
    /\ Handled < Len(abi.methods)
    /\ LET method == abi.methods[Handled + 1]
           calls  == CallsOf(method)
       IN  /\ jobs' = IF calls = <<>> THEN jobs
                      ELSE Append(jobs, [name |-> method.name, variants |-> calls])
           /\ skipped' = IF calls = <<>> THEN skipped \cup {method.name} ELSE skipped
    /\ UNCHANGED <<abi, accepts, rounds, stage, candidates, tries, code, error>>

JobsBuilt ==
    /\ stage = "jobs"
    /\ Handled >= Len(abi.methods)
    /\ stage' = "done"
    /\ UNCHANGED <<abi, accepts, rounds, candidates, tries, code, error, jobs, skipped>>

Next == ListCandidates \/ TryCandidate \/ NoneDeploys \/ BuildJob \/ JobsBuilt

Spec == Init /\ [][Next]_vars

\* SpecsFromABI: the same methods with zero arguments.
SpecSkipped(method) == ~Packs(method.inputs, TRUE)
SpecArgs(method) == ZeroArgs(method.inputs)

-----------------------------------------------------------------------------
\* The leaves of a value of a type: the path to each, its type, and how many
\* rounds the arrays around it put it ahead.
Inside(t, i, leaves) ==
    {[path |-> <<i>> \o l.path, type |-> l.type, ahead |-> Shift(t, i) + l.ahead] : l \in leaves}

LeavesOf(type) ==
    LET leaves[t \in Types] ==
            IF IsLeaf(t) THEN {[path |-> <<>>, type |-> t, ahead |-> 0]}
            ELSE UNION {Inside(t, i, leaves[Part(t, i)]) : i \in 1..t.len}
    IN  leaves[type]

ArgLeaves(inputs) ==
    UNION {{[l EXCEPT !.path = <<i>> \o @] : l \in LeavesOf(inputs[i])} : i \in DOMAIN inputs}

At(args, path) ==
    LET at[k \in 0..Len(path)] == IF k = 0 THEN args ELSE at[k - 1][path[k]]
    IN  at[Len(path)]

MethodNamed(n) == CHOOSE m \in ToSet(abi.methods) : m.name = n

\* The stages follow each other, and what each is there to make is there once
\* it is over.
TypeOK ==
    /\ abi \in Abis /\ rounds \in RequestedRounds
    /\ stage \in {"candidates", "try", "jobs", "done", "failed"}
    /\ stage = "failed" <=> error # "none"
    /\ stage \in {"jobs", "done"} <=> code # <<>>
    /\ stage \in {"try", "jobs", "done"} => candidates # <<>>
    /\ tries \in 0..Len(candidates)
    /\ skipped \subseteq {m.name : m \in ToSet(abi.methods)}
    /\ stage \in {"candidates", "try"} => jobs = <<>> /\ skipped = {}

(***************************************************************************)
(* deploy.go:15-16: the search "returns the bytecode with the first set    *)
(* that deploys".  The code deploys, as Fuzz and Evaluate rely on; no      *)
(* earlier round's arguments do; and the constructor is said to revert for *)
(* all sets only if every round's arguments, repeated or not, do revert.   *)
(***************************************************************************)
ArgsOfRound(r) == CorpusArgs(abi.inputs, r, Deployer)

FirstThatDeploys ==
    /\ code # <<>> =>
          \E r \in 0..3 : /\ code[1] = ArgsOfRound(r) /\ Deploys(code[1])
                          /\ \A q \in 0..(r - 1) : ~Deploys(ArgsOfRound(q))
    /\ error = "reverted" => \A r \in 0..3 : ~Deploys(ArgsOfRound(r))

(***************************************************************************)
(* deploy.go:19-20: "The corpus leads with non-zero values, so a           *)
(* constructor guarded by something like require(x > 0) is handled too".   *)
(* The search never ends in a revert unless the constructor refuses some   *)
(* argument set without a zero value anywhere in it, so long as its arrays *)
(* leave room for one: their elements walk through the corpus, so every set*)
(* has a zero in four numbers in a row, and in two strings or truth values.*)
(***************************************************************************)
NoZeroIn(args, inputs) ==
    \A l \in ArgLeaves(inputs) : At(args, l.path) # ZeroLeaf(l.type)

AheadAtMost(l) == IF l.type.kind \in {"bool", "string", "bytes"} THEN 0 ELSE 2

NonZeroDeploys ==
    error = "reverted" /\ (\A l \in ArgLeaves(abi.inputs) : l.ahead <= AheadAtMost(l)) =>
        \E args \in CorpusArgSets(abi.inputs) : NoZeroIn(args, abi.inputs) /\ ~Deploys(args)

(***************************************************************************)
(* A method is called or reported as skipped, never both or neither: a job *)
(* has the arguments of every round once, and they can all be encoded.     *)
(***************************************************************************)
EveryMethodOnce ==
    /\ \A i, j \in DOMAIN jobs : i # j => jobs[i].name # jobs[j].name
    /\ \A i \in DOMAIN jobs :
          LET inputs == MethodNamed(jobs[i].name).inputs
          IN  /\ jobs[i].name \notin skipped
              /\ Packs(inputs, FALSE)
              /\ IsInjective(jobs[i].variants)
              /\ ToSet(jobs[i].variants) =
                    {CorpusArgs(inputs, r, Caller) : r \in 0..(RoundsFor(rounds) - 1)}
    /\ stage = "done" => Handled = Len(abi.methods)

(***************************************************************************)
(* corpus.go:13-15: "the values line up across functions: if one function  *)
(* writes a mapping keyed by an address and another reads it, they only    *)
(* connect when both are called with the same address".  Wherever two      *)
(* arguments of one kind stand, alone, in an array or in a tuple, their    *)
(* functions are called with the same values there: all of the corpus, or, *)
(* for other fixed bytes, at least one common pattern if the arrays around *)
(* them put neither all the rounds ahead of the other.  Numbers of         *)
(* different widths still share 0, 1 and 2, and every address argument     *)
(* takes the caller's own address.                                         *)
(***************************************************************************)
ValuesAt(job, leaf) == {At(args, leaf.path) : args \in ToSet(job.variants)}
Number == {"bigint", "uint", "int"}
Patterned(t) == t.kind = "bytearray" /\ t.len # AddressLength
InReach(k, l) == k.ahead < l.ahead + RoundsFor(rounds) /\ l.ahead < k.ahead + RoundsFor(rounds)

LineUp(k, l, v, w) ==
    /\ k.type = l.type /\ ~Patterned(k.type) => v = w
    /\ k.type = l.type /\ InReach(k, l) => v \cap w # {}
    /\ {k.type.kind, l.type.kind} \subseteq Number => {0, 1, 2} \subseteq v \cap w
    /\ k.type = FixedBytes(AddressLength) => Caller \in v

KeysMeet ==
    RoundsFor(rounds) >= 4 =>
        \A i, j \in DOMAIN jobs :
            \A k \in ArgLeaves(MethodNamed(jobs[i].name).inputs),
               l \in ArgLeaves(MethodNamed(jobs[j].name).inputs) :
                LineUp(k, l, ValuesAt(jobs[i], k), ValuesAt(jobs[j], l))

(***************************************************************************)
(* specs.go:21-26: the zero-value calls are the "sound first pass" that    *)
(* fuzzing goes beyond.  A method that SpecsFromABI skips is skipped by    *)
(* buildJobs, and the arguments it gives a method without slices, other    *)
(* fixed bytes and arrays of several elements are among its variants, so   *)
(* fuzzing calls what the first pass calls.                                *)
(***************************************************************************)
Plain(inputs) ==
    \A i \in DOMAIN inputs : \A t \in Reached(inputs[i], FALSE) :
        t.kind # "slice" /\ ~Patterned(t) /\ (t.kind = "array" => t.len = 1)

FuzzCoversZero ==
    /\ \A m \in ToSet(abi.methods) :
          stage = "done" /\ SpecSkipped(m) => m.name \in skipped
    /\ \A i \in DOMAIN jobs :
          LET m == MethodNamed(jobs[i].name)
          IN  RoundsFor(rounds) >= 2 /\ Plain(m.inputs) =>
                  SpecArgs(m) \in ToSet(jobs[i].variants)
=============================================================================
