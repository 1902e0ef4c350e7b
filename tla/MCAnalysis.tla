------------------------------ MODULE MCAnalysis ------------------------------
(***************************************************************************)
(* Every contract of three functions out of a pool that reaches nothing    *)
(* but its own storage, the same function twice included.                  *)
(***************************************************************************)
EXTENDS FirstPass

CONSTANTS Addresses, Slots, WordSize

Ops == INSTANCE ContractCode WITH Code <- <<>>

at == "pool"
MCCode ==
    [set   |-> <<Ops!Arg, Ops!SStore(at, -1)>>,
     get   |-> <<Ops!SLoad(at, -1), Ops!Return(1)>>,
     bump  |-> <<Ops!SLoad(at, 0), Ops!Add(1), Ops!SStore(at, 0), Ops!Return(1)>>,
     copy  |-> <<Ops!SLoad(at, 0), Ops!SStore(at, 1)>>,
     fill  |-> <<Ops!Arg, Ops!SStore(at, -1)>>,
     wreck |-> <<Ops!Push(1), Ops!SStore(at, 0), Ops!Fail>>,
     price |-> <<Ops!SLoad(at, 0), Ops!Return(1)>>,
     open  |-> <<Ops!SLoad(at, 0), Ops!Unless(0), Ops!SLoad(at, 1), Ops!Return(2)>>,
     swap  |-> <<Ops!SLoad(at, 0), Ops!Unless(2), Ops!Push(1), Ops!SStore(at, 1), Ops!Return(0)>>,
     half  |-> <<Ops!SLoad(at, 1), Ops!Check(1), Ops!SLoad(at, 0), Ops!Return(1)>>]

Contract1 == INSTANCE ContractCode WITH Code <- MCCode

MCRun(world, from, to, input) == Contract1!RunCode(world, from, to, input)
MCCreate(world, code) == Contract1!CreateWith(world, code)
MCEmptyWorld == Contract1!NoState
MCBytecode == [ok |-> TRUE, storage |-> Contract1!Zeroes]

\* The pool, in the order of the names; the last cannot be encoded.
Pool == <<"bump", "copy", "fill", "get", "half", "open", "price", "set", "swap", "wreck", "odd">>

\* Calldata as buildJobs makes it: set and get take a uint8, fill a bytes32, odd
\* a tuple whose names clash.
uint8   == [kind |-> "uint", len |-> 1, of |-> <<>>]
bytes32 == [kind |-> "bytearray", len |-> 32, of |-> <<>>]
clash   == [kind |-> "clash", len |-> 1, of |-> <<uint8>>]
Arguments == INSTANCE Corpus WITH Types <- {uint8, bytes32, clash}

InputsOf(f) ==
    CASE f \in {"set", "get"} -> <<uint8>>
      [] f = "fill"           -> <<bytes32>>
      [] f = "odd"            -> <<clash>>
      [] OTHER                -> <<>>
ArgOf(args) == IF args = <<>> THEN 0 ELSE args[1]
VariantsIn(f) ==
    LET v == Arguments!Variants(InputsOf(f), Arguments!DefaultRounds, Caller)
    IN  [k \in DOMAIN v |-> [fn |-> f, arg |-> ArgOf(v[k])]]

\* The one call of the first pass.
MCZeroCall(n) ==
    IF Arguments!Packs(InputsOf(Pool[n]), TRUE)
    THEN <<[fn |-> Pool[n], arg |-> ArgOf(Arguments!ZeroArgs(InputsOf(Pool[n])))]>>
    ELSE <<>>

Method(n) == [name |-> n, variants |-> VariantsIn(Pool[n])]

MCContracts ==
    {<<Method(a), Method(b), Method(c)>> : <<a, b, c>> \in
        {t \in (DOMAIN Pool) \X (DOMAIN Pool) \X (DOMAIN Pool) : t[1] <= t[2] /\ t[2] <= t[3]}}

\* The fuzzer repeats every zero call but that of fill.
ASSUME RepeatsAllButFill ==
    \A n \in DOMAIN Pool : MCZeroCall(n) # <<>> =>
        (MCZeroCall(n)[1] \in ToSet(VariantsIn(Pool[n])) <=> Pool[n] # "fill")

\* What the pool of functions was written to be.
ASSUME OwnStorageAssumption == OwnStorageOnly
=============================================================================
