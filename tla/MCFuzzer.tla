------------------------------ MODULE MCFuzzer ------------------------------
(***************************************************************************)
(* A contract with a writer keyed by its argument that also writes a       *)
(* helper contract's storage, a reader of two slots that fails on the      *)
(* second, and a writer that always reverts.  Two variants each but the    *)
(* last, which takes no argument.                                          *)
(***************************************************************************)
EXTENDS Fuzzer, SequencesExt

CONSTANTS Addresses, Slots, WordSize

Ops == INSTANCE ContractCode WITH Code <- <<>>

MCCode ==
    [set   |-> <<Ops!Arg, Ops!SStore("pool", -1), Ops!SStore("helper", 2), Ops!Return(0)>>,
     get   |-> <<Ops!SLoad("pool", -1), Ops!AtMost(0), Ops!SLoad("pool", 2), Ops!Return(1)>>,
     wreck |-> <<Ops!Push(1), Ops!SStore("pool", 2), Ops!Fail>>]

Contracts == INSTANCE ContractCode WITH Code <- MCCode

MCRun(world, from, to, input) == Contracts!RunCode(world, from, to, input)
MCCreate(world, code) == Contracts!CreateWith(world, code)
MCEmptyWorld == Contracts!NoState

MCBytecode == [ok |-> TRUE, storage |-> [Contracts!Zeroes EXCEPT !["pool"][1] = 3]]

Calldata(f, a) == [fn |-> f, arg |-> a]
MCInputs == {Calldata(f, a) : f \in DOMAIN MCCode, a \in 0..1}
MCVariants == <<<<Calldata("get", 1), Calldata("get", 0)>>,
                <<Calldata("set", 1), Calldata("set", 0)>>,
                <<Calldata("wreck", 0)>>>>
MCName == <<1, 2, 3>>

(***************************************************************************)
(* The footprints written down by hand: the reverted call counts, the      *)
(* slot after the failed requirement is reached by the second variant      *)
(* only, and the helper's storage is not the contract's.                   *)
(***************************************************************************)
R(s) == [kind |-> "read", slot |-> s]
W(s) == [kind |-> "write", slot |-> s]
ByHand == <<{R(0), R(1), R(2)}, {W(0), W(1)}, {W(2)}>>

FootprintsByHand ==
    answer.kind = "ok" =>
        \A i \in DOMAIN answer.results :
            answer.results[i].value = ByHand[answer.results[i].job]
=============================================================================
