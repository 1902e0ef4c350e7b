---------------------------- MODULE ContractCode ----------------------------
(***************************************************************************)
(* The contracts the models run: external code, so only as much of the     *)
(* virtual machine as Sequent can observe.  A function is a list of        *)
(* operations on one register.  Words wrap at WordSize, storage belongs to *)
(* an address, transient storage lives as long as the StateDB keeps it,    *)
(* and a failed frame leaves no effect but its opcodes and its output.     *)
(***************************************************************************)
EXTENDS Integers, Sequences, FiniteSets, SequencesExt

CONSTANTS
    Addresses,   \* the contract, contracts it calls, the caller and the deployer
    Slots,       \* storage keys
    WordSize,    \* words are 0 .. WordSize - 1
    Code         \* Code[f]: the operations of function f

Zeroes == [a \in Addresses |-> [s \in Slots |-> 0]]

\* State starts empty every time.
NoState == [storage   |-> Zeroes,
            transient |-> Zeroes,
            balance   |-> [a \in Addresses |-> 0]]

Word(n) == n % WordSize

(***************************************************************************)
(* The operations.  at is the address whose code is running: the target's  *)
(* own ("self", or by its name where there is but one), or that of a       *)
(* contract it calls into.  A slot of -1 stands for the key taken from the *)
(* call's argument, as a mapping's is.                                     *)
(***************************************************************************)
SLoad(at, s)  == [op |-> "SLOAD",  at |-> at, slot |-> s, n |-> 0]
SStore(at, s) == [op |-> "SSTORE", at |-> at, slot |-> s, n |-> 0]
TLoad(at, s)  == [op |-> "TLOAD",  at |-> at, slot |-> s, n |-> 0]
TStore(at, s) == [op |-> "TSTORE", at |-> at, slot |-> s, n |-> 0]
Other(op, n)  == [op |-> op, at |-> "none", slot |-> 0, n |-> n]
Balance       == Other("BALANCE", 0)
Arg           == Other("ARG", 0)
AddSelf       == Other("ADDRESS", 0)
Push(n)       == Other("PUSH", n)
Add(n)        == Other("ADD", n)
AtMost(n)     == Other("ATMOST", n)
Unless(n)     == Other("UNLESS", n)
Check(n)      == Other("CHECK", n)
Return(n)     == Other("RETURN", n)
Fail          == Other("REVERT", 0)

\* An address as a word.
AddressWord(a) == CHOOSE n \in 1..Cardinality(Addresses) : SetToSeq(Addresses)[n] = a

\* One operation on the frame f: [world, reg, ok, output, steps].
Exec(f, o, from, to, input) ==
    LET slot   == IF o.slot = -1 THEN input.arg ELSE o.slot
        at     == IF o.at = "self" THEN to ELSE o.at
        log    == Append(f.steps, [op |-> o.op, addr |-> at, slot |-> slot])
        logged == [f EXCEPT !.steps = log]
    IN  CASE o.op = "SLOAD"   -> [logged EXCEPT !.reg = f.world.storage[at][slot]]
          [] o.op = "SSTORE"  -> [logged EXCEPT !.world.storage[at][slot] = f.reg]
          [] o.op = "TLOAD"   -> [logged EXCEPT !.reg = f.world.transient[at][slot]]
          [] o.op = "TSTORE"  -> [logged EXCEPT !.world.transient[at][slot] = f.reg]
          [] o.op = "ADDRESS" -> [f EXCEPT !.reg = Word(@ + AddressWord(to))]
          [] o.op = "BALANCE" -> [f EXCEPT !.reg = Word(f.world.balance[from])]
          [] o.op = "ARG"     -> [f EXCEPT !.reg = Word(input.arg)]
          [] o.op = "PUSH"    -> [f EXCEPT !.reg = Word(o.n)]
          [] o.op = "ADD"     -> [f EXCEPT !.reg = Word(@ + o.n)]
          [] o.op = "ATMOST"  -> [f EXCEPT !.ok = f.reg <= o.n]
          [] o.op = "UNLESS"  -> [f EXCEPT !.ok = f.reg # o.n]
          [] o.op = "CHECK"   -> IF f.reg # o.n THEN f ELSE [f EXCEPT !.ok = FALSE, !.output = <<f.reg>>]
          [] o.op = "RETURN"  -> [f EXCEPT !.output = [i \in 1..o.n |-> f.reg]]
          [] o.op = "REVERT"  -> [f EXCEPT !.ok = FALSE, !.output = <<f.reg>>]

\* The receipt of a call: nothing after the operation that failed is run.
RunCode(world, from, to, input) ==
    FoldLeft(LAMBDA f, o : IF f.ok THEN Exec(f, o, from, to, input) ELSE f,
             [world |-> world, reg |-> 0, ok |-> TRUE, output |-> <<>>, steps |-> <<>>],
             Code[input.fn])

\* The constructor of module Fuzzer's and Evaluator's contracts: the initial
\* storage, or a failure.
CreateWith(world, code) ==
    [ok |-> code.ok, world |-> [world EXCEPT !.storage = code.storage]]
=============================================================================
