------------------------------ MODULE MCCommand ------------------------------
(***************************************************************************)
(* Contracts of two or three functions on their own storage, whose         *)
(* constructor needs an argument, and a source in which each function has  *)
(* been given storage of its own; the invocations that differ in what they *)
(* ask for or get wrong.                                                   *)
(***************************************************************************)
EXTENDS Command

CONSTANTS Addresses, Slots, WordSize

Ops == INSTANCE ContractCode WITH Code <- <<>>

at == "self"
MCCode ==
    [bump   |-> <<Ops!SLoad(at, 0), Ops!Add(1), Ops!SStore(at, 0), Ops!Return(1)>>,
     get    |-> <<Ops!SLoad(at, -1), Ops!Return(1)>>,
     open   |-> <<Ops!SLoad(at, 0), Ops!Unless(1), Ops!SLoad(at, 1), Ops!Return(2)>>,
     price  |-> <<Ops!SLoad(at, 0), Ops!Return(1)>>,
     set    |-> <<Ops!Arg, Ops!SStore(at, -1)>>,
     swap   |-> <<Ops!SLoad(at, 0), Ops!Unless(2), Ops!Push(1), Ops!SStore(at, 1), Ops!Return(0)>>,
     touch  |-> <<Ops!SLoad(at, 0), Ops!SStore(at, 0)>>,
     \* The nonce that is signed over, together with the contract's address.
     digest |-> <<Ops!SLoad(at, 0), Ops!AddSelf, Ops!Return(1)>>]

Names == <<"bump", "digest", "get", "price", "open", "swap", "set", "touch">>
OwnSlot(f) == CHOOSE s \in DOMAIN Names : Names[s] = f
FixedCode ==
    [f \in DOMAIN MCCode |->
        [k \in DOMAIN MCCode[f] |->
            IF MCCode[f][k].at = at THEN [MCCode[f][k] EXCEPT !.slot = OwnSlot(f)] ELSE MCCode[f][k]]]

Current == INSTANCE ContractCode WITH Code <- MCCode
Fixed   == INSTANCE ContractCode WITH Code <- FixedCode

\* A world knows whose code is at an address; the constructor stores its
\* argument and fails without one.
MCBytecode == [init |-> "current", args |-> <<1>>]

MCEmptyWorld ==
    [init |-> [a \in Addresses |-> "none"], storage |-> Ops!Zeroes, transient |-> Ops!Zeroes,
     balance |-> [a \in Addresses |-> 0]]

MCCreateAt(world, addr, code) ==
    IF code.args = <<>> THEN [ok |-> FALSE, world |-> world]
    ELSE [ok |-> TRUE, world |-> [world EXCEPT !.init[addr] = code.init, !.storage[addr][0] = code.args[1]]]

MCCreate(world, code) == MCCreateAt(world, Contract, code)

MCStateAt(world, addr) == <<world.init[addr], world.storage[addr], world.transient[addr]>>

MCRun(world, from, to, input) ==
    IF world.init[to] = "fixed" THEN Fixed!RunCode(world, from, to, input)
    ELSE Current!RunCode(world, from, to, input)

-----------------------------------------------------------------------------
\* Methods, their names in the order of their places here.
VariantsIn(f) ==
    IF f \in {"set", "get"} THEN <<[fn |-> f, arg |-> 1], [fn |-> f, arg |-> 0]>>
    ELSE <<[fn |-> f, arg |-> 0]>>

Method(n) == [name |-> n, variants |-> VariantsIn(Names[n])]

\* In string order; three of them differ in what a test's name loses or keeps.
Signatures ==
    <<<<"bump", "(", ")">>, <<"digest", "(", ")">>, <<"get", "(", "uint256", ")">>,
      <<"price", "(", ")">>, <<"price", "_", "(", ")">>, <<"price", "_", "2", "(", ")">>,
      <<"set", "(", "uint256", ",", "uint256", "[", "]", ")">>, <<"touch", "(", ")">>>>

MCContracts ==
    {<<Method(1), Method(4), Method(5)>>, <<Method(1), Method(6)>>, <<Method(3), Method(7)>>,
     <<Method(3), Method(4)>>, <<Method(1), Method(4), Method(7)>>,
     <<Method(4), Method(6), Method(8)>>}

\* bump() before price(), price_() and price_2().
LikeNames == {<<Method(1), Method(4), Method(5), Method(6)>>}
\* bump() before digest().
AddressReaders == {<<Method(1), Method(2)>>}

Analyzing ==
    [analyze |-> TRUE, flags |-> TRUE, abi |-> FALSE, bin |-> FALSE, positional |-> 1,
     artifact |-> "good", abiFile |-> "good", codeFile |-> "good", json |-> FALSE, asked |-> Kind, src |-> FALSE, sol |-> TRUE, old |-> FALSE]

Asking ==
    {[Analyzing EXCEPT !.json = j, !.asked = a, !.sol = s, !.old = o] :
        j, s, o \in BOOLEAN, a \in SUBSET Kind}
    \cup {[Analyzing EXCEPT !.abi = TRUE, !.bin = TRUE, !.positional = 0, !.sol = FALSE, !.src = s] :
             s \in BOOLEAN}

Wrong ==
    {[Analyzing EXCEPT !.analyze = FALSE], [Analyzing EXCEPT !.flags = FALSE],
     [Analyzing EXCEPT !.artifact = "no code"],
     [Analyzing EXCEPT !.artifact = "malformed", !.abi = TRUE, !.bin = TRUE, !.positional = 0],
     [Analyzing EXCEPT !.codeFile = "empty", !.abi = TRUE, !.bin = TRUE, !.positional = 0]}
    \cup {[Analyzing EXCEPT !.abi = a, !.bin = b, !.positional = p] :
             a, b \in BOOLEAN, p \in 0..2}

MCUses == Asking \cup Wrong
OneUse == {Analyzing}

\* Only of the names that are too much alike is one another's with a number.
ASSUME BasesApartMet == BasesApart <=> Contracts # LikeNames

\* All of these contracts are self-contained, but for those that read their own
\* address, and the fixed source is fixed.
ASSUME SelfContainedMet ==
    /\ Contained(Bytecode.init) <=> Contracts # AddressReaders
    /\ Contained("fixed") <=> Contracts # AddressReaders
    /\ FixedIn("fixed") /\ ~FixedIn(Bytecode.init)
=============================================================================
