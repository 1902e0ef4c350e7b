------------------------------ MODULE Executor ------------------------------
(***************************************************************************)
(* The in-memory machine of internal/evm.  An executor value is its world  *)
(* (go-ethereum's StateDB) and the journal of snapshots taken and not yet  *)
(* reverted.  What a contract does when it runs is the operator Run, which *)
(* the theorems leave open and module ContractCode fills in for TLC.       *)
(*                                                                         *)
(* A world is a record with at least the field balance.  The receipt of    *)
(* Run is [ok, world, output, steps]: whether the frame succeeded, the     *)
(* world it leaves if it did, the bytes returned, and the opcodes run, each*)
(* with the address whose storage it touches and the stack top it found.   *)
(***************************************************************************)
EXTENDS Integers, Sequences

CONSTANTS
    Run(_, _, _, _),  \* Run(world, from, to, input): the contract's own code
    Create(_, _),     \* Create(world, code): [ok, world] of a constructor run
    EmptyWorld,       \* the state every executor starts from
    Ether             \* how much fund adds: 10^18 wei

\* New: an empty world and no snapshot.
NewExecutor == [world |-> EmptyWorld, journal |-> <<>>]

\* fund: every Call and Deploy credits its sender, through the journal but
\* outside the frame of the call.
Fund(world, who) == [world EXCEPT !.balance[who] = @ + Ether]

\* Deploy: only a successful constructor leaves anything but the credit.
Created(e, funded, receipt) ==
    [ok   |-> receipt.ok,
     exec |-> [e EXCEPT !.world = IF receipt.ok THEN receipt.world ELSE funded]]

Deploy(e, deployer, code) ==
    LET funded == Fund(e.world, deployer)
    IN  Created(e, funded, Create(funded, code))

AllReads == [SLOAD |-> "read", SSTORE |-> "read"]
Kinds == [SLOAD |-> "read", SSTORE |-> "write"]

\* onOpcode: the storage opcodes of the target's own frames, seen before they
\* execute, so those of a call that reverts are recorded too.
OfAnyAddress(step, target) == step.op \in DOMAIN Kinds
OfTarget(step, target) == step.op \in DOMAIN Kinds /\ step.addr = target

\* The accesses of one call as a set: every reader of the list, Reads and
\* Writes in internal/trace, drops order and repeats.
Traced(steps, target) ==
    {[kind |-> Kinds[steps[i].op], slot |-> steps[i].slot] :
        i \in {k \in DOMAIN steps : OfTarget(steps[k], target)}}

\* What a call hands over of its trace: all of it, whether or not it reverts.
AccessesIfKept(receipt, target) == IF receipt.ok THEN Traced(receipt.steps, target) ELSE {}
Accesses(receipt, target) == Traced(receipt.steps, target)

\* Call: credit the sender, run, and keep the effects of a call that succeeds.
\* The call's own frame undoes a failure, but not the credit before it.
Returned(e, funded, receipt, to) ==
    [exec     |-> [e EXCEPT !.world = IF receipt.ok THEN receipt.world ELSE funded],
     output   |-> receipt.output,
     reverted |-> ~receipt.ok,
     accesses |-> Accesses(receipt, to)]

Call(e, from, to, input) ==
    LET funded == Fund(e.world, from)
    IN  Returned(e, funded, Run(funded, from, to, input), to)

\* Snapshot and RevertToSnapshot: a snapshot is known by its place in the
\* journal; reverting to it drops it and every later one.
Snapshot(e) == [e EXCEPT !.journal = Append(@, e.world)]
SnapshotId(e) == Len(e.journal) + 1

KnownSnapshot(e, id) == id \in DOMAIN e.journal
RevertToSnapshot(e, id) ==
    [world |-> e.journal[id], journal |-> SubSeq(e.journal, 1, id - 1)]
=============================================================================
