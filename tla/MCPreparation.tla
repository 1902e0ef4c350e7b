---------------------------- MODULE MCPreparation ----------------------------
(***************************************************************************)
(* Constructors of every shape with every set of arguments they may accept,*)
(* and every pair of methods with one argument, over all kinds of types.   *)
(***************************************************************************)
EXTENDS Preparation

big     == Elementary("bigint")
uint64  == Elementary("uint")
bool    == Elementary("bool")
address == FixedBytes(20)
word    == FixedBytes(32)
order   == StructOf(<<address, big>>)
odd     == ClashingTuple(<<big, big>>)

Leaves == {big, uint64, Elementary("int"), bool, Elementary("string"),
           Elementary("bytes"), address, word}
Compound == {SliceOf(address), ArrayOf(1, big), ArrayOf(2, big), ArrayOf(3, address),
             ArrayOf(4, uint64), ArrayOf(5, word), ArrayOf(2, ArrayOf(2, big)), ArrayOf(2, bool),
             order, SliceOf(order), odd, SliceOf(odd)}

MCTypes == Leaves \cup Compound

ConstructorInputs ==
    {<<>>, <<big>>, <<address, uint64>>, <<Elementary("string")>>, <<bool>>,
     <<ArrayOf(2, big)>>, <<ArrayOf(3, address), big>>, <<ArrayOf(2, ArrayOf(2, big))>>,
     <<ArrayOf(2, bool)>>, <<ArrayOf(4, uint64)>>, <<order, word>>, <<SliceOf(order)>>, <<odd>>}

Method(n, inputs) == [name |-> n, inputs |-> inputs]

MCAbis ==
    {[inputs |-> c, methods |-> <<Method(1, <<>>), Method(2, <<odd>>)>>] : c \in ConstructorInputs}
    \cup
    {[inputs |-> <<>>, methods |-> <<Method(1, <<t>>), Method(2, <<big, u>>)>>] : t, u \in MCTypes}
=============================================================================
