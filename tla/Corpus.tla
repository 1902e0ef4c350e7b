-------------------------------- MODULE Corpus --------------------------------
(***************************************************************************)
(* The argument values of internal/analyze: corpus.go, the variants that   *)
(* buildJobs and constructorArgVariants make of them, and the zero values  *)
(* of specs.go.  A type is the tree of Go kinds the ABI gives an argument, *)
(* and a value a tree of the same shape, whose leaves are numbers, truth   *)
(* values and the names of addresses, strings and byte strings.            *)
(***************************************************************************)
EXTENDS Integers, Sequences, FiniteSets, SequencesExt

CONSTANT Types   \* the argument types, each with the types it is made of

Elementary(kind)  == [kind |-> kind, len |-> 1, of |-> <<>>]
FixedBytes(n)     == [kind |-> "bytearray", len |-> n, of |-> <<>>]
SliceOf(t)        == [kind |-> "slice", len |-> 1, of |-> <<t>>]
ArrayOf(n, t)     == [kind |-> "array", len |-> n, of |-> <<t>>]
StructOf(ts)      == [kind |-> "struct", len |-> Len(ts), of |-> ts]
\* A tuple two of whose field names are one name once capitalised: the encoder
\* refuses a value that has one.
ClashingTuple(ts) == [kind |-> "clash", len |-> Len(ts), of |-> ts]

AddressLength == 20

IsLeaf(t) == t.of = <<>>
Part(t, i) == IF t.kind \in {"slice", "array"} THEN t.of[1] ELSE t.of[i]

LeafKinds == {"bigint", "uint", "int", "bool", "string", "bytes", "bytearray"}

Depth[t \in Types] == IF IsLeaf(t) THEN 0 ELSE 1 + Max({0} \cup {Depth[Part(t, i)] : i \in 1..t.len})

\* Types are finite trees: no type is made of itself.
ASSUME TypesAssumption ==
    /\ IsFiniteSet(Types)
    /\ \A t \in Types :
          /\ t.len \in Nat /\ Depth[t] \in Nat
          /\ IsLeaf(t) => t.kind \in LeafKinds
          /\ ~IsLeaf(t) => \A i \in 1..t.len : Part(t, i) \in Types /\ Depth[Part(t, i)] < Depth[t]

-----------------------------------------------------------------------------
\* The corpora, and the choice of a round: every list is gone through in turn.
BigCorpus       == <<1, 0, 2, 1000000>>
SmallUintCorpus == <<1, 0, 2, 7>>
SmallIntCorpus  == <<1, 0, 2, -1>>
StringCorpus    == <<"sequent", "">>
BytesCorpus     == <<"deadbeef", "">>
AddressCorpus(lead) == <<lead, "zero", "beef", "cafef00d">>

PickUpToLast(corpus, round) == corpus[IF round < Len(corpus) THEN round + 1 ELSE Len(corpus)]
Pick(corpus, round) == corpus[(round % Len(corpus)) + 1]

\* fillByteArray: twenty bytes are an address, whatever their type; others are
\* all the same byte.
ByteArray(n, round, addrs) ==
    IF n = AddressLength THEN Pick(addrs, round) ELSE (round + 1) % 256

OddRounds(round) == round % 2 = 1
EvenRounds(round) == round % 2 = 0

\* setFromCorpus: the elements of an array are those of successive rounds, a
\* slice has one element, the fields of a tuple are all of the same round.
LeafFromCorpus(t, round, addrs) ==
    CASE t.kind = "bigint"    -> Pick(BigCorpus, round)
      [] t.kind = "uint"      -> Pick(SmallUintCorpus, round)
      [] t.kind = "int"       -> Pick(SmallIntCorpus, round)
      [] t.kind = "bool"      -> EvenRounds(round)
      [] t.kind = "string"    -> Pick(StringCorpus, round)
      [] t.kind = "bytes"     -> Pick(BytesCorpus, round)
      [] t.kind = "bytearray" -> ByteArray(t.len, round, addrs)

Shift(t, i) == IF t.kind = "array" THEN i - 1 ELSE 0

FromCorpus(type, round, addrs) ==
    LET set[t \in Types] ==
            [r \in Nat |-> IF IsLeaf(t) THEN LeafFromCorpus(t, r, addrs)
                           ELSE [i \in 1..t.len |-> set[Part(t, i)][r + Shift(t, i)]]]
    IN  set[type][round]

CorpusArgs(inputs, round, lead) ==
    [i \in DOMAIN inputs |-> FromCorpus(inputs[i], round, AddressCorpus(lead))]

\* fillZero: a slice stays empty.
ZeroLeaf(t) ==
    CASE t.kind \in {"bigint", "uint", "int"} -> 0
      [] t.kind = "bool"                      -> FALSE
      [] t.kind \in {"string", "bytes"}       -> ""
      [] t.kind = "bytearray"                 -> IF t.len = AddressLength THEN "zero" ELSE 0

ZeroOf(type) ==
    LET zero[t \in Types] ==
            IF IsLeaf(t) THEN ZeroLeaf(t)
            ELSE IF t.kind = "slice" THEN <<>>
            ELSE [i \in 1..t.len |-> zero[Part(t, i)]]
    IN  zero[type]

ZeroArgs(inputs) == [i \in DOMAIN inputs |-> ZeroOf(inputs[i])]

-----------------------------------------------------------------------------
\* Pack refuses a value that has a clashing tuple in it.  It does not look for
\* one in the elements of an empty slice.
Reached(type, emptySlices) ==
    LET parts[t \in Types] ==
            {t} \cup (IF IsLeaf(t) \/ (emptySlices /\ t.kind = "slice") THEN {}
                      ELSE UNION {parts[Part(t, i)] : i \in 1..t.len})
    IN  parts[type]

Packs(inputs, emptySlices) ==
    \A i \in DOMAIN inputs : \A t \in Reached(inputs[i], emptySlices) : t.kind # "clash"

\* seen: the arguments of a later round that repeat an earlier one's are not
\* tried again.  Different arguments have different encodings.
AddUnlessLast(variants, args) ==
    IF variants # <<>> /\ Last(variants) = args THEN variants ELSE Append(variants, args)
AddNew(variants, args) ==
    IF args \in ToSet(variants) THEN variants ELSE Append(variants, args)

\* The argument sets of the loops of buildJobs and constructorArgVariants.
Variants(inputs, rounds, lead) ==
    IF ~Packs(inputs, FALSE) THEN <<>>
    ELSE LET after[k \in 0..rounds] ==
                 IF k = 0 THEN <<>> ELSE AddNew(after[k - 1], CorpusArgs(inputs, k - 1, lead))
         IN  after[rounds]

OneRound == 1
DefaultRounds == 4

\* FuzzConfig.rounds
RoundsFor(requested) == IF requested > 0 THEN requested ELSE DefaultRounds

\* constructorArgVariants: nothing at all is appended when there is no argument.
ConstructorArgVariants(inputs, deployer) ==
    IF inputs = <<>> THEN <<<<>>>> ELSE Variants(inputs, DefaultRounds, deployer)
=============================================================================
