--------------------------- MODULE EnumerableSet ---------------------------
(***************************************************************************)
(* The sets of words that scripts/generate writes into EnumerableSet.sol:  *)
(* an array of the values, so that they can be listed, and for every value *)
(* its place in the array, so that it is found and removed in one step.    *)
(* Places count from 1: 0 says that a value is not in the set.             *)
(***************************************************************************)
EXTENDS Naturals, Sequences

CONSTANTS
    WordSpan,      \* 2^256
    AddressSpan    \* 2^160

ASSUME SpanAssumption ==
    /\ WordSpan \in Nat \ {0}
    /\ AddressSpan \in 1 .. WordSpan

Bytes32 == 0 .. WordSpan - 1

Types == {"bytes32", "uint256", "address"}

ValuesOf(type) == IF type = "address" THEN 0 .. AddressSpan - 1 ELSE Bytes32

\* An address is the low part of a word, both ways; a uint256 has the bits of its word.
ToBytes32(type, value) == IF type = "address" THEN value % AddressSpan ELSE value

FromBytes32(type, word) == IF type = "address" THEN word % AddressSpan ELSE word

EmptySet == [values |-> <<>>, indexes |-> [w \in Bytes32 |-> 0]]

\* _contains
SetContains(set, value) == set.indexes[value] # 0

\* _length, _at and _values
SetLength(set) == Len(set.values)

SetAt(set, index) == set.values[index + 1]

SetValues(set) == set.values

\* _add
Added(set, value) ==
    IF SetContains(set, value) THEN set
    ELSE [values |-> Append(set.values, value),
          indexes |-> [set.indexes EXCEPT ![value] = Len(set.values) + 1]]

\* The array and the places say the same: every value is in the array at its place, and
\* nowhere else.
Agree(set) ==
    /\ \A k \in DOMAIN set.values : set.indexes[set.values[k]] = k
    /\ \A w \in Bytes32 :
          SetContains(set, w) =>
              /\ set.indexes[w] \in DOMAIN set.values
              /\ set.values[set.indexes[w]] = w

\* Bug: the value that is moved keeps its old place.
RemovedUnindexed(set, value) ==
    LET at == set.indexes[value]
        last == Len(set.values)
    IN  IF at = 0 THEN set
        ELSE [values |-> SubSeq([set.values EXCEPT ![at] = set.values[last]], 1, last - 1),
              indexes |-> [set.indexes EXCEPT ![value] = 0]]

\* Bug: the values after it move up.
RemovedShifting(set, value) ==
    LET at == set.indexes[value]
        last == Len(set.values)
        rest == SubSeq(set.values, 1, at - 1) \o SubSeq(set.values, at + 1, last)
    IN  IF at = 0 THEN set
        ELSE [values |-> rest,
              indexes |-> [w \in Bytes32 |-> IF w = value THEN 0
                                             ELSE IF set.indexes[w] > at THEN set.indexes[w] - 1
                                             ELSE set.indexes[w]]]

\* _remove: the last value takes the place of the one removed, and then the last place
\* goes.  When the value is the last one the two writes of its place are one.
Removed(set, value) ==
    LET at == set.indexes[value]
        last == Len(set.values)
    IN  IF at = 0 THEN set
        ELSE [values |-> SubSeq([set.values EXCEPT ![at] = set.values[last]], 1, last - 1),
              indexes |-> [set.indexes EXCEPT ![set.values[last]] = at, ![value] = 0]]
=============================================================================
