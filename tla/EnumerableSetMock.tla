------------------------- MODULE EnumerableSetMock -------------------------
(***************************************************************************)
(* A contract with one set of a type other than words, as the mocks that   *)
(* scripts/generate writes beside EnumerableSet.sol have it.               *)
(***************************************************************************)
EXTENDS EnumerableSet, FiniteSets

CONSTANT Type      \* the type of the values

VARIABLES
    set,           \* _set
    result         \* the boolean that the last call returned

vars == <<set, result>>

Init ==
    /\ set = EmptySet
    /\ result = FALSE

\* add: true if the value was added.
Add(value) ==
    LET word == ToBytes32(Type, value)
    IN  /\ set' = Added(set, word)
        /\ result' = ~SetContains(set, word)

\* remove: true if the value was there.
Remove(value) ==
    LET word == ToBytes32(Type, value)
    IN  /\ set' = Removed(set, word)
        /\ result' = SetContains(set, word)

Next == \E value \in ValuesOf(Type) : Add(value) \/ Remove(value)

Spec == Init /\ [][Next]_vars
-----------------------------------------------------------------------------
Contains(value) == SetContains(set, ToBytes32(Type, value))

Length == SetLength(set)

At(index) == FromBytes32(Type, SetAt(set, index))

Values == [k \in 1 .. Length |-> FromBytes32(Type, SetValues(set)[k])]
-----------------------------------------------------------------------------
Members == {v \in ValuesOf(Type) : Contains(v)}

\* values and at list the members, each once, after any sequence of additions and of
\* removals that move another value.
ListsMembers ==
    /\ Members = {Values[k] : k \in DOMAIN Values}
    /\ Length = Cardinality(Members)
    /\ \A i \in 0 .. Length - 1 : At(i) = Values[i + 1]

\* The values at other places than before
Displaced == {v \in Members \cap Members' : \A i \in DOMAIN Values \cap DOMAIN Values' :
                                               ~ (Values[i] = v /\ Values'[i] = v)}

\* "This modifies the order of the array": of the values that stay, one at most, so that
\* who goes through the set from its end, and removes what is at hand, misses none.
OneMoves ==
    [][/\ Cardinality(Displaced) <= 1
       /\ \A v \in Displaced : Values[Length] = v]_vars
=============================================================================
