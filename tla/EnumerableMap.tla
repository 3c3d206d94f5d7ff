--------------------------- MODULE EnumerableMap ---------------------------
(***************************************************************************)
(* The maps that scripts/generate writes into EnumerableMap.sol, as a      *)
(* contract uses them: an enumerable set of the keys and, beside it, a     *)
(* mapping that holds a word for every key, 0 when nothing was stored.  So *)
(* a key with the value 0 and a key that is not there look alike in the    *)
(* mapping, and a value that is left behind looks like a key that is.      *)
(***************************************************************************)
EXTENDS EnumerableSet

CONSTANTS
    KeyType,       \* the types the map is generated for
    ValueType,
    Stored         \* the values that are stored

ASSUME MapAssumption ==
    /\ KeyType \in Types
    /\ ValueType \in Types
    /\ Stored \subseteq ValuesOf(ValueType)

VARIABLES
    keys,          \* _keys
    values,        \* _values
    result         \* the boolean that the last call returned

vars == <<keys, values, result>>

Keys == ValuesOf(KeyType)

Init ==
    /\ keys = EmptySet
    /\ values = [w \in Bytes32 |-> 0]
    /\ result = FALSE

\* Bug: set answers from the set it has already changed.
SetWordAnswersLate(key, word) ==
    /\ values' = [values EXCEPT ![key] = word]
    /\ keys' = Added(keys, key)
    /\ result' = ~SetContains(Added(keys, key), key)

\* set, for words: true if the key was added.
SetWord(key, word) ==
    /\ values' = [values EXCEPT ![key] = word]
    /\ keys' = Added(keys, key)
    /\ result' = ~SetContains(keys, key)

\* Bug: the value stays behind.
RemoveWordKeepingValue(key) ==
    /\ keys' = Removed(keys, key)
    /\ result' = SetContains(keys, key)
    /\ UNCHANGED values

\* remove, for words: true if the key was there.
RemoveWord(key) ==
    /\ values' = [values EXCEPT ![key] = 0]
    /\ keys' = Removed(keys, key)
    /\ result' = SetContains(keys, key)

\* set and remove, for the types of the map
Set(key, value) == SetWord(ToBytes32(KeyType, key), ToBytes32(ValueType, value))

Remove(key) == RemoveWord(ToBytes32(KeyType, key))

Next ==
    \E key \in Keys :
        \/ \E value \in Stored : Set(key, value)
        \/ Remove(key)

Spec == Init /\ [][Next]_vars
-----------------------------------------------------------------------------
(* What the map answers.                                                    *)

\* For words: a value other than 0 is taken for the sign that the key is there.
ContainsWord(key) == SetContains(keys, key)

WordAt(index) == LET key == SetAt(keys, index) IN <<key, values[key]>>

TryGetWord(key) == <<values[key] # 0 \/ ContainsWord(key), values[key]>>

\* get does not revert.
CanGetWord(key) == values[key] # 0 \/ ContainsWord(key)

\* For the types of the map
Contains(key) == ContainsWord(ToBytes32(KeyType, key))

Length == SetLength(keys)

At(index) ==
    LET entry == WordAt(index)
    IN  <<FromBytes32(KeyType, entry[1]), FromBytes32(ValueType, entry[2])>>

TryGet(key) ==
    LET answer == TryGetWord(ToBytes32(KeyType, key))
    IN  <<answer[1], FromBytes32(ValueType, answer[2])>>

CanGet(key) == CanGetWord(ToBytes32(KeyType, key))

Get(key) == FromBytes32(ValueType, values[ToBytes32(KeyType, key)])
-----------------------------------------------------------------------------
\* The array of the keys and the mapping of their places agree after any sequence of
\* changes, though a removal moves another key.
PlacesAgree == Agree(keys)

\* What is listed by at, between 0 and the length, is what tryGet and get find, each key
\* once: although tryGet and get trust a value that is not 0 and do not ask for the key.
ListedIsFound ==
    LET listed == {At(i) : i \in 0 .. Length - 1}
    IN  /\ listed = {<<key, Get(key)>> : key \in {k \in Keys : CanGet(k)}}
        /\ \A key \in Keys : TryGet(key) = <<Contains(key), Get(key)>>
        /\ \A i, j \in 0 .. Length - 1 : i # j => At(i)[1] # At(j)[1]

\* What contains and get show of the map
Shown == [key \in {k \in Keys : Contains(k)} |-> Get(key)]

Dictionary == INSTANCE Dictionary WITH
    Values <- Stored,
    dict <- Shown,
    changed <- result

\* Seen through contains and get, the map is a dictionary.
ImplementsDictionary == Dictionary!Spec
=============================================================================
