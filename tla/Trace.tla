------------------------------- MODULE Trace -------------------------------
(***************************************************************************)
(* A contract that records values under keys of its own choice.            *)
(***************************************************************************)
EXTENDS Checkpoints

CONSTANTS
    Keys,          \* the keys a push or a lookup may be given
    Pushed,        \* the values
    MaxPushes      \* how often something is pushed

VARIABLES
    checkpoints,   \* _checkpoints
    pushes         \* history: what was pushed, in order

vars == <<checkpoints, pushes>>

Init ==
    /\ checkpoints = <<>>
    /\ pushes = <<>>

\* push(key, value)
Push(key, value) ==
    /\ Len(pushes) < MaxPushes
    /\ KeyAllowed(checkpoints, key)
    /\ checkpoints' = Inserted(checkpoints, key, value)
    /\ pushes' = Append(pushes, [key |-> key, value |-> value])

Next == \E key \in Keys, value \in Pushed : Push(key, value)

Spec == Init /\ [][Next]_vars
-----------------------------------------------------------------------------
\* The value that was pushed last under a key in ks, if any.
LastUnder(ks) ==
    LET at == {i \in DOMAIN pushes : pushes[i].key \in ks}
    IN  IF at = {} THEN 0 ELSE pushes[CHOOSE i \in at : \A j \in at : j <= i].value

\* upperLookup finds what was pushed last under the search key or one below it.
UpperLookupRight ==
    \A key \in Keys : UpperLookup(checkpoints, key) = LastUnder({k \in Keys : k <= key})

\* lowerLookup finds what was pushed last under the least key that is used and is not
\* below the search key.
LowerLookupRight ==
    \A key \in Keys :
        LET used == {k \in Keys : k >= key /\ \E i \in DOMAIN pushes : pushes[i].key = k}
        IN  LowerLookup(checkpoints, key) = LastUnder({k \in used : \A j \in used : k <= j})
=============================================================================
