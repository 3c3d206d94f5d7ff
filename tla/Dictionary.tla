----------------------------- MODULE Dictionary -----------------------------
(***************************************************************************)
(* What a map promises: a value for each of its keys, and the answer of    *)
(* every change, which says whether the key was new, or was there.         *)
(***************************************************************************)
CONSTANTS Keys, Values

VARIABLES
    dict,      \* the value of each key that is there
    changed    \* the answer of the last change

Init ==
    /\ dict = [k \in {} |-> 0]
    /\ changed = FALSE

Put(key, value) ==
    /\ dict' = [k \in DOMAIN dict \cup {key} |-> IF k = key THEN value ELSE dict[k]]
    /\ changed' = (key \notin DOMAIN dict)

Delete(key) ==
    /\ dict' = [k \in DOMAIN dict \ {key} |-> dict[k]]
    /\ changed' = (key \in DOMAIN dict)

Next ==
    \E key \in Keys :
        \/ \E value \in Values : Put(key, value)
        \/ Delete(key)

Spec == Init /\ [][Next]_<<dict, changed>>
=============================================================================
