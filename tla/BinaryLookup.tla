---------------------------- MODULE BinaryLookup ----------------------------
(***************************************************************************)
(* The loops of _upperBinaryLookup and _lowerBinaryLookup, one turn at a   *)
(* time, from where upperLookup, getAtBlock, getAtProbablyRecentBlock and  *)
(* lowerLookup enter them.                                                 *)
(***************************************************************************)
EXTENDS Checkpoints

CONSTANTS
    Histories,     \* the arrays that are searched
    SearchKeys     \* the keys that are looked for

\* What _insert makes: the keys of a history increase.
ASSUME HistoriesAssumption ==
    /\ SearchKeys \subseteq Nat
    /\ Histories \subseteq Seq([key : Nat, value : Nat])
    /\ \A cs \in Histories : \A i, j \in 1 .. Len(cs) : i < j => cs[i].key < cs[j].key

VARIABLES
    cs,            \* self
    key,           \* key
    upper,         \* which of the two loops runs
    range          \* low and high

lookupVars == <<cs, key, upper, range>>

Whole == [low |-> 0, high |-> Len(cs)]

\* The recent lookup may split the array anywhere: nothing rests on the square root.
LookupInit ==
    /\ cs \in Histories
    /\ key \in SearchKeys
    /\ upper \in BOOLEAN
    /\ \/ range = Whole
       \/ upper /\ \E mid \in 0 .. Len(cs) - 1 : range = SplitAt(cs, key, mid)

Searching == range.low < range.high

Turn ==
    /\ Searching
    /\ range' = IF upper THEN UpperStep(cs, key, range) ELSE LowerStep(cs, key, range)
    /\ UNCHANGED <<cs, key, upper>>

LookupNext == Turn

\* A call runs to its end.
LookupSpec == LookupInit /\ [][LookupNext]_lookupVars /\ WF_lookupVars(Turn)
-----------------------------------------------------------------------------
LookupTypeOK ==
    /\ cs \in Histories
    /\ key \in SearchKeys
    /\ upper \in BOOLEAN
    /\ range \in [low : 0 .. Len(cs), high : 0 .. Len(cs)]
    /\ range.low <= range.high

\* _unsafeAccess checks no bounds: the loop reads only what is in the array.
AccessInArray == Searching => Average(range.low, range.high) < Len(cs)

\* Whether a checkpoint comes before the place that is looked for.
Before(pos) == IF upper THEN Access(cs, pos).key <= key ELSE Access(cs, pos).key < key

\* "Return the index of the oldest checkpoint whose key is greater than the search key"
\* (the upper loop), "greater or equal" (the lower loop), "or `high` if there is none".
Found ==
    ~ Searching => \A pos \in 0 .. Len(cs) - 1 : Before(pos) <=> pos < range.high

\* The loop ends.
Ends == <>(~ Searching)
=============================================================================
