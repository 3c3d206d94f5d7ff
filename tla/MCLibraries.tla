---------------------------- MODULE MCLibraries ----------------------------
(***************************************************************************)
(* A contract that uses one of the generated libraries; which one is       *)
(* chosen at the start, and the state of the others stays as it is.        *)
(***************************************************************************)
EXTENDS EnumerableMap, BinaryLookup, FiniteSets

CONSTANTS
    MaxKey,        \* of the binary lookups: the largest key of a history
    SetType,       \* of EnumerableSetMock: Type
    Word,          \* of Casts
    Lengths,
    KeyBits,       \* of History
    ValueBits,
    Votes,         \* of History: Pushed
    Deltas,
    MaxBlock,
    TraceKeys,     \* of Trace: Keys
    TraceValues,   \* of Trace: Pushed
    MaxPushes

\* Every type has a bit at least.
ASSUME WidthAssumption ==
    /\ Word \in Nat \ {0}
    /\ Lengths \subseteq Nat \ {0}

\* What is pushed, and the keys it is pushed under, is unsigned.
ASSUME PushedAssumption ==
    /\ Votes \subseteq Nat
    /\ Deltas \subseteq Nat
    /\ TraceKeys \subseteq Nat
    /\ TraceValues \subseteq Nat

VARIABLES
    library,             \* the library that is used
    set, answer,         \* the variables of EnumerableSetMock,
    given, number, signed,             \* of Casts,
    votes, block, ended,               \* of History,
    trace, pushes                      \* and of Trace

setVars == <<set, answer>>

castVars == <<given, number, signed>>

historyVars == <<votes, block, ended>>

traceVars == <<trace, pushes>>

librariesVars == <<library, vars, lookupVars, setVars, castVars, historyVars, traceVars>>

EnumerableSetMock == INSTANCE EnumerableSetMock WITH Type <- SetType, result <- answer

Casts == INSTANCE Casts

History == INSTANCE History WITH Pushed <- Votes, checkpoints <- votes

Trace == INSTANCE Trace WITH
    Keys <- TraceKeys, Pushed <- TraceValues, checkpoints <- trace

Libraries ==
    {"EnumerableMap", "EnumerableSet", "SafeCast", "BinaryLookup", "History", "Trace"}

Nth(ks, i) == CHOOSE k \in ks : Cardinality({j \in ks : j <= k}) = i

\* Every history with keys from a small range
MCHistories ==
    {[i \in 1 .. Cardinality(ks) |-> [key |-> Nth(ks, i), value |-> i]] :
        ks \in SUBSET (1 .. MaxKey)}

MCKeys == 0 .. MaxKey + 1

\* Casts and BinaryLookup start in many states, the others in one.
LibrariesInit ==
    /\ library \in Libraries
    /\ Init
    /\ EnumerableSetMock!Init
    /\ History!Init
    /\ Trace!Init
    /\ \/ library = "SafeCast" /\ Casts!Init
       \/ library # "SafeCast" /\ given = 0 /\ number = 0 /\ signed = FALSE
    /\ \/ library = "BinaryLookup" /\ LookupInit
       \/ /\ library # "BinaryLookup"
          /\ cs = <<>> /\ key = 0 /\ upper = TRUE /\ range = Whole

LibrariesNext ==
    \/ /\ library = "EnumerableMap"
       /\ Next
       /\ UNCHANGED <<library, lookupVars, setVars, castVars, historyVars, traceVars>>
    \/ /\ library = "EnumerableSet"
       /\ EnumerableSetMock!Next
       /\ UNCHANGED <<library, vars, lookupVars, castVars, historyVars, traceVars>>
    \/ /\ library = "SafeCast"
       /\ Casts!Next
       /\ UNCHANGED <<library, vars, lookupVars, setVars, historyVars, traceVars>>
    \/ /\ library = "BinaryLookup"
       /\ LookupNext
       /\ UNCHANGED <<library, vars, setVars, castVars, historyVars, traceVars>>
    \/ /\ library = "History"
       /\ History!Next
       /\ UNCHANGED <<library, vars, lookupVars, setVars, castVars, traceVars>>
    \/ /\ library = "Trace"
       /\ Trace!Next
       /\ UNCHANGED <<library, vars, lookupVars, setVars, castVars, historyVars>>

\* A call of a lookup runs to its end.
LibrariesSpec == LibrariesInit /\ [][LibrariesNext]_librariesVars /\ WF_lookupVars(Turn)
-----------------------------------------------------------------------------
\* EnumerableSet: values and at list the members of a set, each once, after any sequence
\* of additions and of removals that move another value.
ListsMembers == EnumerableSetMock!ListsMembers

\* EnumerableSet: a removal moves one of the values that stay at most, and that is the
\* last one.
OneMoves == EnumerableSetMock!OneMoves

\* SafeCast: no chain of checked casts changes a number.
NumberKept == Casts!NumberKept

\* Checkpoints: getAtBlock answers for every past block with the value it ended with,
\* whatever is pushed later.
PastIsKept == History!PastIsKept

\* Checkpoints: getAtProbablyRecentBlock finds what getAtBlock finds.
RecentAgrees == History!RecentAgrees

\* Checkpoints: upperLookup and lowerLookup find what was pushed last under the key that
\* they are to find.
LookupsRight == Trace!UpperLookupRight /\ Trace!LowerLookupRight
=============================================================================
