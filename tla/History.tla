------------------------------ MODULE History ------------------------------
(***************************************************************************)
(* A contract that records one value under the number of the block, as     *)
(* votes do, and is asked about past blocks.                               *)
(***************************************************************************)
EXTENDS Checkpoints, SafeCast

CONSTANTS
    KeyBits,       \* 32: the width of the number of a block
    ValueBits,     \* 224: the width of a value
    Pushed,        \* the values a push may be given
    Deltas,        \* what push adds to the latest value, or takes from it
    MaxBlock       \* the last block of the model

VARIABLES
    checkpoints,   \* _checkpoints
    block,         \* block.number
    ended          \* history: the value each past block ended with

vars == <<checkpoints, block, ended>>

Init ==
    /\ checkpoints = <<>>
    /\ block = 0
    /\ ended = <<>>

\* push(value): in a block whose number, and with a value that, fits.
Push(value) ==
    /\ FitsUint(KeyBits, block)
    /\ FitsUint(ValueBits, value)
    /\ KeyAllowed(checkpoints, block)
    /\ checkpoints' = Inserted(checkpoints, block, value)
    /\ UNCHANGED <<block, ended>>

\* push(op, delta), with the additions and subtractions that votes push.
PushDelta(delta) ==
    \/ Push(Latest(checkpoints) + delta)
    \/ Latest(checkpoints) >= delta /\ Push(Latest(checkpoints) - delta)

\* The chain goes on to the next block.
NextBlock ==
    /\ block < MaxBlock
    /\ block' = block + 1
    /\ ended' = Append(ended, Latest(checkpoints))
    /\ UNCHANGED checkpoints

Next ==
    \/ \E value \in Pushed : Push(value)
    \/ \E delta \in Deltas : PushDelta(delta)
    \/ NextBlock

Spec == Init /\ [][Next]_vars
-----------------------------------------------------------------------------
\* The blocks that getAtBlock and getAtProbablyRecentBlock answer for.
Asked == {b \in 0 .. block - 1 : FitsUint(KeyBits, b)}

\* getAtBlock: "the number returned corresponds to that at the end of the block", for
\* every past block, and nothing that is pushed later changes it.
PastIsKept == \A b \in Asked : UpperLookup(checkpoints, b) = ended[b + 1]

\* getAtProbablyRecentBlock is "similar to upperLookup but optimized": it finds the same,
\* on both sides of the place where it splits the array.
RecentAgrees ==
    \A b \in Asked : RecentLookup(checkpoints, b) = UpperLookup(checkpoints, b)
=============================================================================
