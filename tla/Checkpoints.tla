---------------------------- MODULE Checkpoints ----------------------------
(***************************************************************************)
(* The histories of checkpoints that scripts/generate writes into          *)
(* Checkpoints.sol: a value is recorded under a key that never decreases,  *)
(* and is looked up later by binary search.  Positions count from 0, as in *)
(* the code: the checkpoint at pos is cs[pos + 1].                         *)
(***************************************************************************)
EXTENDS Integers, Sequences

\* _unsafeAccess, within the array
Access(cs, pos) == cs[pos + 1]

\* latest and the value in latestCheckpoint
Latest(cs) == IF cs = <<>> THEN 0 ELSE Access(cs, Len(cs) - 1).value

\* The key of _insert is not below the last one.
KeyAllowed(cs, key) == IF cs = <<>> THEN TRUE ELSE Access(cs, Len(cs) - 1).key <= key

\* Bug: a second value under the last key gets a checkpoint of its own.
InsertedAlways(cs, key, value) == Append(cs, [key |-> key, value |-> value])

\* _insert
Inserted(cs, key, value) ==
    IF cs # <<>> /\ Access(cs, Len(cs) - 1).key = key
    THEN [cs EXCEPT ![Len(cs)].value = value]
    ELSE Append(cs, [key |-> key, value |-> value])

\* Bug: rounded up.
AverageUp(a, b) == (a + b + 1) \div 2

\* Math.average, which does not overflow
Average(a, b) == (a + b) \div 2

\* Bug: a checkpoint under the search key itself counts as later.
UpperStepFromKey(cs, key, range) ==
    LET mid == Average(range.low, range.high)
    IN  IF Access(cs, mid).key >= key THEN [range EXCEPT !.high = mid]
                                      ELSE [range EXCEPT !.low = mid + 1]

\* Bug: the half that is kept starts with mid, and may be the range again.
LowerStepKeepsMid(cs, key, range) ==
    LET mid == Average(range.low, range.high)
    IN  IF Access(cs, mid).key < key THEN [range EXCEPT !.low = mid]
                                     ELSE [range EXCEPT !.high = mid]

\* One turn of the loops of _upperBinaryLookup and _lowerBinaryLookup.
UpperStep(cs, key, range) ==
    LET mid == Average(range.low, range.high)
    IN  IF Access(cs, mid).key > key THEN [range EXCEPT !.high = mid]
                                     ELSE [range EXCEPT !.low = mid + 1]

LowerStep(cs, key, range) ==
    LET mid == Average(range.low, range.high)
    IN  IF Access(cs, mid).key < key THEN [range EXCEPT !.low = mid + 1]
                                     ELSE [range EXCEPT !.high = mid]

Ranges(cs) == [low : 0 .. Len(cs), high : 0 .. Len(cs)]

\* _upperBinaryLookup
UpperBinaryLookup(cs, key, low, high) ==
    LET search[range \in Ranges(cs)] ==
          IF range.low < range.high THEN search[UpperStep(cs, key, range)] ELSE range.high
    IN  search[[low |-> low, high |-> high]]

\* _lowerBinaryLookup
LowerBinaryLookup(cs, key, low, high) ==
    LET search[range \in Ranges(cs)] ==
          IF range.low < range.high THEN search[LowerStep(cs, key, range)] ELSE range.high
    IN  search[[low |-> low, high |-> high]]

\* The value of the checkpoint before pos.
ValueBefore(cs, pos) == IF pos = 0 THEN 0 ELSE Access(cs, pos - 1).value

\* upperLookup, and getAtBlock once it has checked the block
UpperLookup(cs, key) == ValueBefore(cs, UpperBinaryLookup(cs, key, 0, Len(cs)))

\* lowerLookup
LowerLookup(cs, key) ==
    LET pos == LowerBinaryLookup(cs, key, 0, Len(cs))
    IN  IF pos = Len(cs) THEN 0 ELSE Access(cs, pos).value

\* Math.log2, for numbers other than 0
Log2(a) == CHOOSE k \in 0 .. a : 2 ^ k <= a /\ a < 2 ^ (k + 1)

\* Math.sqrt: seven turns of Newton's method from a power of 2, and the less of the last
\* guess and its quotient.
Sqrt(a) ==
    LET newton[n \in 0 .. 7] ==
          IF n = 0 THEN 2 ^ (Log2(a) \div 2)
          ELSE (newton[n - 1] + a \div newton[n - 1]) \div 2
        guess == newton[7]
    IN  IF a = 0 THEN 0 ELSE IF guess <= a \div guess THEN guess ELSE a \div guess

\* Bug: a key equal to the one in the middle is looked for on the left.
SplitLeft(cs, key, mid) ==
    IF key <= Access(cs, mid).key THEN [low |-> 0, high |-> mid]
                                  ELSE [low |-> mid + 1, high |-> Len(cs)]

\* Where a lookup goes on that has looked at the checkpoint at mid first.
SplitAt(cs, key, mid) ==
    IF key < Access(cs, mid).key THEN [low |-> 0, high |-> mid]
                                 ELSE [low |-> mid + 1, high |-> Len(cs)]

\* getAtProbablyRecentBlock, once it has checked the block: it looks first whether the key
\* is among the last sqrt(len) checkpoints.
RecentLookup(cs, key) ==
    LET len == Len(cs)
        range == IF len > 5 THEN SplitAt(cs, key, len - Sqrt(len)) ELSE [low |-> 0, high |-> len]
    IN  ValueBefore(cs, UpperBinaryLookup(cs, key, range.low, range.high))
=============================================================================
