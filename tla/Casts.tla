-------------------------------- MODULE Casts --------------------------------
(***************************************************************************)
(* A number that is handed through casts one after another, as the         *)
(* functions of SafeCastMock do one at a time.                             *)
(***************************************************************************)
EXTENDS SafeCast

CONSTANTS
    Word,          \* 256
    Lengths        \* the widths of the other types

VARIABLES
    given,         \* history: the number the first cast was given
    number,        \* what it is now
    signed         \* whether it is an int256 or a uint256

vars == <<given, number, signed>>

Init ==
    /\ \/ signed = FALSE /\ number \in 0 .. UintMax(Word)
       \/ signed = TRUE /\ number \in IntMin(Word) .. IntMax(Word)
    /\ given = number

\* toUintN(uint256)
ToUintDownCast(bits) ==
    /\ ~ signed
    /\ FitsUint(bits, number)
    /\ number' = UintCast(bits, number)
    /\ UNCHANGED <<given, signed>>

\* toIntN(int256)
ToIntDownCast(bits) ==
    /\ signed
    /\ FitsInt(bits, number)
    /\ number' = IntCast(bits, number)
    /\ UNCHANGED <<given, signed>>

\* toInt256(uint256)
ToInt ==
    /\ ~ signed
    /\ FitsSign(Word, number)
    /\ number' = IntCast(Word, number)
    /\ signed' = TRUE
    /\ UNCHANGED given

\* toUint256(int256)
ToUint ==
    /\ signed
    /\ FitsNoSign(Word, number)
    /\ number' = UintCast(Word, number)
    /\ signed' = FALSE
    /\ UNCHANGED given

Next ==
    \/ \E bits \in Lengths : ToUintDownCast(bits) \/ ToIntDownCast(bits)
    \/ ToInt
    \/ ToUint

Spec == Init /\ [][Next]_vars
-----------------------------------------------------------------------------
\* No chain of checked casts changes a number, whatever its signs and widths.
NumberKept == number = given
=============================================================================
