------------------------------ MODULE SafeCast ------------------------------
(***************************************************************************)
(* The checked casts that scripts/generate writes into SafeCast.sol.  A    *)
(* cast of the language keeps the low bits and says nothing; these fail    *)
(* when the number does not fit.                                           *)
(***************************************************************************)
EXTENDS Integers

UintMax(bits) == 2 ^ bits - 1

IntMax(bits) == 2 ^ (bits - 1) - 1

IntMin(bits) == -(2 ^ (bits - 1))

\* What the cast uintN(value) and intN(value) make of any number: its low bits, read as a
\* number with or without a sign.
UintCast(bits, value) == value % 2 ^ bits

IntCast(bits, value) ==
    LET low == UintCast(bits, value)
    IN  IF low > IntMax(bits) THEN low - 2 ^ bits ELSE low

\* toUintN(uint256)
FitsUint(bits, value) == value <= UintMax(bits)

\* toIntN(int256): what the cast has made of the value is compared with it.
FitsInt(bits, value) == IntCast(bits, value) = value

\* Bug: a number as wide as the unsigned word passes.
FitsWord(bits, value) == value <= UintMax(bits)

\* toIntN(uintN)
FitsSign(bits, value) == value <= IntMax(bits)

\* toUintN(intN)
FitsNoSign(bits, value) == value >= 0
=============================================================================
