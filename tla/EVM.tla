-------------------------------- MODULE EVM --------------------------------
(***************************************************************************)
(* What every contract of the system takes from the machine that runs it:  *)
(* addresses, the width of a word, and the stack of calls in progress.     *)
(*                                                                         *)
(* A transaction runs alone and without interruption, but a contract that  *)
(* calls another one hands it control before its own function has ended.   *)
(* frames is the stack of the registrar's functions that have made such a  *)
(* call; only the innermost one can go on.  Each keeps the storage it      *)
(* found, which is what the chain holds again if it reverts.               *)
(***************************************************************************)
EXTENDS Naturals, Sequences

CONSTANTS
    Accounts,    \* every address that is not zero: users, hooks, the registrar
    Registrar,   \* the NotaRegistrar contract
    Null,        \* address(0)
    MaxUint,     \* type(uint256).max
    MaxDepth,    \* how deep the registrar's functions can be nested
    MaxGas       \* how many calls fit in a transaction besides the outermost

ASSUME EVMAssumption ==
    /\ Registrar \in Accounts
    /\ Null \notin Accounts
    /\ MaxUint \in Nat
    /\ MaxDepth \in Nat
    /\ MaxGas \in Nat

VARIABLES
    frames,      \* the registrar's functions in progress, the innermost last
    gas          \* the calls the running transaction can still make

evmVars == <<frames, gas>>

Uint == 0 .. MaxUint

MaybeAccount == Accounts \cup {Null}

EVMInit ==
    /\ frames = <<>>
    /\ gas = MaxGas

Top == frames[Len(frames)]

\* The innermost function has handed control to another contract.  Only beforeBurn
\* goes on without a call between two steps of the model.
OutsideCode == IF frames = <<>> THEN TRUE ELSE Top.pc # "burn"

\* A call made outside a transaction starts one and has its gas; a call made
\* inside one uses up part of what is left.
SpendGas ==
    IF frames = <<>> THEN gas' = gas ELSE gas > 0 /\ gas' = gas - 1

\* A function of the registrar makes its first call to another contract.
Enter(frame) ==
    /\ OutsideCode
    /\ Len(frames) < MaxDepth
    /\ SpendGas
    /\ frames' = Append(frames, frame)

\* A call that hands control to no other contract.
Run ==
    /\ OutsideCode
    /\ SpendGas
    /\ UNCHANGED frames

\* The innermost function goes on to its next step.
Continue(frame) ==
    /\ frames' = [frames EXCEPT ![Len(frames)] = frame]
    /\ UNCHANGED gas

\* The innermost function ends; with the outermost one, the transaction.
Leave ==
    /\ frames' = SubSeq(frames, 1, Len(frames) - 1)
    /\ gas' = IF Len(frames) = 1 THEN MaxGas ELSE gas
=============================================================================
