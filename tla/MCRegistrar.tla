---------------------------- MODULE MCRegistrar ----------------------------
(***************************************************************************)
(* Instances of the registrar for TLC: what the accounts hold and have     *)
(* approved at first, and the fairness a transaction has.                  *)
(***************************************************************************)
EXTENDS RegistrarProperties, TLC

CONSTANTS
    MCHoldings,    \* what each caller holds of each currency at first
    MCApproved     \* what each caller has approved of each currency at first

MCSupply == [t \in Tokens |-> [a \in Accounts |-> IF a \in Callers THEN MCHoldings ELSE 0]]

MCAllowances == [t \in Tokens |-> [a \in Accounts |-> IF a \in Callers THEN MCApproved ELSE 0]]

MCIds == 1 .. MaxNotas

\* Callers differ in nothing when none of them owns the registrar.
MCSymmetry == Permutations(Callers)

\* Neither do currencies that start with the same holdings, nor hooks.
MCCurrencySymmetry == Permutations(Tokens) \cup Permutations(HookContracts)

\* A transaction that has started is executed to its end; nothing makes anyone send
\* another one.
FairSpec == Spec /\ WF_vars(frames # <<>> /\ Next)

\* The guard is always released: no path through a guarded function, its outside
\* calls and their failures ends with the registrar locked.
GuardReleased == (status = Entered) ~> (status = NotEntered)

\* INotaRegistrar.sol on approve: the caller may also be the account approved for
\* the nota.  If so approve can complete for it, when the hook asks for no fee.
ApprovedMayApprove ==
    At("approve", "hook") /\ Top.caller = tokenApprovals[Top.id] /\ Top.to # owners[Top.id]
        => ENABLED ApproveStore(0)

\* src/README.md: a hook can revert when a function of its nota is called.  If that
\* kept burn from going on, burn would only do so with everything the hook did still
\* in place.
RevertStopsBurn ==
    [][/\ At("burn", "hook")
       /\ Len(frames') = Len(frames)
       /\ frames'[Len(frames)].pc = "burn"
       => UNCHANGED <<erc20Vars, erc721Vars, govVars>>]_vars
=============================================================================
