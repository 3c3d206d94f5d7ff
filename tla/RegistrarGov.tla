---------------------------- MODULE RegistrarGov ----------------------------
(***************************************************************************)
(* The revenue books of the registrar: what each hook has earned in each   *)
(* token and can withdraw, what the protocol has taken from it, and the    *)
(* owner who sets the protocol's share.  The contract is abstract: the     *)
(* registrar that inherits it credits the hooks.  NotaRegistrar composes   *)
(* these operators with the calls they make; RevenueBooks checks their     *)
(* arithmetic on its own.                                                  *)
(***************************************************************************)
EXTENDS ERC20, Integers, FiniteSets, Functions

CONSTANTS
    HookContracts,   \* the addresses that are hooks
    MaxTotal,        \* the largest value of a lifetime total, a uint256
    ProtocolFees,    \* the fees the owner may ask for, in basis points
    GovAmounts,      \* the amounts a hook withdraws
    ProtocolAmounts, \* the amounts the owner withdraws
    GovRecipients,   \* the accounts a withdrawal is paid to
    GovOwners        \* the accounts ownership may be handed to

\* 10% in basis points
MAX_PROTOCOL_FEE == 1000

BasisPoints == 10000

ASSUME GovAssumption ==
    /\ HookContracts \subseteq Accounts \ {Registrar}
    /\ MaxTotal \in Uint
    /\ ProtocolFees \subseteq Uint
    /\ GovAmounts \subseteq Uint
    /\ ProtocolAmounts \subseteq Uint
    /\ GovRecipients \subseteq Accounts
    /\ GovOwners \subseteq Accounts

VARIABLES
    hookRevenue,           \* _hookRevenue[h][t]
    hookTotalRevenue,      \* _hookTotalRevenue[h][t]
    protocolRevenue,       \* _protocolRevenue[t]
    protocolTotalRevenue,  \* _protocolTotalRevenue[t]
    protocolFee,           \* _protocolFee
    govOwner               \* _owner of Ownable

govVars == <<hookRevenue, hookTotalRevenue, protocolRevenue,
             protocolTotalRevenue, protocolFee, govOwner>>

Books == [HookContracts -> [Tokens -> Uint]]

GovTypeOK ==
    /\ hookRevenue \in Books
    /\ hookTotalRevenue \in Books
    /\ protocolRevenue \in [Tokens -> Uint]
    /\ protocolTotalRevenue \in [Tokens -> Uint]
    /\ protocolFee \in Uint
    /\ govOwner \in MaybeAccount

GovStart ==
    /\ hookRevenue = [h \in HookContracts |-> [t \in Tokens |-> 0]]
    /\ hookTotalRevenue = [h \in HookContracts |-> [t \in Tokens |-> 0]]
    /\ protocolRevenue = [t \in Tokens |-> 0]
    /\ protocolTotalRevenue = [t \in Tokens |-> 0]
    /\ protocolFee = 0
    /\ govOwner \in GovOwners

\* The checked addition of a fee to a hook's revenue, on a given book.
Credit(books, h, t, amount) == [books EXCEPT ![h][t] = @ + amount]

CreditFits(books, h, t, amount) == books[h][t] + amount <= MaxUint

\* The protocol's share of a withdrawal: integer division rounds it down.
FeeOn(amount) == (amount * protocolFee) \div BasisPoints

\* Bug: the lifetime total is not written.
WithdrawForgettingTotal(h, t, amount) ==
    /\ hookRevenue[h][t] >= amount
    /\ hookRevenue' = [hookRevenue EXCEPT ![h][t] = @ - amount]
    /\ protocolRevenue' = [protocolRevenue EXCEPT ![t] = @ + FeeOn(amount)]
    /\ UNCHANGED <<hookTotalRevenue, protocolTotalRevenue, protocolFee, govOwner>>

\* Bug: the protocol's share is counted in its total but never credited.
WithdrawLosingShare(h, t, amount) ==
    /\ hookRevenue[h][t] >= amount
    /\ hookTotalRevenue[h][t] + amount <= MaxTotal
    /\ hookRevenue' = [hookRevenue EXCEPT ![h][t] = @ - amount]
    /\ protocolTotalRevenue' = [protocolTotalRevenue EXCEPT ![t] = @ + FeeOn(amount)]
    /\ hookTotalRevenue' = [hookTotalRevenue EXCEPT ![h][t] = @ + amount]
    /\ UNCHANGED <<protocolRevenue, protocolFee, govOwner>>

\* hookWithdraw up to the payment: every write, with its overflow and underflow
\* checks.
HookWithdrawBooks(h, t, amount) ==
    /\ hookRevenue[h][t] >= amount
    /\ amount * protocolFee <= MaxUint
    /\ protocolTotalRevenue[t] + FeeOn(amount) <= MaxTotal
    /\ hookTotalRevenue[h][t] + amount <= MaxTotal
    /\ protocolRevenue[t] + FeeOn(amount) <= MaxUint
    /\ FeeOn(amount) <= amount
    /\ hookRevenue' = [hookRevenue EXCEPT ![h][t] = @ - amount]
    /\ protocolRevenue' = [protocolRevenue EXCEPT ![t] = @ + FeeOn(amount)]
    /\ protocolTotalRevenue' = [protocolTotalRevenue EXCEPT ![t] = @ + FeeOn(amount)]
    /\ hookTotalRevenue' = [hookTotalRevenue EXCEPT ![h][t] = @ + amount]
    /\ UNCHANGED <<protocolFee, govOwner>>

\* protocolWithdraw up to the payment.
ProtocolWithdrawBooks(caller, t, amount) ==
    /\ caller = govOwner
    /\ amount <= protocolRevenue[t]
    /\ protocolRevenue' = [protocolRevenue EXCEPT ![t] = @ - amount]
    /\ UNCHANGED <<hookRevenue, hookTotalRevenue, protocolTotalRevenue,
                   protocolFee, govOwner>>

\* Bug: the cap is not checked.
SetAnyFee(caller, newFee) ==
    /\ caller = govOwner
    /\ protocolFee' = newFee
    /\ UNCHANGED <<hookRevenue, hookTotalRevenue, protocolRevenue,
                   protocolTotalRevenue, govOwner>>

\* Bug: the modifier onlyOwner is missing.
SetFeeByAnyone(caller, newFee) ==
    /\ newFee <= MAX_PROTOCOL_FEE
    /\ protocolFee' = newFee
    /\ UNCHANGED <<hookRevenue, hookTotalRevenue, protocolRevenue,
                   protocolTotalRevenue, govOwner>>

\* setProtocolFee
SetProtocolFee(caller, newFee) ==
    /\ caller = govOwner
    /\ newFee <= MAX_PROTOCOL_FEE
    /\ protocolFee' = newFee
    /\ UNCHANGED <<hookRevenue, hookTotalRevenue, protocolRevenue,
                   protocolTotalRevenue, govOwner>>

\* transferOwnership
TransferOwnership(caller, newOwner) ==
    /\ caller = govOwner
    /\ newOwner # Null
    /\ govOwner' = newOwner
    /\ UNCHANGED <<hookRevenue, hookTotalRevenue, protocolRevenue,
                   protocolTotalRevenue, protocolFee>>

\* renounceOwnership: address(0) is the owner from now on.
RenounceOwnership(caller) ==
    /\ caller = govOwner
    /\ govOwner' = Null
    /\ UNCHANGED <<hookRevenue, hookTotalRevenue, protocolRevenue,
                   protocolTotalRevenue, protocolFee>>

\* What the owner can do besides withdrawing.
Administer(caller) ==
    \/ \E newFee \in ProtocolFees : SetProtocolFee(caller, newFee)
    \/ \E newOwner \in GovOwners : TransferOwnership(caller, newOwner)
    \/ RenounceOwnership(caller)
=============================================================================
