---------------------------- MODULE RevenueBooks ----------------------------
(***************************************************************************)
(* RegistrarGov on its own, closed with the one thing the registrar does   *)
(* to it: a fee arrives with its tokens and is credited to a hook.  The    *)
(* amounts are chosen so that the protocol's share, ten thousandths with a *)
(* cap of a thousand, is rounded in every way.                             *)
(***************************************************************************)
EXTENDS RegistrarGov

CONSTANT
    Fortune      \* Fortune[t][a]: what account a holds of t at first

\* The supply of a token fits in a word, as in the token's own checked total.  The
\* payers and recipients are other than the registrar: what a withdrawal pays to it
\* stays there without being booked.
ASSUME RevenueBooksAssumption ==
    /\ IsFiniteSet(Accounts)
    /\ Fortune \in Ledger
    /\ \A t \in Tokens :
          /\ Fortune[t][Registrar] = 0
          /\ SumFunctionOnSet(Fortune[t], Accounts) <= MaxUint
    /\ Registrar \notin GovRecipients

bookVars == <<evmVars, erc20Vars, govVars>>

BooksInit ==
    /\ EVMInit
    /\ GovStart
    /\ balanceOf = Fortune
    /\ allowance = [t \in Tokens |-> [a \in Accounts |-> MaxUint]]

\* hookWithdraw and protocolWithdraw with their payment, by a token that does not
\* call back.
HookWithdraw(h, t, amount, to) ==
    /\ HookWithdrawBooks(h, t, amount)
    /\ TokenTransfer(t, Registrar, to, amount - FeeOn(amount))
    /\ UNCHANGED evmVars

ProtocolWithdraw(caller, t, amount, to) ==
    /\ ProtocolWithdrawBooks(caller, t, amount)
    /\ TokenTransfer(t, Registrar, to, amount)
    /\ UNCHANGED evmVars

\* fund with nothing but a fee: the payer's tokens and the credit.
Accrue(h, t, payer, amount) ==
    /\ TokenTransferFrom(t, payer, Registrar, amount)
    /\ CreditFits(hookRevenue, h, t, amount)
    /\ hookRevenue' = Credit(hookRevenue, h, t, amount)
    /\ UNCHANGED <<hookTotalRevenue, protocolRevenue, protocolTotalRevenue,
                   protocolFee, govOwner, evmVars>>

BooksNext ==
    \/ \E h \in HookContracts, t \in Tokens, amount \in GovAmounts :
          \/ \E to \in GovRecipients : HookWithdraw(h, t, amount, to)
          \/ \E payer \in GovRecipients : Accrue(h, t, payer, amount)
    \/ \E caller \in GovOwners :
          \/ Administer(caller) /\ UNCHANGED <<erc20Vars, evmVars>>
          \/ \E t \in Tokens, amount \in ProtocolAmounts, to \in GovRecipients :
                ProtocolWithdraw(caller, t, amount, to)

BooksSpec == BooksInit /\ [][BooksNext]_bookVars
-----------------------------------------------------------------------------
\* All that the hooks have ever withdrawn of token t.
Withdrawn(t) ==
    SumFunctionOnSet([h \in HookContracts |-> hookTotalRevenue[h][t]], HookContracts)

\* What the hooks and the protocol can still withdraw is what the registrar holds:
\* the split of a withdrawal between the two loses nothing to rounding.
BooksBalance ==
    \A t \in Tokens :
        balanceOf[t][Registrar] = protocolRevenue[t] +
            SumFunctionOnSet([h \in HookContracts |-> hookRevenue[h][t]], HookContracts)

\* Over its whole life, and whatever fees the owners have set in the meantime, the
\* protocol takes at most MAX_PROTOCOL_FEE of what the hooks withdraw.
ProtocolShareCapped ==
    \A t \in Tokens :
        protocolTotalRevenue[t] * BasisPoints <= Withdrawn(t) * MAX_PROTOCOL_FEE

\* After ownership has been renounced no one sets a fee, becomes the owner, or takes
\* the protocol's revenue any more.
RenouncedForGood ==
    [][govOwner = Null =>
          /\ UNCHANGED <<govOwner, protocolFee>>
          /\ \A t \in Tokens : protocolRevenue'[t] >= protocolRevenue[t]]_bookVars
=============================================================================
