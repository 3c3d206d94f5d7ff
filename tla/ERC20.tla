------------------------------- MODULE ERC20 -------------------------------
(***************************************************************************)
(* The ERC-20 tokens a nota can be denominated in, as far as the registrar *)
(* uses them: the balance of every account in every token, and what each   *)
(* account lets the registrar spend.  Translated from the OpenZeppelin     *)
(* ERC20 the repository vendors and tests with; the registrar reaches it   *)
(* through SafeERC20, which turns every failure into a revert, so an       *)
(* operator here is enabled exactly when the call succeeds.                *)
(***************************************************************************)
EXTENDS EVM

CONSTANT
    Tokens       \* the currencies

ASSUME ERC20Assumption == Null \notin Tokens

VARIABLES
    balanceOf,   \* balanceOf[t][a]: _balances of token t
    allowance    \* allowance[t][a]: what a allows the registrar to spend of t

erc20Vars == <<balanceOf, allowance>>

Ledger == [Tokens -> [Accounts -> Uint]]

ERC20TypeOK ==
    /\ balanceOf \in Ledger
    /\ allowance \in Ledger

\* Bug: both balances are read before either is written.
MovedFromCache(accounts, from, to, amount) ==
    [accounts EXCEPT ![from] = accounts[from] - amount, ![to] = accounts[to] + amount]

\* The two writes of _transfer, in their order: when from and to are the same
\* account the second one reads what the first has written.  The credit is
\* unchecked.
Moved(accounts, from, to, amount) ==
    LET debited == [accounts EXCEPT ![from] = @ - amount]
    IN  [debited EXCEPT ![to] = (@ + amount) % (MaxUint + 1)]

\* The two balance writes of _transfer under its requirements.
MoveTokens(t, from, to, amount) ==
    /\ to # Null
    /\ balanceOf[t][from] >= amount
    /\ balanceOf' = [balanceOf EXCEPT ![t] = Moved(@, from, to, amount)]

\* safeTransfer: the caller moves its own tokens.
TokenTransfer(t, from, to, amount) ==
    /\ MoveTokens(t, from, to, amount)
    /\ UNCHANGED allowance

\* _spendAllowance with the registrar as spender: the largest value stands for
\* an unlimited allowance and is not consumed.
SpendAllowance(t, owner, amount) ==
    /\ allowance[t][owner] >= amount
    /\ allowance' = IF allowance[t][owner] = MaxUint THEN allowance
                    ELSE [allowance EXCEPT ![t][owner] = @ - amount]

\* safeTransferFrom, called by the registrar.
TokenTransferFrom(t, owner, to, amount) ==
    /\ SpendAllowance(t, owner, amount)
    /\ MoveTokens(t, owner, to, amount)

\* approve, with the registrar as spender.
TokenApprove(t, owner, amount) ==
    /\ allowance' = [allowance EXCEPT ![t][owner] = amount]
    /\ UNCHANGED balanceOf
=============================================================================
