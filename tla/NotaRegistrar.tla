--------------------------- MODULE NotaRegistrar ---------------------------
(***************************************************************************)
(* The registrar: notas are ERC-721 tokens that hold an escrow of some     *)
(* ERC-20 currency, and a hook contract is asked before every change of a  *)
(* nota and may take a fee.                                                *)
(*                                                                         *)
(* Every function hands control to other contracts in its middle: to the   *)
(* nota's hook, to the currency, to the receiver of a safe transfer.  A    *)
(* function is therefore a call (Write, Fund, ...) and one action for what *)
(* it does after each of those contracts has returned.  While they run,    *)
(* they may call whatever the registrar leaves unguarded, and any account  *)
(* may be a contract that takes part.  The functions of this file are      *)
(* nonReentrant; those of RegistrarGov and setApprovalForAll are not.      *)
(***************************************************************************)
EXTENDS ERC721, RegistrarGov, Hooks

CONSTANTS
    MaxNotas,      \* how many notas are ever written
    Callers,       \* the accounts that call the registrar
    Recipients,    \* the accounts and addresses a call may name
    Amounts,       \* the amounts of an escrow, a funding or a cashing
    Instants,      \* the instant payments
    NotaHooks,     \* the hooks a nota may be written with
    Operators,     \* the accounts setApprovalForAll may name
    Grants,        \* the allowances an account may give the registrar
    Gifts,         \* the amounts accounts send each other in a currency
    Supply,        \* Supply[t][a]: what account a holds of t at first
    Approved       \* Approved[t][a]: what it has approved at first

ASSUME NotaRegistrarAssumption ==
    /\ MaxNotas \in Nat
    /\ NotaIds = 1 .. MaxNotas
    /\ Callers \subseteq Accounts \ {Registrar}
    /\ Recipients \subseteq MaybeAccount
    /\ Amounts \subseteq Uint
    /\ Instants \subseteq Uint
    /\ HookFees \subseteq Uint
    /\ NotaHooks \subseteq HookContracts
    /\ Operators \subseteq Accounts
    /\ Grants \subseteq Uint
    /\ Gifts \subseteq Uint
    /\ Supply \in Ledger
    /\ Approved \in Ledger
    /\ IsFiniteSet(Accounts)
    /\ \A t \in Tokens : /\ Supply[t][Registrar] = 0
                         /\ SumFunctionOnSet(Supply[t], Accounts) <= MaxUint

VARIABLES
    notas,       \* _notas
    nextId,      \* nextId
    status       \* _status of ReentrancyGuard

vars == <<evmVars, erc20Vars, erc721Vars, govVars, notas, nextId, status>>

NotEntered == "NOT_ENTERED"
Entered == "ENTERED"

Nota == [escrowed : Uint, currency : Tokens, hooks : HookContracts]

\* What _notas holds of an id never written, or deleted.
EmptyNota == [escrowed |-> 0, currency |-> Null, hooks |-> Null]

\* Every storage slot a revert restores.
Storage ==
    [balanceOf |-> balanceOf, allowance |-> allowance,
     owners |-> owners, balances |-> balances,
     tokenApprovals |-> tokenApprovals, operatorApprovals |-> operatorApprovals,
     hookRevenue |-> hookRevenue, hookTotalRevenue |-> hookTotalRevenue,
     protocolRevenue |-> protocolRevenue,
     protocolTotalRevenue |-> protocolTotalRevenue,
     protocolFee |-> protocolFee, govOwner |-> govOwner,
     notas |-> notas, nextId |-> nextId, status |-> status]

\* The storage becomes s again, except for the guard.
RestoreBut(s) ==
    /\ balanceOf' = s.balanceOf
    /\ allowance' = s.allowance
    /\ owners' = s.owners
    /\ balances' = s.balances
    /\ tokenApprovals' = s.tokenApprovals
    /\ operatorApprovals' = s.operatorApprovals
    /\ hookRevenue' = s.hookRevenue
    /\ hookTotalRevenue' = s.hookTotalRevenue
    /\ protocolRevenue' = s.protocolRevenue
    /\ protocolTotalRevenue' = s.protocolTotalRevenue
    /\ protocolFee' = s.protocolFee
    /\ govOwner' = s.govOwner
    /\ notas' = s.notas
    /\ nextId' = s.nextId

Init ==
    /\ EVMInit
    /\ ERC721Init
    /\ GovStart
    /\ balanceOf = Supply
    /\ allowance = Approved
    /\ notas = [id \in NotaIds |-> EmptyNota]
    /\ nextId = 1
    /\ status = NotEntered
-----------------------------------------------------------------------------
(* The frame of a function: its name, where it stands (pc), its arguments,  *)
(* what it has read of the nota before it called the hook (currency, hooks, *)
(* escrowed, owner), and the fee once the hook has answered.  pc names the  *)
(* outside call in progress:                                                *)
(*   hook      the hook                                                     *)
(*   pull      safeTransferFrom of the escrow and the fee                   *)
(*   instant   safeTransferFrom of the instant payment                      *)
(*   store     the same call, after the tokens have moved                   *)
(*   pay       safeTransfer of cashed tokens                                *)
(*   credit    the same call, after the tokens have moved                   *)
(*   receiver  onERC721Received                                             *)
(*   withdraw  safeTransfer of withdrawn revenue                            *)
(* burn is the one step that follows no call.                               *)

Frame(op, caller, id) ==
    [op |-> op, pc |-> "hook", caller |-> caller, id |-> id,
     from |-> Null, to |-> Null, amount |-> 0, instant |-> 0, fee |-> 0,
     currency |-> notas[id].currency, hooks |-> notas[id].hooks,
     escrowed |-> notas[id].escrowed, owner |-> owners[id],
     saved |-> Storage]

\* Bug: the modifier nonReentrant is missing.
EnterWithoutGuard(frame) ==
    /\ status' = Entered
    /\ Enter(frame)
    /\ UNCHANGED <<erc20Vars, erc721Vars, govVars, notas, nextId>>

\* A function with the nonReentrant modifier starts and calls the hook.
EnterGuarded(frame) ==
    /\ status = NotEntered
    /\ status' = Entered
    /\ Enter(frame)
    /\ UNCHANGED <<erc20Vars, erc721Vars, govVars, notas, nextId>>

\* Bug: a function returns without releasing the guard.
LeaveLocked ==
    /\ UNCHANGED status
    /\ Leave

\* It ends: the modifier releases the guard.
LeaveGuarded ==
    /\ status' = NotEntered
    /\ Leave

\* write
Write(caller, currency, escrowed, instant, owner, hooks) ==
    /\ nextId \in NotaIds
    /\ EnterGuarded([Frame("write", caller, nextId) EXCEPT
                       !.currency = currency, !.hooks = hooks, !.amount = escrowed,
                       !.instant = instant, !.owner = owner])

\* fund
Fund(caller, id, amount, instant) ==
    /\ Exists(id)
    /\ EnterGuarded([Frame("fund", caller, id) EXCEPT
                       !.amount = amount, !.instant = instant])

\* cash
Cash(caller, id, amount, to) ==
    /\ Exists(id)
    /\ EnterGuarded([Frame("cash", caller, id) EXCEPT !.amount = amount, !.to = to])

\* approve: who may approve is only checked after the hook has run.
ApproveNota(caller, to, id) ==
    /\ Exists(id)
    /\ EnterGuarded([Frame("approve", caller, id) EXCEPT !.to = to])

\* burn
BurnNota(caller, id) ==
    /\ IsApprovedOrOwner(caller, id)
    /\ EnterGuarded(Frame("burn", caller, id))

\* update
Update(caller, id) ==
    /\ Exists(id)
    /\ EnterGuarded(Frame("update", caller, id))

\* Bug: the check before the hook is left to _transfer, which has none.
TransferByAnyone(op, caller, from, to, id) ==
    /\ Exists(id)
    /\ EnterGuarded([Frame(op, caller, id) EXCEPT !.from = from, !.to = to])

\* transferFrom and safeTransferFrom: who may transfer is checked before the hook
\* runs, the two accounts after it.
TransferFrom(op, caller, from, to, id) ==
    /\ IsApprovedOrOwner(caller, id)
    /\ EnterGuarded([Frame(op, caller, id) EXCEPT !.from = from, !.to = to])

Call(caller) ==
    \/ \E currency \in Tokens, escrowed \in Amounts, instant \in Instants,
          owner \in Recipients, hooks \in NotaHooks :
             Write(caller, currency, escrowed, instant, owner, hooks)
    \/ \E id \in NotaIds :
          \/ \E amount \in Amounts, instant \in Instants : Fund(caller, id, amount, instant)
          \/ \E amount \in Amounts, to \in Recipients : Cash(caller, id, amount, to)
          \/ \E to \in Recipients : ApproveNota(caller, to, id)
          \/ BurnNota(caller, id)
          \/ Update(caller, id)
          \/ \E op \in {"transferFrom", "safeTransferFrom"},
                from \in Recipients, to \in Recipients :
                   TransferFrom(op, caller, from, to, id)
-----------------------------------------------------------------------------
(* What a function does after its hook has answered.                        *)

\* The innermost function is op, at pc.
At(op, pc) ==
    /\ frames # <<>>
    /\ Top.op = op
    /\ Top.pc = pc

\* The innermost function has its hook's answer, with this fee.
HookAnswers(op, fee) ==
    /\ At(op, "hook")
    /\ fee \in AcceptedFees

\* _hookRevenue[hooks][currency] += fee, with what the function read before.
CreditHook(f, fee) ==
    /\ CreditFits(hookRevenue, f.hooks, f.currency, fee)
    /\ hookRevenue' = Credit(hookRevenue, f.hooks, f.currency, fee)
    /\ UNCHANGED <<hookTotalRevenue, protocolRevenue, protocolTotalRevenue,
                   protocolFee, govOwner>>

\* Bug: the subtraction is not checked.
DebitUnchecked(id, amount) ==
    notas' = [notas EXCEPT ![id].escrowed = @ - amount]

\* _notas[id].escrowed -= amount
DebitNota(id, amount) ==
    /\ notas[id].escrowed >= amount
    /\ notas' = [notas EXCEPT ![id].escrowed = @ - amount]

\* Bug: the fee is credited and stays in the escrow.
TakeFeeTwice(f, fee) ==
    /\ notas[f.id].escrowed >= fee
    /\ CreditHook(f, fee)
    /\ UNCHANGED notas

\* The fee of approve, update and the transfers comes out of the nota's escrow.
TakeFee(f, fee) ==
    /\ DebitNota(f.id, fee)
    /\ CreditHook(f, fee)

\* write and fund ask the currency for the escrow and the fee.
AskForEscrow(op, fee) ==
    /\ HookAnswers(op, fee)
    /\ Top.amount + fee <= MaxUint
    /\ Continue([Top EXCEPT !.pc = "pull", !.fee = fee])
    /\ UNCHANGED <<erc20Vars, erc721Vars, govVars, notas, nextId, status>>

\* A payment from the caller, that is not asked for when it is 0.
CallerPays(f, to, amount) ==
    IF amount > 0 THEN TokenTransferFrom(f.currency, f.caller, to, amount)
    ELSE UNCHANGED erc20Vars

\* _escrowTokens
PullEscrow(op) ==
    /\ At(op, "pull")
    /\ CallerPays(Top, Registrar, Top.amount + Top.fee)
    /\ Continue([Top EXCEPT !.pc = "instant"])
    /\ UNCHANGED <<erc721Vars, govVars, notas, nextId, status>>

\* _instantTokens
PayInstant(op) ==
    /\ At(op, "instant")
    /\ CallerPays(Top, Top.owner, Top.instant)
    /\ Continue([Top EXCEPT !.pc = "store"])
    /\ UNCHANGED <<erc721Vars, govVars, notas, nextId, status>>

\* The rest of write: the nota is minted to its owner and stored.
WriteStore ==
    /\ At("write", "store")
    /\ ERC721Mint(Top.owner, nextId)
    /\ notas' = [notas EXCEPT ![nextId] = [escrowed |-> Top.amount,
                                           currency |-> Top.currency,
                                           hooks |-> Top.hooks]]
    /\ CreditHook(Top, Top.fee)
    /\ nextId' = nextId + 1
    /\ LeaveGuarded
    /\ UNCHANGED erc20Vars

\* The rest of fund.
FundStore ==
    /\ At("fund", "store")
    /\ notas[Top.id].escrowed + Top.amount <= MaxUint
    /\ notas' = [notas EXCEPT ![Top.id].escrowed = @ + Top.amount]
    /\ CreditHook(Top, Top.fee)
    /\ LeaveGuarded
    /\ UNCHANGED <<erc20Vars, erc721Vars, nextId>>

\* cash takes the amount out of the escrow and asks the currency to pay it, less
\* the fee.
CashDebit(fee) ==
    /\ HookAnswers("cash", fee)
    /\ DebitNota(Top.id, Top.amount)
    /\ fee <= Top.amount
    /\ Continue([Top EXCEPT !.pc = "pay", !.fee = fee])
    /\ UNCHANGED <<erc20Vars, erc721Vars, govVars, nextId, status>>

\* Bug: the recipient is paid the fee as well.
CashPayInFull ==
    /\ At("cash", "pay")
    /\ TokenTransfer(Top.currency, Registrar, Top.to, Top.amount)
    /\ Continue([Top EXCEPT !.pc = "credit"])
    /\ UNCHANGED <<erc721Vars, govVars, notas, nextId, status>>

\* _unescrowTokens
CashPay ==
    /\ At("cash", "pay")
    /\ IF Top.amount - Top.fee > 0
       THEN TokenTransfer(Top.currency, Registrar, Top.to, Top.amount - Top.fee)
       ELSE UNCHANGED erc20Vars
    /\ Continue([Top EXCEPT !.pc = "credit"])
    /\ UNCHANGED <<erc721Vars, govVars, notas, nextId, status>>

\* Bug: the fee is kept from the recipient and credited to no one.
CashForgetsFee ==
    /\ At("cash", "credit")
    /\ LeaveGuarded
    /\ UNCHANGED <<erc20Vars, erc721Vars, govVars, notas, nextId>>

\* The rest of cash: the hook gets its fee after the recipient its tokens.
CashCredit ==
    /\ At("cash", "credit")
    /\ CreditHook(Top, Top.fee)
    /\ LeaveGuarded
    /\ UNCHANGED <<erc20Vars, erc721Vars, notas, nextId>>

\* The rest of approve.
ApproveStore(fee) ==
    /\ HookAnswers("approve", fee)
    /\ TakeFee(Top, fee)
    /\ ERC721Approve(Top.caller, Top.to, Top.id)
    /\ LeaveGuarded
    /\ UNCHANGED <<erc20Vars, nextId>>

\* The rest of update.
UpdateStore(fee) ==
    /\ HookAnswers("update", fee)
    /\ TakeFee(Top, fee)
    /\ LeaveGuarded
    /\ UNCHANGED <<erc20Vars, erc721Vars, nextId>>

\* The rest of transferFrom; safeTransferFrom goes on to the receiver.
TransferStore(op, fee) ==
    /\ HookAnswers(op, fee)
    /\ TakeFee(Top, fee)
    /\ ERC721Transfer(Top.from, Top.to, Top.id)
    /\ IF op = "safeTransferFrom"
       THEN Continue([Top EXCEPT !.pc = "receiver"]) /\ UNCHANGED status
       ELSE LeaveGuarded
    /\ UNCHANGED <<erc20Vars, nextId>>

\* The receiver accepts the nota; the registrar itself never does.
ReceiverAccepts ==
    /\ At("safeTransferFrom", "receiver")
    /\ Top.to # Registrar
    /\ LeaveGuarded
    /\ UNCHANGED <<erc20Vars, erc721Vars, govVars, notas, nextId>>

\* beforeBurn lets burn go on.  When the hook reverted with bytes that pass for an
\* answer, what was done inside its call is undone, and burn still goes on.
BurnAllowed(ok) ==
    /\ At("burn", "hook")
    /\ ok \in BurnOutcomes
    /\ IF ok THEN UNCHANGED <<erc20Vars, erc721Vars, govVars, notas, nextId>>
       ELSE RestoreBut(Top.saved)
    /\ Continue([Top EXCEPT !.pc = "burn"])
    /\ UNCHANGED status

\* Bug: the nota's terms stay behind.
BurnKeepingNota ==
    /\ At("burn", "burn")
    /\ CreditHook(Top, Top.escrowed)
    /\ ERC721Burn(Top.id)
    /\ LeaveGuarded
    /\ UNCHANGED <<erc20Vars, notas, nextId>>

\* Bug: the burnt id is handed out again.
BurnFreesId ==
    /\ At("burn", "burn")
    /\ CreditHook(Top, Top.escrowed)
    /\ notas' = [notas EXCEPT ![Top.id] = EmptyNota]
    /\ ERC721Burn(Top.id)
    /\ nextId' = Top.id
    /\ LeaveGuarded
    /\ UNCHANGED erc20Vars

\* The rest of burn: the escrow, as burn read it, becomes the hook's revenue.
BurnStore ==
    /\ At("burn", "burn")
    /\ CreditHook(Top, Top.escrowed)
    /\ notas' = [notas EXCEPT ![Top.id] = EmptyNota]
    /\ ERC721Burn(Top.id)
    /\ LeaveGuarded
    /\ UNCHANGED <<erc20Vars, nextId>>

\* The payment of a withdrawal, and its end.
WithdrawPay(op) ==
    /\ At(op, "withdraw")
    /\ TokenTransfer(Top.currency, Registrar, Top.to, Top.amount)
    /\ Leave
    /\ UNCHANGED <<erc721Vars, govVars, notas, nextId, status>>

\* The steps in which the innermost function is given control again.
Proceed ==
    \/ \E fee \in HookFees :
          \/ \E op \in {"write", "fund"} : AskForEscrow(op, fee)
          \/ CashDebit(fee)
          \/ ApproveStore(fee)
          \/ UpdateStore(fee)
          \/ \E op \in {"transferFrom", "safeTransferFrom"} : TransferStore(op, fee)
    \/ \E op \in {"write", "fund"} : PullEscrow(op) \/ PayInstant(op)
    \/ WriteStore
    \/ FundStore
    \/ CashPay
    \/ CashCredit
    \/ ReceiverAccepts
    \/ \E ok \in BOOLEAN : BurnAllowed(ok)
    \/ BurnStore
    \/ \E op \in {"hookWithdraw", "protocolWithdraw"} : WithdrawPay(op)
-----------------------------------------------------------------------------
(* The functions that are not guarded.  They can run while another function *)
(* waits for outside code.                                                  *)

\* A withdrawal has written the books and asks token t to pay.
AwaitPayment(op, caller, t, amount, to) ==
    /\ Enter([op |-> op, pc |-> "withdraw", caller |-> caller, id |-> 0,
              from |-> Null, to |-> to, amount |-> amount, instant |-> 0, fee |-> 0,
              currency |-> t, hooks |-> Null, escrowed |-> 0, owner |-> Null,
              saved |-> Storage])
    /\ UNCHANGED <<erc20Vars, erc721Vars, notas, nextId, status>>

HookWithdrawCall(h, t, amount, to) ==
    /\ HookWithdrawBooks(h, t, amount)
    /\ AwaitPayment("hookWithdraw", h, t, amount - FeeOn(amount), to)

ProtocolWithdrawCall(caller, t, amount, to) ==
    /\ ProtocolWithdrawBooks(caller, t, amount)
    /\ AwaitPayment("protocolWithdraw", caller, t, amount, to)

AdministerCall(caller) ==
    /\ Administer(caller)
    /\ Run
    /\ UNCHANGED <<erc20Vars, erc721Vars, notas, nextId, status>>

SetApprovalForAllCall(caller, operator, approved) ==
    /\ SetApprovalForAll(caller, operator, approved)
    /\ Run
    /\ UNCHANGED <<erc20Vars, govVars, notas, nextId, status>>

\* What accounts do in a currency without the registrar.
TokenCall(t, caller) ==
    /\ \/ \E amount \in Grants : TokenApprove(t, caller, amount)
       \/ \E amount \in Gifts, to \in Recipients : TokenTransfer(t, caller, to, amount)
    /\ Run
    /\ UNCHANGED <<erc721Vars, govVars, notas, nextId, status>>

Unguarded ==
    \/ \E t \in Tokens, to \in GovRecipients :
          \/ \E h \in HookContracts, amount \in GovAmounts :
                HookWithdrawCall(h, t, amount, to)
          \/ \E caller \in GovOwners, amount \in ProtocolAmounts :
                ProtocolWithdrawCall(caller, t, amount, to)
    \/ \E caller \in GovOwners : AdministerCall(caller)
    \/ \E caller \in Callers, operator \in Operators, approved \in BOOLEAN :
          SetApprovalForAllCall(caller, operator, approved)
    \/ \E t \in Tokens, caller \in Callers : TokenCall(t, caller)
-----------------------------------------------------------------------------
\* The innermost function fails, because one of its checks does, because what it
\* called reverts or because its gas is gone: it leaves the storage as it found
\* it, and whoever called it goes on.
Revert ==
    /\ frames # <<>>
    /\ RestoreBut(Top.saved)
    /\ status' = Top.saved.status
    /\ Leave

Next ==
    \/ \E caller \in Callers : Call(caller)
    \/ Proceed
    \/ Unguarded
    \/ Revert

Spec == Init /\ [][Next]_vars
=============================================================================
