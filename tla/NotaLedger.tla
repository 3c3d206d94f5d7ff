----------------------------- MODULE NotaLedger -----------------------------
(***************************************************************************)
(* What the registrar promises to those who call it.  There is one ledger: *)
(* the notas, what the hooks and the protocol have earned, and the reserve *)
(* of every currency that backs them.  A call of a nota changes the ledger *)
(* in one step, or not at all.  Calls nest, since the outside contracts a  *)
(* call asks may call again: each call in progress keeps the ledger it     *)
(* began with, which is the ledger again if it fails.                      *)
(*                                                                         *)
(* The hooks, the order of the writes, the copies a function makes, the    *)
(* windows between its outside calls and the guard do not appear here.     *)
(***************************************************************************)
EXTENDS Integers, Sequences

CONSTANTS
    Accounts, Registrar, Null, Tokens, HookContracts, NotaIds,
    Callers, Recipients, Amounts, Instants, HookFees, NotaHooks, Operators, Gifts,
    GovAmounts, ProtocolAmounts, GovRecipients, GovOwners, ProtocolFees, MaxFee

VARIABLES
    ledger,    \* the notas, the earnings and the reserve
    calls      \* the calls in progress, the innermost last

Absent == [owner |-> Null, approved |-> Null, currency |-> Null, hooks |-> Null, escrow |-> 0]

Ops == {"write", "fund", "cash", "approve", "burn", "update",
        "transferFrom", "safeTransferFrom"}

Init ==
    /\ ledger.notas = [id \in NotaIds |-> Absent]
    /\ ledger.nextId = 1
    /\ ledger.operators = [a \in Accounts |-> {}]
    /\ ledger.revenue = [h \in HookContracts |-> [t \in Tokens |-> 0]]
    /\ ledger.protocol = [t \in Tokens |-> 0]
    /\ ledger.reserve = [t \in Tokens |-> 0]
    /\ ledger.fee = 0
    /\ ledger.owner \in GovOwners
    /\ calls = <<>>
-----------------------------------------------------------------------------
(* What a call does to a ledger l.                                          *)

Exists(l, id) == l.notas[id].owner # Null

\* An account moves nothing by paying itself.
Paid(to, amount) == IF to = Registrar THEN 0 ELSE amount

\* The fee of a hook leaves the nota's escrow for the hook's revenue.
ChargeFee(l, id, fee) ==
    LET n == l.notas[id]
    IN  [l EXCEPT !.notas[id].escrow = @ - fee, !.revenue[n.hooks][n.currency] = @ + fee]

WriteNota(l, n, fee) ==
    [l EXCEPT !.notas[l.nextId] = n,
              !.nextId = @ + 1,
              !.revenue[n.hooks][n.currency] = @ + fee,
              !.reserve[n.currency] = @ + n.escrow + fee]

FundNota(l, id, amount, fee) ==
    LET n == l.notas[id]
    IN  [l EXCEPT !.notas[id].escrow = @ + amount,
                  !.revenue[n.hooks][n.currency] = @ + fee,
                  !.reserve[n.currency] = @ + amount + fee]

CashNota(l, id, amount, fee, to) ==
    LET n == l.notas[id]
    IN  [l EXCEPT !.notas[id].escrow = @ - amount,
                  !.revenue[n.hooks][n.currency] = @ + fee,
                  !.reserve[n.currency] = @ - Paid(to, amount - fee)]

BurnNota(l, id) == [ChargeFee(l, id, l.notas[id].escrow) EXCEPT !.notas[id] = Absent]

MoveNota(l, id, to, fee) ==
    [ChargeFee(l, id, fee) EXCEPT !.notas[id].owner = to, !.notas[id].approved = Null]

\* The protocol's share of what a hook withdraws.
ShareOf(l, amount) == (amount * l.fee) \div 10000

MayMove(l, caller, id) ==
    LET n == l.notas[id]
    IN  Exists(l, id) /\ (caller \in {n.owner, n.approved} \/ caller \in l.operators[n.owner])
-----------------------------------------------------------------------------
(* The steps.                                                               *)

Call == calls[Len(calls)]

Outer == SubSeq(calls, 1, Len(calls) - 1)

\* A call starts, and has done nothing yet.
Start ==
    /\ \E op \in Ops, caller \in Callers, id \in NotaIds :
          calls' = Append(calls, [op |-> op, caller |-> caller, id |-> id, before |-> ledger])
    /\ UNCHANGED ledger

\* The innermost call is one of the function op.
Innermost(op) == calls # <<>> /\ Call.op = op

\* It does all it does, and returns.
Finish(l) ==
    /\ ledger' = l
    /\ calls' = Outer

Write ==
    /\ Innermost("write")
    /\ ledger.nextId = Call.id
    /\ ~Exists(ledger, Call.id)
    /\ \E n \in [owner : Recipients \ {Null}, approved : {Null}, currency : Tokens,
                 hooks : NotaHooks, escrow : Amounts], fee \in HookFees :
          Finish(WriteNota(ledger, n, fee))

Fund ==
    /\ Innermost("fund")
    /\ Exists(ledger, Call.id)
    /\ \E amount \in Amounts, fee \in HookFees : Finish(FundNota(ledger, Call.id, amount, fee))

Cash ==
    /\ Innermost("cash")
    /\ Exists(ledger, Call.id)
    /\ \E amount \in Amounts, fee \in HookFees, to \in Recipients :
          /\ fee <= amount /\ amount <= ledger.notas[Call.id].escrow
          /\ Finish(CashNota(ledger, Call.id, amount, fee, to))

\* A fee of the hook that the escrow of the nota covers.
Affordable(fee) ==
    /\ Exists(ledger, Call.id)
    /\ fee \in HookFees
    /\ fee <= ledger.notas[Call.id].escrow

\* Only the owner and its operators approve.
Approve ==
    /\ Innermost("approve")
    /\ \E to \in Recipients, fee \in HookFees :
          LET n == ledger.notas[Call.id]
          IN  /\ Affordable(fee)
              /\ to # n.owner
              /\ Call.caller = n.owner \/ Call.caller \in ledger.operators[n.owner]
              /\ Finish([ChargeFee(ledger, Call.id, fee) EXCEPT !.notas[Call.id].approved = to])

Update ==
    /\ Innermost("update")
    /\ \E fee \in HookFees : Affordable(fee) /\ Finish(ChargeFee(ledger, Call.id, fee))

\* Who burns or moves a nota was entitled to it when it called.
Burn ==
    /\ Innermost("burn")
    /\ MayMove(Call.before, Call.caller, Call.id)
    /\ Exists(ledger, Call.id)
    /\ Finish(BurnNota(ledger, Call.id))

\* The ledger after a transfer the innermost call may make.
Transferred(l) ==
    /\ MayMove(Call.before, Call.caller, Call.id)
    /\ \E to \in Recipients \ {Null}, fee \in HookFees :
          Affordable(fee) /\ l = MoveNota(ledger, Call.id, to, fee)

Transfer ==
    /\ Innermost("transferFrom")
    /\ Transferred(ledger')
    /\ calls' = Outer

\* A safe transfer returns once the receiver has accepted the nota it already has.
SafeTransfer ==
    /\ Innermost("safeTransferFrom")
    /\ Transferred(ledger')
    /\ calls' = Append(Outer, [Call EXCEPT !.op = "done"])

\* A withdrawal takes effect when it is called, and returns once it has been paid.
Withdraw(caller, l) ==
    /\ ledger' = l
    /\ calls' = Append(calls, [op |-> "done", caller |-> caller, id |-> 0, before |-> ledger])

HookWithdraw ==
    \E h \in HookContracts, t \in Tokens, amount \in GovAmounts, to \in GovRecipients :
        LET share == ShareOf(ledger, amount)
        IN  /\ amount <= ledger.revenue[h][t]
            /\ Withdraw(h, [ledger EXCEPT !.revenue[h][t] = @ - amount,
                                          !.protocol[t] = @ + share,
                                          !.reserve[t] = @ - Paid(to, amount - share)])

ProtocolWithdraw ==
    \E t \in Tokens, amount \in ProtocolAmounts, to \in GovRecipients :
        /\ amount <= ledger.protocol[t] /\ ledger.owner # Null
        /\ Withdraw(ledger.owner, [ledger EXCEPT !.protocol[t] = @ - amount,
                                                 !.reserve[t] = @ - Paid(to, amount)])

Return == Innermost("done") /\ Finish(ledger)

\* The calls that take effect and return at once.
Immediate ==
    /\ \/ \E a \in Callers, o \in Operators :
             \/ ledger' = [ledger EXCEPT !.operators[a] = @ \cup {o}]
             \/ ledger' = [ledger EXCEPT !.operators[a] = @ \ {o}]
       \/ /\ ledger.owner # Null
          /\ \/ \E fee \in ProtocolFees : fee <= MaxFee /\ ledger' = [ledger EXCEPT !.fee = fee]
             \/ \E o \in GovOwners \cup {Null} : ledger' = [ledger EXCEPT !.owner = o]
       \/ \E t \in Tokens, amount \in Gifts \cup Instants :
             ledger' = [ledger EXCEPT !.reserve[t] = @ + amount]
    /\ UNCHANGED calls

\* The innermost call fails, and nothing of it remains.
Fail ==
    /\ calls # <<>>
    /\ ledger' = Call.before
    /\ calls' = Outer

\* The hook of a nota that is being burnt fails: nothing of what it did remains, and
\* the burning goes on.
HookFails ==
    /\ Innermost("burn")
    /\ ledger' = Call.before
    /\ UNCHANGED calls

Next ==
    \/ Start
    \/ Write \/ Fund \/ Cash \/ Approve \/ Update \/ Burn \/ Transfer \/ SafeTransfer
    \/ HookWithdraw
    \/ ProtocolWithdraw
    \/ Return
    \/ Immediate
    \/ Fail
    \/ HookFails

vars == <<ledger, calls>>

Spec == Init /\ [][Next]_vars
=============================================================================
