------------------------ MODULE RegistrarRefinement ------------------------
(***************************************************************************)
(* The registrar implements NotaLedger: seen through the mapping below,    *)
(* every function is one step of the ledger, in spite of the outside calls *)
(* in its middle and of what runs during them.                             *)
(***************************************************************************)
EXTENDS RegistrarProperties

\* f has taken tokens it has not booked, or struck from the books what it has not
\* paid: what it still owes at its end is no part of the reserve.
Pending(f, t) ==
    IF f.currency # t THEN 0
    ELSE CASE f.pc \in {"instant", "store"}                     -> f.amount + f.fee
           [] f.pc = "withdraw" /\ f.to # Registrar             -> f.amount
           [] f.pc = "credit" /\ f.to # Registrar               -> f.fee - f.amount
           [] OTHER                                             -> 0

PendingAt(fs, n, t) == [k \in 1 .. n |-> Pending(fs[k], t)]

\* What cash has taken out of the escrow counts as escrow until cash ends.
Held(f, id) == IF f.pc \in {"pay", "credit"} /\ f.id = id THEN f.amount ELSE 0

HeldAt(fs, n, id) == [k \in 1 .. n |-> Held(fs[k], id)]

NotaIn(s, fs, n, id) ==
    [owner |-> s.owners[id], approved |-> s.tokenApprovals[id],
     currency |-> s.notas[id].currency, hooks |-> s.notas[id].hooks,
     escrow |-> s.notas[id].escrowed + SumFunctionOnSet(HeldAt(fs, n, id), 1 .. n)]

ReserveIn(s, fs, n, t) ==
    s.balanceOf[t][Registrar] - SumFunctionOnSet(PendingAt(fs, n, t), 1 .. n)

\* The ledger that the storage s is, with the first n functions of the stack fs in
\* progress over it.
LedgerOf(s, fs, n) ==
    [notas |-> [id \in NotaIds |-> NotaIn(s, fs, n, id)],
     nextId |-> s.nextId,
     operators |-> s.operatorApprovals,
     revenue |-> s.hookRevenue,
     protocol |-> s.protocolRevenue,
     reserve |-> [t \in Tokens |-> ReserveIn(s, fs, n, t)],
     fee |-> s.protocolFee,
     owner |-> s.govOwner]

CallOf(f, before) ==
    [op |-> IF f.pc \in {"receiver", "withdraw"} THEN "done" ELSE f.op,
     caller |-> f.caller, id |-> f.id, before |-> before]

CallsOf(fs) == [k \in 1 .. Len(fs) |-> CallOf(fs[k], LedgerOf(fs[k].saved, fs, k - 1))]

NotaLedger == INSTANCE NotaLedger WITH
    MaxFee <- MAX_PROTOCOL_FEE,
    ledger <- LedgerOf(Storage, frames, Len(frames)),
    calls <- CallsOf(frames)

\* Every function of the registrar takes effect in one step or not at all, whatever
\* its hook, the currency or the receiver do in the middle of it, and only what this
\* function is for, by a caller who may.
ImplementsLedger == NotaLedger!Spec
=============================================================================
