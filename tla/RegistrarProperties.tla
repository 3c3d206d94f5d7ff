------------------------ MODULE RegistrarProperties ------------------------
(***************************************************************************)
(* What the registrar promises, whatever the hooks, the currencies and the *)
(* receivers of its notas do while it waits for them.                      *)
(***************************************************************************)
EXTENDS NotaRegistrar

GuardedOps == {"write", "fund", "cash", "approve", "burn", "update",
               "transferFrom", "safeTransferFrom"}

Ops == GuardedOps \cup {"hookWithdraw", "protocolWithdraw"}

Pcs == {"hook", "pull", "instant", "store", "pay", "credit", "receiver",
        "burn", "withdraw"}

StorageType ==
    [balanceOf : Ledger, allowance : Ledger,
     owners : [NotaIds -> MaybeAccount], balances : [Accounts -> Int],
     tokenApprovals : [NotaIds -> MaybeAccount],
     operatorApprovals : [Accounts -> SUBSET Accounts],
     hookRevenue : Books, hookTotalRevenue : Books,
     protocolRevenue : [Tokens -> Uint], protocolTotalRevenue : [Tokens -> Uint],
     protocolFee : Uint, govOwner : MaybeAccount,
     notas : [NotaIds -> Nota \cup {EmptyNota}], nextId : 1 .. MaxNotas + 1,
     status : {NotEntered, Entered}]

FrameType ==
    [op : Ops, pc : Pcs, caller : Accounts, id : NotaIds \cup {0},
     from : MaybeAccount, to : MaybeAccount,
     amount : Uint, instant : Uint, fee : Uint,
     currency : Tokens, hooks : HookContracts \cup {Null},
     escrowed : Uint, owner : MaybeAccount, saved : StorageType]

\* Every variable has its type, and so has every storage a revert can restore.
TypeOK ==
    /\ Storage \in StorageType
    /\ frames \in Seq(FrameType)
    /\ Len(frames) <= MaxDepth
    /\ gas \in 0 .. MaxGas
-----------------------------------------------------------------------------
(* The guard.                                                               *)

\* Among the first n functions of the stack fs at most one is guarded, and the guard
\* of the storage s is up exactly when one is.
ExclusiveIn(s, fs, n) ==
    /\ \A j, k \in 1 .. n : fs[j].op \in GuardedOps /\ fs[k].op \in GuardedOps => j = k
    /\ (s.status = Entered) <=> (\E k \in 1 .. n : fs[k].op \in GuardedOps)

\* At most one guarded function is in progress at any depth of the stack, and the
\* guard says so: it is up exactly when one is, whatever path the calls took.
GuardExclusive == ExclusiveIn(Storage, frames, Len(frames))

\* f's copy of its nota is what s stores.
CurrentIn(s, f) ==
    /\ f.op = "write" => f.id = s.nextId /\ s.owners[f.id] = Null
    /\ f.op \in GuardedOps \ {"write"} =>
         /\ s.notas[f.id].currency = f.currency
         /\ s.notas[f.id].hooks = f.hooks
         /\ f.pc # "receiver" => s.owners[f.id] = f.owner
         /\ f.pc \notin {"receiver", "pay", "credit"} =>
              s.notas[f.id].escrowed = f.escrowed
         /\ f.pc \in {"pay", "credit"} =>
              s.notas[f.id].escrowed = f.escrowed - f.amount

\* What a function read of its nota before it called the hook, and goes on to use
\* afterwards, still is what the registrar stores (lines 45, 87-98, 106-116, 124-130,
\* 139-149, 205-212): nothing that can run in the meantime changes it.
CachedNotaCurrent == \A k \in DOMAIN frames : CurrentIn(Storage, frames[k])
-----------------------------------------------------------------------------
(* The money.  s is a storage, and the first n functions of the stack fs    *)
(* are in progress over it.                                                 *)

\* The escrow of every nota in currency t.
Escrow(s, t) ==
    [id \in NotaIds |-> IF s.notas[id].currency = t THEN s.notas[id].escrowed ELSE 0]

\* The revenue the hooks have not withdrawn.
Earnings(s, t) == [h \in HookContracts |-> s.hookRevenue[h][t]]

\* What a function in progress still has to pay out or to book, of what the
\* registrar holds.
Due(f, t) ==
    IF f.currency # t THEN 0
    ELSE CASE f.pc \in {"instant", "store"} -> f.amount + f.fee
           [] f.pc \in {"pay", "withdraw"}  -> f.amount
           [] f.pc = "credit"               -> f.fee
           [] OTHER                         -> 0

Dues(fs, n, t) == [k \in 1 .. n |-> Due(fs[k], t)]

Booked(s, t) ==
    SumFunctionOnSet(Escrow(s, t), NotaIds) + SumFunctionOnSet(Earnings(s, t), HookContracts)
      + s.protocolRevenue[t]

Liabilities(s, fs, n, t) == Booked(s, t) + SumFunctionOnSet(Dues(fs, n, t), 1 .. n)

SolventIn(s, fs, n) ==
    \A t \in Tokens : s.balanceOf[t][Registrar] >= Liabilities(s, fs, n, t)

\* In every currency the registrar holds what it owes: the escrow of every nota,
\* the revenue of every hook and of the protocol, and what the functions in progress
\* are about to pay, also in the middle of a function and after any revert.
Solvent == SolventIn(Storage, frames, Len(frames))

\* When no one pays the registrar's own address, it holds nothing more than it owes:
\* no fee, remainder or rounding is left where no function can reach it.
NothingStranded ==
    \A t \in Tokens :
        balanceOf[t][Registrar] = Liabilities(Storage, frames, Len(frames), t)

\* No checked addition to an escrow or to a hook's revenue can overflow when it
\* moves what a nota holds, as the note on line 212 says.
UncheckedCreditSafe ==
    \A id \in NotaIds : Exists(id) =>
        notas[id].escrowed + hookRevenue[notas[id].hooks][notas[id].currency] <= MaxUint

ConservedIn(s) ==
    \A t \in Tokens :
        SumFunctionOnSet(s.balanceOf[t], Accounts) = SumFunctionOnSet(Supply[t], Accounts)

\* Tokens are neither made nor lost, a payment of an account to itself included.
SupplyConserved == ConservedIn(Storage)
-----------------------------------------------------------------------------
(* Ownership.                                                               *)

\* The registry of owners and the registrar's own mapping agree on which notas
\* exist, and ids are handed out in order: burn deletes both, write fills both.
AgreeIn(s) ==
    \A id \in NotaIds :
        /\ s.owners[id] # Null <=> s.notas[id] # EmptyNota
        /\ id >= s.nextId => s.owners[id] = Null

RegistriesAgree == AgreeIn(Storage)

\* No approval outlives the ownership it was given under, whoever has it: when a nota gets
\* another owner, by a transfer, a burn or write, no account is left approved for it;
\* otherwise a revert has brought back an owner, and with it the approval of that time.
ApprovalEnds(id) ==
    owners'[id] # owners[id] =>
        \/ tokenApprovals'[id] = Null
        \/ /\ frames # <<>>
           /\ owners'[id] = Top.saved.owners[id]
           /\ tokenApprovals'[id] = Top.saved.tokenApprovals[id]

ApprovalsEnd == [][\A id \in NotaIds : ApprovalEnds(id)]_vars

\* The balance of an account is the number of notas it owns.
BalancesCount ==
    \A a \in Accounts : balances[a] = Cardinality({id \in NotaIds : owners[id] = a})

\* An existing nota changes hands or disappears only through a function whose caller
\* owned it, was approved for it, or was the owner's operator when the call was made;
\* otherwise a revert has given it back.  The hook cannot widen this while it runs.
MoveAuthorised(id) ==
    Exists(id) /\ owners'[id] # owners[id] =>
        /\ frames # <<>>
        /\ \/ owners'[id] = Top.saved.owners[id]
           \/ /\ Top.id = id
              /\ \/ Top.caller = owners[id]
                 \/ Top.caller = tokenApprovals[id]
                 \/ Top.caller \in Top.saved.operatorApprovals[owners[id]]

MovesAreAuthorised == [][\A id \in NotaIds : MoveAuthorised(id)]_vars

\* The storage the chain keeps if the running transaction fails as a whole, and
\* that every transaction starts from.
Committed == IF frames = <<>> THEN Storage ELSE frames[1].saved

\* From the storage now to the later one, then, an id keeps to its life: once burnt it
\* never exists again, while it exists its currency and its hook stay the same, and
\* the next id never goes back.
LifeKept(now, then) ==
    /\ then.nextId >= now.nextId
    /\ \A id \in NotaIds :
         /\ id < now.nextId /\ now.owners[id] = Null => then.owners[id] = Null
         /\ now.owners[id] # Null /\ then.owners[id] # Null =>
              /\ then.notas[id].currency = now.notas[id].currency
              /\ then.notas[id].hooks = now.notas[id].hooks

\* From one transaction to the next every id keeps to its life.
NotaLife == [][LifeKept(Committed, Committed')]_vars

\* What every hook has ever earned, withdrawn or not, is in the storage then what it was
\* in the storage now, or more.
EarningsKept(now, then) ==
    \A h \in HookContracts, t \in Tokens :
        then.hookRevenue[h][t] + then.hookTotalRevenue[h][t]
          >= now.hookRevenue[h][t] + now.hookTotalRevenue[h][t]

\* What a hook has ever earned never shrinks: neither a nota's function nor a withdrawal
\* takes back what an earlier transaction credited.
EarningsGrow == [][EarningsKept(Committed, Committed')]_vars
=============================================================================
