------------------------------- MODULE ERC721 -------------------------------
(***************************************************************************)
(* The ownership registry the registrar inherits: who owns a nota, who may *)
(* move it, and who acts for an owner.  Translated from the OpenZeppelin   *)
(* ERC721 the repository vendors.  Each operator is one of its internal    *)
(* functions with its requirements as guards.                              *)
(***************************************************************************)
EXTENDS EVM, Integers

CONSTANT
    NotaIds      \* the token ids in use

VARIABLES
    owners,             \* _owners: id -> account or Null
    balances,           \* _balances: how many ids an account owns
    tokenApprovals,     \* _tokenApprovals: id -> account or Null
    operatorApprovals   \* _operatorApprovals[owner]: the set of its operators

erc721Vars == <<owners, balances, tokenApprovals, operatorApprovals>>

ERC721TypeOK ==
    /\ owners \in [NotaIds -> MaybeAccount]
    /\ balances \in [Accounts -> Int]
    /\ tokenApprovals \in [NotaIds -> MaybeAccount]
    /\ operatorApprovals \in [Accounts -> SUBSET Accounts]

ERC721Init ==
    /\ owners = [id \in NotaIds |-> Null]
    /\ balances = [a \in Accounts |-> 0]
    /\ tokenApprovals = [id \in NotaIds |-> Null]
    /\ operatorApprovals = [a \in Accounts |-> {}]

Exists(id) == owners[id] # Null

IsApprovedForAll(owner, operator) == operator \in operatorApprovals[owner]

IsApprovedOrOwner(spender, id) ==
    /\ Exists(id)
    /\ \/ spender = owners[id]
       \/ IsApprovedForAll(owners[id], spender)
       \/ tokenApprovals[id] = spender

\* _mint
ERC721Mint(to, id) ==
    /\ to # Null
    /\ ~Exists(id)
    /\ balances' = [balances EXCEPT ![to] = @ + 1]
    /\ owners' = [owners EXCEPT ![id] = to]
    /\ UNCHANGED <<tokenApprovals, operatorApprovals>>

\* _burn
ERC721Burn(id) ==
    /\ Exists(id)
    /\ tokenApprovals' = [tokenApprovals EXCEPT ![id] = Null]
    /\ balances' = [balances EXCEPT ![owners[id]] = @ - 1]
    /\ owners' = [owners EXCEPT ![id] = Null]
    /\ UNCHANGED operatorApprovals

\* Bug: both counts are read before either is written.
CountMovedFromCache(from, to) ==
    [balances EXCEPT ![from] = balances[from] - 1, ![to] = balances[to] + 1]

\* The unchecked -= 1 and += 1 of _transfer, in their order.
CountMoved(from, to) ==
    [[balances EXCEPT ![from] = @ - 1] EXCEPT ![to] = @ + 1]

\* Bug: the approval stays with the token.
TransferKeepingApproval(from, to, id) ==
    /\ owners[id] = from /\ to # Null
    /\ balances' = CountMoved(from, to)
    /\ owners' = [owners EXCEPT ![id] = to]
    /\ UNCHANGED <<tokenApprovals, operatorApprovals>>

\* _transfer
ERC721Transfer(from, to, id) ==
    /\ Exists(id)
    /\ owners[id] = from
    /\ to # Null
    /\ tokenApprovals' = [tokenApprovals EXCEPT ![id] = Null]
    /\ balances' = CountMoved(from, to)
    /\ owners' = [owners EXCEPT ![id] = to]
    /\ UNCHANGED operatorApprovals

\* approve: an account approved for one id may not pass the approval on.
ERC721Approve(caller, to, id) ==
    /\ Exists(id)
    /\ to # owners[id]
    /\ caller = owners[id] \/ IsApprovedForAll(owners[id], caller)
    /\ tokenApprovals' = [tokenApprovals EXCEPT ![id] = to]
    /\ UNCHANGED <<owners, balances, operatorApprovals>>

\* setApprovalForAll
SetApprovalForAll(caller, operator, approved) ==
    /\ caller # operator
    /\ operatorApprovals' =
         [operatorApprovals EXCEPT ![caller] = IF approved THEN @ \cup {operator}
                                               ELSE @ \ {operator}]
    /\ UNCHANGED <<owners, balances, tokenApprovals>>
=============================================================================
