--------------------------- MODULE Create2Factory ---------------------------
(***************************************************************************)
(* The factory that the registrar is deployed with.  It creates a contract *)
(* at an address computed from a salt and the init code, and records the   *)
(* address so that it is not used again, not even when the contract there  *)
(* has destroyed itself.                                                   *)
(*                                                                         *)
(* Creating a contract runs its constructor, which may call the factory    *)
(* again before the first call has recorded anything, may destroy itself,  *)
(* may have other contracts destroy themselves, and may fail.  frames is   *)
(* the stack of the calls of safeCreate2 whose constructors are running.   *)
(***************************************************************************)
EXTENDS Naturals, Sequences

CONSTANTS
    Users,       \* the accounts that call the factory
    Null,        \* address(0)
    Nonces,      \* the last 12 bytes of a salt
    InitCodes,   \* the init codes
    MaxDepth,    \* how deep the factory's calls can be nested
    MaxGas       \* how many calls a transaction makes besides the outermost

ASSUME Create2Assumption ==
    /\ Null \notin Users
    /\ MaxDepth \in Nat
    /\ MaxGas \in Nat

VARIABLES
    deployed,    \* _deployed: the addresses recorded
    accounts,    \* the addresses where a contract is, or is being created
    doomed,      \* those that are gone when the transaction ends
    frames,      \* the calls of safeCreate2 in progress, the innermost last
    gas,         \* the calls the running transaction can still make
    past         \* history: the addresses a transaction has left a contract at

vars == <<deployed, accounts, doomed, frames, gas, past>>

\* The first 20 bytes of a salt name an account, or nobody.
Salts == [who : Users \cup {Null}, nonce : Nonces]

\* The hash that computes an address has no collisions: an address is what it is made of.
Addresses == [salt : Salts, initCode : InitCodes]

Init ==
    /\ deployed = {}
    /\ accounts = {}
    /\ doomed = {}
    /\ frames = <<>>
    /\ gas = MaxGas
    /\ past = {}

Top == frames[Len(frames)]

Outer == SubSeq(frames, 1, Len(frames) - 1)

\* A call outside a transaction starts one; a call inside one uses up gas.
SpendGas == IF frames = <<>> THEN gas' = gas ELSE gas > 0 /\ gas' = gas - 1

\* containsCaller
ContainsCaller(caller, salt) == salt.who \in {caller, Null}

\* Bug: the factory asks whether there is a contract, and not whether there was one.
Unused(address) == address \notin accounts

\* No contract has been deployed to the address.
NotDeployed(address) == address \notin deployed

\* safeCreate2, until the constructor has control.  CREATE2 fails at an address that
\* has a contract, or is getting one; a contract that failed to be created is the
\* failure of the call.
SafeCreate2(caller, salt, initCode) ==
    LET target == [salt |-> salt, initCode |-> initCode]
    IN  /\ ContainsCaller(caller, salt)
        /\ NotDeployed(target)
        /\ target \notin accounts
        /\ Len(frames) < MaxDepth
        /\ SpendGas
        /\ frames' = Append(frames, [target |-> target, caller |-> caller,
                                     deployed |-> deployed, accounts |-> accounts,
                                     doomed |-> doomed])
        /\ accounts' = accounts \cup {target}
        /\ UNCHANGED <<deployed, doomed, past>>

\* What of the contracts in as is left when the innermost call ends: with the outermost
\* one the transaction ends, and takes away what is in ds.
Settle(as, ds) ==
    /\ frames' = Outer
    /\ IF Outer = <<>>
       THEN /\ accounts' = as \ ds
            /\ doomed' = {}
            /\ gas' = MaxGas
            /\ past' = past \cup (as \ ds)
       ELSE /\ accounts' = as
            /\ doomed' = ds
            /\ UNCHANGED <<gas, past>>

\* Bug: the address is not recorded.
CreatedUnrecorded ==
    /\ frames # <<>>
    /\ Settle(accounts, doomed)
    /\ UNCHANGED deployed

\* The constructor has ended: the rest of safeCreate2.
Created ==
    /\ frames # <<>>
    /\ deployed' = deployed \cup {Top.target}
    /\ Settle(accounts, doomed)

\* The constructor fails, or the call does after it: nothing of the call remains, and
\* whoever made it goes on.
Fail ==
    /\ frames # <<>>
    /\ deployed' = Top.deployed
    /\ Settle(Top.accounts, Top.doomed)

\* A contract destroys itself: at once in the eyes of the next transaction, and for the
\* running one not before its end.
SelfDestruct(address) ==
    /\ address \in accounts \ doomed
    /\ SpendGas
    /\ IF frames = <<>>
       THEN accounts' = accounts \ {address} /\ UNCHANGED doomed
       ELSE doomed' = doomed \cup {address} /\ UNCHANGED accounts
    /\ UNCHANGED <<deployed, frames, past>>

Next ==
    \/ \E caller \in Users, salt \in Salts, initCode \in InitCodes :
          SafeCreate2(caller, salt, initCode)
    \/ Created
    \/ Fail
    \/ \E address \in accounts : SelfDestruct(address)

Spec == Init /\ [][Next]_vars
-----------------------------------------------------------------------------
\* The constructors that are running.
Constructing == {frames[k].target : k \in DOMAIN frames}

\* hasBeenDeployed, and the address that findCreate2Address and findCreate2AddressViaHash
\* return.
HasBeenDeployed(address) == address \in deployed

FindCreate2Address(address) == IF HasBeenDeployed(address) THEN Null ELSE address
-----------------------------------------------------------------------------
\* One type invariant: every frame holds what its call found.
TypeOK ==
    /\ deployed \subseteq Addresses
    /\ accounts \subseteq Addresses
    /\ doomed \subseteq accounts
    /\ past \subseteq Addresses
    /\ frames \in Seq([target : Addresses, caller : Users, deployed : SUBSET Addresses,
                       accounts : SUBSET Addresses, doomed : SUBSET Addresses])
    /\ gas \in 0 .. MaxGas

\* "Immutable": where a transaction has left a contract no other is ever created, even
\* when that contract has destroyed itself, and whatever constructors did in between.
NeverTwice == Constructing \cap past = {}

\* Between transactions findCreate2Address offers no address where the factory has made a
\* contract, although the record it looks at is set only after the constructor.
RecordComplete ==
    frames = <<>> => \A a \in accounts \cup past : FindCreate2Address(a) = Null
=============================================================================
