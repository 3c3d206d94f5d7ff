------------------------- MODULE ElasticCurrencies -------------------------
(***************************************************************************)
(* The registrar with currencies of which some may not be plain ERC-20     *)
(* tokens: they take a fee on transfers, or shrink balances by themselves. *)
(* The registrar books what it asked for, without looking at what it got.  *)
(***************************************************************************)
EXTENDS RegistrarProperties

CONSTANT Losses    \* what such a currency takes from the registrar at a time

ASSUME LossesAssumption == Losses \subseteq Uint

VARIABLE elastic   \* the currencies of this kind, which do not change

elasticVars == <<vars, elastic>>

\* At least one currency is a plain one.
ElasticInit == Init /\ elastic \in SUBSET Tokens \ {Tokens}

\* Currency t shrinks the registrar's balance, in the middle of a transfer or between two
\* transactions.
Shrink(t, loss) ==
    /\ OutsideCode
    /\ loss <= balanceOf[t][Registrar]
    /\ balanceOf' = [balanceOf EXCEPT ![t][Registrar] = @ - loss]
    /\ UNCHANGED <<evmVars, allowance, erc721Vars, govVars, notas, nextId, status>>

ElasticNext ==
    /\ \/ Next
       \/ \E t \in elastic, loss \in Losses : Shrink(t, loss)
    /\ UNCHANGED elastic

ElasticSpec == ElasticInit /\ [][ElasticNext]_elasticVars
-----------------------------------------------------------------------------
\* The registrar pools the escrows of all notas, and what an elastic currency loses is lost
\* to its own notas and hooks: nothing that is owed in another currency is ever paid out to
\* make up for it, in whatever order notas of both are written, cashed and withdrawn.
OthersSolvent ==
    \A t \in Tokens \ elastic :
        balanceOf[t][Registrar] >= Liabilities(Storage, frames, Len(frames), t)
=============================================================================
