------------------------------ MODULE MCBooks ------------------------------
(***************************************************************************)
(* An instance of the revenue books for TLC.                               *)
(***************************************************************************)
EXTENDS RevenueBooks

CONSTANT
    MCFortune    \* what every account but the registrar holds at first

MCSupply == [t \in Tokens |-> [a \in Accounts |-> IF a = Registrar THEN 0 ELSE MCFortune]]
=============================================================================
