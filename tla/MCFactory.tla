----------------------------- MODULE MCFactory -----------------------------
(***************************************************************************)
(* Instances of the factory for TLC.                                       *)
(***************************************************************************)
EXTENDS Create2Factory, TLC

\* Nothing tells two users apart, nor two init codes.
MCFactorySymmetry == Permutations(Users) \cup Permutations(InitCodes)
=============================================================================
