---------------------------- MODULE MCRefinement ----------------------------
(***************************************************************************)
(* Instances of the registrar and the ledger it implements.                *)
(***************************************************************************)
EXTENDS MCRegistrar, RegistrarRefinement
=============================================================================
