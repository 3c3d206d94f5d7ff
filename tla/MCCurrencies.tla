---------------------------- MODULE MCCurrencies ----------------------------
(***************************************************************************)
(* Instances of the registrar with elastic currencies, for TLC.            *)
(***************************************************************************)
EXTENDS MCRegistrar, ElasticCurrencies
=============================================================================
