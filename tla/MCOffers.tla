------------------------------ MODULE MCOffers ------------------------------
(***************************************************************************)
(* Every shelf of two prices, two weights and up to two campaigns, as each *)
(* of six stores, and the butiksblad of one, may publish it.               *)
(***************************************************************************)
EXTENDS Offers

MCOrdinarie == {4, 6}
MCWeights == {1, 2}
=============================================================================
