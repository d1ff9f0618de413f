-------------------------- MODULE MCNetworkMarket --------------------------
(***************************************************************************)
(* Instances of NetworkMarket: the providers are interchangeable.          *)
(***************************************************************************)
EXTENDS NetworkMarket, TLC

Symmetry == Permutations(Provider)
=============================================================================
