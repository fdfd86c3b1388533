---------------------------- MODULE MCNetClient -----------------------------
(***************************************************************************)
(* TLC instances of NetClient.                                             *)
(***************************************************************************)
EXTENDS NetClient, TLC

Symmetry == Permutations(Users)
=============================================================================
