---------------------------- MODULE MCEventRoute ----------------------------
(***************************************************************************)
(* TLC instances of EventRoute.                                            *)
(***************************************************************************)
EXTENDS EventRoute, TLC

Symmetry == Permutations(Requests)
=============================================================================
