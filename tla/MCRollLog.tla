----------------------------- MODULE MCRollLog ------------------------------
(***************************************************************************)
(* TLC instances of RollLog.                                               *)
(***************************************************************************)
EXTENDS RollLog, TLC

Symmetry == Permutations(Writers)
=============================================================================
