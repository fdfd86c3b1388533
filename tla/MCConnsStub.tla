---------------------------- MODULE MCConnsStub -----------------------------
(***************************************************************************)
(* TLC instances of ConnsStub.                                             *)
(***************************************************************************)
EXTENDS ConnsStub, TLC

Symmetry == Permutations(Callers)
MCBodyVals == {-3, 2}
=============================================================================
