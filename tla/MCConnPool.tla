----------------------------- MODULE MCConnPool -----------------------------
(***************************************************************************)
(* TLC instances of ConnPool.                                              *)
(***************************************************************************)
EXTENDS ConnPool, TLC

Symmetry == Permutations(Addrs)
=============================================================================
