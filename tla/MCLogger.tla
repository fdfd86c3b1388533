------------------------------ MODULE MCLogger ------------------------------
(***************************************************************************)
(* TLC instances of Logger.                                                *)
(***************************************************************************)
EXTENDS Logger, TLC

Symmetry == Permutations(Users)

\* A file in order, and one for each thing that can be wrong with it.
MCConfs == {Good} \cup
  {[Good EXCEPT ![SYS] = x] : x \in {"absent", "empty_size", "no_dir"}}
=============================================================================
