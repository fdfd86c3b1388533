---------------------------- MODULE MCHttpServer ----------------------------
(***************************************************************************)
(* TLC instances of HttpServer.                                            *)
(***************************************************************************)
EXTENDS HttpServer, TLC

Symmetry == Permutations(Requests)
=============================================================================
