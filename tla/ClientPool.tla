----------------------------- MODULE ClientPool -----------------------------
(***************************************************************************)
(* What cConnPool promises its users, with no hub, no events, no addresses *)
(* and no dialing goroutines: the life of its connections.                 *)
(*                                                                         *)
(* A connection is dialed, then pooled, then ended, then closed, each      *)
(* once and in this order.  Messages are given to connections that are     *)
(* pooled and not yet closed, at most one each at a time and no more than  *)
(* they have room for; only a write that fails ends a connection, so       *)
(* nothing happens to one that has been given nothing.  The pool may hang, *)
(* once it has had a connection, and may die, once it has closed one;      *)
(* after either it gives no message, and pools and closes no connection.   *)
(***************************************************************************)
EXTENDS Integers

CONSTANTS
  Conns,  \* connections
  SendCap \* messages a connection has room for

VARIABLES
  stage, \* stage[c]: how far connection c has come
  load,  \* load[c]: messages given to c and not written
  pool   \* what has become of the pool

vars == <<stage, load, pool>>

Init ==
  /\ stage = [c \in Conns |-> "none"]
  /\ load = [c \in Conns |-> 0]
  /\ pool = "serving"

Moves(c, from, to) ==
  /\ stage[c] = from
  /\ stage' = [stage EXCEPT ![c] = to]

Dial(c) ==
  /\ pool # "dead"
  /\ Moves(c, "none", "dialed")
  /\ UNCHANGED <<load, pool>>

Admit(c) ==
  /\ pool = "serving"
  /\ Moves(c, "dialed", "pooled")
  /\ UNCHANGED <<load, pool>>

\* A message, or a heart-beat, for each connection of S.
Give(S) ==
  /\ pool = "serving"
  /\ \A c \in S : stage[c] \in {"pooled", "ended"} /\ load[c] < SendCap
  /\ load' = [c \in Conns |-> IF c \in S THEN load[c] + 1 ELSE load[c]]
  /\ UNCHANGED <<stage, pool>>

\* A message is taken to be written.
Takes(c) ==
  /\ pool # "dead"
  /\ load[c] > 0
  /\ load' = [load EXCEPT ![c] = @ - 1]
  /\ UNCHANGED pool

Write(c) == Takes(c) /\ stage[c] = "pooled" /\ UNCHANGED stage

Fail(c) == Takes(c) /\ Moves(c, "pooled", "ended")

\* What c was given since it failed is lost.
Close(c) ==
  /\ pool = "serving"
  /\ Moves(c, "ended", "closed")
  /\ load' = [load EXCEPT ![c] = 0]
  /\ UNCHANGED pool

Hang ==
  /\ pool = "serving"
  /\ \E c \in Conns : stage[c] # "none"
  /\ pool' = "hung"
  /\ UNCHANGED <<stage, load>>

Die ==
  /\ pool = "serving"
  /\ \E c \in Conns : stage[c] = "closed"
  /\ pool' = "dead"
  /\ UNCHANGED <<stage, load>>

Next ==
  \/ \E c \in Conns : Dial(c) \/ Admit(c) \/ Write(c) \/ Fail(c) \/ Close(c)
  \/ \E S \in SUBSET Conns : Give(S)
  \/ Hang \/ Die

Spec == Init /\ [][Next]_vars
=============================================================================
