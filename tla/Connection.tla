----------------------------- MODULE Connection -----------------------------
(***************************************************************************)
(* What netClient promises the INetFunc it calls, with no buffer and no    *)
(* second goroutine.                                                       *)
(*                                                                         *)
(* OnNetRecv gets the packets of the peer one by one, whole, in order and  *)
(* without gaps.  OnNetErr is the end: no packet follows it.  It is called *)
(* once, or twice when the connection is cut for want of room, the last    *)
(* time on a closed socket.                                                *)
(***************************************************************************)
EXTENDS Integers

VARIABLES
  ends, \* the last bytes of the packets the peer sends
  got,  \* the last byte OnNetRecv was given
  told, \* calls of OnNetErr
  open, \* the socket is open
  over  \* nothing more will be called

vars == <<ends, got, told, open, over>>

Init ==
  /\ ends \subseteq Nat \ {0}
  /\ got = 0
  /\ told = 0
  /\ open = TRUE
  /\ over = FALSE

Packet ==
  /\ told = 0
  /\ \E e \in ends :
       /\ e > got
       /\ \A f \in ends : f > got => f >= e
       /\ got' = e
  /\ UNCHANGED <<ends, told, open, over>>

Close ==
  /\ open' = FALSE
  /\ UNCHANGED <<ends, got, told, over>>

Cut ==
  /\ told = 0
  /\ told' = 1
  /\ open' = FALSE
  /\ UNCHANGED <<ends, got, over>>

End ==
  /\ ~over
  /\ ~open
  /\ told' = told + 1
  /\ over' = TRUE
  /\ UNCHANGED <<ends, got, open>>

Next == Packet \/ Close \/ Cut \/ End

Spec == Init /\ [][Next]_vars
=============================================================================
