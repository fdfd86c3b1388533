------------------------------ MODULE Dispatch ------------------------------
(***************************************************************************)
(* What the event router promises to the code that submits requests to it, *)
(* with no queue, no timer and no clock.                                   *)
(*                                                                         *)
(* A request is routed to one of the routes.  Its handler runs at most     *)
(* once, never together with another handler of the same route, and the    *)
(* submitter is given one answer: "ok" only when the handler has finished, *)
(* "full" only when the handler has not run and never will, "timeout" at   *)
(* any moment (the handler may have run, be running, or still run later).  *)
(***************************************************************************)
EXTENDS Integers

CONSTANTS Requests, \* the requests submitted to the router
          Routes    \* the routes, each with one goroutine and one init_param

VARIABLES
  index,  \* index[r]: the route of request r
  effect, \* effect[r]: what the handler has done to r's Context
  answer  \* answer[r]: what the submitter of r has been told

vars == <<index, effect, answer>>

Effects == {"none", "partial", "complete"}
Answers == {"none", "full", "timeout", "ok"}

Init ==
  /\ index \in [Requests -> Routes]
  /\ effect = [r \in Requests |-> "none"]
  /\ answer = [r \in Requests |-> "none"]

\* A request that nothing has been done for is (re)routed.
Route(r) ==
  /\ effect[r] = "none"
  /\ answer[r] = "none"
  /\ \E i \in Routes : index' = [index EXCEPT ![r] = i]
  /\ UNCHANGED <<effect, answer>>

\* A handler starts alone on its route, for a request that was not refused.
Start(r) ==
  /\ effect[r] = "none"
  /\ answer[r] # "full"
  /\ \A s \in Requests : index[s] = index[r] => effect[s] # "partial"
  /\ effect' = [effect EXCEPT ![r] = "partial"]
  /\ UNCHANGED <<index, answer>>

Finish(r) ==
  /\ effect[r] = "partial"
  /\ effect' = [effect EXCEPT ![r] = "complete"]
  /\ UNCHANGED <<index, answer>>

Reply(r, a) ==
  /\ answer[r] = "none"
  /\ a = "ok" => effect[r] = "complete"
  /\ a = "full" => effect[r] = "none"
  /\ answer' = [answer EXCEPT ![r] = a]
  /\ UNCHANGED <<index, effect>>

Next ==
  \E r \in Requests :
    \/ Route(r)
    \/ Start(r)
    \/ Finish(r)
    \/ \E a \in Answers \ {"none"} : Reply(r, a)

Spec == Init /\ [][Next]_vars
=============================================================================
