------------------------------ MODULE StubPool ------------------------------
(***************************************************************************)
(* sdk/stub/stub_pool.go: StubPool, a pool of client stubs for one server. *)
(*                                                                         *)
(* Get and Retrieve hold the pool's mutex from their first line to their   *)
(* return, so each is one step.  A stub is named by the order in which it  *)
(* was created.  A caller holds the stubs Get has returned to it until it  *)
(* gives them back with Retrieve; it gives back nothing else.              *)
(*                                                                         *)
(* has_stub_nums starts at min_stub_nums and counts the stubs lent on top  *)
(* of that, while Get reads it as the number of stubs that exist when it   *)
(* decides how many more to create.                                        *)
(***************************************************************************)
EXTENDS Integers, Sequences, FiniteSets

CONSTANTS
  Callers,       \* the goroutines that use the pool
  max_stub_nums,
  min_stub_nums

ASSUME StubPoolAssumption ==
  /\ max_stub_nums \in Nat
  /\ min_stub_nums \in Nat
  /\ min_stub_nums <= max_stub_nums

VARIABLES
  idel_stub_list, \* stubs ready to be lent, oldest first
  has_stub_nums,
  made,           \* how many stubs CreateConnsStub has made
  lent            \* lent[c]: the stubs caller c holds

poolVars == <<idel_stub_list, has_stub_nums, made, lent>>

Stubs == 1 .. made
Lent == UNION {lent[c] : c \in Callers}

TypeOK ==
  /\ idel_stub_list \in Seq(Nat)
  /\ has_stub_nums \in Nat
  /\ made \in Nat
  /\ lent \in [Callers -> SUBSET Nat]

\* CreateStubPool
Init ==
  /\ idel_stub_list = [n \in 1 .. min_stub_nums |-> n]
  /\ has_stub_nums = min_stub_nums
  /\ made = min_stub_nums
  /\ lent = [c \in Callers |-> {}]

-----------------------------------------------------------------------------
\* Mutant: the loop of Get runs to max_stub_nums included.
MissingAndOne ==
  IF idel_stub_list = <<>> /\ has_stub_nums <= max_stub_nums
  THEN max_stub_nums - has_stub_nums + 1
  ELSE 0

\* Mutant: the loop of Get stops at min_stub_nums.
MissingOfMin ==
  IF idel_stub_list = <<>> /\ has_stub_nums < min_stub_nums
  THEN min_stub_nums - has_stub_nums
  ELSE 0

\* How many stubs Get creates: none while one is idle.
Missing ==
  IF idel_stub_list = <<>> /\ has_stub_nums < max_stub_nums
  THEN max_stub_nums - has_stub_nums
  ELSE 0

\* The list Get takes the first stub of.
Stock == idel_stub_list \o [n \in 1 .. Missing |-> made + n]

\* Mutant: the stub stays in the list.
GetKeeps(c) ==
  /\ Stock # <<>>
  /\ idel_stub_list' = Stock
  /\ lent' = [lent EXCEPT ![c] = @ \cup {Head(Stock)}]
  /\ made' = made + Missing
  /\ has_stub_nums' = has_stub_nums + 1

\* Mutant: the stub is not counted.
GetUncounted(c) ==
  /\ Stock # <<>>
  /\ idel_stub_list' = Tail(Stock)
  /\ lent' = [lent EXCEPT ![c] = @ \cup {Head(Stock)}]
  /\ made' = made + Missing
  /\ UNCHANGED has_stub_nums

Get(c) ==
  /\ Stock # <<>>
  /\ idel_stub_list' = Tail(Stock)
  /\ lent' = [lent EXCEPT ![c] = @ \cup {Head(Stock)}]
  /\ made' = made + Missing
  /\ has_stub_nums' = has_stub_nums + 1

\* Get returns nil.
GetNil(c) ==
  /\ Stock = <<>>
  /\ UNCHANGED poolVars

Retrieve(c, stub) ==
  /\ stub \in lent[c]
  /\ lent' = [lent EXCEPT ![c] = @ \ {stub}]
  /\ idel_stub_list' = Append(idel_stub_list, stub)
  /\ has_stub_nums' = has_stub_nums - 1
  /\ UNCHANGED made

Next ==
  \E c \in Callers :
    \/ Get(c)
    \/ GetNil(c)
    \/ \E stub \in lent[c] : Retrieve(c, stub)

Spec == Init /\ [][Next]_poolVars

-----------------------------------------------------------------------------
(* Properties.                                                             *)

\* The elements of S, each once, in some order.
Lists(s, S) ==
  /\ s \in Seq(S)
  /\ \A m, n \in 1 .. Len(s) : s[m] = s[n] => m = n
  /\ \A x \in S : \E n \in 1 .. Len(s) : s[n] = x

\* A stub has no lock of its own: it is idle once or lent to one caller,
\* never two of these, and none is ever lost.
OneHolder ==
  /\ Lists(idel_stub_list, Stubs \ Lent)
  /\ Lent \subseteq Stubs
  /\ \A c, d \in Callers : lent[c] \cap lent[d] # {} => c = d

\* What has_stub_nums really counts.
Counted == has_stub_nums = min_stub_nums + Cardinality(Lent)

\* Stubs are created by CreateStubPool and at most once more, when the first
\* ones are all lent; there are never more than max_stub_nums of them.  When
\* that one time comes the pool stops min_stub_nums short of its maximum.
Ceiling ==
  /\ made \in {min_stub_nums, max_stub_nums - min_stub_nums}
  /\ made <= max_stub_nums

\* Get never returns nil while a stub is idle, nor before as many stubs are
\* lent as the pool will ever have.
NilMeansEmpty ==
  Stock = <<>> =>
    /\ Len(idel_stub_list) = 0
    /\ Cardinality(Lent) = made
    /\ Cardinality(Lent) >= max_stub_nums - min_stub_nums

\* The inductive invariant.
IInv == TypeOK /\ OneHolder /\ Counted /\ Ceiling
=============================================================================
