-------------------------- MODULE ConnsStubProofs --------------------------
(***************************************************************************)
(* Theorems about StubPool, for every set of callers and every pair of     *)
(* limits, and about ConnsStub, for every number of requests, capacity of  *)
(* recv_buf, width of the length field and set of bodies.                  *)
(***************************************************************************)
EXTENDS ConnsStub, FiniteSetTheorems, SequenceTheorems, TLAPS

\* A sequence all of whose elements are in T is a sequence over T.
LEMMA SeqInto ==
  ASSUME NEW S, NEW T, NEW s \in Seq(S), \A n \in 1 .. Len(s) : s[n] \in T
  PROVE  s \in Seq(T)
<1>1. Len(s) \in Nat /\ s \in [1 .. Len(s) -> S]
  BY LenProperties
<1>2. s \in [1 .. Len(s) -> T]
  BY <1>1
<1>3. QED
  BY <1>1, <1>2, SeqDef

\* An empty list lists nothing.
LEMMA ListsEmpty ==
  ASSUME NEW S, Lists(<<>>, S)
  PROVE  S = {}
BY DEF Lists

\* PushBack of something new.
LEMMA ListsAppend ==
  ASSUME NEW s, NEW S, Lists(s, S), NEW x, x \notin S
  PROVE  Lists(Append(s, x), S \cup {x})
<1>1. /\ s \in Seq(S)
      /\ s \in Seq(S \cup {x})
      /\ Len(s) \in Nat
      /\ \A n \in 1 .. Len(s) : s[n] \in S
  BY DEF Lists
<1>2. /\ Append(s, x) \in Seq(S \cup {x})
      /\ Len(Append(s, x)) = Len(s) + 1
      /\ \A n \in 1 .. Len(s) : Append(s, x)[n] = s[n]
      /\ Append(s, x)[Len(s) + 1] = x
  BY <1>1
<1>3. ASSUME NEW m \in 1 .. Len(s) + 1, NEW n \in 1 .. Len(s) + 1,
             Append(s, x)[m] = Append(s, x)[n]
      PROVE  m = n
  <2>1. CASE m \in 1 .. Len(s) /\ n \in 1 .. Len(s)
    BY <1>2, <1>3, <2>1 DEF Lists
  <2>2. CASE ~(m \in 1 .. Len(s) /\ n \in 1 .. Len(s))
    BY <1>1, <1>2, <1>3, <2>2
  <2>3. QED
    BY <2>1, <2>2
<1>4. ASSUME NEW y \in S \cup {x}
      PROVE  \E n \in 1 .. Len(s) + 1 : Append(s, x)[n] = y
  <2>1. CASE y = x
    BY <1>1, <1>2, <2>1
  <2>2. CASE y \in S
    <3>1. PICK n \in 1 .. Len(s) : s[n] = y
      BY <2>2 DEF Lists
    <3>2. n \in 1 .. Len(s) + 1 /\ Append(s, x)[n] = y
      BY <1>1, <1>2, <3>1
    <3>3. QED
      BY <3>2
  <2>3. QED
    BY <2>1, <2>2
<1>5. QED
  BY <1>2, <1>3, <1>4 DEF Lists

\* Remove of the first element.
LEMMA ListsTail ==
  ASSUME NEW s, NEW S, Lists(s, S), s # <<>>
  PROVE  Head(s) \in S /\ Lists(Tail(s), S \ {Head(s)})
<1>1. /\ s \in Seq(S)
      /\ Len(s) \in Nat \ {0}
      /\ Head(s) = s[1]
      /\ Head(s) \in S
  BY DEF Lists
<1>2. /\ Len(Tail(s)) = Len(s) - 1
      /\ \A n \in 1 .. Len(s) - 1 : Tail(s)[n] = s[n + 1] /\ n + 1 \in 1 .. Len(s)
  BY <1>1
<1>3. \A n \in 1 .. Len(s) - 1 : Tail(s)[n] \in S \ {Head(s)}
  <2>1. SUFFICES ASSUME NEW n \in 1 .. Len(s) - 1 PROVE s[n + 1] \in S \ {s[1]}
    BY <1>1, <1>2
  <2>2. n + 1 \in 1 .. Len(s) /\ 1 \in 1 .. Len(s) /\ n + 1 # 1
    BY <1>1
  <2>3. s[n + 1] \in S
    BY <1>1, <2>2
  <2>4. QED
    BY <2>2, <2>3 DEF Lists
<1>4. Tail(s) \in Seq(S \ {Head(s)})
  <2>1. Tail(s) \in Seq(S)
    BY <1>1
  <2>2. \A n \in 1 .. Len(Tail(s)) : Tail(s)[n] \in S \ {Head(s)}
    BY <1>2, <1>3
  <2>3. QED
    BY <2>1, <2>2, SeqInto
<1>5. ASSUME NEW m \in 1 .. Len(s) - 1, NEW n \in 1 .. Len(s) - 1,
             Tail(s)[m] = Tail(s)[n]
      PROVE  m = n
  <2>1. /\ m + 1 \in 1 .. Len(s)
        /\ n + 1 \in 1 .. Len(s)
        /\ s[m + 1] = s[n + 1]
    BY <1>2, <1>5
  <2>2. m + 1 = n + 1
    BY <2>1 DEF Lists
  <2>3. QED
    BY <1>1, <2>2
<1>6. ASSUME NEW y \in S \ {Head(s)}
      PROVE  \E n \in 1 .. Len(s) - 1 : Tail(s)[n] = y
  <2>1. PICK k \in 1 .. Len(s) : s[k] = y
    BY DEF Lists
  <2>2. k - 1 \in 1 .. Len(s) - 1 /\ (k - 1) + 1 = k
    BY <1>1, <1>6, <2>1
  <2>3. Tail(s)[k - 1] = y
    BY <1>2, <2>1, <2>2
  <2>4. QED
    BY <2>2, <2>3
<1>7. QED
  BY <1>1, <1>2, <1>4, <1>5, <1>6 DEF Lists

\* The loops that create stubs number them in order.
LEMMA ListsFresh ==
  ASSUME NEW m \in Nat, NEW k \in Nat
  PROVE  Lists([n \in 1 .. k |-> m + n], (m + 1) .. (m + k))
<1> DEFINE s == [n \in 1 .. k |-> m + n]
<1>1. Len(s) = k /\ s \in Seq((m + 1) .. (m + k))
  OBVIOUS
<1>2. ASSUME NEW x \in (m + 1) .. (m + k) PROVE \E n \in 1 .. k : s[n] = x
  <2>1. x - m \in 1 .. k /\ s[x - m] = x
    OBVIOUS
  <2>2. QED
    BY <2>1
<1>3. QED
  BY <1>1, <1>2 DEF Lists

-----------------------------------------------------------------------------
\* The lent stubs can be counted.
LEMMA LentFinite ==
  ASSUME TypeOK, OneHolder
  PROVE  /\ IsFiniteSet(Lent)
         /\ Cardinality(Lent) \in Nat
         /\ Cardinality(Stubs) = made
         /\ IsFiniteSet(Stubs)
<1>1. made \in Nat
  BY DEF TypeOK
<1>2. IsFiniteSet(Stubs) /\ Cardinality(Stubs) = made
  BY <1>1, FS_Interval DEF Stubs
<1>3. Lent \in SUBSET Stubs
  BY DEF OneHolder
<1>4. IsFiniteSet(Lent)
  BY <1>2, <1>3, FS_Subset
<1>5. QED
  BY <1>2, <1>4, FS_CardinalityType

\* Get creates stubs only when all of them are lent.
LEMMA StockFacts ==
  ASSUME IInv
  PROVE  /\ Missing \in Nat
         /\ Lists(Stock, (1 .. made + Missing) \ Lent)
         /\ Missing # 0 => /\ Cardinality(Lent) = made
                           /\ Missing = max_stub_nums - (min_stub_nums + made)
<1> USE StubPoolAssumption
<1>1. /\ made \in Nat
      /\ idel_stub_list \in Seq(Nat)
      /\ Lists(idel_stub_list, Stubs \ Lent)
      /\ Lent \subseteq Stubs
      /\ has_stub_nums = min_stub_nums + Cardinality(Lent)
      /\ has_stub_nums \in Nat
  BY DEF IInv, TypeOK, OneHolder, Counted
<1>2. Missing \in Nat
  BY <1>1 DEF Missing
<1>3. CASE Missing = 0
  <2>1. Stock = idel_stub_list
    <3>1. [n \in 1 .. Missing |-> made + n] = <<>>
      BY <1>3
    <3>2. QED
      BY <1>1, <3>1, ConcatEmptySeq DEF Stock
  <2>2. made + Missing = made
    BY <1>1, <1>3
  <2>3. QED
    BY <1>1, <1>2, <1>3, <2>1, <2>2 DEF Stubs
<1>4. CASE Missing # 0
  <2>1. idel_stub_list = <<>> /\ Missing = max_stub_nums - has_stub_nums
    BY <1>4 DEF Missing
  <2>2. Lent = Stubs
    BY <1>1, <2>1, ListsEmpty
  <2>3. Cardinality(Lent) = made
    BY <2>2, LentFinite DEF IInv
  <2>4. Stock = [n \in 1 .. Missing |-> made + n]
    <3>1. [n \in 1 .. Missing |-> made + n] \in Seq(Nat)
      BY <1>1, <1>2
    <3>2. QED
      BY <2>1, <3>1, ConcatEmptySeq DEF Stock
  <2>5. (1 .. made + Missing) \ Lent = (made + 1) .. (made + Missing)
    BY <1>1, <1>2, <2>2 DEF Stubs
  <2>6. Lists(Stock, (made + 1) .. (made + Missing))
    BY <1>1, <1>2, <2>4, ListsFresh
  <2>7. QED
    BY <1>1, <1>2, <2>1, <2>3, <2>5, <2>6
<1>5. QED
  BY <1>3, <1>4

-----------------------------------------------------------------------------
\* The pool CreateStubPool returns satisfies the inductive invariant.
LEMMA InitIInv == Init => IInv
<1> SUFFICES ASSUME Init PROVE IInv
  OBVIOUS
<1> USE StubPoolAssumption
<1>1. Lent = {}
  BY DEF Init, Lent
<1>2. TypeOK
  BY DEF Init, TypeOK
<1>3. Lists([n \in 1 .. min_stub_nums |-> 0 + n], (0 + 1) .. (0 + min_stub_nums))
  BY ListsFresh
<1>4. Lists(idel_stub_list, 1 .. min_stub_nums)
  <2>1. [n \in 1 .. min_stub_nums |-> 0 + n] = [n \in 1 .. min_stub_nums |-> n]
    OBVIOUS
  <2>2. (0 + 1) .. (0 + min_stub_nums) = 1 .. min_stub_nums
    OBVIOUS
  <2>3. QED
    BY <1>3, <2>1, <2>2 DEF Init
<1>5. OneHolder
  BY <1>1, <1>4 DEF Init, OneHolder, Stubs
<1>6. Counted /\ Ceiling
  BY <1>1, FS_EmptySet DEF Init, Counted, Ceiling
<1>7. QED
  BY <1>2, <1>5, <1>6 DEF IInv

\* Get keeps it, whether it creates stubs or not.
LEMMA GetStep ==
  ASSUME IInv, NEW c \in Callers, Get(c)
  PROVE  IInv'
<1> USE StubPoolAssumption
<1>0. Stock \in Seq((1 .. made + Missing) \ Lent) /\ Stock # <<>>
  BY StockFacts DEF Get, Lists
<1>1. PICK k \in Nat, s \in Seq((1 .. made + Missing) \ Lent), x \in (1 .. made + Missing) \ Lent :
        /\ k = Missing
        /\ s = Stock
        /\ s # <<>>
        /\ x = Head(s)
        /\ idel_stub_list' = Tail(s)
        /\ made' = made + k
        /\ lent' = [lent EXCEPT ![c] = @ \cup {x}]
        /\ has_stub_nums' = has_stub_nums + 1
  <2>1. Head(Stock) \in (1 .. made + Missing) \ Lent
    BY <1>0, HeadTailProperties
  <2>2. QED
    BY <1>0, <2>1, StockFacts DEF Get
<1>2. Lists(s, (1 .. made') \ Lent)
  BY <1>1, StockFacts
<1>3. x \in (1 .. made') \ Lent /\ Lists(Tail(s), ((1 .. made') \ Lent) \ {x})
  BY <1>1, <1>2, ListsTail
<1>4. Lent' = Lent \cup {x}
  BY <1>1 DEF Lent, IInv, TypeOK
<1>5. made \in Nat /\ made' \in Nat
  BY <1>1 DEF IInv, TypeOK
<1>6. TypeOK'
  <2>1. s \in Seq((1 .. made') \ Lent)
    BY <1>2 DEF Lists
  <2>2. s \in Seq(Nat)
    BY <1>5, <2>1, SeqMonotonic
  <2>3. idel_stub_list' \in Seq(Nat)
    BY <1>1, <2>2
  <2>4. lent' \in [Callers -> SUBSET Nat]
    BY <1>1, <1>3, <1>5 DEF IInv, TypeOK
  <2>5. QED
    BY <1>1, <1>5, <2>3, <2>4 DEF IInv, TypeOK
<1>7. OneHolder'
  <2>1. ((1 .. made') \ Lent) \ {x} = Stubs' \ Lent'
    BY <1>4 DEF Stubs
  <2>2. Lists(idel_stub_list', Stubs' \ Lent')
    BY <1>1, <1>3, <2>1
  <2>3. Lent' \subseteq Stubs'
    <3>1. Stubs \subseteq Stubs'
      BY <1>1, <1>5 DEF Stubs
    <3>2. x \in Stubs'
      BY <1>3 DEF Stubs
    <3>3. QED
      BY <1>4, <3>1, <3>2 DEF IInv, OneHolder
  <2>4. \A d, e \in Callers : lent'[d] \cap lent'[e] # {} => d = e
    BY <1>1, <1>3 DEF IInv, TypeOK, OneHolder, Lent
  <2>5. QED
    BY <2>2, <2>3, <2>4 DEF OneHolder, Lists
<1>8. Counted'
  <2>1. Cardinality(Lent') = Cardinality(Lent) + 1
    BY <1>3, <1>4, LentFinite, FS_AddElement DEF IInv
  <2>2. QED
    BY <1>1, <2>1, LentFinite DEF IInv, Counted
<1>9. Ceiling'
  BY <1>1, <1>5, StockFacts DEF IInv, Ceiling
<1>10. QED
  BY <1>6, <1>7, <1>8, <1>9 DEF IInv

\* Retrieve of a lent stub keeps it.
LEMMA RetrieveStep ==
  ASSUME IInv, NEW c \in Callers, NEW x \in lent[c], Retrieve(c, x)
  PROVE  IInv'
<1> USE StubPoolAssumption
<1>1. /\ idel_stub_list' = Append(idel_stub_list, x)
      /\ lent' = [lent EXCEPT ![c] = @ \ {x}]
      /\ has_stub_nums' = has_stub_nums - 1
      /\ made' = made
      /\ x \in Nat
      /\ x \in Lent
  BY DEF Retrieve, IInv, TypeOK, Lent
<1>2. Lent' = Lent \ {x}
  BY <1>1 DEF Lent, IInv, TypeOK, OneHolder
<1>3. TypeOK'
  <2>1. Cardinality(Lent) \in Nat /\ Cardinality(Lent) # 0
    BY <1>1, LentFinite, FS_EmptySet DEF IInv
  <2>2. has_stub_nums' \in Nat
    BY <1>1, <2>1 DEF IInv, Counted
  <2>3. QED
    BY <1>1, <2>2 DEF IInv, TypeOK
<1>4. OneHolder'
  <2>1. Lists(idel_stub_list', (Stubs \ Lent) \cup {x})
    BY <1>1, ListsAppend DEF IInv, OneHolder
  <2>2. (Stubs \ Lent) \cup {x} = Stubs' \ Lent'
    BY <1>1, <1>2 DEF IInv, OneHolder, Stubs
  <2>3. Lent' \subseteq Stubs'
    BY <1>1, <1>2 DEF IInv, OneHolder, Stubs
  <2>4. \A d, e \in Callers : lent'[d] \cap lent'[e] # {} => d = e
    BY <1>1 DEF IInv, TypeOK, OneHolder
  <2>5. Lists(idel_stub_list', Stubs' \ Lent')
    BY <2>1, <2>2
  <2>6. QED
    BY <2>3, <2>4, <2>5 DEF OneHolder, Lists
<1>5. Counted'
  <2>1. Cardinality(Lent') = Cardinality(Lent) - 1
    BY <1>1, <1>2, LentFinite, FS_RemoveElement DEF IInv
  <2>2. QED
    BY <1>1, <2>1, LentFinite DEF IInv, Counted
<1>6. Ceiling'
  BY <1>1 DEF IInv, Ceiling
<1>7. QED
  BY <1>3, <1>4, <1>5, <1>6 DEF IInv

LEMMA StepIInv == IInv /\ [Next]_poolVars => IInv'
<1> SUFFICES ASSUME IInv, [Next]_poolVars PROVE IInv'
  OBVIOUS
<1>1. ASSUME NEW c \in Callers, Get(c) PROVE IInv'
  BY <1>1, GetStep
<1>2. ASSUME NEW c \in Callers, NEW x \in lent[c], Retrieve(c, x) PROVE IInv'
  BY <1>2, RetrieveStep
<1>3. CASE UNCHANGED poolVars
  BY <1>3 DEF poolVars, IInv, TypeOK, OneHolder, Counted, Ceiling, Lists, Lent, Stubs
<1>4. QED
  BY <1>1, <1>2, <1>3 DEF Next, GetNil

\* IInv holds in every reachable state.
THEOREM Inductive == Spec => []IInv
BY InitIInv, StepIInv, PTL DEF Spec

\* Every variable keeps its type.
THEOREM TypeCorrect == Spec => []TypeOK
<1>1. IInv => TypeOK
  BY DEF IInv
<1>2. QED
  BY <1>1, Inductive, PTL

\* However callers interleave, no two of them ever hold the same stub.
THEOREM NoSharing == Spec => []OneHolder
<1>1. IInv => OneHolder
  BY DEF IInv
<1>2. QED
  BY <1>1, Inductive, PTL

\* has_stub_nums is min_stub_nums plus the number of lent stubs.
THEOREM Accounting == Spec => []Counted
<1>1. IInv => Counted
  BY DEF IInv
<1>2. QED
  BY <1>1, Inductive, PTL

\* The pool never makes more than max_stub_nums stubs, and stops at
\* max_stub_nums - min_stub_nums if it grows at all.
THEOREM Bounded == Spec => []Ceiling
<1>1. IInv => Ceiling
  BY DEF IInv
<1>2. QED
  BY <1>1, Inductive, PTL

\* Get refuses a caller only when every stub the pool will ever have is lent.
THEOREM Refusal == Spec => []NilMeansEmpty
<1>1. ASSUME IInv PROVE NilMeansEmpty
  <2> SUFFICES ASSUME Stock = <<>>
               PROVE  /\ Len(idel_stub_list) = 0
                      /\ Cardinality(Lent) = made
                      /\ Cardinality(Lent) >= max_stub_nums - min_stub_nums
    BY DEF NilMeansEmpty
  <2> USE StubPoolAssumption
  <2>1. Missing \in Nat /\ made \in Nat /\ idel_stub_list \in Seq(Nat)
    BY <1>1, StockFacts DEF IInv, TypeOK
  <2>2. [n \in 1 .. Missing |-> made + n] \in Seq(Nat)
    BY <2>1
  <2>3. idel_stub_list = <<>> /\ [n \in 1 .. Missing |-> made + n] = <<>>
    BY <2>1, <2>2, ConcatProperties, EmptySeq DEF Stock
  <2>4. Missing = 0
    BY <2>1, <2>3
  <2>5. Lent = Stubs
    BY <1>1, <2>3, ListsEmpty DEF IInv, OneHolder
  <2>6. Cardinality(Lent) = made
    BY <1>1, <2>5, LentFinite DEF IInv
  <2>7. has_stub_nums >= max_stub_nums
    BY <1>1, <2>3, <2>4 DEF Missing, IInv, TypeOK
  <2>8. QED
    BY <1>1, <2>1, <2>3, <2>6, <2>7 DEF IInv, Counted
<1>2. QED
  BY <1>1, Inductive, PTL

-----------------------------------------------------------------------------
(* The stubs as users of the pool.                                         *)

\* A step of a stub is a step of the pool or leaves the pool alone.
LEMMA PoolStep == [StubNext]_stubVars => [Next]_poolVars
<1> SUFFICES ASSUME [StubNext]_stubVars PROVE [Next]_poolVars
  OBVIOUS
<1>1. CASE UNCHANGED stubVars
  BY <1>1 DEF stubVars
<1>2. ASSUME NEW c \in Callers, GetStub(c) PROVE Next
  BY <1>2 DEF GetStub, Next
<1>3. ASSUME NEW c \in Callers, GiveBack(c) PROVE Next
  BY <1>3 DEF GiveBack, Retrieve, Next
<1>4. ASSUME NEW c \in Callers, Begin(c) \/ Invoking(c) PROVE UNCHANGED poolVars
  BY <1>4 DEF Begin, Invoking, Connect, ConnectFails, Write, WriteFails, WriteGivesUp,
              Read, ReadFails
<1>5. ASSUME NEW s \in StubIds, Serve(s) PROVE UNCHANGED poolVars
  BY <1>5 DEF Serve
<1>6. QED
  BY <1>1, <1>2, <1>3, <1>4, <1>5 DEF StubNext

\* Lent to callers that use them one at a time, the stubs implement the pool.
THEOREM StubsUsePool == StubSpec => Spec
<1>1. StubInit => Init
  BY DEF StubInit
<1>2. QED
  BY <1>1, PoolStep, PTL DEF StubSpec, Spec

\* A stub is used by one caller at a time.
LEMMA Holders ==
  ASSUME IInv, CallerInv, NEW c \in Callers, NEW d \in Callers,
         where[c] # "idle", where[d] # "idle", using[c] = using[d]
  PROVE  c = d
BY DEF IInv, OneHolder, CallerInv

\* Two calls in progress are of different requests.
LEMMA OneCall ==
  ASSUME IInv, CallerInv, NEW c \in Callers, NEW d \in Callers,
         where[c] \in Sending \cup {"read"}, where[d] \in Sending \cup {"read"},
         req[c] = req[d]
  PROVE  c = d
<1>1. using[c] = using[d]
  BY DEF CallerInv
<1>2. where[c] # "idle" /\ where[d] # "idle"
  BY DEF Sending
<1>3. QED
  BY <1>1, <1>2, Holders

-----------------------------------------------------------------------------
(* What the callers do.                                                    *)

\* The types of what a call keeps, and of what a connection keeps.
LEMMA StubInts == StubIds \subseteq Int /\ Requests \subseteq Int
BY DEF StubIds, Requests

\* A call in progress goes on, or none is touched: nothing of the callers changes
\* but where they are.
CallsGoOn ==
  /\ UNCHANGED <<poolVars, using, req, by, result>>
  /\ where' \in [Callers -> {"idle", "holding", "dial", "write", "redial", "rewrite", "read"}]
  /\ \A c \in Callers :
       where'[c] # where[c] => where[c] \in Sending /\ where'[c] \in Sending \cup {"read"}

\* The call of c ends with r.
CallEnds(c, r) ==
  /\ UNCHANGED <<poolVars, using, req, by>>
  /\ where[c] \in Sending \cup {"read"}
  /\ r \in Results \ {NoResult}
  /\ where' = [where EXCEPT ![c] = "holding"]
  /\ result' = [result EXCEPT ![req[c]] = r]

\* The parts of the invariant that are about callers only.
CallInv == CallerInv /\ RequestInv /\ InOrder /\ OnlyFailuresDesync

LEMMA GoOnCalls ==
  ASSUME StubTypeOK, CallInv, CallsGoOn
  PROVE  CallInv'
<1>1. CallerInv'
  BY DEF StubTypeOK, CallInv, CallerInv, CallsGoOn, Sending, poolVars
<1>2. RequestInv'
  BY DEF StubTypeOK, CallInv, RequestInv, CallsGoOn, Sending
<1>3. InOrder' /\ OnlyFailuresDesync'
  BY DEF CallInv, InOrder, OnlyFailuresDesync, FailedBefore, NoLengthWraps, CallsGoOn
<1>4. QED
  BY <1>1, <1>2, <1>3 DEF CallInv

\* A stub lent anew is one of the stubs there are.
LEMMA GetStubCalls ==
  ASSUME IInv, IInv', StubTypeOK, CallInv, NEW c \in Callers, GetStub(c)
  PROVE  CallInv' /\ using' \in [Callers -> StubIds \cup {0}]
<1>1. PICK x : /\ x = Head(Stock)
               /\ lent' = [lent EXCEPT ![c] = @ \cup {x}]
               /\ using' = [using EXCEPT ![c] = x]
               /\ where' = [where EXCEPT ![c] = "holding"]
               /\ where[c] = "idle"
               /\ UNCHANGED <<req, by, result>>
  BY DEF GetStub, Get
<1>2. x \in StubIds
  <2>1. x \in Lent'
    BY <1>1 DEF Lent, IInv, TypeOK
  <2>2. QED
    BY <2>1, StubPoolAssumption DEF IInv, TypeOK, OneHolder, Ceiling, Stubs, StubIds
<1>3. lent[c] = {}
  BY <1>1 DEF CallInv, CallerInv
<1>4. using' \in [Callers -> StubIds \cup {0}]
  BY <1>1, <1>2 DEF StubTypeOK
<1>5. CallerInv'
  BY <1>1, <1>2, <1>3 DEF CallInv, CallerInv, StubTypeOK, IInv, TypeOK, Sending
<1>6. RequestInv'
  BY <1>1 DEF CallInv, RequestInv, StubTypeOK, Sending
<1>7. InOrder' /\ OnlyFailuresDesync'
  BY <1>1 DEF CallInv, InOrder, OnlyFailuresDesync, FailedBefore, NoLengthWraps
<1>8. QED
  BY <1>4, <1>5, <1>6, <1>7 DEF CallInv

LEMMA GiveBackCalls ==
  ASSUME IInv, StubTypeOK, CallInv, NEW c \in Callers, GiveBack(c)
  PROVE  CallInv'
<1>1. /\ where[c] = "holding"
      /\ lent' = [lent EXCEPT ![c] = @ \ {using[c]}]
      /\ where' = [where EXCEPT ![c] = "idle"]
      /\ UNCHANGED <<using, req, by, result>>
  BY DEF GiveBack, Retrieve
<1>2. lent[c] = {using[c]}
  BY <1>1 DEF CallInv, CallerInv
<1>3. CallerInv'
  BY <1>1, <1>2 DEF CallInv, CallerInv, StubTypeOK, IInv, TypeOK, Sending
<1>4. RequestInv'
  BY <1>1 DEF CallInv, RequestInv, StubTypeOK, Sending
<1>5. InOrder' /\ OnlyFailuresDesync'
  BY <1>1 DEF CallInv, InOrder, OnlyFailuresDesync, FailedBefore, NoLengthWraps
<1>6. QED
  BY <1>3, <1>4, <1>5 DEF CallInv

\* A new request is later than all there are.
LEMMA BeginCalls ==
  ASSUME IInv, StubTypeOK, CallInv, NEW c \in Callers, Begin(c)
  PROVE  CallInv'
<1>1. PICK q \in Requests :
        /\ by[q] = 0
        /\ \A p \in Requests : p < q => by[p] # 0
        /\ by' = [by EXCEPT ![q] = using[c]]
        /\ req' = [req EXCEPT ![c] = q]
  BY DEF Begin
<1>2. /\ where[c] = "holding"
      /\ where' = [where EXCEPT ![c] = "dial"]
      /\ UNCHANGED <<poolVars, using, result>>
      /\ lent' = lent
  BY DEF Begin, Goto, poolVars
<1>3. /\ by'[q] = using[c]
      /\ using[c] \in StubIds
      /\ \A p \in Requests \ {q} : by'[p] = by[p]
      /\ result[q] = NoResult
      /\ \A p \in Requests : q < p => by[p] = 0
      /\ \A p \in Requests : by[p] # 0 => p < q
  BY <1>1, <1>2, StubInts DEF CallInv, CallerInv, RequestInv, StubTypeOK
<1>4. CallerInv'
  <2> SUFFICES ASSUME NEW d \in Callers
               PROVE  /\ where'[d] = "idle" => lent'[d] = {}
                      /\ where'[d] # "idle" => using'[d] \in StubIds /\ lent'[d] = {using'[d]}
                      /\ where'[d] \in Sending \cup {"read"} =>
                           /\ req'[d] \in Requests
                           /\ by'[req'[d]] = using'[d]
                           /\ result'[req'[d]] = NoResult
    BY DEF CallerInv
  <2>1. CASE d = c
    <3>1. where'[c] = "dial" /\ req'[c] = q /\ using'[c] = using[c]
      BY <1>1, <1>2 DEF StubTypeOK
    <3>2. lent'[c] = {using[c]} /\ result'[q] = NoResult
      BY <1>2, <1>3 DEF CallInv, CallerInv
    <3>3. QED
      BY <1>1, <1>3, <2>1, <3>1, <3>2
  <2>2. CASE d # c
    <3>1. where'[d] = where[d] /\ req'[d] = req[d]
      BY <1>1, <1>2, <2>2 DEF StubTypeOK
    <3>2. where[d] \in Sending \cup {"read"} => req[d] \in Requests /\ by[req[d]] # 0
      BY DEF CallInv, CallerInv, Sending, StubIds
    <3>3. QED
      BY <1>1, <1>2, <1>3, <3>1, <3>2 DEF CallInv, CallerInv
  <2>3. QED
    BY <2>1, <2>2
<1>5. RequestInv'
  <2>1. ASSUME NEW p \in Requests, NEW r \in Requests, p < r, by'[p] = 0
        PROVE  by'[r] = 0
    <3>1. p # q /\ by[p] = 0
      BY <1>3, <2>1 DEF StubIds
    <3>2. by[r] = 0
      BY <2>1, <3>1 DEF CallInv, RequestInv
    <3>3. r # q
      BY <1>1, <2>1, <3>1
    <3>4. QED
      BY <1>3, <3>2, <3>3
  <2>2. \A p \in Requests : by'[p] = 0 => result'[p] = NoResult
    BY <1>2, <1>3 DEF CallInv, RequestInv
  <2>3. ASSUME NEW d \in Callers, NEW p \in Requests,
               where'[d] \in Sending \cup {"read"}, by'[p] = using'[d]
        PROVE  p <= req'[d]
    <3>1. CASE d = c
      <4>1. req'[d] = q
        BY <1>1, <3>1 DEF StubTypeOK
      <4>2. p = q \/ by[p] # 0
        BY <1>2, <1>3, <2>3, <3>1 DEF StubIds
      <4>3. p = q \/ p < q
        BY <1>3, <4>2
      <4>4. QED
        BY <4>1, <4>3, StubInts
    <3>2. CASE d # c
      <4>1. where'[d] = where[d] /\ req'[d] = req[d] /\ where[d] # "idle"
        BY <1>1, <1>2, <2>3, <3>2 DEF StubTypeOK, Sending
      <4>2. p # q
        BY <1>2, <1>3, <2>3, <3>2, <4>1, Holders DEF CallInv
      <4>3. QED
        BY <1>2, <1>3, <2>3, <4>1, <4>2 DEF CallInv, RequestInv
    <3>3. QED
      BY <3>1, <3>2
  <2>4. QED
    BY <2>1, <2>2, <2>3 DEF RequestInv
<1>6. \A p \in Requests : result[p] # NoResult => by[p] # 0 /\ p # q /\ by'[p] = by[p]
  BY <1>1, <1>3 DEF CallInv, RequestInv
<1>7. InOrder'
  <2> SUFFICES ASSUME NEW q1 \in Requests, NEW q2 \in Requests,
                      result[q1] \in Requests, result[q2] \in Requests
               PROVE  /\ by'[result[q1]] = by'[q1]
                      /\ q1 < q2 /\ by'[q1] = by'[q2] => result[q1] < result[q2]
    BY <1>2 DEF InOrder
  <2>1. NoResult \notin Requests
    BY DEF NoResult, Requests
  <2>2. by'[q1] = by[q1] /\ by'[q2] = by[q2] /\ by[q1] # 0
    BY <1>6, <2>1
  <2>3. /\ by[result[q1]] = by[q1]
        /\ q1 < q2 /\ by[q1] = by[q2] => result[q1] < result[q2]
    BY DEF CallInv, InOrder
  <2>4. result[q1] # q
    BY <1>1, <2>2, <2>3
  <2>5. QED
    BY <1>3, <2>2, <2>3, <2>4
<1>8. OnlyFailuresDesync'
  <2> SUFFICES ASSUME NoLengthWraps, NEW r \in Requests, result[r] \notin {NoResult, Failed, r}
               PROVE  \E p \in Requests : p < r /\ by'[p] = by'[r] /\ result[p] = Failed
    BY <1>2 DEF OnlyFailuresDesync, NoLengthWraps, FailedBefore
  <2>1. PICK p \in Requests : p < r /\ by[p] = by[r] /\ result[p] = Failed
    BY DEF CallInv, OnlyFailuresDesync, FailedBefore
  <2>2. by'[p] = by[p] /\ by'[r] = by[r]
    BY <1>6, <2>1 DEF Failed, NoResult
  <2>3. QED
    BY <2>1, <2>2
<1>9. QED
  BY <1>4, <1>5, <1>7, <1>8 DEF CallInv

\* A call ends with an error, with its response, or, on a stub that has failed,
\* with what it takes to be its response; and responses come in order.
LEMMA EndCalls ==
  ASSUME IInv, StubTypeOK, CallInv, NEW c \in Callers, NEW r, CallEnds(c, r),
         r \in Requests => by[r] = using[c] /\ Below(Got(using[c]), {r}),
         NoLengthWraps /\ r \notin {Failed, req[c]} => FailedOn(using[c])
  PROVE  CallInv'
<1> DEFINE q == req[c]
           s == using[c]
<1>1. /\ q \in Requests
      /\ by[q] = s
      /\ result[q] = NoResult
      /\ \A p \in Requests : by[p] = s => p <= q
      /\ UNCHANGED <<poolVars, using, req, by>>
      /\ lent' = lent
      /\ where' = [where EXCEPT ![c] = "holding"]
      /\ where[c] # "idle"
  BY DEF CallInv, CallerInv, RequestInv, CallEnds, Sending, poolVars
<1>2. /\ result'[q] = r
      /\ \A p \in Requests \ {q} : result'[p] = result[p]
  BY <1>1 DEF CallEnds, StubTypeOK
<1>3. CallerInv'
  <2> SUFFICES ASSUME NEW d \in Callers
               PROVE  /\ where'[d] = "idle" => lent'[d] = {}
                      /\ where'[d] # "idle" => using'[d] \in StubIds /\ lent'[d] = {using'[d]}
                      /\ where'[d] \in Sending \cup {"read"} =>
                           /\ req'[d] \in Requests
                           /\ by'[req'[d]] = using'[d]
                           /\ result'[req'[d]] = NoResult
    BY DEF CallerInv
  <2>1. CASE d = c
    BY <1>1, <2>1 DEF CallInv, CallerInv, StubTypeOK, Sending
  <2>2. CASE d # c
    <3>1. where'[d] = where[d]
      BY <1>1, <2>2 DEF StubTypeOK
    <3>2. where[d] \in Sending \cup {"read"} => req[d] # q
      BY <2>2, OneCall DEF CallInv, CallEnds
    <3>3. QED
      BY <1>1, <1>2, <3>1, <3>2 DEF CallInv, CallerInv
  <2>3. QED
    BY <2>1, <2>2
<1>4. RequestInv'
  <2>1. /\ \A p, t \in Requests : p < t /\ by'[p] = 0 => by'[t] = 0
    BY <1>1 DEF CallInv, RequestInv
  <2>2. by[q] # 0
    BY <1>1 DEF CallInv, CallerInv, StubIds
  <2>3. \A p \in Requests : by'[p] = 0 => result'[p] = NoResult
    BY <1>1, <1>2, <2>2 DEF CallInv, RequestInv
  <2>4. \A d \in Callers : where'[d] \in Sending \cup {"read"} => where[d] = where'[d]
    BY <1>1 DEF StubTypeOK, Sending
  <2>5. \A d \in Callers, p \in Requests :
          where'[d] \in Sending \cup {"read"} /\ by'[p] = using'[d] => p <= req'[d]
    BY <1>1, <2>4 DEF CallInv, RequestInv
  <2>6. QED
    BY <2>1, <2>3, <2>5 DEF RequestInv
<1>5. InOrder'
  <2> SUFFICES ASSUME NEW q1 \in Requests, NEW q2 \in Requests,
                      result'[q1] \in Requests, result'[q2] \in Requests
               PROVE  /\ by[result'[q1]] = by[q1]
                      /\ q1 < q2 /\ by[q1] = by[q2] => result'[q1] < result'[q2]
    BY <1>1 DEF InOrder
  <2>1. by[result'[q1]] = by[q1]
    BY <1>1, <1>2 DEF CallInv, InOrder
  <2>2. ASSUME q1 < q2, by[q1] = by[q2]
        PROVE  result'[q1] < result'[q2]
    <3>1. q1 # q
      BY <1>1, <2>2, StubInts
    <3>2. result'[q1] = result[q1]
      BY <1>2, <3>1
    <3>3. CASE q2 = q
      <4>1. result[q1] \in Got(s)
        BY <1>1, <2>2, <3>2, <3>3 DEF Got
      <4>2. QED
        BY <1>2, <3>2, <3>3, <4>1 DEF Below
    <3>4. CASE q2 # q
      BY <1>2, <2>2, <3>2, <3>4 DEF CallInv, InOrder
    <3>5. QED
      BY <3>3, <3>4
  <2>3. QED
    BY <2>1, <2>2
<1>6. OnlyFailuresDesync'
  <2> SUFFICES ASSUME NoLengthWraps, NEW t \in Requests, result'[t] \notin {NoResult, Failed, t}
               PROVE  \E p \in Requests : p < t /\ by[p] = by[t] /\ result'[p] = Failed
    BY <1>1 DEF OnlyFailuresDesync, NoLengthWraps, FailedBefore
  <2>1. PICK p \in Requests : p <= t /\ by[p] = by[t] /\ result[p] = Failed
    <3>1. CASE t = q
      BY <1>1, <1>2, <3>1 DEF FailedOn
    <3>2. CASE t # q
      BY <1>2, <3>2, StubInts DEF CallInv, OnlyFailuresDesync, FailedBefore
    <3>3. QED
      BY <3>1, <3>2
  <2>2. p # q
    BY <1>1, <2>1 DEF Failed, NoResult
  <2>3. result'[p] = Failed
    BY <1>2, <2>1, <2>2
  <2>4. p # t
    BY <2>3
  <2>5. QED
    BY <2>1, <2>3, <2>4, StubInts
<1>7. QED
  BY <1>3, <1>4, <1>5, <1>6 DEF CallInv

-----------------------------------------------------------------------------
(* What reading, writing and serving do to the order of responses.         *)

\* A response is a sequence of cells, of which the first is its head.
LEMMA FrameFacts ==
  ASSUME NEW p \in Requests, NEW n \in BodyLens, NEW v \in BodyVals
  PROVE  /\ Frame(p, n, v) \in Seq(Cells)
         /\ Len(Frame(p, n, v)) = n + 1
         /\ Frame(p, n, v)[1] = [req |-> p, pos |-> 1, val |-> Int16(n)]
         /\ Heads(Frame(p, n, v)) = {p}
         /\ \A k \in 1 .. n + 1 : Frame(p, n, v)[k].pos = k
<1> DEFINE F == Frame(p, n, v)
<1>1. n \in Nat /\ v \in Int /\ LenHalf \in Nat \ {0}
  BY ConnsStubAssumption
<1>2. Int16(n) \in Int
  BY <1>1 DEF Int16
<1>3. \A k \in 1 .. n + 1 : [req |-> p, pos |-> k, val |-> IF k = 1 THEN Int16(n) ELSE v] \in Cells
  BY <1>1, <1>2 DEF Cells
<1>4. F = [k \in 1 .. n + 1 |-> [req |-> p, pos |-> k, val |-> IF k = 1 THEN Int16(n) ELSE v]]
  BY <1>1 DEF Frame, HeadSize
<1>5. F \in Seq(Cells) /\ Len(F) = n + 1
  BY <1>1, <1>3, <1>4
<1>6. F[1] = [req |-> p, pos |-> 1, val |-> Int16(n)] /\ \A k \in 1 .. n + 1 : F[k].pos = k
  BY <1>1, <1>4
<1>7. {k \in 1 .. Len(F) : F[k].pos = 1} = {1}
  BY <1>1, <1>5, <1>6
<1>8. Heads(F) = {p}
  BY <1>6, <1>7 DEF Heads
<1>9. QED
  BY <1>5, <1>6, <1>8

LEMMA HeadsInts ==
  ASSUME NEW t \in Seq(Cells)
  PROVE  Heads(t) \subseteq Requests
<1>1. \A k \in 1 .. Len(t) : t[k] \in Cells
  OBVIOUS
<1>2. QED
  BY <1>1 DEF Heads, Cells

LEMMA HeadsCat ==
  ASSUME NEW t \in Seq(Cells), NEW u \in Seq(Cells)
  PROVE  /\ t \o u \in Seq(Cells)
         /\ Heads(t \o u) = Heads(t) \cup Heads(u)
<1>1. /\ t \o u \in Seq(Cells)
      /\ Len(t) \in Nat /\ Len(u) \in Nat
      /\ Len(t \o u) = Len(t) + Len(u)
      /\ \A k \in 1 .. Len(t) : (t \o u)[k] = t[k]
      /\ \A k \in 1 .. Len(u) : (t \o u)[Len(t) + k] = u[k]
  OBVIOUS
<1>2. ASSUME NEW x \in Heads(t \o u) PROVE x \in Heads(t) \cup Heads(u)
  <2>1. PICK k \in 1 .. Len(t \o u) : (t \o u)[k].pos = 1 /\ x = (t \o u)[k].req
    BY DEF Heads
  <2>2. CASE k \in 1 .. Len(t)
    BY <1>1, <2>1, <2>2 DEF Heads
  <2>3. CASE k \notin 1 .. Len(t)
    <3>1. k - Len(t) \in 1 .. Len(u) /\ Len(t) + (k - Len(t)) = k
      BY <1>1, <2>3
    <3>2. u[k - Len(t)] = (t \o u)[k]
      BY <1>1, <3>1
    <3>3. QED
      BY <2>1, <3>1, <3>2 DEF Heads
  <2>4. QED
    BY <2>2, <2>3
<1>3. ASSUME NEW x \in Heads(t) PROVE x \in Heads(t \o u)
  <2>1. PICK k \in 1 .. Len(t) : t[k].pos = 1 /\ x = t[k].req
    BY DEF Heads
  <2>2. k \in 1 .. Len(t \o u) /\ (t \o u)[k] = t[k]
    BY <1>1
  <2>3. QED
    BY <2>1, <2>2 DEF Heads
<1>4. ASSUME NEW x \in Heads(u) PROVE x \in Heads(t \o u)
  <2>1. PICK k \in 1 .. Len(u) : u[k].pos = 1 /\ x = u[k].req
    BY DEF Heads
  <2>2. Len(t) + k \in 1 .. Len(t \o u) /\ (t \o u)[Len(t) + k] = u[k]
    BY <1>1
  <2>3. QED
    BY <2>1, <2>2 DEF Heads
<1>5. QED
  BY <1>1, <1>2, <1>3, <1>4

\* A read cuts what is under way in two.
LEMMA HeadsCut ==
  ASSUME NEW t \in Seq(Cells), NEW k \in 1 .. Len(t)
  PROVE  /\ SubSeq(t, 1, k) \in Seq(Cells)
         /\ SubSeq(t, k + 1, Len(t)) \in Seq(Cells)
         /\ Heads(SubSeq(t, 1, k)) \subseteq Heads(t)
         /\ Heads(SubSeq(t, k + 1, Len(t))) \subseteq Heads(t)
         /\ HeadsInStep(t) =>
              /\ HeadsInStep(SubSeq(t, k + 1, Len(t)))
              /\ Below(Heads(SubSeq(t, 1, k)), Heads(SubSeq(t, k + 1, Len(t))))
<1> DEFINE a == SubSeq(t, 1, k)
           b == SubSeq(t, k + 1, Len(t))
<1>1. /\ a \in Seq(Cells) /\ b \in Seq(Cells)
      /\ Len(t) \in Nat
      /\ Len(a) = k
      /\ Len(b) = Len(t) - k
      /\ \A j \in 1 .. k : a[j] = t[j]
      /\ \A j \in 1 .. Len(t) - k : b[j] = t[k + j]
  OBVIOUS
<1>2. /\ \A j \in 1 .. Len(a) : j \in 1 .. Len(t) /\ j <= k
      /\ \A j \in 1 .. Len(b) : k + j \in 1 .. Len(t) /\ k < k + j
  BY <1>1
<1>3. \A x \in Heads(a) : \E j \in 1 .. Len(t) : j <= k /\ t[j].pos = 1 /\ x = t[j].req
  BY <1>1, <1>2 DEF Heads
<1>4. \A x \in Heads(b) : \E j \in 1 .. Len(t) : k < j /\ t[j].pos = 1 /\ x = t[j].req
  BY <1>1, <1>2 DEF Heads
<1>5. Heads(a) \subseteq Heads(t) /\ Heads(b) \subseteq Heads(t)
  BY <1>3, <1>4 DEF Heads
<1>6. ASSUME HeadsInStep(t) PROVE HeadsInStep(b)
  <2> SUFFICES ASSUME NEW i \in 1 .. Len(b), NEW j \in 1 .. Len(b),
                      i < j, b[i].pos = 1, b[j].pos = 1
               PROVE  b[i].req < b[j].req
    BY DEF HeadsInStep
  <2>1. /\ b[i] = t[k + i] /\ b[j] = t[k + j]
        /\ k + i \in 1 .. Len(t) /\ k + j \in 1 .. Len(t)
        /\ k + i < k + j
    BY <1>1, <1>2
  <2>2. QED
    BY <1>6, <2>1 DEF HeadsInStep
<1>7. ASSUME HeadsInStep(t), NEW x \in Heads(a), NEW y \in Heads(b) PROVE x < y
  <2>1. PICK i \in 1 .. Len(t) : i <= k /\ t[i].pos = 1 /\ x = t[i].req
    BY <1>3
  <2>2. PICK j \in 1 .. Len(t) : k < j /\ t[j].pos = 1 /\ y = t[j].req
    BY <1>4
  <2>3. i < j
    BY <2>1, <2>2
  <2>4. QED
    BY <1>7, <2>1, <2>2, <2>3 DEF HeadsInStep
<1>8. QED
  BY <1>1, <1>5, <1>6, <1>7 DEF Below

\* A request is written: it is later than all that the stub knows of.
LEMMA LineWrite ==
  ASSUME NEW G, NEW t, NEW u, NEW o \in Seq(Requests), NEW q \in Requests,
         InLine(G, t, u, o),
         Below(G \cup Heads(t) \cup Heads(u) \cup Elems(o), {q})
  PROVE  /\ Elems(Append(o, q)) = Elems(o) \cup {q}
         /\ InLine(G, t, u, Append(o, q))
<1>1. /\ Len(o) \in Nat
      /\ Len(Append(o, q)) = Len(o) + 1
      /\ \A k \in 1 .. Len(o) : Append(o, q)[k] = o[k]
      /\ Append(o, q)[Len(o) + 1] = q
  OBVIOUS
<1>2. Elems(Append(o, q)) = Elems(o) \cup {q}
  BY <1>1 DEF Elems
<1>3. ASSUME NEW j \in 1 .. Len(o) + 1, NEW k \in 1 .. Len(o) + 1, j < k
      PROVE  Append(o, q)[j] < Append(o, q)[k]
  <2>1. j \in 1 .. Len(o) /\ o[j] \in Elems(o)
    BY <1>1, <1>3 DEF Elems
  <2>2. CASE k = Len(o) + 1
    BY <1>1, <2>1, <2>2 DEF Below
  <2>3. CASE k # Len(o) + 1
    <3>1. k \in 1 .. Len(o)
      BY <1>1, <2>3
    <3>2. QED
      BY <1>1, <1>3, <2>1, <3>1 DEF InLine
  <2>4. QED
    BY <2>2, <2>3
<1>4. QED
  BY <1>1, <1>2, <1>3 DEF InLine, Below

\* The connection is closed.
LEMMA LineClose ==
  ASSUME NEW G, NEW t, NEW u, NEW o, InLine(G, t, u, o)
  PROVE  /\ InLine(G, t, <<>>, <<>>)
         /\ Heads(<<>>) = {} /\ Elems(<<>>) = {}
<1>1. Heads(<<>>) = {} /\ Elems(<<>>) = {} /\ HeadsInStep(<<>>)
  BY DEF Heads, Elems, HeadsInStep
<1>2. QED
  BY <1>1 DEF InLine, Below

\* The server answers the first of the requests it has.
LEMMA LineServe ==
  ASSUME NEW G, NEW t, NEW u \in Seq(Cells), NEW o \in Seq(Requests), o # <<>>,
         InLine(G, t, u, o), NEW n \in BodyLens, NEW v \in BodyVals
  PROVE  /\ u \o Frame(Head(o), n, v) \in Seq(Cells)
         /\ Heads(u \o Frame(Head(o), n, v)) = Heads(u) \cup {Head(o)}
         /\ Head(o) \in Elems(o)
         /\ Elems(Tail(o)) \subseteq Elems(o)
         /\ InLine(G, t, u \o Frame(Head(o), n, v), Tail(o))
<1> DEFINE p == Head(o)
           F == Frame(p, n, v)
           w == u \o F
<1>1. /\ Len(o) \in Nat \ {0}
      /\ p = o[1] /\ p \in Requests
      /\ Len(Tail(o)) = Len(o) - 1
      /\ \A k \in 1 .. Len(o) - 1 : Tail(o)[k] = o[k + 1] /\ k + 1 \in 1 .. Len(o)
  OBVIOUS
<1>2. p \in Elems(o) /\ Elems(Tail(o)) \subseteq Elems(o) /\ Below({p}, Elems(Tail(o)))
  BY <1>1 DEF Elems, InLine, Below
<1>3. /\ F \in Seq(Cells) /\ Len(F) = n + 1
      /\ F[1].req = p
      /\ Heads(F) = {p}
      /\ \A k \in 1 .. n + 1 : F[k].pos = k
      /\ n \in Nat
  <2>1. n \in Nat
    BY ConnsStubAssumption
  <2>2. F[1] = [req |-> p, pos |-> 1, val |-> Int16(n)]
    BY <1>1, FrameFacts
  <2>3. F[1].req = p
    BY <2>2
  <2>4. QED
    BY <1>1, <2>1, <2>3, FrameFacts
<1> HIDE DEF F
<1>4. w \in Seq(Cells) /\ Heads(w) = Heads(u) \cup {p}
  BY <1>3, HeadsCat
<1>5. HeadsInStep(w)
  <2>1. /\ Len(u) \in Nat
        /\ Len(w) = Len(u) + (n + 1)
        /\ \A k \in 1 .. Len(u) : w[k] = u[k]
        /\ \A k \in 1 .. n + 1 : w[Len(u) + k] = F[k]
    BY <1>3
  <2> SUFFICES ASSUME NEW i \in 1 .. Len(w), NEW j \in 1 .. Len(w), i < j,
                      w[i].pos = 1, w[j].pos = 1
               PROVE  w[i].req < w[j].req
    BY DEF HeadsInStep
  <2>2. ASSUME NEW k \in 1 .. Len(w), k \notin 1 .. Len(u), w[k].pos = 1
        PROVE  k = Len(u) + 1 /\ w[k].req = p
    <3>1. k - Len(u) \in 1 .. n + 1 /\ Len(u) + (k - Len(u)) = k
      BY <1>3, <2>1, <2>2
    <3>2. w[k] = F[k - Len(u)] /\ k - Len(u) = 1
      BY <1>3, <2>1, <2>2, <3>1
    <3>3. QED
      BY <1>3, <2>1, <3>1, <3>2
  <2>3. i \in 1 .. Len(u)
    BY <2>1, <2>2
  <2>4. u[i].req \in Heads(u)
    BY <2>1, <2>3 DEF Heads
  <2>5. CASE j \in 1 .. Len(u)
    BY <2>1, <2>3, <2>5 DEF InLine, HeadsInStep
  <2>6. CASE j \notin 1 .. Len(u)
    BY <1>2, <2>1, <2>2, <2>3, <2>4, <2>6 DEF InLine, Below
  <2>7. QED
    BY <2>5, <2>6
<1>6. \A j, k \in 1 .. Len(Tail(o)) : j < k => Tail(o)[j] < Tail(o)[k]
  <2> SUFFICES ASSUME NEW j \in 1 .. Len(o) - 1, NEW k \in 1 .. Len(o) - 1, j < k
               PROVE  o[j + 1] < o[k + 1]
    BY <1>1
  <2>1. j + 1 \in 1 .. Len(o) /\ k + 1 \in 1 .. Len(o) /\ j + 1 < k + 1
    BY <1>1
  <2>2. QED
    BY <2>1 DEF InLine
<1>7. QED
  BY <1>2, <1>4, <1>5, <1>6 DEF F, InLine, Below

\* A read moves cells to the buffer, or loses them when they do not fit; if a
\* packet is complete its head is the first cell, and the buffer is emptied.
LEMMA LineRead ==
  ASSUME NEW G, NEW t \in Seq(Cells), NEW u \in Seq(Cells), NEW o,
         InLine(G, t, u, o), NEW k \in 1 .. Len(u)
  PROVE  LET data == t \o SubSeq(u, 1, k)
             rest == SubSeq(u, k + 1, Len(u))
         IN  /\ data \in Seq(Cells) /\ rest \in Seq(Cells) /\ data # <<>>
             /\ Heads(data) \subseteq Heads(t) \cup Heads(u)
             /\ Heads(rest) \subseteq Heads(u)
             /\ InLine(G, data, rest, o)
             /\ InLine(G, t, rest, o)
             /\ data[1].pos = 1 =>
                  /\ data[1].req \in Heads(data)
                  /\ Below(G, {data[1].req})
                  /\ InLine(G \cup {data[1].req}, <<>>, rest, o)
<1> DEFINE first == SubSeq(u, 1, k)
           data == t \o first
           rest == SubSeq(u, k + 1, Len(u))
<1>1. /\ first \in Seq(Cells) /\ rest \in Seq(Cells)
      /\ Heads(first) \subseteq Heads(u) /\ Heads(rest) \subseteq Heads(u)
      /\ HeadsInStep(rest)
      /\ Below(Heads(first), Heads(rest))
  BY HeadsCut DEF InLine
<1>2. data \in Seq(Cells) /\ Heads(data) = Heads(t) \cup Heads(first)
  BY <1>1, HeadsCat
<1>3. Len(data) \in Nat \ {0} /\ data # <<>>
  <2>1. Len(first) = k /\ Len(t) \in Nat
    OBVIOUS
  <2>2. Len(data) = Len(t) + Len(first)
    BY <1>1
  <2>3. QED
    BY <1>2, <2>1, <2>2
<1>4. InLine(G, data, rest, o) /\ InLine(G, t, rest, o)
  BY <1>1, <1>2 DEF InLine, Below
<1>5. ASSUME data[1].pos = 1
      PROVE  /\ data[1].req \in Heads(data)
             /\ Below(G, {data[1].req})
             /\ InLine(G \cup {data[1].req}, <<>>, rest, o)
  <2>1. data[1].req \in Heads(data)
    BY <1>3, <1>5 DEF Heads
  <2>2. Heads(<<>>) = {}
    BY DEF Heads
  <2>3. QED
    BY <1>4, <2>1, <2>2 DEF InLine, Below
<1>6. QED
  BY <1>1, <1>2, <1>3, <1>4, <1>5

-----------------------------------------------------------------------------
(* What the callers' steps do to what has been sent and delivered.         *)

\* StubTypeOK, in parts.
CallTypes ==
  /\ where \in [Callers -> {"idle", "holding", "dial", "write", "redial", "rewrite", "read"}]
  /\ using \in [Callers -> StubIds \cup {0}]
  /\ req \in [Callers -> Requests \cup {0}]
  /\ by \in [Requests -> StubIds \cup {0}]
  /\ result \in [Requests -> Results]
ConnTypes ==
  /\ conn \in [StubIds -> BOOLEAN]
  /\ buf \in [StubIds -> Seq(Cells)]
  /\ owed \in [StubIds -> Seq(Requests)]
  /\ wire \in [StubIds -> Seq(Cells)]
  /\ panicked \in BOOLEAN
  /\ \A s \in StubIds : Len(buf[s]) <= RecvCap

LEMMA Types == StubTypeOK <=> TypeOK /\ CallTypes /\ ConnTypes
BY DEF StubTypeOK, CallTypes, ConnTypes

\* No request is unsent, and nothing is delivered, by a step of which this holds.
SentKept ==
  \A s \in StubIds : /\ \A p \in Requests : Sent(p, s) => Sent(p, s)'
                     /\ FailedOn(s) => FailedOn(s)'
GotKept == \A s \in StubIds : Got(s)' = Got(s)

LEMMA GoOnSent ==
  ASSUME CallTypes, CallsGoOn
  PROVE  CallTypes' /\ SentKept /\ GotKept
<1>1. CallTypes'
  BY DEF CallTypes, CallsGoOn
<1>2. UNCHANGED <<req, by, result>> /\ \A c \in Callers : where'[c] \in Sending => where[c] \in Sending
  BY DEF CallsGoOn, CallTypes, Sending
<1>3. SentKept
  BY <1>2 DEF SentKept, Sent, FailedOn
<1>4. GotKept
  BY <1>2 DEF GotKept, Got
<1>5. QED
  BY <1>1, <1>3, <1>4

LEMMA BetweenSent ==
  ASSUME CallTypes, CallInv, NEW c \in Callers, GetStub(c) \/ GiveBack(c) \/ Begin(c)
  PROVE  SentKept /\ GotKept
<1>1. CASE GetStub(c) \/ GiveBack(c)
  <2>1. /\ UNCHANGED <<req, by, result>>
        /\ \A d \in Callers : where'[d] \in Sending => where[d] \in Sending
    BY <1>1 DEF GetStub, GiveBack, CallTypes, Sending
  <2>2. QED
    BY <2>1 DEF SentKept, GotKept, Sent, Got, FailedOn
<1>2. CASE Begin(c)
  <2>1. PICK q \in Requests : /\ by[q] = 0
                              /\ by' = [by EXCEPT ![q] = using[c]]
                              /\ req' = [req EXCEPT ![c] = q]
    BY <1>2 DEF Begin
  <2>2. UNCHANGED result /\ where' = [where EXCEPT ![c] = "dial"] /\ where[c] = "holding"
    BY <1>2 DEF Begin, Goto
  <2>3. result[q] = NoResult /\ NoResult \notin Requests /\ NoResult # Failed
    BY <2>1 DEF CallInv, RequestInv, NoResult, Failed, Requests
  <2>4. \A p \in Requests \ {q} : by'[p] = by[p]
    BY <2>1 DEF CallTypes
  <2>5. \A s \in StubIds : s # 0
    BY DEF StubIds
  <2>6. ASSUME NEW s \in StubIds, NEW p \in Requests, Sent(p, s)
        PROVE  Sent(p, s)'
    <3>1. p # q
      BY <2>1, <2>5, <2>6 DEF Sent
    <3>2. \A d \in Callers : req'[d] = p => d # c /\ req[d] = p /\ where'[d] = where[d]
      BY <2>1, <2>2, <3>1 DEF CallTypes
    <3>3. QED
      BY <2>4, <2>6, <3>1, <3>2 DEF Sent
  <2>7. ASSUME NEW s \in StubIds, FailedOn(s)
        PROVE  FailedOn(s)'
    <3>1. PICK p \in Requests : by[p] = s /\ result[p] = Failed
      BY <2>7 DEF FailedOn
    <3>2. QED
      BY <2>2, <2>3, <2>4, <3>1 DEF FailedOn
  <2>8. ASSUME NEW s \in StubIds
        PROVE  Got(s)' = Got(s)
    <3>1. \A p \in Requests :
            by'[p] = s /\ result'[p] \in Requests <=> by[p] = s /\ result[p] \in Requests
      BY <2>1, <2>2, <2>3, <2>4
    <3>2. QED
      BY <2>2, <3>1 DEF Got
  <2>9. QED
    BY <2>6, <2>7, <2>8 DEF SentKept, GotKept
<1>3. QED
  BY <1>1, <1>2

LEMMA EndSent ==
  ASSUME CallTypes, CallInv, NEW c \in Callers, NEW r, CallEnds(c, r),
         NEW u \in StubIds, u = using[c]
  PROVE  /\ CallTypes'
         /\ SentKept
         /\ \A s \in StubIds \ {u} : Got(s)' = Got(s)
         /\ Got(u)' = IF r \in Requests THEN Got(u) \cup {r} ELSE Got(u)
         /\ r = Failed => FailedOn(u)'
<1> DEFINE q == req[c]
<1>1. /\ q \in Requests /\ by[q] = u /\ result[q] = NoResult
      /\ UNCHANGED <<using, req, by>>
      /\ where' = [where EXCEPT ![c] = "holding"]
      /\ result' = [result EXCEPT ![q] = r]
      /\ r \in Results
  BY DEF CallInv, CallerInv, CallEnds
<1>2. NoResult \notin Requests /\ NoResult # Failed
  BY DEF NoResult, Failed, Requests
<1>3. CallTypes'
  BY <1>1 DEF CallTypes
<1>4. /\ result'[q] = r
      /\ \A p \in Requests \ {q} : result'[p] = result[p]
      /\ \A d \in Callers : where'[d] \in Sending => where[d] \in Sending
  BY <1>1 DEF CallTypes, Sending
<1>5. SentKept
  <2>1. \A s \in StubIds, p \in Requests : Sent(p, s) => Sent(p, s)'
    BY <1>1, <1>4 DEF Sent
  <2>2. \A s \in StubIds : FailedOn(s) => FailedOn(s)'
    BY <1>1, <1>2, <1>4 DEF FailedOn
  <2>3. QED
    BY <2>1, <2>2 DEF SentKept
<1>6. ASSUME NEW s \in StubIds \ {u} PROVE Got(s)' = Got(s)
  <2>1. \A p \in Requests : by[p] = s => result'[p] = result[p]
    BY <1>1, <1>4
  <2>2. QED
    BY <1>1, <2>1 DEF Got
<1>7. ASSUME NEW x PROVE x \in Got(u)' <=> x \in Got(u) \/ (r \in Requests /\ x = r)
  <2>1. x \in Got(u)' <=> \E p \in Requests : by[p] = u /\ result'[p] \in Requests /\ x = result'[p]
    BY <1>1 DEF Got
  <2>2. x \in Got(u) <=> \E p \in Requests : by[p] = u /\ result[p] \in Requests /\ x = result[p]
    BY DEF Got
  <2>3. QED
    BY <1>1, <1>2, <1>4, <2>1, <2>2
<1>8. Got(u)' = IF r \in Requests THEN Got(u) \cup {r} ELSE Got(u)
  BY <1>7
<1>9. r = Failed => FailedOn(u)'
  BY <1>1, <1>4 DEF FailedOn
<1>10. QED
  BY <1>3, <1>5, <1>6, <1>8, <1>9

\* A stub that a step leaves alone.
LEMMA OrderKept ==
  ASSUME NEW s \in StubIds, OrderOn(s), SentKept, Got(s)' = Got(s),
         buf'[s] = buf[s], wire'[s] = wire[s], owed'[s] = owed[s]
  PROVE  OrderOn(s)'
BY DEF OrderOn, SentKept, Sent

LEMMA CleanKept ==
  ASSUME NEW s \in StubIds, CleanOn(s), SentKept,
         buf'[s] = buf[s], wire'[s] = wire[s], owed'[s] = owed[s],
         \A c \in Callers : where[c] = "read" /\ using[c] = s =>
           where'[c] = "read" /\ using'[c] = s /\ req'[c] = req[c]
  PROVE  CleanOn(s)'
<1>1. CASE FailedOn(s)
  BY <1>1 DEF SentKept, CleanOn
<1>2. CASE Quiet(s)
  BY <1>2 DEF Quiet, CleanOn
<1>3. ASSUME NEW c \in Callers, where[c] = "read", using[c] = s, Awaiting(s, req[c])
      PROVE  CleanOn(s)'
  <2>1. Awaiting(s, req[c])'
    BY <1>3 DEF Awaiting
  <2>2. QED
    BY <1>3, <2>1 DEF CleanOn
<1>4. QED
  BY <1>1, <1>2, <1>3 DEF CleanOn

\* The stub of c, as c finds it.
LEMMA CleanOwn ==
  ASSUME IInv, CallerInv, NEW c \in Callers, where[c] # "idle", CleanOn(using[c])
  PROVE  \/ FailedOn(using[c])
         \/ Quiet(using[c])
         \/ where[c] = "read" /\ Awaiting(using[c], req[c])
<1>1. ASSUME NEW d \in Callers, where[d] = "read", using[d] = using[c] PROVE d = c
  BY <1>1, Holders
<1>2. QED
  BY <1>1 DEF CleanOn

-----------------------------------------------------------------------------
(* The steps.                                                              *)

LEMMA Parts ==
  StubIInv <=> /\ IInv /\ CallTypes /\ ConnTypes /\ CallInv
               /\ OrderInv /\ CleanInv /\ PanicInv
<1>1. IInv => TypeOK
  BY DEF IInv
<1>2. QED
  BY <1>1, Types DEF StubIInv, CallInv

\* What is to be shown of a step: of the panic only if it is one.
LEMMA Together ==
  ASSUME IInv', CallTypes', ConnTypes', CallInv', OrderInv', CleanInv',
         ~panicked' \/ PanicInv'
  PROVE  StubIInv'
<1>1. TypeOK'
  BY DEF IInv
<1>2. StubTypeOK'
  BY <1>1 DEF StubTypeOK, CallTypes, ConnTypes
<1>3. PanicInv'
  BY DEF PanicInv
<1>4. QED
  BY <1>2, <1>3 DEF StubIInv, CallInv

\* A step that touches the connection of one stub at most.
LEMMA Elsewhere ==
  ASSUME OrderInv, CleanInv, SentKept, NEW u \in StubIds,
         \A s \in StubIds \ {u} :
           /\ Got(s)' = Got(s)
           /\ buf'[s] = buf[s] /\ wire'[s] = wire[s] /\ owed'[s] = owed[s],
         \A c \in Callers : where[c] = "read" /\ using[c] # u =>
           where'[c] = "read" /\ using'[c] = using[c] /\ req'[c] = req[c],
         OrderOn(u)',
         NoLengthWraps => CleanOn(u)'
  PROVE  OrderInv' /\ CleanInv'
<1>1. ASSUME NEW s \in StubIds \ {u} PROVE OrderOn(s)'
  BY OrderKept DEF OrderInv
<1>2. ASSUME NEW s \in StubIds \ {u}, NoLengthWraps PROVE CleanOn(s)'
  <2>1. CleanOn(s)
    BY <1>2 DEF CleanInv
  <2>2. \A c \in Callers : where[c] = "read" /\ using[c] = s =>
          where'[c] = "read" /\ using'[c] = s /\ req'[c] = req[c]
    OBVIOUS
  <2>3. QED
    BY <2>1, <2>2, CleanKept
<1>3. \A s \in StubIds : OrderOn(s)'
  BY <1>1
<1>4. NoLengthWraps' => \A s \in StubIds : CleanOn(s)'
  BY <1>2 DEF NoLengthWraps
<1>5. QED
  BY <1>3, <1>4 DEF OrderInv, CleanInv

\* A step that touches no connection and no call that reads.
LEMMA Nowhere ==
  ASSUME OrderInv, CleanInv, SentKept, GotKept, UNCHANGED <<buf, wire, owed>>,
         \A c \in Callers : where[c] = "read" =>
           where'[c] = "read" /\ using'[c] = using[c] /\ req'[c] = req[c]
  PROVE  OrderInv' /\ CleanInv'
<1>1. ASSUME NEW s \in StubIds PROVE OrderOn(s)'
  BY OrderKept DEF OrderInv, GotKept
<1>2. ASSUME NEW s \in StubIds, NoLengthWraps PROVE CleanOn(s)'
  <2>1. CleanOn(s)
    BY <1>2 DEF CleanInv
  <2>2. QED
    BY <2>1, CleanKept
<1>3. \A s \in StubIds : OrderOn(s)'
  BY <1>1
<1>4. NoLengthWraps' => \A s \in StubIds : CleanOn(s)'
  BY <1>2 DEF NoLengthWraps
<1>5. QED
  BY <1>3, <1>4 DEF OrderInv, CleanInv

\* Get, Retrieve and the start of Invoke.
LEMMA BetweenStep ==
  ASSUME StubIInv, IInv', ~panicked, NEW c \in Callers,
         GetStub(c) \/ GiveBack(c) \/ Begin(c)
  PROVE  StubIInv'
<1>1. /\ IInv /\ StubTypeOK /\ CallTypes /\ ConnTypes /\ CallInv /\ OrderInv /\ CleanInv
  BY Parts DEF StubIInv
<1>2. SentKept /\ GotKept
  BY <1>1, BetweenSent
<1>3. UNCHANGED connVars /\ UNCHANGED panicked
  BY DEF GetStub, GiveBack, Begin
<1>4. CallInv'
  BY <1>1, GetStubCalls, GiveBackCalls, BeginCalls
<1>5. CallTypes'
  <2>1. CASE GetStub(c)
    <3>1. using' \in [Callers -> StubIds \cup {0}]
      BY <1>1, <2>1, GetStubCalls
    <3>2. QED
      BY <1>1, <2>1, <3>1 DEF GetStub, CallTypes
  <2>2. CASE GiveBack(c)
    BY <1>1, <2>2 DEF GiveBack, CallTypes
  <2>3. CASE Begin(c)
    <3>1. using[c] \in StubIds
      BY <1>1, <2>3 DEF Begin, CallInv, CallerInv
    <3>2. QED
      BY <1>1, <2>3, <3>1 DEF Begin, Goto, CallTypes
  <2>4. QED
    BY <2>1, <2>2, <2>3
<1>6. ConnTypes'
  BY <1>1, <1>3 DEF ConnTypes, connVars
<1>7. \A d \in Callers : where[d] = "read" =>
        where'[d] = "read" /\ using'[d] = using[d] /\ req'[d] = req[d]
  BY <1>1 DEF GetStub, GiveBack, Begin, Goto, CallTypes
<1>8. OrderInv' /\ CleanInv'
  BY <1>1, <1>2, <1>3, <1>7, Nowhere DEF connVars
<1>9. QED
  BY <1>1, <1>3, <1>4, <1>5, <1>6, <1>8, Together

\* Dialling changes no response.
LEMMA ConnectStep ==
  ASSUME StubIInv, IInv', ~panicked, NEW c \in Callers, Connect(c)
  PROVE  StubIInv'
<1>1. /\ IInv /\ StubTypeOK /\ CallTypes /\ ConnTypes /\ CallInv /\ OrderInv /\ CleanInv
  BY Parts DEF StubIInv
<1>2. CallsGoOn
  BY <1>1 DEF Connect, Goto, CallsGoOn, CallTypes, Sending
<1>3. CallInv' /\ CallTypes' /\ SentKept /\ GotKept
  BY <1>1, <1>2, GoOnCalls, GoOnSent
<1>4. UNCHANGED <<buf, wire, owed, panicked>> /\ conn' \in [StubIds -> BOOLEAN]
  BY <1>1 DEF Connect, ConnTypes
<1>5. ConnTypes'
  BY <1>1, <1>4 DEF ConnTypes
<1>6. \A d \in Callers : where[d] = "read" =>
        where'[d] = "read" /\ using'[d] = using[d] /\ req'[d] = req[d]
  BY <1>2 DEF CallsGoOn, Sending
<1>7. OrderInv' /\ CleanInv'
  BY <1>1, <1>3, <1>4, <1>6, Nowhere
<1>8. QED
  BY <1>3, <1>4, <1>5, <1>7, Together

\* A request that is written is the last of those the stub knows of.
LEMMA WriteStep ==
  ASSUME StubIInv, IInv', ~panicked, NEW c \in Callers, Write(c)
  PROVE  StubIInv'
<1>1. /\ IInv /\ StubTypeOK /\ CallTypes /\ ConnTypes /\ CallInv /\ OrderInv /\ CleanInv
  BY Parts DEF StubIInv
<1>2. CallsGoOn
  BY <1>1 DEF Write, Goto, CallsGoOn, CallTypes, Sending
<1>3. CallInv' /\ CallTypes' /\ SentKept /\ GotKept
  BY <1>1, <1>2, GoOnCalls, GoOnSent
<1>4. PICK u \in StubIds, q \in Requests :
        /\ u = using[c]
        /\ q = req[c]
        /\ by[q] = u
        /\ owed' = [owed EXCEPT ![u] = Append(@, q)]
  BY <1>1 DEF Write, CallInv, CallerInv, Sending
<1>5. /\ where[c] \in {"write", "rewrite"}
      /\ where' = [where EXCEPT ![c] = "read"]
      /\ UNCHANGED <<using, req, by, result, conn, buf, wire, panicked>>
  BY DEF Write, Goto
<1>6. /\ owed'[u] = Append(owed[u], q)
      /\ \A s \in StubIds \ {u} : owed'[s] = owed[s]
      /\ owed[u] \in Seq(Requests)
      /\ owed' \in [StubIds -> Seq(Requests)]
  BY <1>1, <1>4 DEF ConnTypes
<1>7. ConnTypes'
  BY <1>1, <1>5, <1>6 DEF ConnTypes
<1>8. Sent(q, u)'
  <2>1. ASSUME NEW d \in Callers, req[d] = q, where[d] \in Sending PROVE d = c
    BY <1>1, <1>4, <1>5, <2>1, OneCall DEF CallInv, Sending
  <2>2. ASSUME NEW d \in Callers, req[d] = q PROVE where'[d] \notin Sending
    BY <1>1, <1>5, <2>1, <2>2 DEF CallTypes, Sending
  <2>3. QED
    BY <1>4, <1>5, <2>2 DEF Sent
<1>9. \A p : Sent(p, u) => p < q
  <2>1. SUFFICES ASSUME NEW p \in Requests, Sent(p, u) PROVE p < q
    BY DEF Sent
  <2>2. p <= q
    BY <1>1, <1>4, <1>5, <2>1 DEF Sent, CallInv, RequestInv, Sending
  <2>3. p # q
    BY <1>4, <1>5, <2>1 DEF Sent, Sending
  <2>4. QED
    BY <2>2, <2>3, StubInts
<1>10. OrderOn(u)'
  <2>1. /\ \A p \in Got(u) \cup Heads(buf[u]) \cup Heads(wire[u]) \cup Elems(owed[u]) : Sent(p, u)
        /\ InLine(Got(u), buf[u], wire[u], owed[u])
    BY <1>1 DEF OrderInv, OrderOn
  <2>2. Below(Got(u) \cup Heads(buf[u]) \cup Heads(wire[u]) \cup Elems(owed[u]), {q})
    BY <1>9, <2>1 DEF Below
  <2>3. /\ Elems(owed'[u]) = Elems(owed[u]) \cup {q}
        /\ InLine(Got(u), buf[u], wire[u], owed'[u])
    <3>1. /\ Elems(Append(owed[u], q)) = Elems(owed[u]) \cup {q}
          /\ InLine(Got(u), buf[u], wire[u], Append(owed[u], q))
      BY <1>6, <2>1, <2>2, LineWrite
    <3>2. QED
      BY <1>6, <3>1
  <2>4. Got(u)' = Got(u) /\ buf'[u] = buf[u] /\ wire'[u] = wire[u]
    BY <1>3, <1>5 DEF GotKept
  <2>5. ASSUME NEW p \in Got(u) \cup Heads(buf[u]) \cup Heads(wire[u]) \cup Elems(owed'[u])
        PROVE  Sent(p, u)'
    <3>1. CASE p = q
      BY <1>8, <3>1
    <3>2. CASE p # q
      <4>1. Sent(p, u)
        BY <2>1, <2>3, <3>2
      <4>2. p \in Requests
        BY <4>1 DEF Sent
      <4>3. QED
        BY <1>3, <4>1, <4>2 DEF SentKept
    <3>3. QED
      BY <3>1, <3>2
  <2>6. QED
    BY <2>3, <2>4, <2>5 DEF OrderOn
<1>11. ASSUME NoLengthWraps PROVE CleanOn(u)'
  <2>1. FailedOn(u) \/ Quiet(u)
    BY <1>1, <1>4, <1>5, <1>11, CleanOwn DEF CleanInv, CallInv
  <2>2. CASE FailedOn(u)
    BY <1>3, <2>2 DEF SentKept, CleanOn
  <2>3. CASE Quiet(u)
    <3>1. owed'[u] = <<q>> /\ buf'[u] = <<>> /\ wire'[u] = <<>>
      BY <1>5, <1>6, <2>3 DEF Quiet
    <3>2. where'[c] = "read" /\ using'[c] = u /\ req'[c] = q
      BY <1>1, <1>4, <1>5 DEF CallTypes
    <3>3. Awaiting(u, q)'
      BY <1>4, <3>1 DEF Awaiting
    <3>4. QED
      BY <3>2, <3>3 DEF CleanOn, Awaiting
  <2>4. QED
    BY <2>1, <2>2, <2>3
<1>12. \A d \in Callers : where[d] = "read" /\ using[d] # u =>
         where'[d] = "read" /\ using'[d] = using[d] /\ req'[d] = req[d]
  BY <1>2 DEF CallsGoOn, Sending
<1>13. OrderInv' /\ CleanInv'
  BY <1>1, <1>3, <1>5, <1>6, <1>10, <1>11, <1>12, Elsewhere DEF GotKept
<1>14. QED
  BY <1>3, <1>5, <1>7, <1>13, Together

\* Close forgets what is under way and what is owed, and the buffer stays.
LEMMA CloseOrder ==
  ASSUME ConnTypes, OrderInv, SentKept, NEW u \in StubIds, Close(u), Got(u)' = Got(u)
  PROVE  /\ UNCHANGED buf
         /\ wire'[u] = <<>> /\ owed'[u] = <<>>
         /\ \A s \in StubIds \ {u} : wire'[s] = wire[s] /\ owed'[s] = owed[s]
         /\ panicked' = panicked => ConnTypes'
         /\ OrderOn(u)'
<1>1. /\ UNCHANGED buf
      /\ wire' = [wire EXCEPT ![u] = <<>>]
      /\ owed' = [owed EXCEPT ![u] = <<>>]
      /\ conn' = [conn EXCEPT ![u] = FALSE]
  BY DEF Close
<1>2. /\ wire'[u] = <<>> /\ owed'[u] = <<>>
      /\ \A s \in StubIds \ {u} : wire'[s] = wire[s] /\ owed'[s] = owed[s]
  BY <1>1 DEF ConnTypes
<1>3. panicked' = panicked => ConnTypes'
  BY <1>1 DEF ConnTypes
<1>4. OrderOn(u)'
  <2>1. /\ \A p \in Got(u) \cup Heads(buf[u]) : Sent(p, u)
        /\ InLine(Got(u), buf[u], wire[u], owed[u])
    BY DEF OrderInv, OrderOn
  <2>2. InLine(Got(u), buf[u], <<>>, <<>>) /\ Heads(<<>>) = {} /\ Elems(<<>>) = {}
    BY <2>1, LineClose
  <2>3. \A p \in Got(u) \cup Heads(buf[u]) : Sent(p, u)'
    BY <2>1 DEF SentKept, Sent
  <2>4. buf'[u] = buf[u]
    BY <1>1
  <2>5. QED
    BY <1>2, <2>2, <2>3, <2>4 DEF OrderOn
<1>5. QED
  BY <1>1, <1>2, <1>3, <1>4

\* The first write fails: what a clean stub held, nothing, is what it holds.
LEMMA WriteFailsStep ==
  ASSUME StubIInv, IInv', ~panicked, NEW c \in Callers, WriteFails(c)
  PROVE  StubIInv'
<1>1. /\ IInv /\ StubTypeOK /\ CallTypes /\ ConnTypes /\ CallInv /\ OrderInv /\ CleanInv
  BY Parts DEF StubIInv
<1>2. CallsGoOn
  BY <1>1 DEF WriteFails, Goto, CallsGoOn, CallTypes, Sending
<1>3. CallInv' /\ CallTypes' /\ SentKept /\ GotKept
  BY <1>1, <1>2, GoOnCalls, GoOnSent
<1>4. PICK u \in StubIds : u = using[c] /\ Close(u)
  BY <1>1 DEF WriteFails, CallInv, CallerInv
<1>5. where[c] = "write" /\ UNCHANGED panicked
  BY DEF WriteFails
<1>6. /\ UNCHANGED buf
      /\ wire'[u] = <<>> /\ owed'[u] = <<>>
      /\ \A s \in StubIds \ {u} : wire'[s] = wire[s] /\ owed'[s] = owed[s]
      /\ ConnTypes'
      /\ OrderOn(u)'
  BY <1>1, <1>3, <1>4, <1>5, CloseOrder DEF GotKept
<1>7. ASSUME NoLengthWraps PROVE CleanOn(u)'
  <2>1. FailedOn(u) \/ Quiet(u)
    BY <1>1, <1>4, <1>5, <1>7, CleanOwn DEF CleanInv, CallInv
  <2>2. QED
    BY <1>3, <1>6, <2>1 DEF SentKept, CleanOn, Quiet
<1>8. \A d \in Callers : where[d] = "read" /\ using[d] # u =>
        where'[d] = "read" /\ using'[d] = using[d] /\ req'[d] = req[d]
  BY <1>2 DEF CallsGoOn, Sending
<1>9. OrderInv' /\ CleanInv'
  BY <1>1, <1>3, <1>6, <1>7, <1>8, Elsewhere DEF GotKept
<1>10. QED
  BY <1>3, <1>5, <1>6, <1>9, Together

\* A call that fails marks its stub.
LEMMA FailedCall ==
  ASSUME IInv, StubTypeOK, CallTypes, CallInv, NEW c \in Callers, CallEnds(c, Failed)
  PROVE  /\ CallInv' /\ CallTypes' /\ SentKept /\ GotKept
         /\ \A u \in StubIds : u = using[c] => FailedOn(u)'
         /\ \A d \in Callers : where[d] = "read" /\ using[d] # using[c] =>
              where'[d] = "read" /\ using'[d] = using[d] /\ req'[d] = req[d]
<1>1. PICK u \in StubIds : u = using[c]
  BY DEF CallEnds, CallInv, CallerInv, Sending
<1>2. Failed \notin Requests
  BY DEF Failed, Requests
<1>3. CallInv'
  BY <1>2, EndCalls
<1>4. /\ CallTypes' /\ SentKept
      /\ \A s \in StubIds \ {u} : Got(s)' = Got(s)
      /\ Got(u)' = Got(u)
      /\ FailedOn(u)'
  BY <1>1, <1>2, EndSent
<1>5. GotKept
  BY <1>4 DEF GotKept
<1>6. \A d \in Callers : where[d] = "read" /\ using[d] # using[c] =>
        where'[d] = "read" /\ using'[d] = using[d] /\ req'[d] = req[d]
  BY DEF CallEnds, CallTypes
<1>7. \A w \in StubIds : w = u => FailedOn(w)'
  BY <1>4
<1>8. QED
  BY <1>1, <1>3, <1>4, <1>5, <1>6, <1>7

LEMMA WriteGivesUpStep ==
  ASSUME StubIInv, IInv', ~panicked, NEW c \in Callers, WriteGivesUp(c)
  PROVE  StubIInv'
<1>1. /\ IInv /\ StubTypeOK /\ CallTypes /\ ConnTypes /\ CallInv /\ OrderInv /\ CleanInv
  BY Parts DEF StubIInv
<1>2. CallEnds(c, Failed)
  BY DEF WriteGivesUp, Finish, Goto, CallEnds, Sending, Results, Failed, NoResult
<1>3. PICK u \in StubIds : u = using[c] /\ Close(u)
  BY <1>1 DEF WriteGivesUp, CallInv, CallerInv
<1>4. /\ CallInv' /\ CallTypes' /\ SentKept /\ GotKept
      /\ FailedOn(u)'
      /\ \A d \in Callers : where[d] = "read" /\ using[d] # u =>
           where'[d] = "read" /\ using'[d] = using[d] /\ req'[d] = req[d]
  BY <1>1, <1>2, <1>3, FailedCall
<1>5. UNCHANGED panicked
  BY DEF WriteGivesUp
<1>6. /\ UNCHANGED buf
      /\ \A s \in StubIds \ {u} : wire'[s] = wire[s] /\ owed'[s] = owed[s]
      /\ ConnTypes'
      /\ OrderOn(u)'
  BY <1>1, <1>3, <1>4, <1>5, CloseOrder DEF GotKept
<1>7. CleanOn(u)'
  BY <1>4 DEF CleanOn
<1>8. OrderInv' /\ CleanInv'
  BY <1>1, <1>4, <1>6, <1>7, Elsewhere DEF GotKept
<1>9. QED
  BY <1>4, <1>5, <1>6, <1>8, Together

\* No connection, or no answer in time: the connection is left as it is.
LEMMA FailsStep ==
  ASSUME StubIInv, IInv', ~panicked, NEW c \in Callers, ConnectFails(c) \/ ReadFails(c)
  PROVE  StubIInv'
<1>1. /\ IInv /\ StubTypeOK /\ CallTypes /\ ConnTypes /\ CallInv /\ OrderInv /\ CleanInv
  BY Parts DEF StubIInv
<1>2. CallEnds(c, Failed)
  BY DEF ConnectFails, ReadFails, Finish, Goto, CallEnds, Sending, Results, Failed, NoResult
<1>3. UNCHANGED connVars /\ UNCHANGED panicked
  BY DEF ConnectFails, ReadFails
<1>4. PICK u \in StubIds : u = using[c]
  BY <1>1, <1>2 DEF CallEnds, CallInv, CallerInv, Sending
<1>5. /\ CallInv' /\ CallTypes' /\ SentKept /\ GotKept
      /\ FailedOn(u)'
      /\ \A d \in Callers : where[d] = "read" /\ using[d] # u =>
           where'[d] = "read" /\ using'[d] = using[d] /\ req'[d] = req[d]
  BY <1>1, <1>2, <1>4, FailedCall
<1>6. ConnTypes'
  BY <1>1, <1>3 DEF ConnTypes, connVars
<1>7. OrderOn(u)'
  BY <1>1, <1>3, <1>5, OrderKept DEF OrderInv, GotKept, connVars
<1>8. CleanOn(u)'
  BY <1>5 DEF CleanOn
<1>9. OrderInv' /\ CleanInv'
  BY <1>1, <1>3, <1>5, <1>7, <1>8, Elsewhere DEF GotKept, connVars
<1>10. QED
  BY <1>3, <1>5, <1>6, <1>9, Together

\* The first request the server has becomes the last response under way.
LEMMA ServeStep ==
  ASSUME StubIInv, IInv', ~panicked, NEW u \in StubIds, Serve(u)
  PROVE  StubIInv'
<1>1. /\ IInv /\ StubTypeOK /\ CallTypes /\ ConnTypes /\ CallInv /\ OrderInv /\ CleanInv
  BY Parts DEF StubIInv
<1>2. UNCHANGED <<poolVars, where, using, req, by, result, conn, buf, panicked>>
  BY DEF Serve, callVars
<1>3. CallsGoOn
  BY <1>1, <1>2 DEF CallsGoOn, CallTypes
<1>4. CallInv' /\ CallTypes' /\ SentKept /\ GotKept
  BY <1>1, <1>3, GoOnCalls, GoOnSent
<1>5. PICK n \in BodyLens, v \in BodyVals :
        wire' = [wire EXCEPT ![u] = @ \o Frame(Head(owed[u]), n, v)]
  BY DEF Serve
<1> DEFINE p == Head(owed[u])
           F == Frame(p, n, v)
<1>6. /\ owed[u] # <<>> /\ owed[u] \in Seq(Requests) /\ wire[u] \in Seq(Cells)
      /\ owed' = [owed EXCEPT ![u] = Tail(@)]
  BY <1>1 DEF Serve, ConnTypes
<1>7. /\ wire'[u] = wire[u] \o F
      /\ owed'[u] = Tail(owed[u])
      /\ \A s \in StubIds \ {u} : wire'[s] = wire[s] /\ owed'[s] = owed[s]
  BY <1>1, <1>5, <1>6 DEF ConnTypes
<1>8. /\ \A x \in Got(u) \cup Heads(buf[u]) \cup Heads(wire[u]) \cup Elems(owed[u]) : Sent(x, u)
      /\ InLine(Got(u), buf[u], wire[u], owed[u])
  BY <1>1 DEF OrderInv, OrderOn
<1>9. /\ wire[u] \o F \in Seq(Cells)
      /\ Heads(wire[u] \o F) = Heads(wire[u]) \cup {p}
      /\ p \in Elems(owed[u])
      /\ Elems(Tail(owed[u])) \subseteq Elems(owed[u])
      /\ InLine(Got(u), buf[u], wire[u] \o F, Tail(owed[u]))
  BY <1>6, <1>8, LineServe
<1>10. ConnTypes'
  <2>1. Tail(owed[u]) \in Seq(Requests)
    BY <1>6
  <2>2. QED
    BY <1>1, <1>2, <1>5, <1>6, <1>9, <2>1 DEF ConnTypes
<1>11. OrderOn(u)'
  <2>1. Got(u)' = Got(u) /\ buf'[u] = buf[u]
    BY <1>2, <1>4 DEF GotKept
  <2>2. ASSUME NEW x \in Got(u) \cup Heads(buf[u]) \cup Heads(wire'[u]) \cup Elems(owed'[u])
        PROVE  Sent(x, u)'
    <3>1. Sent(x, u)
      BY <1>7, <1>8, <1>9
    <3>2. QED
      BY <1>4, <3>1 DEF SentKept, Sent
  <2>3. InLine(Got(u), buf[u], wire'[u], owed'[u])
    BY <1>7, <1>9
  <2>4. QED
    BY <2>1, <2>2, <2>3 DEF OrderOn
<1>12. ASSUME NoLengthWraps PROVE CleanOn(u)'
  <2>1. CASE FailedOn(u)
    BY <1>4, <2>1 DEF SentKept, CleanOn
  <2>2. CASE Quiet(u)
    BY <1>6, <2>2 DEF Quiet
  <2>3. ASSUME NEW c \in Callers, where[c] = "read", using[c] = u, Awaiting(u, req[c])
        PROVE  CleanOn(u)'
    <3>1. PICK q \in Requests : q = req[c]
      BY <1>1, <2>3 DEF CallInv, CallerInv
    <3>2. owed[u] = <<q>> /\ buf[u] = <<>> /\ wire[u] = <<>>
      BY <1>6, <2>3, <3>1 DEF Awaiting
    <3>3. owed'[u] = <<>> /\ buf'[u] = <<>>
      BY <1>2, <1>7, <3>2
    <3>4. wire'[u] = Frame(q, n, v) /\ wire'[u] \in Seq(Cells)
      <4>1. Frame(q, n, v) \in Seq(Cells) /\ p = q
        <5>1. Frame(q, n, v) \in Seq(Cells)
          BY FrameFacts
        <5>2. p = q
          BY <3>2
        <5>3. QED
          BY <5>1, <5>2
      <4>2. <<>> \o Frame(q, n, v) = Frame(q, n, v)
        BY <4>1, ConcatEmptySeq
      <4>3. F = Frame(q, n, v)
        BY <4>1
      <4>4. wire'[u] = <<>> \o Frame(q, n, v)
        BY <1>7, <3>2, <4>3
      <4>5. QED
        BY <4>1, <4>2, <4>4
    <3>5. (buf'[u] \o wire'[u]) = Frame(q, n, v)
      BY <3>3, <3>4, ConcatEmptySeq
    <3>6. Awaiting(u, q)'
      BY <3>3, <3>5 DEF Awaiting
    <3>7. where'[c] = "read" /\ using'[c] = u /\ req'[c] = q
      BY <1>2, <2>3, <3>1
    <3>8. QED
      BY <3>6, <3>7 DEF CleanOn, Awaiting
  <2>4. QED
    BY <1>1, <1>12, <2>1, <2>2, <2>3 DEF CleanInv, CleanOn
<1>13. OrderInv' /\ CleanInv'
  BY <1>1, <1>2, <1>4, <1>7, <1>11, <1>12, Elsewhere DEF GotKept
<1>14. QED
  BY <1>2, <1>4, <1>10, <1>13, Together

\* The length field as its reader sees it, where no length wraps.
LEMMA LengthRead ==
  ASSUME NoLengthWraps, NEW n \in BodyLens
  PROVE  /\ n \in Nat
         /\ n < LenHalf => Int16(n) = n
         /\ n >= LenHalf => Int16(n) < -1
<1> DEFINE m == 2 * LenHalf
<1>1. m \in Nat \ {0} /\ LenHalf \in Nat \ {0} /\ n \in Nat /\ n + 1 < m
  BY ConnsStubAssumption DEF NoLengthWraps, HeadSize
<1>2. ASSUME NEW a \in Nat, a < m PROVE a % m = a
  BY <1>1, <1>2
<1>3. ASSUME NEW a \in Nat, m <= a, a < 2 * m PROVE a % m = a - m
  BY <1>1, <1>3
<1>4. QED
  BY <1>1, <1>2, <1>3 DEF Int16

\* A whole response tells whose it is, and it is at the head of what was read.
LEMMA Unpacked ==
  ASSUME NEW data \in Seq(Cells), data # <<>>, NEW m \in Int, m <= Len(data),
         NEW r \in Unpack(SubSeq(data, 1, m))
  PROVE  /\ r \in Results \ {NoResult}
         /\ r \in Requests => data[1].pos = 1 /\ data[1].req = r
<1> DEFINE packet == SubSeq(data, 1, m)
           whole == {p \in Requests : \E n \in BodyLens, v \in BodyVals : packet = Frame(p, n, v)}
<1>1. r \in whole \/ r \in {Garbage, Failed}
  BY DEF Unpack
<1>2. NoResult \notin Requests /\ Failed \notin Requests /\ Garbage \notin Requests
  BY DEF NoResult, Failed, Garbage, Requests
<1>3. ASSUME r \in Requests PROVE data[1].pos = 1 /\ data[1].req = r
  <2>1. PICK n \in BodyLens, v \in BodyVals : packet = Frame(r, n, v)
    BY <1>1, <1>2, <1>3
  <2>2. packet[1] = [req |-> r, pos |-> 1, val |-> Int16(n)] /\ Len(packet) = n + 1 /\ n \in Nat
    BY <1>3, <2>1, FrameFacts, ConnsStubAssumption
  <2>3. m \in 1 .. Len(data)
    <3>1. CASE m < 1
      <4>1. Len(packet) = 0
        BY <3>1
      <4>2. QED
        BY <2>2, <4>1
    <3>2. QED
      BY <3>1
  <2>4. packet[1] = data[1]
    BY <2>3
  <2>5. QED
    BY <2>2, <2>4
<1>4. r \in Results \ {NoResult}
  BY <1>1, <1>2 DEF Results, NoResult, Failed, Garbage
<1>5. QED
  BY <1>3, <1>4

LEMMA FirstCell ==
  ASSUME NEW t \in Seq(Cells), NEW u \in Seq(Cells), t # <<>>
  PROVE  (t \o u)[1] = t[1]
<1>1. Len(t) \in Nat \ {0} /\ Len(u) \in Nat
  OBVIOUS
<1>2. QED
  BY <1>1

\* What a clean stub reads is the response it waits for: not yet whole, or whole
\* and nothing behind it, or of a length that comes out negative.
LEMMA CleanPacket ==
  ASSUME NoLengthWraps, NEW q \in Requests, NEW n \in BodyLens, NEW v \in BodyVals,
         NEW data \in Seq(Cells), NEW rest \in Seq(Cells), data # <<>>,
         data \o rest = Frame(q, n, v), HasPacket(data), PacketLen(data) >= 0,
         NEW r \in Unpack(SubSeq(data, 1, PacketLen(data)))
  PROVE  r = q /\ rest = <<>>
<1>1. /\ Frame(q, n, v) \in Seq(Cells)
      /\ Len(Frame(q, n, v)) = n + 1
      /\ Frame(q, n, v)[1] = [req |-> q, pos |-> 1, val |-> Int16(n)]
  BY FrameFacts
<1>2. /\ Len(data) \in Nat /\ Len(data) # 0 /\ Len(rest) \in Nat
      /\ Len(data) + Len(rest) = n + 1
      /\ data[1] = Frame(q, n, v)[1]
  <2>1. Len(data \o rest) = Len(data) + Len(rest) /\ Len(data) \in Nat \ {0} /\ Len(rest) \in Nat
    OBVIOUS
  <2>2. (data \o rest)[1] = data[1]
    BY FirstCell
  <2>3. QED
    BY <1>1, <2>1, <2>2
<1>3. PacketLen(data) = 1 + Int16(n) /\ Len(data) >= PacketLen(data) /\ Int16(n) \in Int
  <2>1. data[1].val = Int16(n)
    BY <1>1, <1>2
  <2>2. Int16(n) \in Int
    BY ConnsStubAssumption DEF Int16
  <2>3. QED
    BY <2>1, <2>2 DEF PacketLen, HasPacket, HeadSize
<1>4. n < LenHalf /\ Int16(n) = n /\ n \in Nat
  BY <1>3, LengthRead, ConnsStubAssumption
<1>5. Len(data) = n + 1 /\ Len(rest) = 0
  BY <1>2, <1>3, <1>4
<1>6. rest = <<>>
  BY <1>5, EmptySeq
<1>7. data = Frame(q, n, v)
  BY <1>6, ConcatEmptySeq
<1>8. SubSeq(data, 1, PacketLen(data)) = Frame(q, n, v)
  <2>1. PacketLen(data) = Len(data)
    BY <1>3, <1>4, <1>5
  <2>2. SubSeq(data, 1, Len(data)) = data
    OBVIOUS
  <2>3. QED
    BY <1>7, <2>1, <2>2
<1>9. q \in {p \in Requests : \E l \in BodyLens, w \in BodyVals :
              SubSeq(data, 1, PacketLen(data)) = Frame(p, l, w)}
  BY <1>8
<1>10. PICK l \in BodyLens, w \in BodyVals : Frame(q, n, v) = Frame(r, l, w) /\ r \in Requests
  BY <1>8, <1>9 DEF Unpack
<1>11. Frame(r, l, w)[1] = [req |-> r, pos |-> 1, val |-> Int16(l)]
  BY <1>10, FrameFacts
<1>12. r = q
  BY <1>1, <1>10, <1>11
<1>13. QED
  BY <1>6, <1>12

\* What a read takes and what it leaves are what there was.
LEMMA ReadJoins ==
  ASSUME NEW t \in Seq(Cells), NEW w \in Seq(Cells), NEW k \in 1 .. Len(w)
  PROVE  (t \o SubSeq(w, 1, k)) \o SubSeq(w, k + 1, Len(w)) = t \o w
<1> DEFINE a == SubSeq(w, 1, k)
           b == SubSeq(w, k + 1, Len(w))
<1>1. /\ a \in Seq(Cells) /\ b \in Seq(Cells)
      /\ Len(w) \in Nat /\ Len(t) \in Nat
      /\ Len(a) = k /\ Len(b) = Len(w) - k
      /\ \A j \in 1 .. k : a[j] = w[j]
      /\ \A j \in 1 .. Len(w) - k : b[j] = w[k + j]
  OBVIOUS
<1> HIDE DEF a, b
<1>2. a \o b = w
  <2>1. /\ a \o b \in Seq(Cells)
        /\ Len(a \o b) = Len(w)
    BY <1>1
  <2>2. ASSUME NEW j \in 1 .. Len(w) PROVE (a \o b)[j] = w[j]
    <3>1. CASE j <= k
      <4>1. j \in 1 .. Len(a) /\ a[j] = w[j]
        BY <1>1, <3>1
      <4>2. QED
        BY <1>1, <4>1
    <3>2. CASE ~(j <= k)
      <4>1. j - k \in 1 .. Len(b) /\ b[j - k] = w[k + (j - k)] /\ k + (j - k) = j
        BY <1>1, <3>2
      <4>2. (a \o b)[Len(a) + (j - k)] = b[j - k]
        BY <1>1, <4>1
      <4>3. QED
        BY <1>1, <4>1, <4>2
    <3>3. QED
      BY <3>1, <3>2
  <2>3. QED
    BY <2>1, <2>2, SeqEqual
<1>3. (t \o a) \o b = t \o (a \o b)
  <2>1. a \in Seq(Cells) /\ b \in Seq(Cells)
    BY <1>1
  <2>2. QED
    BY <2>1
<1>4. QED
  BY <1>2, <1>3 DEF a, b
\* One pass of the loop of waitRes, whatever comes of it.
LEMMA ReadStep ==
  ASSUME StubIInv, IInv', ~panicked, NEW c \in Callers, NEW k \in Nat, Read(c, k)
  PROVE  StubIInv'
<1>1. /\ IInv /\ StubTypeOK /\ CallTypes /\ ConnTypes /\ CallInv /\ OrderInv /\ CleanInv
  BY Parts DEF StubIInv
<1>2. PICK u \in StubIds, q \in Requests :
        u = using[c] /\ q = req[c] /\ by[q] = u /\ where[c] = "read"
  BY <1>1 DEF Read, CallInv, CallerInv
<1> DEFINE data == buf[u] \o SubSeq(wire[u], 1, k)
           rest == SubSeq(wire[u], k + 1, Len(wire[u]))
<1>3. /\ buf[u] \in Seq(Cells) /\ wire[u] \in Seq(Cells) /\ owed[u] \in Seq(Requests)
      /\ k \in 1 .. Len(wire[u])
      /\ wire' = [wire EXCEPT ![u] = rest]
      /\ UNCHANGED <<poolVars, using, req, by, conn, owed>>
  BY <1>1, <1>2 DEF Read, ConnTypes
<1>4. /\ \A x \in Got(u) \cup Heads(buf[u]) \cup Heads(wire[u]) \cup Elems(owed[u]) : Sent(x, u)
      /\ InLine(Got(u), buf[u], wire[u], owed[u])
  BY <1>1 DEF OrderInv, OrderOn
<1>5. /\ data \in Seq(Cells) /\ rest \in Seq(Cells) /\ data # <<>>
      /\ Heads(data) \subseteq Heads(buf[u]) \cup Heads(wire[u])
      /\ Heads(rest) \subseteq Heads(wire[u])
      /\ InLine(Got(u), data, rest, owed[u])
      /\ InLine(Got(u), buf[u], rest, owed[u])
      /\ data[1].pos = 1 =>
           /\ data[1].req \in Heads(data)
           /\ Below(Got(u), {data[1].req})
           /\ InLine(Got(u) \cup {data[1].req}, <<>>, rest, owed[u])
  BY <1>3, <1>4, LineRead
<1>6. /\ wire'[u] = rest
      /\ wire' \in [StubIds -> Seq(Cells)]
      /\ \A s \in StubIds \ {u} : wire'[s] = wire[s] /\ owed'[s] = owed[s]
      /\ owed'[u] = owed[u]
  BY <1>1, <1>3, <1>5 DEF ConnTypes
<1>7. data \o rest = buf[u] \o wire[u]
  BY <1>3, ReadJoins
<1>8. ASSUME NoLengthWraps
      PROVE  \/ FailedOn(u)
             \/ /\ owed[u] = <<>>
                /\ \E n \in BodyLens, v \in BodyVals : data \o rest = Frame(q, n, v)
  <2>1. FailedOn(u) \/ Quiet(u) \/ Awaiting(u, q)
    BY <1>1, <1>2, <1>8, CleanOwn DEF CleanInv, CallInv
  <2>2. wire[u] # <<>>
    BY <1>3
  <2>3. QED
    BY <1>7, <2>1, <2>2 DEF Quiet, Awaiting
<1> HIDE DEF data, rest
\* What does not fit is thrown away, and the call fails.
<1>9. CASE /\ ~Fits(data)
           /\ Finish(c, Failed)
           /\ UNCHANGED <<buf, panicked>>
  <2>1. CallEnds(c, Failed)
    BY <1>2, <1>3, <1>9 DEF Finish, Goto, CallEnds, Results, Failed, NoResult
  <2>2. /\ CallInv' /\ CallTypes' /\ SentKept /\ GotKept
        /\ FailedOn(u)'
        /\ \A d \in Callers : where[d] = "read" /\ using[d] # u =>
             where'[d] = "read" /\ using'[d] = using[d] /\ req'[d] = req[d]
    BY <1>1, <1>2, <2>1, FailedCall
  <2>3. ConnTypes'
    BY <1>1, <1>3, <1>6, <1>9 DEF ConnTypes
  <2>4. Got(u)' = Got(u) /\ buf'[u] = buf[u]
    BY <1>9, <2>2 DEF GotKept
  <2>5. ASSUME NEW x \in Got(u) \cup Heads(buf[u]) \cup Heads(rest) \cup Elems(owed[u])
        PROVE  Sent(x, u)'
    BY <1>4, <1>5, <2>2 DEF SentKept, Sent
  <2>6. OrderOn(u)'
    BY <1>5, <1>6, <2>4, <2>5 DEF OrderOn
  <2>7. CleanOn(u)'
    BY <2>2 DEF CleanOn
  <2>8. OrderInv' /\ CleanInv'
    BY <1>1, <1>6, <1>9, <2>2, <2>6, <2>7, Elsewhere DEF GotKept
  <2>9. QED
    BY <1>9, <2>2, <2>3, <2>8, Together
\* Nothing is taken yet, or make is called with a negative length.
<1>10. CASE /\ Fits(data)
            /\ buf' = [buf EXCEPT ![u] = data]
            /\ UNCHANGED <<where, result>>
            /\ \/ UNCHANGED panicked
               \/ panicked' = TRUE /\ PacketLen(data) < 0
  <2>1. CallsGoOn
    BY <1>1, <1>3, <1>10 DEF CallsGoOn, CallTypes
  <2>2. CallInv' /\ CallTypes' /\ SentKept /\ GotKept
    BY <1>1, <2>1, GoOnCalls, GoOnSent
  <2>3. /\ buf'[u] = data
        /\ \A s \in StubIds \ {u} : buf'[s] = buf[s]
        /\ buf' \in [StubIds -> Seq(Cells)]
    BY <1>1, <1>5, <1>10 DEF ConnTypes
  <2>4. ConnTypes'
    <3>1. \A s \in StubIds : Len(buf'[s]) <= RecvCap
      BY <1>1, <1>10, <2>3 DEF ConnTypes, Fits
    <3>2. QED
      BY <1>1, <1>3, <1>6, <1>10, <2>3, <3>1 DEF ConnTypes
  <2>5. ASSUME NEW x \in Got(u) \cup Heads(data) \cup Heads(rest) \cup Elems(owed[u])
        PROVE  Sent(x, u)'
    BY <1>4, <1>5, <2>2 DEF SentKept, Sent
  <2>6. OrderOn(u)'
    <3>1. Got(u)' = Got(u)
      BY <2>2 DEF GotKept
    <3>2. QED
      BY <1>5, <1>6, <2>3, <2>5, <3>1 DEF OrderOn
  <2>7. where'[c] = "read" /\ using'[c] = u /\ req'[c] = q
    BY <1>2, <1>3, <1>10
  <2>8. ASSUME NoLengthWraps PROVE CleanOn(u)'
    <3>1. CASE FailedOn(u)
      BY <2>2, <3>1 DEF SentKept, CleanOn
    <3>2. CASE /\ owed[u] = <<>>
               /\ \E n \in BodyLens, v \in BodyVals : data \o rest = Frame(q, n, v)
      <4>1. Awaiting(u, q)'
        BY <1>6, <2>3, <3>2 DEF Awaiting
      <4>2. QED
        BY <2>7, <4>1 DEF CleanOn, Awaiting
    <3>3. QED
      BY <1>8, <2>8, <3>1, <3>2
  <2>9. \A d \in Callers : where[d] = "read" /\ using[d] # u =>
          where'[d] = "read" /\ using'[d] = using[d] /\ req'[d] = req[d]
    BY <1>3, <1>10
  <2>10. OrderInv' /\ CleanInv'
    BY <1>1, <1>6, <2>2, <2>3, <2>6, <2>8, <2>9, Elsewhere DEF GotKept
  <2>11. ~panicked' \/ PanicInv'
    <3>1. CASE panicked' = TRUE /\ PacketLen(data) < 0
      <4>1. buf'[using'[c]] = data
        BY <2>3, <2>7
      <4>2. where'[c] = "read" /\ buf'[using'[c]] # <<>> /\ PacketLen(buf'[using'[c]]) < 0
        BY <1>5, <2>7, <3>1, <4>1
      <4>3. QED
        BY <4>2 DEF PanicInv, PacketLen
    <3>2. QED
      BY <1>10, <3>1
  <2>12. QED
    BY <2>2, <2>4, <2>10, <2>11, Together
\* A packet is taken, and all behind it thrown away.
<1>11. CASE /\ HasPacket(data)
            /\ PacketLen(data) >= 0
            /\ buf' = [buf EXCEPT ![u] = Rest(data)]
            /\ \E r \in Unpack(SubSeq(data, 1, PacketLen(data))) : Finish(c, r)
            /\ UNCHANGED panicked
  <2>1. PICK r \in Unpack(SubSeq(data, 1, PacketLen(data))) : Finish(c, r)
    BY <1>11
  <2>2. PacketLen(data) \in Int /\ PacketLen(data) <= Len(data)
    <3>1. data[1] \in Cells
      BY <1>5
    <3>2. data[1].val \in Int
      BY <3>1 DEF Cells
    <3>3. QED
      BY <1>5, <1>11, <3>2 DEF PacketLen, HasPacket, HeadSize
  <2>3. /\ r \in Results \ {NoResult}
        /\ r \in Requests => data[1].pos = 1 /\ data[1].req = r
    BY <1>5, <2>2, Unpacked
  <2>4. CallEnds(c, r)
    BY <1>2, <1>3, <2>1, <2>3 DEF Finish, Goto, CallEnds
  <2>5. r \in Requests => /\ Sent(r, u) /\ Below(Got(u), {r})
                          /\ InLine(Got(u) \cup {r}, <<>>, rest, owed[u])
    BY <1>4, <1>5, <2>3
  <2>6. ASSUME NoLengthWraps PROVE FailedOn(u) \/ (r = q /\ rest = <<>> /\ owed[u] = <<>>)
    <3>1. ASSUME NEW n \in BodyLens, NEW v \in BodyVals, data \o rest = Frame(q, n, v)
          PROVE  r = q /\ rest = <<>>
      <4>1. data \in Seq(Cells) /\ rest \in Seq(Cells) /\ data # <<>>
        BY <1>5
      <4>2. HasPacket(data) /\ PacketLen(data) >= 0
        BY <1>11
      <4>3. QED
        BY <2>6, <3>1, <4>1, <4>2, CleanPacket
    <3>2. QED
      BY <1>8, <2>6, <3>1
  <2>7. CallInv'
    <3>1. r \in Requests => by[r] = using[c] /\ Below(Got(using[c]), {r})
      BY <1>2, <2>5 DEF Sent
    <3>2. NoLengthWraps /\ r \notin {Failed, req[c]} => FailedOn(using[c])
      BY <1>2, <2>6
    <3>3. QED
      BY <1>1, <2>4, <3>1, <3>2, EndCalls
  <2>8. /\ CallTypes' /\ SentKept
        /\ \A s \in StubIds \ {u} : Got(s)' = Got(s)
        /\ Got(u)' = IF r \in Requests THEN Got(u) \cup {r} ELSE Got(u)
    BY <1>1, <1>2, <2>4, EndSent
  <2>9. /\ buf'[u] = <<>>
        /\ \A s \in StubIds \ {u} : buf'[s] = buf[s]
        /\ buf' \in [StubIds -> Seq(Cells)]
    BY <1>1, <1>11 DEF ConnTypes, Rest
  <2>10. ConnTypes'
    <3>1. \A s \in StubIds : Len(buf'[s]) <= RecvCap
      <4>1. Len(<<>>) = 0 /\ RecvCap >= 0
        BY ConnsStubAssumption
      <4>2. Len(buf'[u]) <= RecvCap
        BY <2>9, <4>1
      <4>3. QED
        BY <1>1, <2>9, <4>2 DEF ConnTypes
    <3>2. QED
      BY <1>1, <1>3, <1>6, <1>11, <2>9, <3>1 DEF ConnTypes
  <2>11. Heads(<<>>) = {}
    BY DEF Heads
  <2>12. InLine(IF r \in Requests THEN Got(u) \cup {r} ELSE Got(u), <<>>, rest, owed[u])
    <3>1. InLine(Got(u), <<>>, rest, owed[u])
      BY <1>5, <2>11 DEF InLine, Below
    <3>2. QED
      BY <2>5, <3>1
  <2>13. ASSUME NEW x \in (IF r \in Requests THEN Got(u) \cup {r} ELSE Got(u))
                            \cup Heads(<<>>) \cup Heads(rest) \cup Elems(owed[u])
         PROVE  Sent(x, u)'
    <3>1. Sent(x, u)
      BY <1>4, <1>5, <2>5, <2>11
    <3>2. QED
      BY <2>8, <3>1 DEF SentKept, Sent
  <2>14. OrderOn(u)'
    BY <1>6, <2>8, <2>9, <2>12, <2>13 DEF OrderOn
  <2>15. ASSUME NoLengthWraps PROVE CleanOn(u)'
    BY <1>6, <2>6, <2>8, <2>9, <2>15 DEF SentKept, CleanOn, Quiet
  <2>16. \A d \in Callers : where[d] = "read" /\ using[d] # u =>
           where'[d] = "read" /\ using'[d] = using[d] /\ req'[d] = req[d]
    BY <1>1, <1>2, <1>3, <2>4 DEF CallEnds, CallTypes
  <2>17. OrderInv' /\ CleanInv'
    BY <1>1, <1>6, <2>8, <2>9, <2>14, <2>15, <2>16, Elsewhere
  <2>18. QED
    BY <1>11, <2>7, <2>8, <2>10, <2>17, Together
<1>12. QED
  BY <1>2, <1>9, <1>10, <1>11 DEF Read, data

\* Before the first call every stub is silent.
LEMMA InitStub == StubInit => StubIInv
<1> SUFFICES ASSUME StubInit PROVE StubIInv
  OBVIOUS
<1>1. IInv
  BY InitIInv DEF StubInit
<1>2. CallTypes
  BY DEF StubInit, CallTypes, Results
<1>3. ConnTypes
  <2>1. Len(<<>>) = 0 /\ RecvCap >= 0
    BY ConnsStubAssumption
  <2>2. \A s \in StubIds : Len(buf[s]) <= RecvCap
    BY <2>1 DEF StubInit
  <2>3. <<>> \in Seq(Cells) /\ <<>> \in Seq(Requests)
    OBVIOUS
  <2>4. QED
    BY <2>2, <2>3 DEF StubInit, ConnTypes
<1>4. NoResult \notin Requests /\ Heads(<<>>) = {} /\ Elems(<<>>) = {}
  BY DEF NoResult, Requests, Heads, Elems
<1>5. CallInv
  <2>1. CallerInv
    BY DEF StubInit, Init, CallerInv, Sending
  <2>2. RequestInv
    BY DEF StubInit, RequestInv, Sending
  <2>3. InOrder /\ OnlyFailuresDesync
    BY <1>4 DEF StubInit, InOrder, OnlyFailuresDesync
  <2>4. QED
    BY <2>1, <2>2, <2>3 DEF CallInv
<1>6. OrderInv
  <2> SUFFICES ASSUME NEW s \in StubIds PROVE OrderOn(s)
    BY DEF OrderInv
  <2>1. buf[s] = <<>> /\ wire[s] = <<>> /\ owed[s] = <<>>
    BY DEF StubInit
  <2>2. Got(s) = {}
    BY <1>4 DEF StubInit, Got
  <2>3. InLine({}, <<>>, <<>>, <<>>)
    BY <1>4 DEF InLine, Below, HeadsInStep
  <2>4. QED
    BY <1>4, <2>1, <2>2, <2>3 DEF OrderOn
<1>7. CleanInv
  BY DEF StubInit, CleanInv, CleanOn, Quiet
<1>8. PanicInv
  BY DEF StubInit, PanicInv
<1>9. QED
  BY <1>1, <1>2, <1>3, <1>5, <1>6, <1>7, <1>8, Parts

LEMMA StepStub == StubIInv /\ [StubNext]_stubVars => StubIInv'
<1> SUFFICES ASSUME StubIInv, [StubNext]_stubVars PROVE StubIInv'
  OBVIOUS
<1>1. IInv'
  BY PoolStep, StepIInv DEF StubIInv
<1>2. CASE UNCHANGED stubVars
  <2>1. IInv /\ CallTypes /\ ConnTypes /\ CallInv /\ OrderInv /\ CleanInv /\ PanicInv
    BY Parts
  <2>2. UNCHANGED <<where, using, req, by, result, conn, buf, owed, wire, panicked, poolVars>>
    BY <1>2 DEF stubVars, callVars, connVars
  <2>3. CallsGoOn
    BY <2>1, <2>2 DEF CallsGoOn, CallTypes
  <2>4. StubTypeOK
    BY DEF StubIInv
  <2>5. CallInv' /\ CallTypes' /\ SentKept /\ GotKept
    BY <2>1, <2>3, <2>4, GoOnCalls, GoOnSent
  <2>6. ConnTypes'
    BY <2>1, <2>2 DEF ConnTypes
  <2>7. OrderInv' /\ CleanInv'
    BY <2>1, <2>2, <2>5, Nowhere
  <2>8. PanicInv'
    BY <2>1, <2>2 DEF PanicInv, PacketLen
  <2>9. QED
    BY <1>1, <2>5, <2>6, <2>7, <2>8, Together
<1>3. CASE StubNext
  <2>1. ~panicked
    BY <1>3 DEF StubNext
  <2>2. ASSUME NEW c \in Callers, GetStub(c) \/ GiveBack(c) \/ Begin(c)
        PROVE  StubIInv'
    BY <1>1, <2>1, <2>2, BetweenStep
  <2>3. ASSUME NEW c \in Callers, Invoking(c)
        PROVE  StubIInv'
    <3>1. CASE Connect(c)
      BY <1>1, <2>1, <3>1, ConnectStep
    <3>2. CASE ConnectFails(c) \/ ReadFails(c)
      BY <1>1, <2>1, <3>2, FailsStep
    <3>3. CASE Write(c)
      BY <1>1, <2>1, <3>3, WriteStep
    <3>4. CASE WriteFails(c)
      BY <1>1, <2>1, <3>4, WriteFailsStep
    <3>5. CASE WriteGivesUp(c)
      BY <1>1, <2>1, <3>5, WriteGivesUpStep
    <3>6. ASSUME NEW k \in 1 .. RecvCap, Read(c, k) PROVE StubIInv'
      <4>1. k \in Nat
        BY ConnsStubAssumption
      <4>2. QED
        BY <1>1, <2>1, <3>6, <4>1, ReadStep
    <3>7. QED
      BY <2>3, <3>1, <3>2, <3>3, <3>4, <3>5, <3>6 DEF Invoking
  <2>4. ASSUME NEW s \in StubIds, Serve(s)
        PROVE  StubIInv'
    BY <1>1, <2>1, <2>4, ServeStep
  <2>5. QED
    BY <1>3, <2>2, <2>3, <2>4 DEF StubNext
<1>4. QED
  BY <1>2, <1>3

-----------------------------------------------------------------------------
(* The theorems about ConnsStub.                                           *)

\* StubIInv holds in every reachable state.
THEOREM StubInductive == StubSpec => []StubIInv
BY InitStub, StepStub, PTL DEF StubSpec

\* Every variable keeps its type, and recv_buf never holds more than packet_size.
THEOREM StubTypeCorrect == StubSpec => []StubTypeOK
<1>1. StubIInv => StubTypeOK
  BY DEF StubIInv
<1>2. QED
  BY <1>1, StubInductive, PTL

\* Where no length wraps, Invoke returns something else than the response to its
\* own request only after an Invoke has failed on the same stub.
THEOREM DesyncNeedsFailure == StubSpec => []OnlyFailuresDesync
<1>1. StubIInv => OnlyFailuresDesync
  BY DEF StubIInv
<1>2. QED
  BY <1>1, StubInductive, PTL

\* Whatever has failed, a stub delivers each response at most once, to a request
\* made on it, and in the order of the requests.
THEOREM DeliveredInOrder == StubSpec => []InOrder
<1>1. StubIInv => InOrder
  BY DEF StubIInv
<1>2. QED
  BY <1>1, StubInductive, PTL

\* The process dies of a response to the very request, of a length that does not
\* fit the int16, or on a stub that an earlier failure left out of step.
THEOREM PanicHasCause == StubSpec => []PanicNeedsCause
<1>1. ASSUME StubIInv PROVE PanicNeedsCause
  <2> SUFFICES ASSUME NoLengthWraps, panicked
               PROVE  \E c \in Callers :
                        /\ where[c] = "read"
                        /\ \/ FailedBefore(req[c], using[c])
                           \/ \E n \in BodyLens, v \in BodyVals :
                                n >= LenHalf /\ buf[using[c]] # <<>>
                                  /\ buf[using[c]][1] = Frame(req[c], n, v)[1]
    BY DEF PanicNeedsCause
  <2>1. IInv /\ ConnTypes /\ CallInv /\ CleanInv /\ PanicInv
    BY <1>1, Parts
  <2>2. PICK c \in Callers : /\ where[c] = "read"
                             /\ buf[using[c]] # <<>>
                             /\ PacketLen(buf[using[c]]) < 0
    BY <2>1 DEF PanicInv
  <2>3. PICK u \in StubIds, q \in Requests :
          u = using[c] /\ q = req[c] /\ by[q] = u /\ result[q] = NoResult
    BY <2>1, <2>2 DEF CallInv, CallerInv
  <2>4. FailedOn(u) \/ Awaiting(u, q)
    BY <2>1, <2>2, <2>3, CleanOwn DEF CleanInv, CallInv, Quiet
  <2>5. CASE FailedOn(u)
    <3>1. PICK p \in Requests : by[p] = u /\ result[p] = Failed
      BY <2>5 DEF FailedOn
    <3>2. p <= q /\ p # q
      BY <2>1, <2>2, <2>3, <3>1 DEF CallInv, RequestInv, Failed, NoResult
    <3>3. FailedBefore(q, u)
      BY <3>1, <3>2, StubInts DEF FailedBefore
    <3>4. QED
      BY <2>2, <2>3, <3>3
  <2>6. CASE Awaiting(u, q)
    <3>1. PICK n \in BodyLens, v \in BodyVals : buf[u] \o wire[u] = Frame(q, n, v)
      BY <2>2, <2>3, <2>6 DEF Awaiting
    <3>2. buf[u] \in Seq(Cells) /\ wire[u] \in Seq(Cells) /\ buf[u] # <<>>
      BY <2>1, <2>2, <2>3 DEF ConnTypes
    <3>3. buf[u][1] = Frame(q, n, v)[1]
      <4>1. (buf[u] \o wire[u])[1] = buf[u][1]
        BY <3>2, FirstCell
      <4>2. QED
        BY <3>1, <4>1
    <3>4. Frame(q, n, v)[1].val = Int16(n) /\ Int16(n) \in Int
      <4>1. Frame(q, n, v)[1] = [req |-> q, pos |-> 1, val |-> Int16(n)]
        BY FrameFacts
      <4>2. n \in Nat /\ LenHalf \in Nat \ {0}
        BY ConnsStubAssumption
      <4>3. Int16(n) \in Int
        BY <4>2 DEF Int16
      <4>4. QED
        BY <4>1, <4>3
    <3>5. 1 + Int16(n) < 0
      BY <2>2, <2>3, <3>3, <3>4 DEF PacketLen, HeadSize
    <3>6. n >= LenHalf
      BY <3>4, <3>5, LengthRead, ConnsStubAssumption
    <3>7. QED
      BY <2>2, <2>3, <3>3, <3>6
  <2>7. QED
    BY <2>4, <2>5, <2>6
<1>2. QED
  BY <1>1, StubInductive, PTL

\* Of the stubs too, no two callers ever use one, and the pool counts them, makes
\* no more than it may, and refuses a caller only when all are lent.
THEOREM StubsShareNothing == StubSpec => [](OneHolder /\ Counted /\ Ceiling /\ NilMeansEmpty)
BY StubsUsePool, NoSharing, Accounting, Bounded, Refusal, PTL
=============================================================================
