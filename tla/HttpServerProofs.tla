-------------------------- MODULE HttpServerProofs --------------------------
(***************************************************************************)
(* Theorems about HttpServer, for every set of requests and paths and      *)
(* every size and time limit of the router.                                *)
(***************************************************************************)
EXTENDS HttpServer, EventRouteProofs

\* Seen from the router, ServeHTTP and the handlers make its steps or none.
LEMMA RouterStep == HttpNext => [Next]_vars
<1> SUFFICES ASSUME HttpNext PROVE [Next]_vars
  OBVIOUS
<1>1. ASSUME NEW r \in Requests, Serve(r) PROVE [Next]_vars
  BY <1>1 DEF Serve, NotFound, Submit, SyncFailed, RenderHead, RenderBody, Next, Submitter
<1>2. ASSUME NEW i \in Routes, Worker(i) \/ SetData(i) \/ SetLocation(i)
      PROVE  [Next]_vars
  BY <1>2 DEF SetData, SetLocation, Next
<1>3. QED
  BY <1>1, <1>2 DEF HttpNext, Next

\* The router's invariant survives under ServeHTTP.
THEOREM RouterInductive == HttpSpec => []IInv
<1>1. HttpInit => IInv
  BY InitIInv DEF HttpInit
<1>2. IInv /\ [HttpNext]_allVars => IInv'
  BY RouterStep, StepIInv DEF allVars
<1>3. QED
  BY <1>1, <1>2, PTL DEF HttpSpec

\* ServeHTTP uses the router as Dispatch promises it.
THEOREM ServesDispatch == HttpSpec => ImplementsDispatch
<1>1. HttpInit => Abstract!Init
  BY EventRouteAssumption DEF HttpInit, Init, Abstract!Init, Routes
<1>2. IInv /\ [HttpNext]_allVars => [Abstract!Next]_(Abstract!vars)
  BY RouterStep, Simulation DEF allVars
<1>3. QED
  BY <1>1, <1>2, RouterInductive, PTL DEF HttpSpec, ImplementsDispatch, Abstract!Spec

-----------------------------------------------------------------------------
Replies == [status : {NoStatus, 200, 302, 404, 500}, body : BOOLEAN]

ServeTypes ==
  /\ conn \in [Requests -> {"new", "sync", "rendering", "closed"}]
  /\ url \in [Requests -> Paths]
  /\ calls \in [Requests -> SUBSET Setters]
  /\ resp \in [Requests -> SUBSET Fields]
  /\ wire \in [Requests -> Replies]

\* A router step that is not a call leaves idle requests idle and given answers given.
LEMMA RouterFrame ==
  ASSUME TypeOK, CallerInv,
         \/ \E r \in Requests : Posting(r) \/ Waiting(r)
         \/ \E i \in Routes : Worker(i)
         \/ Tick
         \/ UNCHANGED vars
  PROVE  \A q \in Requests :
           /\ pc'[q] = "idle" <=> pc[q] = "idle"
           /\ answer[q] # "none" => answer'[q] = answer[q]
<1> USE DEF TypeOK, CallerInv
<1>1. ASSUME NEW r \in Requests, Posting(r) \/ Waiting(r)
      PROVE  \A q \in Requests :
               /\ pc'[q] = "idle" <=> pc[q] = "idle"
               /\ answer[q] # "none" => answer'[q] = answer[q]
  BY <1>1 DEF Posting, Waiting, Post, Full, Answered, TimedOut, Return
<1>2. ASSUME NEW i \in Routes, Worker(i)
      PROVE  UNCHANGED <<pc, answer>>
  BY <1>2 DEF Worker, Receive, Shed, StartHandle, FinishHandle, Signal, callerVars
<1>3. CASE Tick \/ UNCHANGED vars
  BY <1>3 DEF Tick, vars, callerVars
<1>4. QED
  BY <1>1, <1>2, <1>3

\* The event a running handler fills has been posted, and its caller has not been
\* told "ok".
LEMMA HandlerFacts ==
  ASSUME IInv, NEW i \in Routes, wpc[i] = "handling"
  PROVE  /\ job[i] \in Requests
         /\ pc[job[i]] # "idle"
         /\ answer[job[i]] \in {"none", "timeout"}
<1>1. TypeOK /\ JobInv
  BY DEF IInv
<1>2. job[i] # NoRequest /\ InRouter(job[i], i)
  BY <1>1 DEF JobInv
<1>3. job[i] \in Requests
  BY <1>1, <1>2 DEF TypeOK
<1>4. QED
  BY <1>2, <1>3 DEF InRouter

\* What WriteHeader and Write change of a response.
LEMMA HeadFacts ==
  ASSUME NEW w \in Replies, NEW code \in {200, 302, 404, 500}, w.status = NoStatus
  PROVE  /\ WriteHeader(w, code) \in Replies
         /\ WriteHeader(w, code).status = code
BY DEF Replies, WriteHeader, NoStatus

LEMMA BodyFacts ==
  ASSUME NEW w \in Replies, NEW b \in BOOLEAN
  PROVE  /\ [w EXCEPT !.body = b] \in Replies
         /\ [w EXCEPT !.body = b].status = w.status
         /\ [w EXCEPT !.body = b].body = b
BY DEF Replies

LEMMA HttpInitInv == HttpInit => ServeTypes /\ ServeInv /\ BodyInv
<1> SUFFICES ASSUME HttpInit PROVE ServeTypes /\ ServeInv /\ BodyInv
  OBVIOUS
<1> DEFINE w == [status |-> NoStatus, body |-> FALSE]
<1>1. w \in Replies /\ w.status = NoStatus
  BY DEF Replies
<1>2. /\ conn = [r \in Requests |-> "new"]
      /\ url \in [Requests -> Paths]
      /\ calls = [r \in Requests |-> {}]
      /\ resp = [r \in Requests |-> {}]
      /\ wire = [r \in Requests |-> w]
      /\ pc = [r \in Requests |-> "idle"]
  BY DEF HttpInit, Init
<1> HIDE DEF w
<1>3. ServeTypes
  BY <1>1, <1>2 DEF ServeTypes
<1>4. ServeInv /\ BodyInv
  BY <1>1, <1>2 DEF ServeInv, BodyInv
<1>5. QED
  BY <1>3, <1>4

LEMMA HttpStepInv ==
  IInv /\ ServeTypes /\ ServeInv /\ BodyInv /\ [HttpNext]_allVars
    => ServeTypes' /\ ServeInv' /\ BodyInv'
<1> SUFFICES ASSUME IInv, ServeTypes, ServeInv, BodyInv, [HttpNext]_allVars
             PROVE  ServeTypes' /\ ServeInv' /\ BodyInv'
  OBVIOUS
<1>0. TypeOK /\ CallerInv
  BY DEF IInv
<1> USE DEF ServeTypes, ServeInv, BodyInv, NoStatus
<1>1. ASSUME NEW r \in Requests, NotFound(r)
      PROVE  ServeTypes' /\ ServeInv' /\ BodyInv'
  <2>1. WriteHeader(wire[r], 404) \in Replies /\ WriteHeader(wire[r], 404).status = 404
    BY <1>1, HeadFacts DEF NotFound
  <2>2. PICK w \in Replies : w = WriteHeader(wire[r], 404) /\ w.status = 404
    BY <2>1
  <2>3. /\ wire' = [wire EXCEPT ![r] = w]
        /\ conn' = [conn EXCEPT ![r] = "closed"]
        /\ UNCHANGED <<pc, answer, url, calls, resp>>
    BY <1>1, <2>2 DEF NotFound, vars
  <2>4. QED
    BY <1>0, <1>1, <2>2, <2>3 DEF NotFound, TypeOK
<1>2. ASSUME NEW r \in Requests, Submit(r)
      PROVE  ServeTypes' /\ ServeInv' /\ BodyInv'
  <2>1. /\ conn[r] = "new"
        /\ url[r] \in FuncMap
        /\ pc' = [pc EXCEPT ![r] = "posting"]
        /\ conn' = [conn EXCEPT ![r] = "sync"]
        /\ UNCHANGED <<answer, url, calls, resp, wire>>
    BY <1>2 DEF Submit, Call
  <2>2. QED
    BY <1>0, <2>1 DEF TypeOK
<1>3. ASSUME NEW r \in Requests, SyncFailed(r)
      PROVE  ServeTypes' /\ ServeInv' /\ BodyInv'
  <2>1. WriteHeader(wire[r], 500) \in Replies /\ WriteHeader(wire[r], 500).status = 500
    BY <1>3, HeadFacts DEF SyncFailed
  <2>2. PICK w \in Replies : w = WriteHeader(wire[r], 500) /\ w.status = 500
    BY <2>1
  <2>3. /\ wire' = [wire EXCEPT ![r] = w]
        /\ conn' = [conn EXCEPT ![r] = "closed"]
        /\ UNCHANGED <<pc, answer, url, calls, resp>>
    BY <1>3, <2>2 DEF SyncFailed, vars
  <2>4. QED
    BY <1>0, <1>3, <2>2, <2>3 DEF SyncFailed, TypeOK
<1>4. ASSUME NEW r \in Requests, RenderHead(r)
      PROVE  ServeTypes' /\ ServeInv' /\ BodyInv'
  <2>1. WriteHeader(wire[r], 200) \in Replies /\ WriteHeader(wire[r], 200).status = 200
    BY <1>4, HeadFacts DEF RenderHead
  <2>2. PICK w \in Replies : w = WriteHeader(wire[r], 200) /\ w.status = 200
    BY <2>1
  <2>3. /\ wire' = [wire EXCEPT ![r] = w]
        /\ conn' = [conn EXCEPT ![r] = "rendering"]
        /\ UNCHANGED <<pc, answer, url, calls, resp>>
    BY <1>4, <2>2 DEF RenderHead, vars
  <2>4. QED
    BY <1>0, <1>4, <2>2, <2>3 DEF RenderHead, TypeOK
<1>5. ASSUME NEW r \in Requests, RenderBody(r)
      PROVE  ServeTypes' /\ ServeInv' /\ BodyInv'
  <2> DEFINE w == [wire[r] EXCEPT !.body = "data" \in resp[r]]
  <2>1. /\ w \in Replies
        /\ w.status = wire[r].status
        /\ w.body = ("data" \in resp[r])
    <3>1. wire[r] \in Replies
      OBVIOUS
    <3>2. CASE "data" \in resp[r]
      <4>1. ("data" \in resp[r]) = TRUE
        BY <3>2
      <4>2. w = [wire[r] EXCEPT !.body = TRUE]
        BY <4>1, Zenon
      <4> HIDE DEF w
      <4>3. w \in Replies /\ w.status = wire[r].status /\ w.body = TRUE
        BY <3>1, <4>2, BodyFacts
      <4>4. QED
        BY <4>1, <4>3, Zenon
    <3>3. CASE "data" \notin resp[r]
      <4>1. ("data" \in resp[r]) = FALSE
        BY <3>3
      <4>2. w = [wire[r] EXCEPT !.body = FALSE]
        BY <4>1, Zenon
      <4> HIDE DEF w
      <4>3. w \in Replies /\ w.status = wire[r].status /\ w.body = FALSE
        BY <3>1, <4>2, BodyFacts
      <4>4. QED
        BY <4>1, <4>3, Zenon
    <3>4. QED
      BY <3>2, <3>3
  <2>2. /\ conn[r] = "rendering"
        /\ wire' = [wire EXCEPT ![r] = w]
        /\ conn' = [conn EXCEPT ![r] = "closed"]
        /\ UNCHANGED <<pc, answer, url, calls, resp>>
    BY <1>5 DEF RenderBody, vars
  <2> HIDE DEF w
  <2>3. ServeTypes'
    BY <2>1, <2>2
  <2>4. ServeInv'
    BY <2>1, <2>2
  <2>5. \A q \in Requests :
          /\ q # r => wire'[q] = wire[q] /\ conn'[q] = conn[q]
          /\ q = r => wire'[q].body = ("data" \in resp[q])
    BY <2>1, <2>2
  <2>6. BodyInv'
    <3>1. ASSUME NEW q \in Requests, conn'[q] = "closed", wire'[q].status = 200
          PROVE  wire'[q].body <=> "data" \in resp[q]
      <4>1. CASE q = r
        BY <2>5, <4>1
      <4>2. CASE q # r
        BY <2>5, <3>1, <4>2
      <4>3. QED
        BY <4>1, <4>2
    <3>2. QED
      BY <2>2, <3>1
  <2>7. QED
    BY <2>3, <2>4, <2>6
<1>6. ASSUME NEW i \in Routes, SetData(i) \/ SetLocation(i)
      PROVE  ServeTypes' /\ ServeInv' /\ BodyInv'
  <2>1. /\ job[i] \in Requests
        /\ pc[job[i]] # "idle"
        /\ answer[job[i]] \in {"none", "timeout"}
    BY <1>6, HandlerFacts DEF SetData, SetLocation
  <2>2. PICK r \in Requests : r = job[i]
    BY <2>1
  <2>3. /\ \/ calls' = [calls EXCEPT ![r] = @ \cup {"SetData"}]
           \/ calls' = [calls EXCEPT ![r] = @ \cup {"SetLocation"}]
        /\ \/ resp' = [resp EXCEPT ![r] = @ \cup {"data"}]
           \/ resp' = resp
        /\ UNCHANGED <<pc, answer, conn, url, wire>>
    BY <1>6, <2>2 DEF SetData, SetLocation, vars
  <2>4. ServeTypes'
    BY <2>3 DEF Setters, Fields
  <2>5. ServeInv'
    BY <2>1, <2>2, <2>3
  <2>6. \A q \in Requests :
          /\ "localtion" \notin resp'[q]
          /\ q # r => resp'[q] = resp[q]
    BY <2>3
  <2>7. ~(conn[r] = "closed" /\ wire[r].status = 200)
    BY <2>1, <2>2
  <2>8. BodyInv'
    BY <2>3, <2>6, <2>7
  <2>9. QED
    BY <2>4, <2>5, <2>8
<1>7. ASSUME UNCHANGED httpVars,
             \A q \in Requests :
               /\ pc'[q] = "idle" <=> pc[q] = "idle"
               /\ answer[q] # "none" => answer'[q] = answer[q]
      PROVE  ServeTypes' /\ ServeInv' /\ BodyInv'
  BY <1>0, <1>7 DEF httpVars, CallerInv, TypeOK
<1>8. QED
  BY <1>0, <1>1, <1>2, <1>3, <1>4, <1>5, <1>6, <1>7, RouterFrame
     DEF HttpNext, Serve, allVars

THEOREM HttpInductive == HttpSpec => [](IInv /\ ServeTypes /\ ServeInv /\ BodyInv)
<1>1. QED
  BY RouterInductive, HttpInitInv, HttpStepInv, PTL DEF HttpSpec

-----------------------------------------------------------------------------
\* Every variable of the server and its router keeps its type.
THEOREM HttpTypeCorrect == HttpSpec => []HttpTypeOK
<1>1. IInv /\ ServeTypes => HttpTypeOK
  BY DEF IInv, ServeTypes, HttpTypeOK, Replies
<1>2. QED
  BY <1>1, HttpInductive, PTL

\* No handler, however late, writes an HttpResponse that ServeHTTP is rendering,
\* and a 200 carries what the finished handler left.
THEOREM RenderingIsSafe == HttpSpec => []NoTornResponse
<1>1. ASSUME IInv, ServeTypes, ServeInv, BodyInv PROVE NoTornResponse
  <2>1. ASSUME NEW r \in Requests, NEW i \in Routes, conn[r] = "rendering",
               wpc[i] = "handling", job[i] = r
        PROVE  FALSE
    BY <1>1, <2>1, HandlerFacts DEF ServeInv
  <2>2. ASSUME NEW r \in Requests, wire[r].status = 200, conn[r] = "closed"
        PROVE  effect[r] = "complete" /\ (wire[r].body <=> "data" \in resp[r])
    <3>1. answer[r] = "ok"
      BY <1>1, <2>2 DEF ServeInv
    <3>2. QED
      BY <1>1, <2>2, <3>1 DEF BodyInv, IInv, EffectInv
  <2>3. QED
    BY <2>1, <2>2 DEF NoTornResponse
<1>2. QED
  BY <1>1, HttpInductive, PTL

\* The status a client gets tells whether its handler ran.
THEOREM StatusIsHonest == HttpSpec => []StatusIsTrue
<1>1. ASSUME IInv, ServeTypes, ServeInv PROVE StatusIsTrue
  <2> SUFFICES ASSUME NEW r \in Requests, conn[r] = "closed"
               PROVE  /\ wire[r].status \in {200, 404, 500}
                      /\ wire[r].status = 404 <=> url[r] \notin FuncMap
                      /\ wire[r].status = 404 =>
                           effect[r] = "none" /\ calls[r] = {} /\ ~Queued(r)
                      /\ wire[r].status = 200 <=> answer[r] = "ok"
    BY DEF StatusIsTrue
  <2>1. CASE url[r] \in FuncMap
    BY <1>1, <2>1 DEF ServeInv
  <2>2. CASE url[r] \notin FuncMap
    <3>1. pc[r] = "idle" /\ calls[r] = {} /\ wire[r].status = 404
      BY <1>1, <2>2 DEF ServeInv
    <3>2. effect[r] = "none" /\ answer[r] = "none"
      BY <1>1, <3>1 DEF IInv, EffectInv, CallerInv
    <3>3. ~Queued(r)
      BY <1>1, <3>1 DEF IInv, QueueInv, Untouched, InRouter, Queued
    <3>4. QED
      BY <2>2, <3>1, <3>2, <3>3
  <2>3. QED
    BY <2>1, <2>2
<1>2. QED
  BY <1>1, HttpInductive, PTL
=============================================================================
