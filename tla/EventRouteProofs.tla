-------------------------- MODULE EventRouteProofs --------------------------
(***************************************************************************)
(* Theorems about EventRoute, for every number of requests and routes,     *)
(* every capacity and every choice of the three time limits.               *)
(***************************************************************************)
EXTENDS EventRoute, TLAPS

\* Posting on a channel that is not full: one more element, at the end.
LEMMA AppendFacts ==
  ASSUME NEW S, NEW s \in Seq(S), NEW e \in S
  PROVE  /\ Append(s, e) \in Seq(S)
         /\ Len(Append(s, e)) = Len(s) + 1
         /\ \A n \in 1 .. Len(s) : Append(s, e)[n] = s[n]
         /\ Append(s, e)[Len(s) + 1] = e
OBVIOUS

\* Receiving from a channel that is not empty: the others move up by one.
LEMMA TailFacts ==
  ASSUME NEW S, NEW s \in Seq(S), s # <<>>
  PROVE  /\ Len(s) \in Nat \ {0}
         /\ Head(s) \in S
         /\ Head(s) = s[1]
         /\ Tail(s) \in Seq(S)
         /\ Len(Tail(s)) = Len(s) - 1
         /\ \A n \in 1 .. Len(Tail(s)) : Tail(s)[n] = s[n + 1]
OBVIOUS

\* A time stamp is sent to one of the routes.
LEMMA RouteOfStamp ==
  ASSUME NEW s \in Stamps
  PROVE  s % RouteNums \in Routes
BY EventRouteAssumption DEF Routes

-----------------------------------------------------------------------------
\* What CreateEventRouteMgr builds is well typed.
LEMMA TypeInit == Init => TypeOK
BY EventRouteAssumption DEF Init, TypeOK, Routes, Alarms

\* Every step of a submitter, a worker or the clock keeps the types.
LEMMA TypeStep == TypeOK /\ [Next]_vars => TypeOK'
<1> SUFFICES ASSUME TypeOK, [Next]_vars PROVE TypeOK'
  OBVIOUS
<1> USE EventRouteAssumption DEF TypeOK, Alarms
<1>1. ASSUME NEW r \in Requests, Call(r) PROVE TypeOK'
  BY <1>1, RouteOfStamp DEF Call, SetAlarm, workerVars
<1>2. ASSUME NEW r \in Requests, Post(r) PROVE TypeOK'
  BY <1>2, AppendFacts DEF Post, SetAlarm, workerVars
<1>3. ASSUME NEW r \in Requests, Full(r) PROVE TypeOK'
  BY <1>3 DEF Full, Hear, Return, workerVars
<1>4. ASSUME NEW r \in Requests, Answered(r) PROVE TypeOK'
  BY <1>4 DEF Answered, Return, clockVars, workerVars
<1>5. ASSUME NEW r \in Requests, TimedOut(r) PROVE TypeOK'
  BY <1>5 DEF TimedOut, Hear, Return, workerVars
<1>6. ASSUME NEW i \in Routes, Receive(i) PROVE TypeOK'
  BY <1>6, TailFacts DEF Receive, callerVars, clockVars
<1>7. ASSUME NEW i \in Routes, Shed(i) PROVE TypeOK'
  BY <1>7 DEF Shed, callerVars, clockVars
<1>8. ASSUME NEW i \in Routes, StartHandle(i) PROVE TypeOK'
  BY <1>8 DEF StartHandle, callerVars, clockVars
<1>9. ASSUME NEW i \in Routes, FinishHandle(i) PROVE TypeOK'
  BY <1>9 DEF FinishHandle, callerVars, clockVars
<1>10. ASSUME NEW i \in Routes, Signal(i) PROVE TypeOK'
  <2>1. tokens' \in [Requests -> Nat]
    <3>1. \A r \in Requests : tokens'[r] = tokens[r] \/ tokens'[r] = tokens[r] + 1
      BY <1>10 DEF Signal
    <3>2. \A r \in Requests : tokens[r] \in Nat
      OBVIOUS
    <3>3. tokens' = [r \in Requests |-> tokens'[r]]
      BY <1>10 DEF Signal
    <3>4. ASSUME NEW r \in Requests PROVE tokens'[r] \in Nat
      <4>1. tokens[r] \in Nat
        BY <3>2
      <4>2. tokens'[r] = tokens[r] \/ tokens'[r] = tokens[r] + 1
        BY <3>1
      <4>3. QED
        BY <4>1, <4>2
    <3>5. QED
      BY <3>3, <3>4
  <2>2. QED
    BY <1>10, <2>1 DEF Signal, callerVars, clockVars
<1>11. ASSUME Tick PROVE TypeOK'
  BY <1>11 DEF Tick, TooOld, callerVars, workerVars
<1>12. CASE UNCHANGED vars
  BY <1>12 DEF vars
<1>13. QED
  BY <1>1, <1>2, <1>3, <1>4, <1>5, <1>6, <1>7, <1>8, <1>9, <1>10, <1>11, <1>12
     DEF Next, Submitter, Posting, Waiting, Worker

-----------------------------------------------------------------------------
\* A submitter's position, its answer and its two goroutines go together.
LEMMA CallerStep ==
  TypeOK /\ CallerInv /\ AlarmsLeftBehind /\ [Next]_vars
    => CallerInv' /\ AlarmsLeftBehind'
<1> SUFFICES ASSUME TypeOK, CallerInv, AlarmsLeftBehind, [Next]_vars
             PROVE  CallerInv' /\ AlarmsLeftBehind'
  OBVIOUS
<1> USE DEF TypeOK, Alarms, CallerInv, AlarmsLeftBehind
<1>1. ASSUME NEW r \in Requests, Call(r) PROVE CallerInv' /\ AlarmsLeftBehind'
  BY <1>1 DEF Call, SetAlarm
<1>2. ASSUME NEW r \in Requests, Post(r) PROVE CallerInv' /\ AlarmsLeftBehind'
  BY <1>2 DEF Post, SetAlarm
<1>3. ASSUME NEW r \in Requests, Full(r) PROVE CallerInv' /\ AlarmsLeftBehind'
  BY <1>3 DEF Full, Hear, Return
<1>4. ASSUME NEW r \in Requests, Answered(r) PROVE CallerInv' /\ AlarmsLeftBehind'
  BY <1>4 DEF Answered, Return, clockVars
<1>5. ASSUME NEW r \in Requests, TimedOut(r) PROVE CallerInv' /\ AlarmsLeftBehind'
  BY <1>5 DEF TimedOut, Hear, Return
<1>6. CASE UNCHANGED <<callerVars, alarm>>
  BY <1>6 DEF callerVars
<1>7. ASSUME NEW i \in Routes, Worker(i) PROVE UNCHANGED <<callerVars, alarm>>
  BY <1>7 DEF Worker, Receive, Shed, StartHandle, FinishHandle, Signal, clockVars
<1>8. QED
  BY <1>1, <1>2, <1>3, <1>4, <1>5, <1>6, <1>7
     DEF Next, Submitter, Posting, Waiting, Tick, vars, callerVars

\* No goroutine wakes its submitter before it has slept its time.
LEMMA ClockStep ==
  TypeOK /\ CallerInv /\ ClockInv /\ NeverHasty /\ [Next]_vars
    => ClockInv' /\ NeverHasty'
<1> SUFFICES ASSUME TypeOK, CallerInv, ClockInv, NeverHasty, [Next]_vars
             PROVE  ClockInv' /\ NeverHasty'
  OBVIOUS
<1> USE EventRouteAssumption
    DEF TypeOK, Alarms, CallerInv, ClockInv, Slept, NeverHasty
<1>1. ASSUME NEW r \in Requests, Call(r) PROVE ClockInv' /\ NeverHasty'
  BY <1>1 DEF Call, SetAlarm
<1>2. ASSUME NEW r \in Requests, Post(r) PROVE ClockInv' /\ NeverHasty'
  BY <1>2 DEF Post, SetAlarm
<1>3. ASSUME NEW r \in Requests, Full(r) PROVE ClockInv' /\ NeverHasty'
  BY <1>3 DEF Full, Hear, Ringing, Return
<1>4. ASSUME NEW r \in Requests, Answered(r) PROVE ClockInv' /\ NeverHasty'
  BY <1>4 DEF Answered, Return, clockVars
<1>5. ASSUME NEW r \in Requests, TimedOut(r) PROVE ClockInv' /\ NeverHasty'
  BY <1>5 DEF TimedOut, Hear, Ringing, Return
<1>6. ASSUME Tick PROVE ClockInv' /\ NeverHasty'
  BY <1>6 DEF Tick, TooOld, callerVars
<1>7. CASE UNCHANGED <<callerVars, clockVars>>
  BY <1>7 DEF callerVars, clockVars
<1>8. ASSUME NEW i \in Routes, Worker(i) PROVE UNCHANGED <<callerVars, clockVars>>
  BY <1>8 DEF Worker, Receive, Shed, StartHandle, FinishHandle, Signal
<1>9. QED
  BY <1>1, <1>2, <1>3, <1>4, <1>5, <1>6, <1>7, <1>8
     DEF Next, Submitter, Posting, Waiting, vars, callerVars, clockVars

-----------------------------------------------------------------------------
\* What a worker holds, and what has been done for a request, stay accounted for.
LEMMA JobStep ==
  TypeOK /\ CallerInv /\ JobInv /\ EffectInv /\ QueueInv /\ [Next]_vars
    => JobInv' /\ EffectInv'
<1> SUFFICES ASSUME TypeOK, CallerInv, JobInv, EffectInv, QueueInv, [Next]_vars
             PROVE  JobInv' /\ EffectInv'
  OBVIOUS
<1> USE EventRouteAssumption DEF TypeOK, CallerInv, JobInv, EffectInv, InRouter
<1>1. ASSUME NEW r \in Requests, Call(r) PROVE JobInv' /\ EffectInv'
  <2>1. \A q \in Requests \ {r} : index'[q] = index[q]
    BY <1>1 DEF Call
  <2>2. index' \in [Requests -> Routes]
    BY <1>1, RouteOfStamp DEF Call
  <2>3. /\ pc[r] = "idle"
        /\ pc' = [pc EXCEPT ![r] = "posting"]
        /\ UNCHANGED <<answer, wpc, job, effect, tokens>>
    BY <1>1 DEF Call, workerVars
  <2>4. JobInv'
    BY <2>1, <2>3
  <2>5. EffectInv'
    BY <2>1, <2>2, <2>3
  <2>6. QED
    BY <2>4, <2>5
<1>2. ASSUME NEW r \in Requests, Post(r) PROVE JobInv' /\ EffectInv'
  BY <1>2 DEF Post, workerVars
<1>3. ASSUME NEW r \in Requests, Full(r) PROVE JobInv' /\ EffectInv'
  BY <1>3 DEF Full, Return, workerVars
<1>4. ASSUME NEW r \in Requests, Answered(r) PROVE JobInv' /\ EffectInv'
  BY <1>4 DEF Answered, Return, workerVars
<1>5. ASSUME NEW r \in Requests, TimedOut(r) PROVE JobInv' /\ EffectInv'
  BY <1>5 DEF TimedOut, Return, workerVars
<1>6. ASSUME NEW i \in Routes, Receive(i) PROVE JobInv' /\ EffectInv'
  <2> DEFINE q == Head(queue[i])
  <2>1. q \in Requests /\ Untouched(q, i)
    BY <1>6, TailFacts DEF Receive, QueueInv
  <2>2. /\ wpc[i] = "idle"
        /\ wpc' = [wpc EXCEPT ![i] = "taken"]
        /\ job' = [job EXCEPT ![i] = q]
        /\ UNCHANGED <<pc, index, answer, effect, tokens>>
    BY <1>6 DEF Receive, callerVars
  <2> HIDE DEF q
  <2>3. QED
    BY <2>1, <2>2 DEF Untouched
<1>7. ASSUME NEW i \in Routes, Shed(i) PROVE JobInv' /\ EffectInv'
  BY <1>7 DEF Shed, callerVars
<1>8. ASSUME NEW i \in Routes, StartHandle(i) PROVE JobInv' /\ EffectInv'
  <2>1. /\ wpc[i] = "taken"
        /\ wpc' = [wpc EXCEPT ![i] = "handling"]
        /\ effect' = [effect EXCEPT ![job[i]] = "partial"]
        /\ UNCHANGED <<pc, index, answer, job, tokens>>
    BY <1>8 DEF StartHandle, callerVars
  <2>2. job[i] \in Requests /\ InRouter(job[i], i)
    BY <2>1
  <2>3. JobInv'
    BY <2>1, <2>2
  <2>4. EffectInv'
    BY <2>1, <2>2
  <2>5. QED
    BY <2>3, <2>4
<1>9. ASSUME NEW i \in Routes, FinishHandle(i) PROVE JobInv' /\ EffectInv'
  BY <1>9 DEF FinishHandle, callerVars
<1>10. ASSUME NEW i \in Routes, Signal(i) PROVE JobInv' /\ EffectInv'
  BY <1>10 DEF Signal, HasRoom, callerVars
<1>11. CASE UNCHANGED <<callerVars, workerVars, tokens>>
  BY <1>11 DEF callerVars, workerVars
<1>12. QED
  BY <1>1, <1>2, <1>3, <1>4, <1>5, <1>6, <1>7, <1>8, <1>9, <1>10, <1>11
     DEF Next, Submitter, Posting, Waiting, Worker, Tick, vars, callerVars, workerVars

\* An untouched event stays so until the worker of its route takes it.
LEMMA UntouchedStep ==
  ASSUME TypeOK, CallerInv, JobInv, [Next]_vars,
         NEW q \in Requests, NEW j \in Routes, Untouched(q, j),
         ~(Receive(j) /\ q = Head(queue[j]))
  PROVE  Untouched(q, j)'
<1> USE EventRouteAssumption DEF TypeOK, CallerInv, JobInv, InRouter, Untouched
<1>1. ASSUME NEW r \in Requests, Submitter(r) PROVE Untouched(q, j)'
  BY <1>1 DEF Submitter, Posting, Waiting, Call, Post, Full, Answered, TimedOut,
              Return, workerVars
<1>2. ASSUME NEW i \in Routes, Receive(i) PROVE Untouched(q, j)'
  <2>1. job'[j] = job[j] \/ (i = j /\ job'[j] = Head(queue[j]))
    BY <1>2 DEF Receive
  <2>2. UNCHANGED <<callerVars, effect, tokens>>
    BY <1>2 DEF Receive
  <2>3. QED
    BY <1>2, <2>1, <2>2 DEF callerVars
<1>3. ASSUME NEW i \in Routes, Shed(i) \/ Signal(i) PROVE Untouched(q, j)'
  BY <1>3 DEF Shed, Signal, callerVars
<1>4. ASSUME NEW i \in Routes, StartHandle(i) \/ FinishHandle(i) PROVE Untouched(q, j)'
  BY <1>4 DEF StartHandle, FinishHandle, callerVars
<1>5. CASE UNCHANGED <<callerVars, workerVars, tokens>>
  BY <1>5 DEF callerVars, workerVars
<1>6. QED
  BY <1>1, <1>2, <1>3, <1>4, <1>5
     DEF Next, Worker, Tick, vars, callerVars, workerVars

\* How the two operations on channels, and all the others, change them.
LEMMA QueueStep ==
  TypeOK /\ CallerInv /\ JobInv /\ EffectInv /\ QueueInv /\ NoTwice /\ [Next]_vars
    => QueueInv' /\ NoTwice'
<1> SUFFICES ASSUME TypeOK, CallerInv, JobInv, EffectInv, QueueInv, NoTwice, [Next]_vars
             PROVE  QueueInv' /\ NoTwice'
  OBVIOUS
<1>1. \A i \in Routes : /\ queue[i] \in Seq(Requests)
                         /\ \A n \in 1 .. Len(queue[i]) : queue[i][n] \in Requests
  BY DEF TypeOK
<1>2. CASE queue' = queue
  <2>1. ASSUME NEW i \in Routes, NEW n \in 1 .. Len(queue[i])
        PROVE  Untouched(queue[i][n], i)'
    <3>1. queue[i][n] \in Requests /\ Untouched(queue[i][n], i)
      BY <1>1 DEF QueueInv
    <3>2. ~Receive(i)
      BY <1>1, <1>2, TailFacts DEF Receive, TypeOK
    <3>3. Untouched(queue[i][n], i)'
      BY <1>2, <3>1, <3>2, UntouchedStep DEF Untouched, InRouter
    <3>4. QED
      BY <3>3
  <2>2. QED
    BY <1>2, <2>1 DEF QueueInv, NoTwice
<1>3. ASSUME NEW r \in Requests, Post(r) PROVE QueueInv' /\ NoTwice'
  <2>1. PICK i \in Routes, s \in Seq(Requests) :
          /\ i = index[r]
          /\ s = queue[i]
          /\ queue'[i] = Append(s, r)
          /\ \A j \in Routes \ {i} : queue'[j] = queue[j]
    BY <1>1, <1>3 DEF Post, TypeOK
  <2>2. /\ Len(queue'[i]) = Len(s) + 1
        /\ \A n \in 1 .. Len(s) : queue'[i][n] = s[n]
        /\ queue'[i][Len(s) + 1] = r
        /\ Len(s) \in Nat
    BY <2>1, AppendFacts
  <2>3. Untouched(r, i)'
    <3>1. /\ pc[r] = "posting"
          /\ pc'[r] = "waiting"
          /\ UNCHANGED <<index, answer, effect, job, tokens>>
      BY <1>3 DEF Post, workerVars, TypeOK
    <3>2. answer[r] = "none" /\ effect[r] = "none" /\ tokens[r] = 0
      BY <3>1 DEF CallerInv, EffectInv
    <3>3. job[i] # r
      BY <2>1, <3>1, EventRouteAssumption DEF JobInv, InRouter
    <3>4. QED
      BY <2>1, <3>1, <3>2, <3>3 DEF Untouched, InRouter
  <2>4. ASSUME NEW q \in Requests, NEW j \in Routes, Untouched(q, j)
        PROVE  q # r /\ Untouched(q, j)'
    <3>1. ~Receive(j)
      BY <1>3 DEF Post, Receive, workerVars, TypeOK
    <3>2. q # r
      BY <1>3, <2>4 DEF Post, Untouched, InRouter
    <3>3. QED
      BY <2>4, <3>1, <3>2, UntouchedStep
  <2>5. ASSUME NEW j \in Routes, NEW n \in 1 .. Len(queue[j])
        PROVE  queue[j][n] \in Requests \ {r} /\ Untouched(queue[j][n], j)
    BY <1>1, <2>4 DEF QueueInv
  <2>6. ASSUME NEW j \in Routes, NEW n \in 1 .. Len(queue'[j])
        PROVE  Untouched(queue[j][n], j)'
    <3>1. PICK q \in Requests :
            queue'[j][n] = q /\ (Untouched(q, j) \/ (q = r /\ j = i))
      <4>1. CASE j = i /\ n = Len(s) + 1
        BY <2>2, <4>1
      <4>2. CASE ~(j = i /\ n = Len(s) + 1)
        <5>1. CASE j # i
          <6>1. queue'[j] = queue[j]
            BY <2>1, <5>1
          <6>2. QED
            BY <2>5, <6>1
        <5>2. CASE j = i /\ n # Len(s) + 1
          <6>1. n \in 1 .. Len(s)
            BY <2>2, <5>2
          <6>2. queue'[j][n] = queue[j][n] /\ n \in 1 .. Len(queue[j])
            BY <2>1, <2>2, <5>2, <6>1
          <6>3. QED
            BY <2>5, <6>2
        <5>3. QED
          BY <4>2, <5>1, <5>2
      <4>3. QED
        BY <4>1, <4>2
    <3>2. Untouched(q, j)'
      BY <2>3, <2>4, <3>1
    <3>3. QED
      BY <3>1, <3>2 DEF Untouched, InRouter
  <2>7. ASSUME NEW j \in Routes, NEW m \in 1 .. Len(queue'[j]), NEW n \in 1 .. Len(queue'[j]),
               queue'[j][m] = queue'[j][n]
        PROVE  m = n
    <3>1. CASE j # i
      <4>1. queue'[j] = queue[j]
        BY <2>1, <3>1
      <4>2. QED
        BY <2>7, <4>1 DEF NoTwice
    <3>2. CASE j = i /\ m \in 1 .. Len(s) /\ n \in 1 .. Len(s)
      <4>1. s[m] = s[n]
        BY <2>2, <2>7, <3>2
      <4>2. \A k, l \in 1 .. Len(s) : s[k] = s[l] => k = l
        BY <2>1 DEF NoTwice
      <4>3. QED
        BY <3>2, <4>1, <4>2
    <3>3. CASE j = i /\ ~(m \in 1 .. Len(s) /\ n \in 1 .. Len(s))
      <4>1. \A k \in 1 .. Len(s) : s[k] # r
        BY <2>1, <2>5
      <4>2. QED
        BY <2>2, <2>7, <3>3, <4>1
    <3>4. QED
      BY <3>1, <3>2, <3>3
  <2>8. QED
    BY <2>6, <2>7 DEF QueueInv, NoTwice
<1>4. ASSUME NEW i \in Routes, Receive(i) PROVE QueueInv' /\ NoTwice'
  <2>1. PICK s \in Seq(Requests) :
          /\ s = queue[i]
          /\ s # <<>>
          /\ queue'[i] = Tail(s)
          /\ \A j \in Routes \ {i} : queue'[j] = queue[j]
    BY <1>1, <1>4 DEF Receive, TypeOK
  <2>2. /\ Len(s) \in Nat \ {0}
        /\ Head(s) = s[1]
        /\ Len(queue'[i]) = Len(s) - 1
        /\ \A n \in 1 .. Len(queue'[i]) : queue'[i][n] = s[n + 1]
    BY <2>1, TailFacts
  <2>3. ASSUME NEW j \in Routes, NEW n \in 1 .. Len(queue'[j])
        PROVE  \E k \in 1 .. Len(queue[j]) :
                 /\ queue'[j][n] = queue[j][k]
                 /\ k = (IF j = i THEN n + 1 ELSE n)
    <3>1. CASE j # i
      BY <2>1, <2>3, <3>1
    <3>2. CASE j = i
      <4>1. n \in 1 .. (Len(s) - 1)
        BY <2>2, <2>3, <3>2
      <4>2. n + 1 \in 1 .. Len(queue[i]) /\ queue'[i][n] = queue[i][n + 1]
        BY <2>1, <2>2, <4>1
      <4>3. QED
        BY <3>2, <4>2
    <3>3. QED
      BY <3>1, <3>2
  <2>4. ASSUME NEW j \in Routes, NEW n \in 1 .. Len(queue'[j])
        PROVE  Untouched(queue[j][n], j)'
    <3>1. PICK k \in 1 .. Len(queue[j]) :
            queue'[j][n] = queue[j][k] /\ k = (IF j = i THEN n + 1 ELSE n)
      BY <2>3
    <3>2. PICK q \in Requests : q = queue[j][k]
      BY <1>1
    <3>3. Untouched(q, j)
      BY <3>2 DEF QueueInv
    <3>4. ~(Receive(j) /\ q = Head(queue[j]))
      <4>1. CASE j = i
        <5>1. k # 1 /\ 1 \in 1 .. Len(queue[j]) /\ Head(queue[j]) = queue[j][1]
          BY <2>1, <2>2, <2>4, <3>1, <4>1
        <5>2. QED
          BY <3>2, <5>1 DEF NoTwice
      <4>2. CASE j # i
        BY <1>4, <4>2 DEF Receive, TypeOK
      <4>3. QED
        BY <4>1, <4>2
    <3>5. Untouched(q, j)'
      BY <3>3, <3>4, UntouchedStep
    <3>6. QED
      BY <3>1, <3>2, <3>5 DEF Untouched, InRouter
  <2>5. ASSUME NEW j \in Routes, NEW m \in 1 .. Len(queue'[j]), NEW n \in 1 .. Len(queue'[j]),
               queue'[j][m] = queue'[j][n]
        PROVE  m = n
    <3>1. PICK k \in 1 .. Len(queue[j]) :
            queue'[j][m] = queue[j][k] /\ k = (IF j = i THEN m + 1 ELSE m)
      BY <2>3
    <3>2. PICK l \in 1 .. Len(queue[j]) :
            queue'[j][n] = queue[j][l] /\ l = (IF j = i THEN n + 1 ELSE n)
      BY <2>3
    <3>3. k = l
      BY <2>5, <3>1, <3>2 DEF NoTwice
    <3>4. QED
      BY <3>1, <3>2, <3>3
  <2>6. QED
    BY <2>4, <2>5 DEF QueueInv, NoTwice
<1>5. QED
  BY <1>2, <1>3, <1>4
     DEF Next, Submitter, Posting, Waiting, Worker, Call, Full, Answered, TimedOut,
         Shed, StartHandle, FinishHandle, Signal, Tick, vars

-----------------------------------------------------------------------------
\* An empty router satisfies the inductive invariant.
LEMMA InitIInv == Init => IInv
<1> SUFFICES ASSUME Init PROVE IInv
  OBVIOUS
<1> USE EventRouteAssumption DEF Init
<1>1. TypeOK
  BY TypeInit
<1>2. CallerInv /\ AlarmsLeftBehind /\ ClockInv /\ NeverHasty
  BY DEF CallerInv, AlarmsLeftBehind, ClockInv, NeverHasty, Alarms
<1>3. QueueInv /\ NoTwice
  BY DEF QueueInv, NoTwice
<1>4. JobInv /\ EffectInv
  BY DEF JobInv, EffectInv, InRouter
<1>5. QED
  BY <1>1, <1>2, <1>3, <1>4 DEF IInv

\* Every step keeps the inductive invariant.
LEMMA StepIInv == IInv /\ [Next]_vars => IInv'
BY TypeStep, CallerStep, ClockStep, JobStep, QueueStep DEF IInv

\* IInv holds in every reachable state.
THEOREM Inductive == Spec => []IInv
<1>1. Init => IInv
  BY InitIInv
<1>2. IInv /\ [Next]_vars => IInv'
  BY StepIInv
<1>3. QED
  BY <1>1, <1>2, PTL DEF Spec

\* Every variable keeps its type.
THEOREM TypeCorrect == Spec => []TypeOK
<1>1. IInv => TypeOK
  BY DEF IInv
<1>2. QED
  BY <1>1, Inductive, PTL

\* Whatever the limits and the interleaving, ServeHTTP reads an HttpResponse
\* only after its handler has returned.
THEOREM OkIsSafe == Spec => []OkMeansComplete
<1>1. IInv => OkMeansComplete
  BY DEF IInv, EffectInv, OkMeansComplete
<1>2. QED
  BY <1>1, Inductive, PTL

\* A caller told "full" can retry: its event is nowhere in the router.
THEOREM RefusedIsSafe == Spec => []RefusedNeverRuns
<1>1. ASSUME IInv PROVE RefusedNeverRuns
  <2> SUFFICES ASSUME NEW r \in Requests, answer[r] = "full"
               PROVE  effect[r] = "none" /\ ~Queued(r) /\ ~Held(r)
    BY DEF RefusedNeverRuns
  <2>1. effect[r] = "none"
    BY <1>1 DEF IInv, EffectInv
  <2>2. ~Queued(r)
    BY <1>1 DEF IInv, QueueInv, Untouched, InRouter, Queued
  <2>3. ~Held(r)
    <3>1. \A i \in Routes : job[i] # NoRequest => answer[job[i]] # "full"
      BY <1>1 DEF IInv, JobInv, InRouter
    <3>2. r # NoRequest
      BY EventRouteAssumption
    <3>3. QED
      BY <3>1, <3>2 DEF Held
  <2>4. QED
    BY <2>1, <2>2, <2>3
<1>2. QED
  BY <1>1, Inductive, PTL

\* Two handlers of one route never share its init_param at the same time.
THEOREM RouteIsExclusive == Spec => []RouteExclusive
<1>1. IInv => RouteExclusive
  BY DEF IInv, EffectInv, RouteExclusive
<1>2. QED
  BY <1>1, Inductive, PTL

\* A worker is never stuck on the Wait_channel of a caller that has left.
THEOREM SignalIsFree == Spec => []SignalNeverBlocks
<1>1. IInv => SignalNeverBlocks
  BY EventRouteAssumption DEF IInv, JobInv, InRouter, SignalNeverBlocks, HasRoom
<1>2. QED
  BY <1>1, Inductive, PTL

\* What each answer leaves asleep or blocked.
THEOREM Leak == Spec => []AlarmsLeftBehind
<1>1. IInv => AlarmsLeftBehind
  BY DEF IInv
<1>2. QED
  BY <1>1, Inductive, PTL

\* Nobody gives up before the shorter of the two limits.
THEOREM Patience == Spec => []NeverHasty
<1>1. IInv => NeverHasty
  BY DEF IInv
<1>2. QED
  BY <1>1, Inductive, PTL

-----------------------------------------------------------------------------
\* Every step of the router is a step, or a stutter, of Dispatch.
LEMMA Simulation ==
  IInv /\ [Next]_vars => [Abstract!Next]_(Abstract!vars)
<1> SUFFICES ASSUME IInv, [Next]_vars PROVE [Abstract!Next]_(Abstract!vars)
  OBVIOUS
<1> USE EventRouteAssumption
    DEF Abstract!Next, Abstract!vars, Abstract!Answers, IInv, TypeOK
<1>1. ASSUME NEW r \in Requests, Call(r) PROVE Abstract!Route(r)
  BY <1>1, RouteOfStamp DEF Call, workerVars, CallerInv, EffectInv, Abstract!Route
<1>2. ASSUME NEW r \in Requests, Full(r) PROVE Abstract!Reply(r, "full")
  BY <1>2 DEF Full, Return, workerVars, CallerInv, EffectInv, Abstract!Reply
<1>3. ASSUME NEW r \in Requests, Answered(r) PROVE Abstract!Reply(r, "ok")
  BY <1>3 DEF Answered, Return, workerVars, CallerInv, EffectInv, Abstract!Reply
<1>4. ASSUME NEW r \in Requests, TimedOut(r) PROVE Abstract!Reply(r, "timeout")
  BY <1>4 DEF TimedOut, Return, workerVars, CallerInv, Abstract!Reply
<1>5. ASSUME NEW i \in Routes, StartHandle(i)
      PROVE  job[i] \in Requests /\ Abstract!Start(job[i])
  <2>1. wpc[i] = "taken" /\ job[i] \in Requests
    BY <1>5 DEF StartHandle, JobInv
  <2>2. /\ index[job[i]] = i
        /\ answer[job[i]] # "full"
        /\ effect[job[i]] = "none"
    BY <2>1 DEF JobInv, InRouter
  <2>3. \A s \in Requests : index[s] = i => effect[s] # "partial"
    BY <2>1 DEF EffectInv
  <2>4. effect' = [effect EXCEPT ![job[i]] = "partial"] /\ UNCHANGED <<index, answer>>
    BY <1>5 DEF StartHandle, callerVars
  <2>5. QED
    BY <2>1, <2>2, <2>3, <2>4 DEF Abstract!Start
<1>6. ASSUME NEW i \in Routes, FinishHandle(i)
      PROVE  job[i] \in Requests /\ Abstract!Finish(job[i])
  BY <1>6 DEF FinishHandle, callerVars, JobInv, Abstract!Finish
<1>7. ASSUME NEW r \in Requests, Post(r) PROVE UNCHANGED <<index, effect, answer>>
  BY <1>7 DEF Post, workerVars
<1>8. ASSUME NEW i \in Routes, Receive(i) \/ Shed(i) \/ Signal(i)
      PROVE  UNCHANGED <<index, effect, answer>>
  BY <1>8 DEF Receive, Shed, Signal, callerVars
<1>9. CASE Tick \/ UNCHANGED vars
  BY <1>9 DEF Tick, vars, callerVars, workerVars
<1>10. QED
  BY <1>1, <1>2, <1>3, <1>4, <1>5, <1>6, <1>7, <1>8, <1>9
     DEF Next, Submitter, Posting, Waiting, Worker

\* The router implements Dispatch.
THEOREM Refinement == Spec => ImplementsDispatch
<1>1. Init => Abstract!Init
  BY EventRouteAssumption DEF Init, Abstract!Init, Routes
<1>2. IInv /\ [Next]_vars => [Abstract!Next]_(Abstract!vars)
  BY Simulation
<1>3. QED
  BY <1>1, <1>2, Inductive, PTL DEF Spec, ImplementsDispatch, Abstract!Spec
=============================================================================
