----------------------------- MODULE EventRoute -----------------------------
(***************************************************************************)
(* sdk/event_route: EventRouteMgr.                                         *)
(*                                                                         *)
(* Submitters (one goroutine per HTTP request) call SyncHandle, which      *)
(* posts an event to the bounded channel of one route and waits.  One      *)
(* worker goroutine per route takes events off its channel, drops those    *)
(* that are too old (the "snow-slide" check), runs the handler of the      *)
(* others and signals the submitter through the event's Wait_channel.      *)
(*                                                                         *)
(* SyncHandle bounds its two waits with two sleeping goroutines that both  *)
(* write to ONE unbuffered time_channel.  An alarm is therefore heard only *)
(* if the submitter is still in a select when, or after, it goes off; an   *)
(* alarm nobody hears leaves its goroutine blocked for ever.               *)
(*                                                                         *)
(* Time is counted in ticks.  Alarms count down and ages count up; an age  *)
(* is only ever compared with SnowSlideTime, so it stops there.  Nothing   *)
(* obliges a goroutine to act the moment it can: the Go scheduler may      *)
(* delay it by any number of ticks.                                        *)
(***************************************************************************)
EXTENDS Integers, Sequences

CONSTANTS
  Requests,      \* the calls of SyncHandle, one per request
  Stamps,        \* the route_id values callers pass (millisecond time stamps)
  RouteNums,     \* route_nums
  MaxEventNums,  \* max_event_nums: capacity of a route's channel
  PendingTime,   \* pending_time: how long to try to post, in ticks
  WaitTime,      \* wait_time: how long to wait for the handler, in ticks
  SnowSlideTime, \* snow_slide_time: age at which an event is dropped, in ticks
  WaitCap,       \* capacity of an event's Wait_channel
  NoRequest      \* a worker without a job

Routes == 0 .. RouteNums - 1
Alarms == {"pending", "wait"}

ASSUME EventRouteAssumption ==
  /\ Stamps \subseteq Nat
  /\ RouteNums \in Nat \ {0}
  /\ MaxEventNums \in Nat \ {0}
  /\ PendingTime \in Nat
  /\ WaitTime \in Nat
  /\ SnowSlideTime \in Nat
  /\ WaitCap \in Nat \ {0}
  /\ NoRequest \notin Requests

VARIABLES
  pc,     \* pc[r]: where the submitter of r is in SyncHandle
  index,  \* index[r]: the route r was sent to
  answer, \* answer[r]: SyncHandle's result: -1 "full", 0 "timeout", 1 "ok"
  age,    \* age[r]: ticks since r's Elapsed_time stamp
  alarm,  \* alarm[r][k]: goroutine k of r is not started, set, or was heard
  left,   \* left[r][k]: ticks goroutine k of r still has to sleep
  queue,  \* queue[i]: route_channel[i]
  wpc,    \* wpc[i]: where worker i is in run
  job,    \* job[i]: the event worker i holds
  effect, \* effect[r]: what the handler has done to r's Context
  tokens  \* tokens[r]: values in r's Wait_channel

callerVars == <<pc, index, answer>>
clockVars == <<age, alarm, left>>
workerVars == <<wpc, job, effect>>
vars == <<pc, index, answer, age, alarm, left, queue, wpc, job, effect, tokens>>

TypeOK ==
  /\ pc \in [Requests -> {"idle", "posting", "waiting", "done"}]
  /\ index \in [Requests -> Routes]
  /\ answer \in [Requests -> {"none", "full", "timeout", "ok"}]
  /\ age \in [Requests -> 0 .. SnowSlideTime]
  /\ alarm \in [Requests -> [Alarms -> {"off", "set", "heard"}]]
  /\ left \in [Requests -> [Alarms -> Nat]]
  /\ queue \in [Routes -> Seq(Requests)]
  /\ wpc \in [Routes -> {"idle", "taken", "handling", "signalling"}]
  /\ job \in [Routes -> Requests \cup {NoRequest}]
  /\ effect \in [Requests -> {"none", "partial", "complete"}]
  /\ tokens \in [Requests -> Nat]

(***************************************************************************)
(* CreateEventRouteMgr has returned: empty channels, every worker started. *)
(***************************************************************************)
Init ==
  /\ pc = [r \in Requests |-> "idle"]
  /\ index = [r \in Requests |-> 0]
  /\ answer = [r \in Requests |-> "none"]
  /\ age = [r \in Requests |-> 0]
  /\ alarm = [r \in Requests |-> [k \in Alarms |-> "off"]]
  /\ left = [r \in Requests |-> [k \in Alarms |-> 0]]
  /\ queue = [i \in Routes |-> <<>>]
  /\ wpc = [i \in Routes |-> "idle"]
  /\ job = [i \in Routes |-> NoRequest]
  /\ effect = [r \in Requests |-> "none"]
  /\ tokens = [r \in Requests |-> 0]

-----------------------------------------------------------------------------
(* SyncHandle: the submitter of request r.                                 *)

\* Mutant: the goroutine of the second select is forgotten.
OnlyPendingAlarm(r, k, d) ==
  IF k = "wait" THEN UNCHANGED <<alarm, left>>
  ELSE /\ alarm' = [alarm EXCEPT ![r][k] = "set"]
       /\ left' = [left EXCEPT ![r][k] = d]

\* go func() { time.Sleep(d); time_channel <- 1 }()
SetAlarm(r, k, d) ==
  /\ alarm' = [alarm EXCEPT ![r][k] = "set"]
  /\ left' = [left EXCEPT ![r][k] = d]

\* Mutant: it does not sleep.
RingsAtOnce(r, k) == alarm[r][k] = "set"

\* Mutant: it never sends.
NeverRings(r, k) == FALSE

\* Goroutine k of r has slept its time and is blocked on time_channel <- 1.
Ringing(r, k) == alarm[r][k] = "set" /\ left[r][k] = 0

\* The submitter receives from time_channel the value goroutine k sends.
Hear(r, k) ==
  /\ Ringing(r, k)
  /\ alarm' = [alarm EXCEPT ![r][k] = "heard"]
  /\ UNCHANGED left

Return(r, a) ==
  /\ pc' = [pc EXCEPT ![r] = "done"]
  /\ answer' = [answer EXCEPT ![r] = a]

\* The event is stamped, its route computed and the first goroutine started.
Call(r) ==
  /\ pc[r] = "idle"
  /\ \E route_id \in Stamps : index' = [index EXCEPT ![r] = route_id % RouteNums]
  /\ pc' = [pc EXCEPT ![r] = "posting"]
  /\ SetAlarm(r, "pending", PendingTime)
  /\ UNCHANGED <<answer, age, queue, workerVars, tokens>>

\* First select, case this.route_channel[index] <- event.
Post(r) ==
  /\ pc[r] = "posting"
  /\ Len(queue[index[r]]) < MaxEventNums
  /\ queue' = [queue EXCEPT ![index[r]] = Append(@, r)]
  /\ pc' = [pc EXCEPT ![r] = "waiting"]
  /\ SetAlarm(r, "wait", WaitTime)
  /\ UNCHANGED <<index, answer, age, workerVars, tokens>>

\* First select, case <-time_channel: give up, return -1.
Full(r) ==
  /\ pc[r] = "posting"
  /\ Hear(r, "pending")
  /\ Return(r, "full")
  /\ UNCHANGED <<index, age, queue, workerVars, tokens>>

\* Second select, case <-event.Wait_channel: return 1.
Answered(r) ==
  /\ pc[r] = "waiting"
  /\ tokens[r] > 0
  /\ tokens' = [tokens EXCEPT ![r] = @ - 1]
  /\ Return(r, "ok")
  /\ UNCHANGED <<index, clockVars, queue, workerVars>>

\* Mutant: both selects return -1.
TimedOutAsFull(r) ==
  /\ pc[r] = "waiting"
  /\ \E k \in Alarms : Hear(r, k)
  /\ Return(r, "full")
  /\ UNCHANGED <<index, age, queue, workerVars, tokens>>

\* Second select, case <-time_channel: return 0.  Both goroutines send on it.
TimedOut(r) ==
  /\ pc[r] = "waiting"
  /\ \E k \in Alarms : Hear(r, k)
  /\ Return(r, "timeout")
  /\ UNCHANGED <<index, age, queue, workerVars, tokens>>

-----------------------------------------------------------------------------
(* run: the worker goroutine of route i.                                   *)

\* case event := <-channel
Receive(i) ==
  /\ wpc[i] = "idle"
  /\ queue[i] # <<>>
  /\ queue' = [queue EXCEPT ![i] = Tail(@)]
  /\ wpc' = [wpc EXCEPT ![i] = "taken"]
  /\ job' = [job EXCEPT ![i] = Head(queue[i])]
  /\ UNCHANGED <<callerVars, clockVars, effect, tokens>>

TooOld(r) == age[r] >= SnowSlideTime

\* The event has waited too long: log and continue, nothing is signalled.
Shed(i) ==
  /\ wpc[i] = "taken"
  /\ TooOld(job[i])
  /\ wpc' = [wpc EXCEPT ![i] = "idle"]
  /\ job' = [job EXCEPT ![i] = NoRequest]
  /\ UNCHANGED <<callerVars, clockVars, queue, effect, tokens>>

\* Mutant: go event.Handle(...), the worker does not wait for it.
StartAsync(i) ==
  /\ wpc[i] = "taken"
  /\ ~TooOld(job[i])
  /\ wpc' = [wpc EXCEPT ![i] = "signalling"]
  /\ effect' = [effect EXCEPT ![job[i]] = "partial"]
  /\ UNCHANGED <<callerVars, clockVars, queue, job, tokens>>

\* event.Handle begins: from now on it may touch event.Context.
StartHandle(i) ==
  /\ wpc[i] = "taken"
  /\ ~TooOld(job[i])
  /\ wpc' = [wpc EXCEPT ![i] = "handling"]
  /\ effect' = [effect EXCEPT ![job[i]] = "partial"]
  /\ UNCHANGED <<callerVars, clockVars, queue, job, tokens>>

\* event.Handle returns.
FinishHandle(i) ==
  /\ wpc[i] = "handling"
  /\ wpc' = [wpc EXCEPT ![i] = "signalling"]
  /\ effect' = [effect EXCEPT ![job[i]] = "complete"]
  /\ UNCHANGED <<callerVars, clockVars, queue, job, tokens>>

\* Mutant: Wait_channel is unbuffered.
ReceiverWaits(r) == pc[r] = "waiting" /\ tokens[r] = 0

\* event.Wait_channel has room for one more value.
HasRoom(r) == tokens[r] < WaitCap

\* event.Wait_channel <- 1
Signal(i) ==
  /\ wpc[i] = "signalling"
  /\ HasRoom(job[i])
  /\ tokens' = [tokens EXCEPT ![job[i]] = @ + 1]
  /\ wpc' = [wpc EXCEPT ![i] = "idle"]
  /\ job' = [job EXCEPT ![i] = NoRequest]
  /\ UNCHANGED <<callerVars, clockVars, queue, effect>>

-----------------------------------------------------------------------------
\* One tick of the clock: called requests age, sleeping goroutines count down.
Tick ==
  /\ age' = [r \in Requests |->
               IF pc[r] = "idle" \/ TooOld(r) THEN age[r] ELSE age[r] + 1]
  /\ left' = [r \in Requests |-> [k \in Alarms |->
                IF left[r][k] > 0 THEN left[r][k] - 1 ELSE 0]]
  /\ UNCHANGED <<callerVars, alarm, queue, workerVars, tokens>>

Posting(r) == Post(r) \/ Full(r)
Waiting(r) == Answered(r) \/ TimedOut(r)
Submitter(r) == Call(r) \/ Posting(r) \/ Waiting(r)
Worker(i) == \/ Receive(i) \/ Shed(i) \/ StartHandle(i)
             \/ FinishHandle(i) \/ Signal(i)

Next ==
  \/ \E r \in Requests : Submitter(r)
  \/ \E i \in Routes : Worker(i)
  \/ Tick

Spec == Init /\ [][Next]_vars

(***************************************************************************)
(* Time passes, a select with a ready case proceeds, a worker that can     *)
(* move does, and handlers return.  Nobody is obliged to call SyncHandle.  *)
(***************************************************************************)
Fairness ==
  /\ WF_vars(Tick)
  /\ \A r \in Requests : WF_vars(Posting(r)) /\ WF_vars(Waiting(r))
  /\ \A i \in Routes : WF_vars(Worker(i))

FairSpec == Spec /\ Fairness
-----------------------------------------------------------------------------
(* Properties.                                                             *)

Queued(r) == \E i \in Routes : \E n \in 1 .. Len(queue[i]) : queue[i][n] = r
Held(r) == \E i \in Routes : job[i] = r

\* SyncHandle returns 1 only after the handler has returned: ServeHTTP may then
\* read the HttpResponse that the worker goroutine was filling, with no lock.
OkMeansComplete ==
  \A r \in Requests : answer[r] = "ok" => effect[r] = "complete"

\* SyncHandle returns -1 only for an event that is in no channel and in no
\* worker's hands, now or later: a caller told "full" may safely retry.
RefusedNeverRuns ==
  \A r \in Requests :
    answer[r] = "full" => effect[r] = "none" /\ ~Queued(r) /\ ~Held(r)

\* Two handlers of one route never overlap, so init_param (what init_func made
\* for that route) is used by one goroutine at a time.
RouteExclusive ==
  \A r, s \in Requests :
    effect[r] = "partial" /\ effect[s] = "partial" /\ index[r] = index[s] => r = s

\* The worker's send on Wait_channel always finds room, also when the
\* submitter has given up and will never receive: one late answer cannot
\* block a route for ever.
SignalNeverBlocks ==
  \A i \in Routes : wpc[i] = "signalling" => HasRoom(job[i])

\* What each outcome leaves behind: goroutines asleep or blocked on a
\* time_channel nobody will read again.  Two for every request answered in
\* time, one for every timed-out request, none for a refused one.
AlarmsLeftBehind ==
  \A r \in Requests :
    /\ answer[r] = "ok" => \A k \in Alarms : alarm[r][k] = "set"
    /\ answer[r] = "timeout" =>
         \E k \in Alarms : /\ alarm[r][k] = "heard"
                           /\ \A m \in Alarms \ {k} : alarm[r][m] = "set"
    /\ answer[r] = "full" => \A k \in Alarms : alarm[r][k] # "set"

\* A caller gives up, before or after posting, only when its request is at
\* least as old as the shorter of the two limits.
NeverHasty ==
  \A r \in Requests :
    answer[r] \in {"full", "timeout"} =>
      age[r] >= PendingTime \/ age[r] >= WaitTime \/ age[r] >= SnowSlideTime

\* Comments in http_server.go say the handler is waited for wait_time ("500ms").
\* The alarm of the first select is still set during the second one.
WaitsItsTime ==
  [][\A r \in Requests :
       answer[r] = "none" /\ answer'[r] = "timeout" => left[r]["wait"] = 0]_vars

\* A posted event does not stay in the router: it is handled or dropped.
QueueDrains == \A r \in Requests : pc[r] = "waiting" ~> ~Queued(r) /\ ~Held(r)

\* The router implements what Dispatch promises its callers.
Abstract == INSTANCE Dispatch WITH
  Routes <- Routes,
  index <- index,
  effect <- effect,
  answer <- answer

ImplementsDispatch == Abstract!Spec

-----------------------------------------------------------------------------
(* The inductive invariant.                                                *)

\* A submitter's position, its answer and its two goroutines go together.
CallerInv ==
  \A r \in Requests :
    /\ pc[r] # "done" <=> answer[r] = "none"
    /\ pc[r] = "idle" => \A k \in Alarms : alarm[r][k] = "off"
    /\ pc[r] = "posting" => alarm[r]["pending"] = "set" /\ alarm[r]["wait"] = "off"
    /\ pc[r] = "waiting" => \A k \in Alarms : alarm[r][k] = "set"

\* A goroutine has slept no longer than its request has existed, up to the
\* age at which counting stops.
Slept(r, k, d) == age[r] + left[r][k] >= d \/ age[r] >= SnowSlideTime

ClockInv ==
  \A r \in Requests :
    /\ alarm[r]["pending"] = "set" => Slept(r, "pending", PendingTime)
    /\ alarm[r]["wait"] = "set" => Slept(r, "wait", WaitTime)

\* An event in the router: its submitter has posted it, was not told "full" or
\* "ok", and has no signal waiting.
InRouter(r, i) ==
  /\ index[r] = i
  /\ pc[r] \in {"waiting", "done"}
  /\ answer[r] \in {"none", "timeout"}
  /\ tokens[r] = 0

\* Nothing has been done to an event of route i, and its worker does not hold it.
Untouched(r, i) == InRouter(r, i) /\ effect[r] = "none" /\ job[i] # r

\* The events in a channel are untouched, and none of them is there twice.
QueueInv ==
  \A i \in Routes : \A n \in 1 .. Len(queue[i]) : Untouched(queue[i][n], i)

NoTwice ==
  \A i \in Routes : \A m, n \in 1 .. Len(queue[i]) :
    queue[i][m] = queue[i][n] => m = n

\* What a worker holds, and how far its handler is.
JobInv ==
  \A i \in Routes :
    /\ wpc[i] = "idle" <=> job[i] = NoRequest
    /\ wpc[i] # "idle" => InRouter(job[i], i)
    /\ wpc[i] = "taken" => effect[job[i]] = "none"
    /\ wpc[i] = "handling" => effect[job[i]] = "partial"
    /\ wpc[i] = "signalling" => effect[job[i]] = "complete"

\* What has been done for a request is accounted for.
EffectInv ==
  \A r \in Requests :
    /\ pc[r] \in {"idle", "posting"} => effect[r] = "none" /\ tokens[r] = 0
    /\ answer[r] = "full" => effect[r] = "none"
    /\ answer[r] = "ok" => effect[r] = "complete"
    /\ tokens[r] > 0 => effect[r] = "complete"
    /\ effect[r] = "partial" => job[index[r]] = r /\ wpc[index[r]] = "handling"

IInv ==
  /\ TypeOK
  /\ CallerInv
  /\ AlarmsLeftBehind
  /\ ClockInv
  /\ NeverHasty
  /\ QueueInv
  /\ NoTwice
  /\ JobInv
  /\ EffectInv
=============================================================================
