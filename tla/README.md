# Specifications of goldpark's service SDK

TLA+ models of the concurrent parts of `project/service/src`, the TLC runs that
check them and the theorems TLAPS proves about them. Paths below are relative to
`src/project/service/src/`. `PROJECT.json` maps every definition to the lines it
stands for.

The service is written in Go (2018, before modules and before Go 1.22, which
matters for one loop below). Its logic is in `sdk/`: a router that runs HTTP
handlers on a fixed set of goroutines, two kinds of client connection pools, a
TCP server, and a rotating logger. The programs around it (`http_server`,
`login_server`, the demonstrations) are thin. Part of the tree does not compile as
committed, in two different ways. `sdk/net_server` and `sdk/net_conns` are unfinished:
they use names that exist nowhere, so what they would do is not defined, and they are
not modelled. In `sdk/net_server.bak` and `login_server` two types do not match:
`createNetClient` takes a parser with three results and stores it in a field for one
with two (`net_client.go:31`, `:47`), and `Login.OnNetAccpet` returns one with two where
`INetFunc` asks for three (`login_server/logic.go:64`). All else is defined; the models
take the two results that `recvRountine` uses (`net_client.go:101`).

## 1. Inventory

### Components

| component | state | operations | modules |
|---|---|---|---|
| event router, `sdk/event_route` | one bounded channel and one worker per route; per call an event, a `Wait_channel`, a `time_channel` with two timer goroutines | `SyncHandle`, the worker `run` | `EventRoute`, abstract: `Dispatch` |
| HTTP front end, `sdk/http_base` | `func_map`; per request an `HttpResponse` written on a worker and read by `ServeHTTP` | `ServeHTTP`, `SetData`, `SetLocation`, `setResponseWriter` | `HttpServer` |
| stub pool, `sdk/stub/stub_pool.go` | list of idle stubs, `has_stub_nums`, a mutex | `Get`, `Retrieve` | `StubPool` |
| request/response stub, `sdk/stub/conns_stub.go` | connection, `recv_buf`, `offset` | `Invoke`, `Close` | `ConnsStub` |
| connection pool, `sdk/conn_pool` | `conns_map`, `conns_id_map`, `hub_chann`; per connection `send_chann`, `close_chann` | `AddConns`, `RmConns`, `Send`, `Send2`, the seven hub events, dialing goroutines, alarm, `cConn.run` | `ConnPool`, abstract: `ClientPool` |
| logger, `sdk/logger` | `g_single_logger` and its three file loggers; on disk a log file and its numbered backups | `Instance`, `Load`, the `Log*` methods; `LogData`, `dupFile` | `Logger`, `RollLog` |
| TCP server, `sdk/net_server.bak` | the `Config` and the copy `Start` makes of it, a listener per `Start` | `LoadFile`, the setters, `Start`, `listenRounte` | `NetServer` |
| its connections | per connection `packet_buf`, `io_chan`, `close_chan`, two goroutines | `sendRoutine`, `recvRountine`, `Send`, `Close` | `NetClient`, abstract: `Connection` |
| login server, `login_server` | maps of accounts, each with a lock; `turn_id` | `OnNetRecv`; `login_Event`, which cannot be reached | handler of `NetClient` |

Not modelled: `sdk/net_server` (an unfinished rewrite of `net_server.bak` that
uses names that do not exist), `sdk/net_conns` (likewise), `sdk/comm_func`
(one stateless function), `http_server` (two handlers, both of which are among
the handlers `HttpServer` allows), the demonstrations and tests, the `*bk`
backups, and `pb` (declarations). What is left out of a modelled component is
said in its section and in `PROJECT.json`.

### Interactions

- `net/http` runs `ServeHTTP` in a goroutine per request; it calls
  `SyncHandle`, which hands the event to a route's worker over a channel; the
  worker calls the handler, which fills the `HttpResponse` `ServeHTTP` will read.
- A `StubPool` lends `ConnsStub`s to callers, one at a time each.
- Everything in `conn_pool` goes through the hub's channel, also what
  connections tell the hub about themselves.
- `netClient` calls the server's `INetFunc` (`Login`) on its receiving
  goroutine, which may call back `Send` and `Close`.
- `netServer` gives every accepted connection a goroutine, which asks `INetFunc`
  about it and makes the `netClient`.
- Everyone calls the logger, from any goroutine. `login_server/main.go` makes and
  loads it before it starts anything else, and nothing enforces that.

### What is hard

A configuration and a logger that are shared without a lock while they change;
timers that share a channel; answers that come after the caller has left;
unbuffered channels without a receiver; goroutines that read loop variables
after the loop moved on; channels closed by one goroutine and sent to by another;
byte streams cut anywhere; errors that leave half of a state behind; a counter
with two meanings; renames by several goroutines and a process that stops
between two of them. `PROJECT.json` lists these hazards at their lines, with the
properties that look at them, or the reason why none does.

## 2. Modules

`MC*.tla` only add what TLC needs (symmetry, sets that a cfg cannot write).
Operators commented `Mutant:` are not part of the models: each is a
plausible slip in the definition that follows it, kept to show that a property
would notice.

### EventRoute, Dispatch

`pc[r]` is where the submitter is in `SyncHandle`, `wpc[i]` where a worker is in
`run`. A `select` is a choice between actions: `Post`/`Full` and
`Answered`/`TimedOut`. The two timer goroutines of a call are `alarm[r]` and
`left[r]`; both send on the one unbuffered `time_channel`, so an alarm is heard
only by a submitter that is in a select, and either may end the second one. A
handler takes two steps, `StartHandle` and `FinishHandle`, so that it can be
overtaken. Time is in ticks; all delays of the scheduler are allowed, since
`Tick` is always enabled and nothing forces another action first. Ages stop at
`SnowSlideTime`, the only value they are compared with.

`Dispatch` is what callers may rely on: no queue, no timer, no clock. Each
handler runs at most once, alone on its route; "ok" only after it has
finished, "full" only if it never runs, "timeout" at any moment.

`CreateEventRouteMgr` returns nil when `init_func` fails and then there is no
router. Negative `route_id`s (the millisecond stamps of `ServeHTTP` are positive)
are excluded by the assumption on `Stamps`.

### HttpServer

Extends `EventRoute`; every action of the front end is one action of the router
(`Submit` contains `Call`) or leaves it alone. `resp` is the `HttpResponse`,
`calls` remembers which setters the handler called, `wire` is what `net/http`
has sent; its rule that only the first status counts is `WriteHeader`.
Headers and cookies are left out: `setResponseWriter` sets them after
`WriteHeader`, when they are no longer sent.

### StubPool, ConnsStub

`Get` and `Retrieve` hold the mutex throughout and are one action each. Callers
return only what they hold. `ConnsStub` extends it with the callers' use of the
stubs: `Invoke` is followed through connecting, writing (and writing again on a
new connection), and the passes of `waitRes`. Bytes are cells that remember whose
response they belong to and what they would be worth as a length; the length
field has one cell, and an int of width `2 * LenHalf`. The server answers the
requests of a connection in order, or late, or never. `protol.Unpack` is not in
the repository: it accepts whole responses and may do either with anything else.
`InvokePb` and the setters are left out.

### ConnPool, ClientPool

One action per hub event, except `doAlramConns`, whose loop is one action per
address (`AlramLoop`), because the goroutines it starts read its variables `k`
and `v` while it goes on: `loopAddr[n]` is `k` of the n-th round, `unlinked` the
rounds whose list `v` has left the map. A dialing goroutine is a record; it dials, and posts
an `AF` event. `cConn.run` drains `send_chann` and is then `"stuck"`: line 113
of `async_conns2.go` sends on a channel nobody else has, so the receive loop
after it has no action. `close` of a channel is `shut`, and a send after it is
`hub = "panic"`, which ends the process. Users' calls that find the hub's channel full for ten
seconds do nothing, and so are no step.

`ClientPool` is what is left when the hub, its events, the addresses and the dialing
goroutines are taken away: the life of each connection (dialed, pooled, ended,
closed), the messages it has been given and not written, and whether the pool still
serves. `ConnPool` implements it with `Stage`, which reads a connection's place off its
goroutine, its channel and the lists; with `load = send_chann`; and with `PoolState`,
which is "hung" when the hub is in `Close` and "dead" after a panic. That is a promise
across goroutines: a connection's `CLOSE` never reaches the hub before its `AF`, no
message goes to a connection that is not filed yet, and nothing
is filed again or given a message after it was closed.

### RollLog

Every system call of `LogData` and `dupFile` is a step of the calling goroutine.
A file is a number, the order of its creation; `named` maps names to files, so that a
goroutine writes to the file it opened whatever its name is by then. `Stop`
ends the process (from outside, or by `log.Fatal` when a directory is missing) and
starts it again on the same directory. `old` and `broken` are history variables:
files dropped as last backups, and whether rotations overlapped or were cut short.
A path that begins with `/` has an empty first component, which can never be
found or created: the model's `DirMissing` that creates nothing.
The line format is left out.

### Logger

The front of `RollLog`: `ptrLogArray[x][k]` is the number of the `Load` that made
entry `k` of the `x`-th logger, so that mixed configurations are visible, and 0
for nil. `Instance` is three steps, its unlocked test (`Find`), its store (`New`)
and its last read (`Return`), which the compiler may merge with the first: both
outcomes are in the model. `Load` reads the file in one step, since nothing
shared changes before the loop, and then sets one entry per step. What a
configuration file makes `getTagData` and `createFilelogger` do is all that is
kept of it; the two panics are those the code has, on `filesize=""` and on a path
without a directory. `early`, `raced` and `overlapped` are history variables: the
logger was shared or used before some `Load` returned, two goroutines found no
logger at once, two `Load`s of one logger overlapped. `Reload` and `Destory` have
empty bodies and `Close` only calls the latter, so neither is a step. The log level
is parsed and never looked at; all `LogSys*` methods pass `LOGGER_DEBUG`.

### NetServer

An ini file is a function from the options it has to numbers, of any size, or
`NotANumber`. `LoadFile` tests each option before the assignment that follows (`TestOf`)
and reads `max_accpet_nums` where it tests `max_accept_nums` (`OptionOf`); `Number` is
`Atoi` with its error ignored: 0 for what is missing or no number, the nearest int for a
number that no int holds (`Clamp`). Ints end at `MaxInt`, and the timeout in nanoseconds
wraps (`Timeout`).

`Start` is three actions: the call, the copy of each field (`Copy`; goroutines that read
the one copy without a lock may see the fields in any order) and `net.Listen`, which may
fail. Nothing keeps the application from calling it again, with another `Config`, while
the first listener works or after it is gone; each call that succeeds has a listener and a
queue of its own (`listener[n]`, `backlog[n]`). One goroutine of the application calls
`Start`, `LoadFile` and the setters. `createNetClient` reads the copy through a pointer,
field by field (`Read`), and `Begin` is the start of `recvRountine`. Their two `make`s
panic on a size that is negative or too large (`CannotMake`); the limits of the two are
constants. A size that `make` accepts and the machine has no memory for is left out. What
follows is `NetClient`, seen here only as `End`. `OnNetAccpet` is the wait in `"asking"`,
which nothing forces to end. `max_accpet_nums`, which `Start` copies too, is never looked
at afterwards, so its copy is not in the model.

`published`, `wrong` and `raced` are history variables: the numbers `Start` was called
with, the fields that were given a number `make` rejects, and the connections whose
netClient was being made while a `Start` was copying.

### NetClient, Connection

The bytes of a connection are numbered, `packet_buf` is a sequence of numbers,
and `ends` says where the peer's packets end, so a wrong offset is visible.
The two goroutines, the deferred functions and callers waiting in `Close` are
explicit. The handler either returns or calls `Close` and returns
(`Login.OnNetRecv`). A panic in the handler, which `Login.OnNetRecv` has for an empty
packet and for a header that claims more than the packet holds, ends the process and is
left out. Connections share nothing, so one is enough. `timer.go` is
left out, nothing uses it. So is a capacity of 0 of `io_chan`, which `NetServer`
allows: a `Send` would then wait for `sendRoutine` instead of leaving a packet.

`Connection` is what an `INetFunc` may rely on: whole packets in order, then
`OnNetErr`, once or twice, and nothing more. It has no buffer and no second
goroutine. `NetClient` implements it with `got = taken`, `told = errs`.

## 3. Runs

| run | checks |
|---|---|
| `event_route` | safety of the router: 3 requests, 2 routes, channels of 1, limits 1/2/3 |
| `event_route_wait` | finding: a wait shorter than `wait_time` |
| `http_server` | 2 requests on 1 route, with fairness: responses are whole, statuses true, every request is answered, every event leaves the router, `Dispatch` is implemented |
| `conns_stub` | 2 callers, a pool of 1 stub that grows to 2, 3 calls, buffer of 3 cells, bodies of 1 and 5: safety of the pool and of the stubs, termination of `Invoke` |
| `conn_pool` | 2 addresses, 1 connection, 2 alarm rounds, 3 calls |
| `conn_pool_two` | 1 address, 2 connections, 1 round, 3 calls, with a fair hub: the index, the ends of connections, `ClientPool` is implemented |
| `conn_pool_close` | finding: the hub hangs in `Close` |
| `roll_log` | 2 goroutines, 2 backups, 5 files, 1 stop |
| `logger` | 3 goroutines, 2 loads, files in order, incomplete, or making the parser panic |
| `net_client` | buffer of 3, 6 bytes, 2 callers of `Close`, with fairness: the stream, `Connection`, and how both goroutines end |
| `net_client_full` | finding: the test for a full buffer |
| `net_server` | 2 connections, 2 calls of `Start`, 2 changes of the `Config`: three files (with a number no int holds; misspelt and with one that is no number; ending half-way, with a timeout that wraps) and a negative setting, with fairness |

### Why the bounds are enough to see the interesting cases

- Router: three requests on a channel of one give one handled, one queued and
  one refused; the limits 1 < 2 < 3 are in the order of the configured 200, 500
  and 1000 ms. Two requests can contend in the same way for one worker. The
  theorems hold for all sizes.
- Stubs: `min_stub_nums = 1` and `max_stub_nums = 3` let the pool grow once, to the 2
  stubs it stops at, and two callers empty it. A response of the short body is 2
  cells, so it can be read in two pieces, or with the beginning of the next; the long
  one does not fit the length field. -3 and 2 as body values give, out of step,
  a negative length and a plausible one. Three calls allow a failure, an answer
  that is not one's own, and its consequence. The safety properties are
  theorems for all of these.
- Connection pool: two addresses are needed for a connection to be filed
  under the wrong one; channels of one make the full cases occur early. TLC was
  used to confirm that a panic, a wrong filing, a dropped CLOSE and a hanging hub are all
  reached within these bounds. `conn_pool` has one connection, so that the part of
  `OnePlace` that compares two, that the hub lets go of one at most, says nothing there;
  it is the theorem `ConnsInOnePlace` that shows it, for any number.
- Logger: two backups make a chain with a middle; five files let both be dropped.
- Shared logger: three goroutines, of which two can be in `Instance` while the third
  loads or logs; two loads can overlap or follow each other.
- Server: two connections, one being asked about or made while the other is queued, on
  the same listener or on two; a `Config` changed before, between and after two calls of
  `Start`; ints up to 7, with which sizes of 0, -1, 1, 2 and 7, channels of up to 3
  and buffers of up to 5 give a crash of each kind, connections cut at once, and a
  timeout that comes out negative.
- TCP: two buffers' worth of bytes force a compaction, with packets of every length
  up to more than the buffer.

`CHECK_DEADLOCK FALSE` is set where the system does stop: at a bound on calls,
bytes, files or lines, after a panic, or when a goroutine waits for ever.

### Fairness

- Router: weak fairness of the clock, of a submitter in a select, and of each
  worker. Goroutines are scheduled, timers fire, and handlers return; nobody need
  call. A handler that never returns would block its route in the code as well.
- HTTP: also of each `ServeHTTP` goroutine.
- Stubs: of a call in progress. Every dial, write and read has a deadline.
  The server need not answer.
- Connection pool: of the hub only. Writes of `cConn.run` have no deadline,
  and neither users nor the alarm owe anything.
- TCP: of `recvRountine` when it is not waiting in `Read` on an open socket (its
  deadline is not relied on), of the handler, of `sendRoutine` in its select,
  and of a write on a closed socket.
- Server: of `Accept` in each listening goroutine, while its listener is open.
  `OnNetAccpet` need not return, which is the point of `NotHeldUp`.

## 4. Findings

1. `sdk/event_route/event_route.go:92`: both timer goroutines send on one
   channel, so an unanswered request that was posted at once is given up after
   `pending_time` (200 ms), not `wait_time` (500 ms), as
   `sdk/http_base/http_server.go:127` says. (`WaitsItsTime`)
2. `sdk/conn_pool/async_conns2.go:50`: `Close` blocks the hub for ever; line 197
   says it returns at once. (`CloseReturns`)
3. `sdk/net_server.bak/net_client.go:110`: the test for a full buffer compares
   the wrong offset. (`CutWhenFull`)

Met while modelling, and stated as what does hold rather than as a run: the stub
pool stops `min_stub_nums` short of its maximum (`Ceiling`); a stub whose call
failed is out of step for its next user, and a body of 2^16 - 2 bytes or more
puts it out of step without any failure, because its length wraps to that of a shorter
packet (`OnlyFailuresDesync` and its precondition `NoLengthWraps`, which the run's lengths
meet; without it and with `BodyLens = {1, 10}` TLC finds such a call); `waitRes`
discards what it has just moved to the front of its buffer; a request answered in
time leaves two goroutines asleep that then block for ever (`AlarmsLeftBehind`);
the hub can panic after a misfiled connection ends (`PanicNeedsMisfiled`); goroutines
that make the logger at the same time may end up with two (`OneLogger`).

Seen while reading, with no property of their own because each is one
assignment: `SetLocation` (`sdk/http_base/http_data.go:63`) assigns its parameter to
itself, so no handler can redirect; `LogAccFatal` (`sdk/logger/logger.go:344`)
writes to the APP file; `InvokePb` (`sdk/stub/conns_stub.go:223`) overwrites `Invoke`'s
error; an error of `Accept` (`sdk/net_server.bak/net_server.go:103`) ends the
listener for good while `Start` has said true; `main` of `login_server` returns, and
so ends the process, as soon as `Start` has.

## 5. Proofs

Assumptions: only those on the constants that the modules name (`...Assumption`). They
give the constants their types, exclude a buffer of length 0, and say that the goroutines
that write to one log are finitely many, so that they can be counted.

**EventRouteProofs.** `OkMeansComplete`, `RefusedNeverRuns`, `RouteExclusive`,
`SignalNeverBlocks`, `AlarmsLeftBehind`, `NeverHasty`, type correctness, and
`Spec => Dispatch!Spec`. None of these is inductive: that an answer "ok" implies
a finished handler rests on a token being in the channel only then, this on what
the worker holds, and this on what was in the queue. `IInv` states all of that:
`CallerInv` ties a submitter's position to its answer and alarms; `ClockInv` says a
sleeping goroutine and the age of its request add up; `QueueInv` and `NoTwice`
say the queues hold untouched events of their own route, once each; `JobInv`
says how far a held event is; `EffectInv` accounts for every effect and token.
`CallerStep`, `ClockStep`, `JobStep` and `QueueStep` each preserve a part, with one
step per action; `UntouchedStep` carries an untouched event over every step but
the one that takes it. The refinement maps `index`, `effect` and `answer` by name:
`Call`, `StartHandle`, `FinishHandle` and the four ways to return are steps of
`Dispatch`, everything else stutters.

**HttpServerProofs.** `NoTornResponse`, `StatusIsTrue`, types, and that the router
keeps `IInv` and implements `Dispatch` under the front end: every step of
`HttpNext` is a step of `EventRoute!Next` or leaves `vars` alone, so the router's
lemmas are cited, not repeated. On top of `IInv` the front end needs
`ServeInv`, which ties where a connection is to what `SyncHandle` answered and to
the status sent, and `BodyInv`, that a body is sent only if the handler set one.

**ConnsStubProofs.** Of the pool: `OneHolder`, `Counted`, `Ceiling`, `NilMeansEmpty` and
types, of `StubPool` alone and, since `StubSpec => Spec`, of the stubs that use it.
The invariant is `TypeOK /\ OneHolder /\ Counted /\ Ceiling`; the lemmas on `Lists` say
what appending and removing do to a list that has each element of a set once;
`StockFacts` shows by counting that `Get` creates stubs only when all are lent, so
that growth can happen only from `made = min_stub_nums`.
Of the stubs: `OnlyFailuresDesync`, `InOrder`, `PanicNeedsCause` and types, for any number
of callers and calls, buffer, width of the length field and lengths of bodies. The
first two are about results only and say nothing of what is still to come, so
`StubIInv` follows a request through the stub. `CallerInv` and `RequestInv` say that
a caller uses the one stub it holds and that its request is the last of that stub.
`OrderInv` puts in one line, in the order of the requests, what a stub has
delivered, the responses that begin in its buffer, those under way, and what the server
owes: writing appends to the line, serving and reading move along it, `Close` and
a full buffer cut pieces out, and nothing can turn it round, which is `InOrder`.
`CleanInv` is needed for the other two: where no length wraps, a stub none of whose
calls has failed is silent between calls, and during one is owed its response or holds,
in buffer and connection together, exactly that response, so that what `waitRes` cuts
out is all of it (`CleanPacket`) or has a length that comes out negative (`LengthRead`).
The lemmas `Line...` say what each operation does to the line, `EndCalls` what it
takes for a call to end, and each action has a lemma (`...Step`).

**RollLogProofs.** `BackupsInOrder` and `OnlyOldestLost`, for any number of
goroutines and backups. The order needs no more than that files are made in
order (`MadeInv`) and that every rename moves a file one name up (`LoopInv`), which
is why overlapping rotations cannot break it. `OnlyOldestLost` needs, until
rotations overlap or are cut short, that the name a rename takes is free
(`RotationInv`), so that nothing is overwritten. `BoundedFile` and `KeepsEnough` count the
elements of sets. For the first, `SizeInv` says what a file over the limit still has coming:
it and the goroutines that may write to it without looking at its size again
(`Committed`) are together within the bound. A goroutine joins them by finding the
file within the limit, or while the file has no name and is thus nobody's; one that
rotates counts as one of those who write to the next file, since it will not look again.
For the second, `ChainInv`: until rotations overlap or are cut short, a free number that is not
the one the rotation under way fills next ends the chain, and nothing has been dropped
before the chain was full.

**LoggerProofs.** `SafeAfterLoad`, `OneLogger`, `OneConfig`. `PlaceInv` says where a
goroutine can be; `RaceInv`, that until two have found none one goroutine at most is
making the logger; `LoadedInv`, that in a process that is not early one goroutine
has it until a `Load` has returned, after which no entry is nil; `ConfigInv`, that
what a `Load` has set is its own and what it has not set yet is of one `Load`.

**NetClientProofs.** `StreamInStep` and `Spec => Connection!Spec`. `EndInv` says that
the socket is closed before the deferred function calls `OnNetErr`, and that no
goroutine parses after it; the refinement rests on it and on `StreamInStep`: the next
packet that the parser finds ends at the next element of `ends`.

**ConnPoolProofs.** `OnePlace`, `ShutOnce`, `IndexSound`, `PanicNeedsMisfiled`, types and
`Spec => ClientPool!Spec`, for any number of addresses, connections, rounds and events in flight. The
invariant follows a connection from the goroutine that made it to its closing:
`DialerInv` and `EventInv` say what an `AF` event may claim, and that only a round
of `doAlramConns` can make its address false; `FreshInv`, that a connection nobody
has filed is with one goroutine or in one event and has been sent nothing, so that
its goroutine cannot end before the hub knows it; `FiledInv`, that it is then in one
list, once; `EndInv`, that `CLOSE` is posted once and that the hub that takes it
leaves the connection, if anywhere, in a list that is not its own; `IndexInv`, that the
index holds filed connections only. The panic needs `EndInv`: a connection that has been
shut and is still filed is misfiled. Two facts come on top. `LetGoInv`, that a hub lets go
of one connection at most (no other goroutine can, `OthersKeepLetGo`, and the hub hangs
as soon as it has), completes `OnePlace`. `MissInv`, that a filed connection missing from
the index shares its id with another, completes `IndexSound`: `doCloseConns` clears the
entry of an id, but the connection it closes was made with that id.
`QuietStep` covers the sixteen actions that leave every connection where it is;
`Dialed`, `DialerPosts`, `DoAfterConns`, `PostClose` and `DoCloseConns` have a lemma
each. The lemmas `RotateHas`, `AppendHas` and `RemoveHas` say what happens to the
elements of a list that is rotated, appended to or loses an element.
The refinement has a lemma per kind of step (`...Refines`), on `StageFacts`, which says what
each stage means. It needs one fact that `IInv` does not give, `IdleInv`: a hub that
hangs in `Close` has let go of a connection that is neither fresh nor filed, and that one too
must have been given nothing, or it could end without having been pooled.

**NetServerProofs.** `ConfigOfAStart` and `CrashNeedsWrong`, for any connections, files,
settings, calls of `Start` and limits of int and `make`. `CopyInv` says that the `Config`
stays while `Start` copies it, so that what has been copied is what was published, and
that between two calls the copy is one of those published; `ListenInv`, that nobody
connects before the first copy is complete, after which each field of the copy, also half-way
through the next, was published; `ReadInv`, that what a goroutine has read of the copy was
published, and that without a race it is still what is there, hence of one call. For the
crash, `WrongInv`: a number that `make` rejects, in the `Config` or published, has been given
for its field, since the 0 that stands in for what cannot be read is not rejected and a
number that `Atoi` clamps was out of range itself.

**Only model-checked:** liveness (`EveryRequestAnswered`, `QueueDrains`,
`InvokeReturns`, `EndIsHandled`, `EndReported`, `SenderEnds`, `NotHeldUp`), which is
out of the prover's reach. Every invariant, action property and refinement that a passing
run checks is a theorem.

## 6. Order of work

1. `Dispatch`, `EventRoute`, `HttpServer`: the path of every request.
2. `StubPool`, `ConnsStub`: calls to other services.
3. `ClientPool`, `ConnPool`. 4. `RollLog`, `Logger`. 5. `Connection`, `NetClient`, `NetServer`.

Every component whose behaviour the source defines and that keeps state has a module.

Not modelled, and why: `login_Event` of the login server can never run (`main` does not call
`InitParms`, which would register it, and which writes to a map that is nil);
`sdk/net_server`, `sdk/net_conns` use names that do not exist, so there is no behaviour to be
faithful to (the one decision of `sdk/net_server` that matters, to call `OnNetAccpet`
in the accept loop, is a mutant of `NetServer`); `InvokePb` and the setters of the stub,
headers and cookies of a response, the line format of the log, and `timer.go` keep no
state that a property here depends on. That nothing limits the number of
connections (`max_accpet_nums` is read and not used) has no state to be stated about.
