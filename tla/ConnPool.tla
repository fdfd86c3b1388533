------------------------------ MODULE ConnPool ------------------------------
(***************************************************************************)
(* sdk/conn_pool: cConnPool and cConn.                                     *)
(*                                                                         *)
(* One goroutine, connHub, owns the pool's two maps and handles the events *)
(* of hub_chann in order.  Users post ADD, RM, SEND and SEND2 events;      *)
(* dialing goroutines post AF ("connected") events; the goroutine of a     *)
(* connection (cConn.run) posts CLOSE when it ends; an alarm goroutine     *)
(* posts ALRAM, on which the hub sends heart-beats and starts goroutines   *)
(* that reconnect the addresses short of connections.                      *)
(*                                                                         *)
(* The goroutines doAlramConns starts read its loop variables k and v when *)
(* they run, not when they are started: all the goroutines of one round    *)
(* see the address the loop has reached (Go before 1.22).                  *)
(*                                                                         *)
(* cConn.run writes what is in send_chann, then sends on an unbuffered     *)
(* channel only it knows (line 113): it goes no further, so the lines that *)
(* take the close signal and that read packets are never reached.          *)
(***************************************************************************)
EXTENDS Integers, Sequences

CONSTANTS
  Addrs,      \* addresses of remote servers
  NoAddr,     \* no address yet
  Conns_nums, \* connections wanted per address
  Heart_bit,  \* whether the pool is configured to send heart-beats
  HubCap,     \* capacity of hub_chann (1024 in the code)
  SendCap,    \* capacity of a send_chann (1024 in the code)
  MaxConns,   \* bound: connections made in a behaviour
  MaxRounds,  \* bound: ALRAM events handled in a behaviour
  MaxCalls    \* bound: calls of AddConns, RmConns, Send and Send2

ASSUME ConnPoolAssumption ==
  /\ NoAddr \notin Addrs
  /\ Conns_nums \in Nat
  /\ Heart_bit \in BOOLEAN
  /\ HubCap \in Nat \ {0}
  /\ SendCap \in Nat \ {0}
  /\ MaxConns \in Nat
  /\ MaxRounds \in Nat
  /\ MaxCalls \in Nat

Conns == 1 .. MaxConns
NoConn == 0
MaxId == MaxCalls + MaxConns
Ids == 1 .. MaxId

VARIABLES
  hub,          \* what connHub is doing
  todo,         \* addresses the loop of doAlramConns has not reached
  hub_chann,    \* events posted and not handled
  conns_map,    \* conns_map[a]: the connections filed under address a
  known,        \* the keys of conns_map
  conns_id_map, \* conns_id_map[i]: the connection filed under connect_id i
  auto_incs,    \* connect_ids given
  loopAddr,     \* loopAddr[n]: variable k of the n-th doAlramConns
  unlinked,     \* the rounds whose list v is no longer in conns_map
  asleep,       \* an alarm goroutine is sleeping or posting
  dialers,      \* the dialing goroutines
  run,          \* run[c]: where cConn.run of c is
  remote_addr,  \* remote_addr[c]
  connect_id,   \* connect_id[c]
  send_chann,   \* send_chann[c]: messages in c's channel
  shut,         \* shut[c]: c's send_chann has been closed
  calls         \* calls made by users

hubVars == <<hub, todo, conns_map, known, conns_id_map, loopAddr, unlinked>>
connVars == <<run, remote_addr, connect_id, send_chann, shut>>
vars == <<hubVars, hub_chann, auto_incs, asleep, dialers, connVars, calls>>

Event(type, addr, conn, id) == [type |-> type, addr |-> addr, conn |-> conn, id |-> id]
UserEvents ==
  {Event(t, a, NoConn, 0) : t \in {"add", "rm", "send"}, a \in Addrs}
    \cup {Event("send2", NoAddr, NoConn, i) : i \in {j \in Ids : conns_id_map[j] # NoConn}}
Made == {c \in Conns : run[c] # "none"}
Filed(c, a) == \E n \in 1 .. Len(conns_map[a]) : conns_map[a][n] = c

Types == {"none", "add", "rm", "send", "send2", "alram", "af", "close"}
Events == [type : Types, addr : Addrs \cup {NoAddr}, conn : Conns \cup {NoConn}, id : Ids \cup {0}]
Goroutines ==
  [round : Nat, addr : Addrs, id : Nat, at : {"start", "next", "dialing", "posting"},
   i : Nat, target : Addrs \cup {NoAddr}, event : Events]

TypeOK ==
  /\ hub \in {"idle", "alram", "closing", "panic"}
  /\ todo \subseteq Addrs
  /\ hub_chann \in Seq(Events)
  /\ Len(hub_chann) <= HubCap
  /\ conns_map \in [Addrs -> Seq(Conns)]
  /\ known \subseteq Addrs
  /\ conns_id_map \in [Ids -> Conns \cup {NoConn}]
  /\ auto_incs \in Nat
  /\ loopAddr \in Seq(Addrs \cup {NoAddr})
  /\ unlinked \subseteq Nat
  /\ asleep \in BOOLEAN
  /\ dialers \subseteq Goroutines
  /\ run \in [Conns -> {"none", "draining", "stuck", "ending", "ended", "dropped"}]
  /\ remote_addr \in [Conns -> Addrs \cup {NoAddr}]
  /\ connect_id \in [Conns -> Ids \cup {0}]
  /\ send_chann \in [Conns -> 0 .. SendCap]
  /\ shut \in [Conns -> BOOLEAN]
  /\ calls \in 0 .. MaxCalls

\* NewConnPool; connHub has called alram.
Init ==
  /\ hub = "idle"
  /\ todo = {}
  /\ hub_chann = <<>>
  /\ conns_map = [a \in Addrs |-> <<>>]
  /\ known = {}
  /\ conns_id_map = [i \in Ids |-> NoConn]
  /\ auto_incs = 0
  /\ loopAddr = <<>>
  /\ unlinked = {}
  /\ asleep = TRUE
  /\ dialers = {}
  /\ run = [c \in Conns |-> "none"]
  /\ remote_addr = [c \in Conns |-> NoAddr]
  /\ connect_id = [c \in Conns |-> 0]
  /\ send_chann = [c \in Conns |-> 0]
  /\ shut = [c \in Conns |-> FALSE]
  /\ calls = 0

-----------------------------------------------------------------------------
(* Posting events.                                                         *)

PostEvent(e) ==
  /\ Len(hub_chann) < HubCap
  /\ hub_chann' = Append(hub_chann, e)

\* AddConns, RmConns, Send or Send2 (with a connect_id in use).  A call that
\* finds hub_chann full for ten seconds drops its event, which leaves no trace.
UserCall ==
  /\ calls < MaxCalls
  /\ calls' = calls + 1
  /\ \E e \in UserEvents : PostEvent(e)
  /\ UNCHANGED <<hubVars, auto_incs, asleep, dialers, connVars>>

\* The goroutine started by alram has slept Alram_time; sendEvent with
\* BIG_LONG_TIME (eight years) posts.
AlarmRings ==
  /\ asleep
  /\ Len(loopAddr) < MaxRounds
  /\ PostEvent(Event("alram", NoAddr, NoConn, 0))
  /\ asleep' = FALSE
  /\ UNCHANGED <<hubVars, auto_incs, dialers, connVars, calls>>

-----------------------------------------------------------------------------
(* connHub: one action per event.                                          *)

Take(type) ==
  /\ hub = "idle"
  /\ hub_chann # <<>>
  /\ Head(hub_chann).type = type
  /\ hub_chann' = Tail(hub_chann)

\* A dialing goroutine, named by its connect_id when doAddConns started it
\* (round 0), else by the round of doAlramConns and the address that was short.
\* Its target and event are set when it dials and when it has a connection.
NoEvent == Event("none", NoAddr, NoConn, 0)
Dialer(round, addr, id) ==
  [round |-> round, addr |-> addr, id |-> id, at |-> "start", i |-> 0,
   target |-> NoAddr, event |-> NoEvent]

\* doAddConns; its goroutine takes one connect_id for all its connections.
DoAddConns ==
  LET a == Head(hub_chann).addr
  IN  /\ Take("add")
      /\ known' = known \cup {a}
      /\ IF a \in known
         THEN UNCHANGED <<dialers, auto_incs>>
         ELSE /\ dialers' = dialers \cup {Dialer(0, a, auto_incs + 1)}
              /\ auto_incs' = auto_incs + 1
      /\ UNCHANGED <<hub, todo, conns_map, conns_id_map, loopAddr, unlinked, asleep, connVars, calls>>

\* Mutant: Close does not wait.
CloseAsync(c) == UNCHANGED hub

\* cConn.Close: close_chann is unbuffered and cConn.run never receives from it.
CloseConn(c) == hub' = "closing"

DoRmConns ==
  LET a == Head(hub_chann).addr
  IN  /\ Take("rm")
      /\ IF conns_map[a] # <<>>
         THEN CloseConn(Head(conns_map[a])) /\ UNCHANGED <<known, unlinked>>
         ELSE /\ known' = known \ {a}
              /\ unlinked' = unlinked \cup {n \in 1 .. Len(loopAddr) : loopAddr[n] = a}
              /\ UNCHANGED hub
      /\ UNCHANGED <<todo, conns_map, conns_id_map, loopAddr,
                     auto_incs, asleep, dialers, connVars, calls>>

\* Mutant: the capacity of send_chann is not looked at.
AlwaysRoom(c) == TRUE

HasRoom(c) == send_chann[c] < SendCap

\* Mutant: Send has no time limit.
SendOrWait(cs) ==
  IF \E c \in cs : shut[c]
  THEN hub' = "panic" /\ UNCHANGED send_chann
  ELSE /\ \A c \in cs : HasRoom(c)
       /\ send_chann' = [c \in Conns |-> IF c \in cs THEN send_chann[c] + 1 ELSE send_chann[c]]
       /\ UNCHANGED hub

\* cConn.Send to every connection of cs: a panic if one has been shut; a full
\* channel drops the message after ten seconds.
SendAll(cs) ==
  IF \E c \in cs : shut[c]
  THEN hub' = "panic" /\ UNCHANGED send_chann
  ELSE /\ send_chann' = [c \in Conns |->
            IF c \in cs /\ HasRoom(c) THEN send_chann[c] + 1 ELSE send_chann[c]]
       /\ UNCHANGED hub

\* The lists doSendData may use for address a: its own, or, when that one is
\* empty, any other that is not.
Usable(a) ==
  IF conns_map[a] # <<>> THEN {a} ELSE {b \in known : conns_map[b] # <<>>}

DoSendData ==
  LET a == Head(hub_chann).addr
  IN  /\ Take("send")
      /\ IF a \in known /\ Usable(a) # {}
         THEN \E b \in Usable(a) :
                /\ SendAll({Head(conns_map[b])})
                /\ conns_map' = [conns_map EXCEPT ![b] = Append(Tail(@), Head(@))]
         ELSE UNCHANGED <<hub, send_chann, conns_map>>
      /\ UNCHANGED <<todo, known, conns_id_map, loopAddr, unlinked,
                     auto_incs, asleep, dialers, run, remote_addr, connect_id, shut, calls>>

DoSendData2 ==
  LET c == conns_id_map[Head(hub_chann).id]
  IN  /\ Take("send2")
      /\ SendAll({c} \ {NoConn})
      /\ UNCHANGED <<todo, conns_map, known, conns_id_map, loopAddr, unlinked,
                     auto_incs, asleep, dialers, run, remote_addr, connect_id, shut, calls>>

DoAfterConns ==
  LET e == Head(hub_chann)
  IN  /\ Take("af")
      /\ IF e.addr \in known
         THEN /\ conns_map' = [conns_map EXCEPT ![e.addr] = Append(@, e.conn)]
              /\ conns_id_map' = [conns_id_map EXCEPT ![e.id] = e.conn]
              /\ UNCHANGED hub
         ELSE CloseConn(e.conn) /\ UNCHANGED <<conns_map, conns_id_map>>
      /\ UNCHANGED <<todo, known, loopAddr, unlinked, auto_incs, asleep, dialers, connVars, calls>>

\* Mutant: the connection stays in the list.
KeepListed(c, a) == UNCHANGED conns_map

\* The first element that is c is removed.
Unlist(c, a) ==
  \E n \in 1 .. Len(conns_map[a]) :
    /\ conns_map[a][n] = c
    /\ \A m \in 1 .. n - 1 : conns_map[a][m] # c
    /\ conns_map' = [conns_map EXCEPT ![a] = SubSeq(@, 1, n - 1) \o SubSeq(@, n + 1, Len(@))]

\* Mutant: the connection stays in conns_id_map.
KeepIndexed(c) == UNCHANGED conns_id_map

Unindex(c) == conns_id_map' = [conns_id_map EXCEPT ![connect_id[c]] = NoConn]

\* The connection leaves the list of its own address, and whoever is indexed
\* by its connect_id leaves conns_id_map.
DoCloseConns ==
  LET e == Head(hub_chann)
      a == remote_addr[e.conn]
  IN  /\ Take("close")
      /\ IF a \in known /\ Filed(e.conn, a)
         THEN Unlist(e.conn, a) /\ Unindex(e.conn)
         ELSE UNCHANGED <<conns_map, conns_id_map>>
      /\ shut' = [shut EXCEPT ![e.conn] = TRUE]
      /\ send_chann' = [send_chann EXCEPT ![e.conn] = 0]
      /\ UNCHANGED <<hub, todo, known, loopAddr, unlinked,
                     auto_incs, asleep, dialers, run, remote_addr, connect_id, calls>>

\* doAlramConns begins its loop over conns_map.
DoAlramConns ==
  /\ Take("alram")
  /\ hub' = "alram"
  /\ todo' = known
  /\ loopAddr' = Append(loopAddr, NoAddr)
  /\ UNCHANGED <<conns_map, known, conns_id_map, unlinked, auto_incs, asleep, dialers, connVars, calls>>

\* One iteration: heart-beats, and a goroutine if connections are missing.
AlramLoop ==
  /\ hub = "alram"
  /\ \E k \in todo :
       /\ todo' = todo \ {k}
       /\ loopAddr' = [loopAddr EXCEPT ![Len(loopAddr)] = k]
       /\ SendAll({c \in Conns : Heart_bit /\ Filed(c, k)})
       /\ dialers' = IF hub' # "panic" /\ Len(conns_map[k]) < Conns_nums
                     THEN dialers \cup {Dialer(Len(loopAddr), k, 0)}
                     ELSE dialers
  /\ UNCHANGED <<conns_map, known, conns_id_map, unlinked, hub_chann,
                 auto_incs, asleep, run, remote_addr, connect_id, shut, calls>>

\* The loop is over: alram starts the next sleep.
AlramEnd ==
  /\ hub = "alram"
  /\ todo = {}
  /\ hub' = "idle"
  /\ asleep' = TRUE
  /\ UNCHANGED <<todo, conns_map, known, conns_id_map, loopAddr, unlinked, hub_chann,
                 auto_incs, dialers, connVars, calls>>

-----------------------------------------------------------------------------
(* The dialing goroutines.                                                 *)

Become(d, e) == dialers' = (dialers \ {d}) \cup {e}

\* The address goroutine d works for, read now.
AddrOf(d) == IF d.round = 0 THEN d.addr ELSE loopAddr[d.round]

\* Goroutine d goes on with the i-th iteration, or returns.
Loop(d, i) ==
  IF i < Conns_nums
  THEN Become(d, [d EXCEPT !.at = "next", !.i = i, !.target = NoAddr, !.event = NoEvent])
  ELSE dialers' = dialers \ {d}

\* The index a goroutine starts from: 0 in doAddConns, the length of list v in
\* doAlramConns (a list that left conns_map was empty and stays so).
FirstIndex(d) ==
  IF d.round = 0 \/ d.round \in unlinked THEN 0 ELSE Len(conns_map[AddrOf(d)])

\* createConn is called and net.DialTimeout begins, or nothing is missing.
Dial(d) ==
  LET i == IF d.at = "next" THEN d.i ELSE FirstIndex(d)
  IN  /\ d.at \in {"start", "next"}
      /\ IF i < Conns_nums
         THEN Become(d, [d EXCEPT !.at = "dialing", !.i = i, !.target = AddrOf(d)])
         ELSE dialers' = dialers \ {d}
      /\ UNCHANGED <<hubVars, hub_chann, auto_incs, asleep, connVars, calls>>

\* createConn returns a connection, whose goroutine runs from now on, and the
\* event for the hub is built.  Connections are numbered as they are made; a
\* connect_id of doAlramConns is counted when it is first used.
Dialed(d) ==
  /\ d.at = "dialing"
  /\ \E c \in Conns, id \in Ids :
       /\ run[c] = "none"
       /\ \A b \in Conns : b < c => run[b] # "none"
       /\ id = (IF d.round = 0 THEN d.id ELSE auto_incs + 1)
       /\ auto_incs' = IF d.round = 0 THEN auto_incs ELSE id
       /\ run' = [run EXCEPT ![c] = "draining"]
       /\ remote_addr' = [remote_addr EXCEPT ![c] = d.target]
       /\ connect_id' = [connect_id EXCEPT ![c] = id]
       /\ Become(d, [d EXCEPT !.at = "posting", !.event = Event("af", AddrOf(d), c, id)])
  /\ UNCHANGED <<hubVars, hub_chann, asleep, send_chann, shut, calls>>

\* createConn returns nil: doAddConns tries the next one, doAlramConns stops.
DialFails(d) ==
  /\ d.at = "dialing"
  /\ IF d.round = 0 THEN Loop(d, d.i + 1) ELSE dialers' = dialers \ {d}
  /\ UNCHANGED <<hubVars, hub_chann, auto_incs, asleep, connVars, calls>>

\* pool.hub_chann <- hub_event, for as long as it takes.
DialerPosts(d) ==
  /\ d.at = "posting"
  /\ PostEvent(d.event)
  /\ Loop(d, d.i + 1)
  /\ UNCHANGED <<hubVars, auto_incs, asleep, connVars, calls>>

-----------------------------------------------------------------------------
(* cConn.run                                                               *)

\* A message is taken from send_chann and written.
WriteOk(c) ==
  /\ run[c] = "draining"
  /\ send_chann[c] > 0
  /\ send_chann' = [send_chann EXCEPT ![c] = @ - 1]
  /\ UNCHANGED <<hubVars, hub_chann, auto_incs, asleep, dialers, run, remote_addr, connect_id, shut, calls>>

\* The write fails: the deferred function closes the socket and posts CLOSE.
WriteErr(c) ==
  /\ run[c] = "draining"
  /\ send_chann[c] > 0
  /\ send_chann' = [send_chann EXCEPT ![c] = @ - 1]
  /\ run' = [run EXCEPT ![c] = "ending"]
  /\ UNCHANGED <<hubVars, hub_chann, auto_incs, asleep, dialers, remote_addr, connect_id, shut, calls>>

\* The write fails with ETIMEDOUT, which counts as a timeout: run leaves its loop
\* for the lines after it, with what is left in send_chann.
WriteTimesOut(c) ==
  /\ run[c] = "draining"
  /\ send_chann[c] > 0
  /\ send_chann' = [send_chann EXCEPT ![c] = @ - 1]
  /\ run' = [run EXCEPT ![c] = "stuck"]
  /\ UNCHANGED <<hubVars, hub_chann, auto_incs, asleep, dialers, remote_addr, connect_id, shut, calls>>

\* Mutant: a connection with nothing to send ends.
EndIdle(c) ==
  /\ run[c] = "draining"
  /\ send_chann[c] = 0
  /\ run' = [run EXCEPT ![c] = "ending"]
  /\ UNCHANGED <<hubVars, hub_chann, auto_incs, asleep, dialers, remote_addr,
                 connect_id, send_chann, shut, calls>>

\* send_chann is empty: run reaches line 113 and stays there.
Stick(c) ==
  /\ run[c] = "draining"
  /\ send_chann[c] = 0
  /\ run' = [run EXCEPT ![c] = "stuck"]
  /\ UNCHANGED <<hubVars, hub_chann, auto_incs, asleep, dialers, remote_addr,
                 connect_id, send_chann, shut, calls>>

\* Mutant: run goes on after posting.
PostCloseAgain(c) ==
  /\ run[c] = "ending"
  /\ PostEvent(Event("close", remote_addr[c], c, 0))
  /\ UNCHANGED <<hubVars, auto_incs, asleep, dialers, connVars, calls>>

\* The deferred function of run posts CLOSE.
PostClose(c) ==
  /\ run[c] = "ending"
  /\ PostEvent(Event("close", remote_addr[c], c, 0))
  /\ run' = [run EXCEPT ![c] = "ended"]
  /\ UNCHANGED <<hubVars, auto_incs, asleep, dialers, remote_addr, connect_id, send_chann, shut, calls>>

\* sendEvent gives up after ten seconds: the hub never hears of the end of c.
CloseDropped(c) ==
  /\ run[c] = "ending"
  /\ Len(hub_chann) = HubCap
  /\ run' = [run EXCEPT ![c] = "dropped"]
  /\ UNCHANGED <<hubVars, hub_chann, auto_incs, asleep, dialers, remote_addr,
                 connect_id, send_chann, shut, calls>>
-----------------------------------------------------------------------------
HubStep ==
  \/ DoAddConns \/ DoRmConns \/ DoSendData \/ DoSendData2
  \/ DoAfterConns \/ DoCloseConns \/ DoAlramConns
  \/ AlramLoop \/ AlramEnd

DialerStep(d) == Dial(d) \/ Dialed(d) \/ DialFails(d) \/ DialerPosts(d)

Run(c) ==
  \/ WriteOk(c) \/ WriteErr(c) \/ WriteTimesOut(c) \/ Stick(c)
  \/ PostClose(c) \/ CloseDropped(c)

\* A panic of the hub ends the process.
Next ==
  /\ hub # "panic"
  /\ \/ UserCall
     \/ AlarmRings
     \/ HubStep
     \/ \E d \in dialers : DialerStep(d)
     \/ \E c \in Conns : Run(c)

Spec == Init /\ [][Next]_vars

\* The hub moves when it can.  Nothing is asked of users, of the alarm, of the
\* dialing goroutines, nor of connections, whose writes have no deadline.
Fairness == WF_vars(hub # "panic" /\ HubStep)

FairSpec == Spec /\ Fairness

-----------------------------------------------------------------------------
(* Properties.                                                             *)

Is(e, type, c) == e.type = type /\ e.conn = c
InFlight(c, type) == \E n \in 1 .. Len(hub_chann) : Is(hub_chann[n], type, c)
Once(c, type) ==
  \A m, n \in 1 .. Len(hub_chann) :
    Is(hub_chann[m], type, c) /\ Is(hub_chann[n], type, c) => m = n
Carried(c) == \E d \in dialers : d.event.conn = c

\* c is in one list at most, and once.
FiledOnce(c) ==
  \A a, b \in Addrs :
    \A m \in 1 .. Len(conns_map[a]), n \in 1 .. Len(conns_map[b]) :
      conns_map[a][m] = c /\ conns_map[b][n] = c => a = b /\ m = n

CarriedOnce(c) == \A d, e \in dialers : d.event.conn = c /\ e.event.conn = c => d = e
Listed(c) == \E a \in Addrs : Filed(c, a)

\* The hub has not heard of c yet; the hub has let go of c, and nobody will file it,
\* send to it or close it.
Fresh(c) == Carried(c) \/ InFlight(c, "af")
LetGo(c) == c \in Made /\ ~shut[c] /\ ~Fresh(c) /\ ~Listed(c)

\* A connection is in one place: with one dialing goroutine or in one AF event, and
\* then neither in a list nor closed; in one list, once; or closed, and then in a
\* list only if that is not the list of its own address, where doCloseConns looks.
\* It is in no place at all only when the hub hangs in Close, and there is one such
\* connection at most.
OnePlace ==
  /\ \A c \in Made :
       /\ CarriedOnce(c) /\ Once(c, "af") /\ ~(Carried(c) /\ InFlight(c, "af"))
       /\ FiledOnce(c)
       /\ Fresh(c) => ~Listed(c) /\ ~shut[c]
       /\ shut[c] => \A a \in Addrs : Filed(c, a) => remote_addr[c] # a
  /\ \A c, d \in Conns : LetGo(c) /\ LetGo(d) => c = d /\ hub = "closing"

\* Send2 finds, under a connect_id, only a connection made with that id that is
\* still in a list; and it misses one that is in a list and not closed only because
\* another connection was made with the same id.
IndexSound ==
  /\ \A i \in Ids : conns_id_map[i] # NoConn =>
       /\ connect_id[conns_id_map[i]] = i
       /\ Listed(conns_id_map[i])
  /\ \A c \in Made : Listed(c) /\ ~shut[c] /\ conns_id_map[connect_id[c]] # c =>
       \E d \in Made \ {c} : connect_id[d] = connect_id[c]

\* send_chann is closed once, when the goroutine that empties it is gone.
ShutOnce ==
  \A c \in Made :
    /\ shut[c] => run[c] = "ended" /\ ~InFlight(c, "close")
    /\ Once(c, "close")

\* The hub panics, sending on a closed channel, only when a connection has been
\* filed under an address that is not its own, where doCloseConns does not look;
\* that takes a doAlramConns whose goroutines saw its loop move on.
PanicNeedsMisfiled ==
  /\ hub = "panic" => \E c \in Made, a \in Addrs : Filed(c, a) /\ remote_addr[c] # a
  /\ \A c \in Made, a \in Addrs : Filed(c, a) /\ remote_addr[c] # a => loopAddr # <<>>

\* The hub hears of every connection that ends while it still serves, unless
\* hub_chann was full for ten seconds.
EndIsHandled ==
  \A c \in Conns : run[c] = "ended" ~> (shut[c] \/ hub \in {"closing", "panic"})

\* How far c has come: closed when the hub has closed its channel, ended when its
\* goroutine has left its loop by an error, pooled when the hub has filed it.
Stage(c) ==
  CASE run[c] = "none" -> "none"
    [] shut[c] -> "closed"
    [] ~shut[c] /\ run[c] \in {"ending", "ended", "dropped"} -> "ended"
    [] ~shut[c] /\ run[c] \in {"draining", "stuck"} ->
         IF \E a \in Addrs : Filed(c, a) THEN "pooled" ELSE "dialed"

PoolState == CASE hub = "closing" -> "hung" [] hub = "panic" -> "dead" [] OTHER -> "serving"

\* The pool is ClientPool: whatever order calls, dialing, alarms and the ends of
\* connections are handled in, a connection is not given a message before it is
\* filed or after its channel is closed, and its CLOSE never overtakes its AF.
Abstract == INSTANCE ClientPool WITH
  stage <- [c \in Conns |-> Stage(c)],
  load <- send_chann,
  pool <- PoolState

ImplementsClientPool == Abstract!Spec

\* The comment at async_conns2.go:197 says Close returns at once.
CloseReturns == hub = "closing" ~> hub # "closing"

-----------------------------------------------------------------------------
(* The inductive invariant.                                                *)

\* A goroutine has an event while it posts only; one of doAddConns dials its own
\* address, one of doAlramConns the address its loop has reached.
DialerInv ==
  /\ hub = "alram" => loopAddr # <<>>
  /\ \A d \in dialers :
       /\ d.round # 0 => d.round \in 1 .. Len(loopAddr) /\ loopAddr[d.round] \in Addrs
       /\ d.round = 0 /\ d.at = "dialing" => d.target = d.addr
       /\ IF d.at = "posting" THEN d.event.type = "af" ELSE d.event = NoEvent

\* The event of a new connection tells the truth about it, but for its address
\* once there has been a round of doAlramConns.
Truthful(e) ==
  /\ e.conn \in Made
  /\ e.id \in Ids
  /\ connect_id[e.conn] = e.id
  /\ e.addr # remote_addr[e.conn] => loopAddr # <<>>

EventInv ==
  /\ \A d \in dialers : d.at = "posting" => Truthful(d.event)
  /\ \A n \in 1 .. Len(hub_chann) :
       LET e == hub_chann[n]
       IN  /\ e.type = "af" => Truthful(e)
           /\ e.type = "close" => e.conn \in Conns
           /\ e.type = "add" => e.addr \in Addrs
           /\ e.type = "rm" => e.addr \in Addrs
           /\ e.type = "send2" => e.id \in Ids

\* A connection nobody has filed yet is with one goroutine or in one event, and
\* has been sent nothing.
FreshInv ==
  \A c \in Conns :
    /\ CarriedOnce(c)
    /\ Once(c, "af")
    /\ ~(Carried(c) /\ InFlight(c, "af"))
    /\ Fresh(c) =>
         /\ \A a \in Addrs : ~Filed(c, a)
         /\ run[c] \in {"draining", "stuck"}
         /\ send_chann[c] = 0
         /\ ~shut[c]

\* The lists: connections that exist, each once, under addresses that are known.
FiledInv ==
  /\ \A a \in Addrs : a \notin known => conns_map[a] = <<>>
  /\ \A c \in Conns, a \in Addrs : Filed(c, a) => run[c] # "none"
  /\ \A c \in Conns : FiledOnce(c)
  /\ \A c \in Made : hub # "closing" =>
       shut[c] \/ Fresh(c) \/ \E a \in Addrs : Filed(c, a)

\* How a connection ends: CLOSE is posted once, by a goroutine that is gone, and
\* the hub that takes it takes the connection off its own list.
EndInv ==
  \A c \in Conns :
    /\ Once(c, "close")
    /\ InFlight(c, "close") => run[c] = "ended" /\ ~shut[c]
    /\ shut[c] => run[c] = "ended" /\ \A a \in Addrs : Filed(c, a) => remote_addr[c] # a
    /\ run[c] = "none" => send_chann[c] = 0

\* A connection that is in no list, even one the hub has let go of to hang in Close,
\* has been given nothing, so it has had nothing to fail on.
IdleInv ==
  \A c \in Conns : ~shut[c] /\ (\A a \in Addrs : ~Filed(c, a)) =>
    send_chann[c] = 0 /\ run[c] \in {"none", "draining", "stuck"}

\* What is in the index is filed, under its own connect_id.
IndexInv ==
  \A i \in Ids : conns_id_map[i] # NoConn =>
    /\ connect_id[conns_id_map[i]] = i
    /\ \E a \in Addrs : Filed(conns_id_map[i], a)

\* What is filed is in the index, but for connections that share a connect_id.
MissInv ==
  \A c \in Made :
    /\ connect_id[c] \in Ids
    /\ Listed(c) /\ ~shut[c] /\ conns_id_map[connect_id[c]] # c =>
         \E d \in Made \ {c} : connect_id[d] = connect_id[c]

\* A hub that hangs has let go of one connection at most.
LetGoInv == \A c, d \in Conns : LetGo(c) /\ LetGo(d) => c = d

IInv ==
  /\ TypeOK
  /\ DialerInv
  /\ EventInv
  /\ FreshInv
  /\ FiledInv
  /\ EndInv
  /\ IndexInv
  /\ PanicNeedsMisfiled
=============================================================================
