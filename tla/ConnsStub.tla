----------------------------- MODULE ConnsStub ------------------------------
(***************************************************************************)
(* sdk/stub/conns_stub.go: ConnsStub, a blocking request/response client   *)
(* over one TCP connection, lent to its users by a StubPool.               *)
(*                                                                         *)
(* Invoke connects if needed, writes the request (once more on a fresh     *)
(* connection if the first write fails other than by a timeout), then      *)
(* reads until recv_buf holds one packet.  A response carries no request   *)
(* number: Invoke takes the first packet it can cut out of recv_buf to be  *)
(* the answer.  After an error while reading, the connection stays open    *)
(* and recv_buf keeps what was read.                                       *)
(*                                                                         *)
(* The server is honest: it answers the requests of a connection in order  *)
(* with one packet each, late or never.  Packets are sequences of cells:   *)
(* a head (the int16 length field) and one cell per unit of the body.  The *)
(* val of a cell is what that cell is worth when read as a length field.   *)
(***************************************************************************)
EXTENDS StubPool

CONSTANTS
  MaxRequests, \* bound: calls of Invoke in a behaviour
  RecvCap,     \* packet_size: capacity of recv_buf, in cells
  LenHalf,     \* the length field holds -LenHalf .. LenHalf - 1 (2^15 in the code)
  BodyLens,    \* lengths of the bodies the server sends
  BodyVals     \* what body cells are worth as a length field

ASSUME ConnsStubAssumption ==
  /\ MaxRequests \in Nat
  /\ RecvCap \in Nat \ {0}
  /\ LenHalf \in Nat \ {0}
  /\ BodyLens \subseteq Nat
  /\ BodyVals \subseteq -LenHalf .. LenHalf - 1

HeadSize == 1
StubIds == 1 .. max_stub_nums
Requests == 1 .. MaxRequests

VARIABLES
  where,   \* where[c]: what caller c is doing
  using,   \* using[c]: the stub c got last
  req,     \* req[c]: the request of c's last Invoke
  by,      \* by[q]: the stub request q was made on, 0 before
  result,  \* result[q]: how the Invoke of q ended
  conn,    \* conn[s]: stub s has a connection
  buf,     \* buf[s]: recv_buf[:offset] of stub s
  owed,    \* owed[s]: requests the server has to answer on s's connection
  wire,    \* wire[s]: cells sent to s and not yet read
  panicked \* the process has died of a run-time panic

callVars == <<where, using, req, by, result>>
connVars == <<conn, buf, owed, wire>>
stubVars == <<poolVars, callVars, connVars, panicked>>

Cells == [req : Requests, pos : Nat, val : Int]

\* How an Invoke ended: not yet, with an error, with bytes that are no response,
\* or with the response to one of the requests.
NoResult == 0
Failed == -1
Garbage == -2
Results == {NoResult, Failed, Garbage} \cup Requests

StubTypeOK ==
  /\ TypeOK
  /\ where \in [Callers -> {"idle", "holding", "dial", "write", "redial", "rewrite", "read"}]
  /\ using \in [Callers -> StubIds \cup {0}]
  /\ req \in [Callers -> Requests \cup {0}]
  /\ by \in [Requests -> StubIds \cup {0}]
  /\ result \in [Requests -> Results]
  /\ conn \in [StubIds -> BOOLEAN]
  /\ buf \in [StubIds -> Seq(Cells)]
  /\ owed \in [StubIds -> Seq(Requests)]
  /\ wire \in [StubIds -> Seq(Cells)]
  /\ panicked \in BOOLEAN
  /\ \A s \in StubIds : Len(buf[s]) <= RecvCap

StubInit ==
  /\ Init
  /\ where = [c \in Callers |-> "idle"]
  /\ using = [c \in Callers |-> 0]
  /\ req = [c \in Callers |-> 0]
  /\ by = [q \in Requests |-> 0]
  /\ result = [q \in Requests |-> NoResult]
  /\ conn = [s \in StubIds |-> FALSE]
  /\ buf = [s \in StubIds |-> <<>>]
  /\ owed = [s \in StubIds |-> <<>>]
  /\ wire = [s \in StubIds |-> <<>>]
  /\ panicked = FALSE

-----------------------------------------------------------------------------
(* The pool, as its callers use it: one stub at a time.                    *)

GetStub(c) ==
  /\ where[c] = "idle"
  /\ Get(c)
  /\ using' = [using EXCEPT ![c] = Head(Stock)]
  /\ where' = [where EXCEPT ![c] = "holding"]
  /\ UNCHANGED <<req, by, result, connVars, panicked>>

GiveBack(c) ==
  /\ where[c] = "holding"
  /\ Retrieve(c, using[c])
  /\ where' = [where EXCEPT ![c] = "idle"]
  /\ UNCHANGED <<using, req, by, result, connVars, panicked>>

-----------------------------------------------------------------------------
(* Invoke, called by c on the stub it holds.                               *)

Goto(c, w) == where' = [where EXCEPT ![c] = w]

\* Invoke returns: an error, or what it takes to be the response.
Finish(c, r) ==
  /\ result' = [result EXCEPT ![req[c]] = r]
  /\ Goto(c, "holding")

\* ConnsStub.Close: recv_buf and offset are left alone.
Close(s) ==
  /\ conn' = [conn EXCEPT ![s] = FALSE]
  /\ owed' = [owed EXCEPT ![s] = <<>>]
  /\ wire' = [wire EXCEPT ![s] = <<>>]
  /\ UNCHANGED buf

Begin(c) ==
  /\ where[c] = "holding"
  /\ \E q \in Requests :
       /\ by[q] = 0
       /\ \A p \in Requests : p < q => by[p] # 0
       /\ by' = [by EXCEPT ![q] = using[c]]
       /\ req' = [req EXCEPT ![c] = q]
  /\ Goto(c, "dial")
  /\ UNCHANGED <<poolVars, using, result, connVars, panicked>>

\* tryConnect succeeds, or finds a connection.
Connect(c) ==
  /\ where[c] \in {"dial", "redial"}
  /\ conn' = [conn EXCEPT ![using[c]] = TRUE]
  /\ Goto(c, IF where[c] = "dial" THEN "write" ELSE "rewrite")
  /\ UNCHANGED <<poolVars, using, req, by, result, buf, owed, wire, panicked>>

ConnectFails(c) ==
  /\ where[c] \in {"dial", "redial"}
  /\ ~conn[using[c]]
  /\ Finish(c, Failed)
  /\ UNCHANGED <<poolVars, using, req, by, connVars, panicked>>

Write(c) ==
  /\ where[c] \in {"write", "rewrite"}
  /\ owed' = [owed EXCEPT ![using[c]] = Append(@, req[c])]
  /\ Goto(c, "read")
  /\ UNCHANGED <<poolVars, using, req, by, result, conn, buf, wire, panicked>>

\* The first write fails, not by a timeout: close and connect again.
WriteFails(c) ==
  /\ where[c] = "write"
  /\ Close(using[c])
  /\ Goto(c, "redial")
  /\ UNCHANGED <<poolVars, using, req, by, result, panicked>>

\* A write times out, or the second one fails: the deferred function closes.
WriteGivesUp(c) ==
  /\ where[c] \in {"write", "rewrite"}
  /\ Close(using[c])
  /\ Finish(c, Failed)
  /\ UNCHANGED <<poolVars, using, req, by, panicked>>

\* The cells of a response to p with a body of n units worth v each; an int16
\* holds the length.
Int16(n) == ((n + LenHalf) % (2 * LenHalf)) - LenHalf
Frame(p, n, v) ==
  [k \in 1 .. HeadSize + n |->
     [req |-> p, pos |-> k, val |-> IF k = 1 THEN Int16(n) ELSE v]]

\* Unpack (package protol, not in the repository) accepts every response and
\* may accept or reject anything else.
Unpack(packet) ==
  LET whole == {p \in Requests : \E n \in BodyLens, v \in BodyVals : packet = Frame(p, n, v)}
  IN  IF whole # {} THEN whole ELSE {Garbage, Failed}

\* Mutant: the length field is not counted.
BodyLen(data) == data[1].val

\* The length of the packet at the head of data, as waitRes reads it.
PacketLen(data) == HeadSize + data[1].val
HasPacket(data) == Len(data) >= HeadSize /\ Len(data) >= PacketLen(data)

\* Mutant: offset is not reset.
EverythingStays(data) == data

\* What stays in recv_buf of the data a packet was taken from: nothing, whatever
\* was moved to the front, because offset is set to 0.
Rest(data) == <<>>

Fits(data) == Len(data) <= RecvCap

\* One pass of the loop of waitRes, the read returning k cells.
Read(c, k) ==
  LET s == using[c]
      data == buf[s] \o SubSeq(wire[s], 1, k)
  IN  /\ where[c] = "read"
      /\ k \in 1 .. Len(wire[s])
      /\ wire' = [wire EXCEPT ![s] = SubSeq(@, k + 1, Len(@))]
      /\ \/ /\ ~Fits(data)
            /\ Finish(c, Failed)
            /\ UNCHANGED <<buf, panicked>>
         \/ /\ Fits(data)
            /\ ~HasPacket(data)
            /\ buf' = [buf EXCEPT ![s] = data]
            /\ UNCHANGED <<where, result, panicked>>
         \/ /\ Fits(data)
            /\ HasPacket(data)
            /\ PacketLen(data) >= 0
            /\ buf' = [buf EXCEPT ![s] = Rest(data)]
            /\ \E r \in Unpack(SubSeq(data, 1, PacketLen(data))) : Finish(c, r)
            /\ UNCHANGED panicked
         \/ /\ Fits(data)
            /\ HasPacket(data)
            /\ PacketLen(data) < 0
            /\ panicked' = TRUE
            /\ buf' = [buf EXCEPT ![s] = data]
            /\ UNCHANGED <<where, result>>
      /\ UNCHANGED <<poolVars, using, req, by, conn, owed>>

\* Mutant: SetDeadline is forgotten.
ReadFailsClosed(c) ==
  /\ where[c] = "read"
  /\ ~conn[using[c]]
  /\ Finish(c, Failed)
  /\ UNCHANGED <<poolVars, using, req, by, connVars, panicked>>

\* The read times out or finds the connection closed: Invoke returns the error.
ReadFails(c) ==
  /\ where[c] = "read"
  /\ Finish(c, Failed)
  /\ UNCHANGED <<poolVars, using, req, by, connVars, panicked>>

-----------------------------------------------------------------------------
\* The server answers the oldest request of a connection.
Serve(s) ==
  /\ owed[s] # <<>>
  /\ \E n \in BodyLens, v \in BodyVals :
       wire' = [wire EXCEPT ![s] = @ \o Frame(Head(owed[s]), n, v)]
  /\ owed' = [owed EXCEPT ![s] = Tail(@)]
  /\ UNCHANGED <<poolVars, callVars, conn, buf, panicked>>

Invoking(c) ==
  \/ Connect(c) \/ ConnectFails(c)
  \/ Write(c) \/ WriteFails(c) \/ WriteGivesUp(c)
  \/ \E k \in 1 .. RecvCap : Read(c, k)
  \/ ReadFails(c)

StubNext ==
  /\ ~panicked
  /\ \/ \E c \in Callers : GetStub(c) \/ GiveBack(c) \/ Begin(c) \/ Invoking(c)
     \/ \E s \in StubIds : Serve(s)

StubSpec == StubInit /\ [][StubNext]_stubVars

\* Every read and write has a deadline, so a call in progress moves on.
StubFairness == \A c \in Callers : WF_stubVars(~panicked /\ Invoking(c))
StubFairSpec == StubSpec /\ StubFairness

-----------------------------------------------------------------------------
(* Properties.                                                             *)

\* Some Invoke on stub s before q's ended in an error.
FailedBefore(q, s) == \E p \in Requests : p < q /\ by[p] = s /\ result[p] = Failed

\* No body is so long (2^16 - 2 bytes) that its length comes out of the int16
\* as that of a shorter packet: waitRes would take such a response apart.
NoLengthWraps == \A n \in BodyLens : n + HeadSize < 2 * LenHalf

\* Where no length wraps, and as long as no Invoke on a stub fails, each gets its
\* own response, whichever callers the pool lends the stub to and however TCP
\* cuts the bytes.  A response of another request, or garbage, is the price of
\* an earlier failure on the same stub, possibly of another caller.
OnlyFailuresDesync ==
  NoLengthWraps => \A q \in Requests :
    result[q] \notin {NoResult, Failed, q} => FailedBefore(q, by[q])

\* Even out of step, a stub delivers responses in the order of the requests
\* made on it, each at most once.
InOrder ==
  \A q1, q2 \in Requests :
    result[q1] \in Requests /\ result[q2] \in Requests =>
      /\ by[result[q1]] = by[q1]
      /\ q1 < q2 /\ by[q1] = by[q2] => result[q1] < result[q2]

\* Where no length wraps, the process dies only of the response to the very
\* request, when its length does not fit an int16, or on a stub that an earlier
\* failure left out of step.
PanicNeedsCause ==
  NoLengthWraps /\ panicked =>
    \E c \in Callers :
      /\ where[c] = "read"
      /\ \/ FailedBefore(req[c], using[c])
         \/ \E n \in BodyLens, v \in BodyVals :
              n >= LenHalf /\ buf[using[c]] # <<>>
                /\ buf[using[c]][1] = Frame(req[c], n, v)[1]

\* Every Invoke returns, or the process dies.
InvokeReturns ==
  \A c \in Callers : where[c] = "dial" ~> (where[c] = "holding" \/ panicked)

-----------------------------------------------------------------------------
(* The inductive invariant: that of the pool, and the following.           *)

\* Not yet written to the server.
Sending == {"dial", "write", "redial", "rewrite"}

\* A caller uses one stub, which it holds; a call in progress has no result.
CallerInv ==
  \A c \in Callers :
    /\ where[c] = "idle" => lent[c] = {}
    /\ where[c] # "idle" => using[c] \in StubIds /\ lent[c] = {using[c]}
    /\ where[c] \in Sending \cup {"read"} =>
         /\ req[c] \in Requests
         /\ by[req[c]] = using[c]
         /\ result[req[c]] = NoResult

\* Requests are numbered as they are made: the one in progress on a stub is the
\* last of that stub.
RequestInv ==
  /\ \A p, q \in Requests : p < q /\ by[p] = 0 => by[q] = 0
  /\ \A q \in Requests : by[q] = 0 => result[q] = NoResult
  /\ \A c \in Callers, q \in Requests :
       where[c] \in Sending \cup {"read"} /\ by[q] = using[c] => q <= req[c]

\* The requests whose responses begin in t.
Heads(t) == {t[k].req : k \in {j \in 1 .. Len(t) : t[j].pos = 1}}
Elems(t) == {t[k] : k \in 1 .. Len(t)}
Below(S, T) == \A x \in S, y \in T : x < y
HeadsInStep(t) ==
  \A j, k \in 1 .. Len(t) : j < k /\ t[j].pos = 1 /\ t[k].pos = 1 => t[j].req < t[k].req

\* The requests whose responses stub s has delivered.
Got(s) == {result[q] : q \in {p \in Requests : by[p] = s /\ result[p] \in Requests}}

\* q has been written on stub s.
Sent(q, s) ==
  /\ q \in Requests
  /\ by[q] = s
  /\ \A c \in Callers : req[c] = q => where[c] \notin Sending

\* The responses got, then those in t, those in u, and the requests in o follow
\* each other in the order of the requests.
InLine(got, t, u, o) ==
  /\ Below(got, Heads(t) \cup Heads(u) \cup Elems(o))
  /\ Below(Heads(t), Heads(u) \cup Elems(o))
  /\ Below(Heads(u), Elems(o))
  /\ HeadsInStep(u)
  /\ \A j, k \in 1 .. Len(o) : j < k => o[j] < o[k]

\* So do what a stub has delivered, what its buffer holds, what is under way and
\* what the server owes.
OrderOn(s) ==
  /\ \A p \in Got(s) \cup Heads(buf[s]) \cup Heads(wire[s]) \cup Elems(owed[s]) : Sent(p, s)
  /\ InLine(Got(s), buf[s], wire[s], owed[s])
OrderInv == \A s \in StubIds : OrderOn(s)

Quiet(s) == buf[s] = <<>> /\ wire[s] = <<>> /\ owed[s] = <<>>

\* The stub has asked q and holds nothing else.
Awaiting(s, q) ==
  \/ owed[s] = <<q>> /\ buf[s] = <<>> /\ wire[s] = <<>>
  \/ /\ owed[s] = <<>>
     /\ \E n \in BodyLens, v \in BodyVals : buf[s] \o wire[s] = Frame(q, n, v)

FailedOn(s) == \E q \in Requests : by[q] = s /\ result[q] = Failed

\* A stub none of whose calls has failed is silent between calls.
CleanOn(s) ==
  \/ FailedOn(s)
  \/ Quiet(s)
  \/ \E c \in Callers : where[c] = "read" /\ using[c] = s /\ Awaiting(s, req[c])
CleanInv == NoLengthWraps => \A s \in StubIds : CleanOn(s)

\* The panic is that of make with a negative length.
PanicInv ==
  panicked =>
    \E c \in Callers :
      where[c] = "read" /\ buf[using[c]] # <<>> /\ PacketLen(buf[using[c]]) < 0

StubIInv ==
  /\ IInv
  /\ StubTypeOK
  /\ CallerInv
  /\ RequestInv
  /\ OrderInv
  /\ CleanInv
  /\ PanicInv
  /\ OnlyFailuresDesync
  /\ InOrder
=============================================================================
