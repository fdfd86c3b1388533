------------------------------ MODULE NetClient -----------------------------
(***************************************************************************)
(* sdk/net_server.bak: netClient, one accepted connection of netServer.    *)
(*                                                                         *)
(* Two goroutines serve a connection: sendRoutine writes what is in        *)
(* io_chan until a write fails or it takes a value from close_chan;        *)
(* recvRountine reads into packet_buf, cuts packets out of it and calls    *)
(* OnNetRecv for each.  Whoever returns closes the socket, which makes the *)
(* other one fail.  close_chan is unbuffered and only sendRoutine receives *)
(* from it: Close, called by OnNetRecv or by another goroutine, waits      *)
(* until sendRoutine is back in its select, for ever if it has returned.   *)
(*                                                                         *)
(* The bytes of the connection are numbered from 1, so packet_buf is a     *)
(* sequence of byte numbers.                                               *)
(***************************************************************************)
EXTENDS Integers, Sequences

CONSTANTS
  Users,               \* other goroutines that call Close, each once
  max_packet_size,     \* the length of packet_buf
  max_out_packet_nums, \* the capacity of io_chan
  MaxBytes             \* bound: bytes the peer sends

ASSUME NetClientAssumption ==
  /\ max_packet_size \in Nat \ {0}
  /\ max_out_packet_nums \in Nat \ {0}
  /\ MaxBytes \in Nat

VARIABLES
  ends,         \* the last bytes of the peer's packets
  read,         \* bytes read from the socket
  packet_buf,   \* packet_buf[0:offset]
  parse_offset,
  taken,        \* bytes handed to OnNetRecv
  sock,         \* the socket is open or closed
  sender,       \* where sendRoutine is
  recver,       \* where recvRountine is
  io_chan,      \* packets waiting to be sent
  closing,      \* users waiting in Close
  called,       \* users that have called Close
  errs          \* calls of OnNetErr

bufVars == <<ends, read, packet_buf, parse_offset, taken>>
userVars == <<closing, called>>
vars == <<bufVars, sock, sender, recver, io_chan, userVars, errs>>

TypeOK ==
  /\ ends \subseteq 1 .. MaxBytes
  /\ read \in 0 .. MaxBytes
  /\ packet_buf \in Seq(1 .. MaxBytes)
  /\ Len(packet_buf) <= max_packet_size
  /\ parse_offset \in 0 .. Len(packet_buf)
  /\ taken \in 0 .. read
  /\ sock \in {"open", "closed"}
  /\ sender \in {"select", "writing", "gone"}
  /\ recver \in {"reading", "parsing", "handling", "closing", "cut", "failing", "gone"}
  /\ io_chan \in 0 .. max_out_packet_nums
  /\ closing \subseteq called
  /\ called \subseteq Users
  /\ errs \in 0 .. 2

\* createNetClient; the peer cuts its bytes into packets as it likes.
Init ==
  /\ ends \in SUBSET (1 .. MaxBytes)
  /\ read = 0
  /\ packet_buf = <<>>
  /\ parse_offset = 0
  /\ taken = 0
  /\ sock = "open"
  /\ sender = "select"
  /\ recver = "reading"
  /\ io_chan = 0
  /\ closing = {}
  /\ called = {}
  /\ errs = 0

-----------------------------------------------------------------------------
(* recvRountine                                                            *)

\* Read returns k bytes.
Read(k) ==
  /\ recver = "reading"
  /\ sock = "open"
  /\ k <= max_packet_size - Len(packet_buf)
  /\ read + k <= MaxBytes
  /\ packet_buf' = packet_buf \o [n \in 1 .. k |-> read + n]
  /\ read' = read + k
  /\ recver' = "parsing"
  /\ UNCHANGED <<ends, parse_offset, taken, sock, sender, io_chan, userVars, errs>>

\* Read into an empty slice returns 0 bytes at once, whatever the deadline.
ReadNothing ==
  /\ recver = "reading"
  /\ sock = "open"
  /\ Len(packet_buf) = max_packet_size
  /\ recver' = "parsing"
  /\ UNCHANGED <<bufVars, sock, sender, io_chan, userVars, errs>>

\* The deadline passes, the peer is gone, or sendRoutine closed the socket.
ReadErr ==
  /\ recver = "reading"
  /\ sock = "open" => Len(packet_buf) < max_packet_size
  /\ sock' = "closed"
  /\ recver' = "failing"
  /\ UNCHANGED <<bufVars, sender, io_chan, userVars, errs>>

\* parse_func finds a packet that ends at position p of packet_buf.
Parsed(p) ==
  /\ packet_buf[p] \in ends
  /\ \A n \in parse_offset + 1 .. p - 1 : packet_buf[n] \notin ends

Complete == \E p \in parse_offset + 1 .. Len(packet_buf) : Parsed(p)

\* One packet is parsed and OnNetRecv called.  parse_offset is local and is
\* moved here, not when OnNetRecv has returned.
Deliver ==
  /\ recver = "parsing"
  /\ \E p \in parse_offset + 1 .. Len(packet_buf) :
       /\ Parsed(p)
       /\ taken' = taken + (p - parse_offset)
       /\ parse_offset' = p
  /\ recver' = "handling"
  /\ UNCHANGED <<ends, read, packet_buf, sock, sender, io_chan, userVars, errs>>

\* Mutant: the bytes are not moved.
CompactInPlace ==
  IF Len(packet_buf) >= max_packet_size
  THEN /\ packet_buf' = SubSeq(packet_buf, 1, Len(packet_buf) - parse_offset)
       /\ parse_offset' = 0
  ELSE UNCHANGED <<packet_buf, parse_offset>>

\* What is left of packet_buf when it is full: the bytes not parsed, at its
\* beginning.
Compact ==
  IF Len(packet_buf) >= max_packet_size
  THEN /\ packet_buf' = SubSeq(packet_buf, parse_offset + 1, Len(packet_buf))
       /\ parse_offset' = 0
  ELSE UNCHANGED <<packet_buf, parse_offset>>

\* The test that is to find packet_buf full.
OutOfRange == parse_offset >= max_packet_size

\* No packet is complete: read on.
ReadOn ==
  /\ recver = "parsing"
  /\ ~Complete
  /\ ~OutOfRange
  /\ Compact
  /\ recver' = "reading"
  /\ UNCHANGED <<ends, read, taken, sock, sender, io_chan, userVars, errs>>

\* Mutant: the return after OnNetErr is missing.
CutOffGoesOn ==
  /\ recver = "parsing"
  /\ ~Complete
  /\ OutOfRange
  /\ errs' = errs + 1
  /\ packet_buf' = <<>>
  /\ parse_offset' = 0
  /\ recver' = "reading"
  /\ UNCHANGED <<ends, read, taken, sock, sender, io_chan, userVars>>

\* OnNetErr, then the deferred function closes the socket.
CutOff ==
  /\ recver = "parsing"
  /\ ~Complete
  /\ OutOfRange
  /\ errs' = errs + 1
  /\ sock' = "closed"
  /\ recver' = "failing"
  /\ UNCHANGED <<bufVars, sender, io_chan, userVars>>

\* The deferred function calls OnNetErr.
Report ==
  /\ recver = "failing"
  /\ errs' = errs + 1
  /\ recver' = "gone"
  /\ UNCHANGED <<bufVars, sock, sender, io_chan, userVars>>

-----------------------------------------------------------------------------
(* OnNetRecv (Login.OnNetRecv in login_server) on recvRountine's goroutine. *)

HandlerReturns ==
  /\ recver = "handling"
  /\ recver' = "parsing"
  /\ UNCHANGED <<bufVars, sock, sender, io_chan, userVars, errs>>

\* A packet it cannot accept: it calls Close and will then return.
HandlerCloses ==
  /\ recver = "handling"
  /\ recver' = "closing"
  /\ UNCHANGED <<bufVars, sock, sender, io_chan, userVars, errs>>

\* netClient.Send, called by OnNetRecv or by another goroutine.  When io_chan is
\* full for ten seconds nothing happens.
Send ==
  /\ io_chan < max_out_packet_nums
  /\ io_chan' = io_chan + 1
  /\ UNCHANGED <<bufVars, sock, sender, recver, userVars, errs>>

-----------------------------------------------------------------------------
\* Another goroutine calls Close.
UserCloses(u) ==
  /\ u \notin called
  /\ called' = called \cup {u}
  /\ closing' = closing \cup {u}
  /\ UNCHANGED <<bufVars, sock, sender, recver, io_chan, errs>>

-----------------------------------------------------------------------------
(* sendRoutine                                                             *)

TakePacket ==
  /\ sender = "select"
  /\ io_chan > 0
  /\ io_chan' = io_chan - 1
  /\ sender' = "writing"
  /\ UNCHANGED <<bufVars, sock, recver, userVars, errs>>

WriteOk ==
  /\ sender = "writing"
  /\ sock = "open"
  /\ sender' = "select"
  /\ UNCHANGED <<bufVars, sock, recver, io_chan, userVars, errs>>

\* Mutant: the deferred Close of the socket is missing.
WriteErrLeavesOpen ==
  /\ sender = "writing"
  /\ sender' = "gone"
  /\ UNCHANGED <<bufVars, sock, recver, io_chan, userVars, errs>>

\* Mutant: the return after a failed write is missing.
WriteErrGoesOn ==
  /\ sender = "writing"
  /\ sender' = "select"
  /\ UNCHANGED <<bufVars, sock, recver, io_chan, userVars, errs>>

\* The write fails; the deferred function closes the socket.
WriteErr ==
  /\ sender = "writing"
  /\ sender' = "gone"
  /\ sock' = "closed"
  /\ UNCHANGED <<bufVars, recver, io_chan, userVars, errs>>

\* A value is received from close_chan: one caller of Close goes on.
TakeClose ==
  /\ sender = "select"
  /\ \/ /\ recver = "closing"
        /\ recver' = "parsing"
        /\ UNCHANGED closing
     \/ /\ \E u \in closing : closing' = closing \ {u}
        /\ UNCHANGED recver
  /\ sender' = "gone"
  /\ sock' = "closed"
  /\ UNCHANGED <<bufVars, io_chan, called, errs>>

-----------------------------------------------------------------------------
RecvRountine ==
  \/ \E k \in 1 .. max_packet_size : Read(k)
  \/ ReadNothing \/ ReadErr
  \/ Deliver \/ ReadOn \/ CutOff \/ Report

OnNetRecv == HandlerReturns \/ HandlerCloses

SendRoutine == TakePacket \/ WriteOk \/ WriteErr \/ TakeClose

Next ==
  \/ RecvRountine \/ OnNetRecv \/ SendRoutine
  \/ Send
  \/ \E u \in Users : UserCloses(u)

Spec == Init /\ [][Next]_vars

\* Goroutines run and handlers return.  A read may wait for its deadline and a
\* write for ever, until the socket is closed.
Fairness ==
  /\ WF_vars((recver # "reading" \/ sock = "closed") /\ RecvRountine)
  /\ WF_vars(HandlerReturns \/ HandlerCloses)
  /\ WF_vars(sender = "select" /\ SendRoutine)
  /\ WF_vars(sock = "closed" /\ WriteErr)

FairSpec == Spec /\ Fairness

-----------------------------------------------------------------------------
(* Properties.                                                             *)

\* Compaction and reads of any size keep the buffer in step with the stream:
\* what is parsed next follows what OnNetRecv got last, and OnNetRecv got whole
\* packets.
StreamInStep ==
  /\ \A n \in parse_offset + 1 .. Len(packet_buf) :
       packet_buf[n] = taken + (n - parse_offset)
  /\ read = taken + (Len(packet_buf) - parse_offset)
  /\ taken \in ends \cup {0}

\* What the INetFunc of a server sees of a connection is Connection: whole packets
\* in order, then OnNetErr, once or twice, and nothing after it.
Abstract == INSTANCE Connection WITH
  got <- taken,
  told <- errs,
  open <- sock = "open",
  over <- recver = "gone"

ImplementsConnection == Abstract!Spec

\* Once a write has failed or Close has been served, the user gets OnNetErr,
\* unless OnNetRecv is itself waiting in a Close that nobody will serve.
EndReported == sender = "gone" ~> errs > 0 \/ recver = "closing"

\* A sendRoutine that recvRountine left behind in its select, for as long as
\* nobody sends, ends with the first packet or Close that reaches it.
SenderEnds ==
  recver = "gone" /\ (io_chan > 0 \/ closing # {}) ~> sender = "gone"

\* How the connection ends: OnNetErr has been called when recvRountine cut it or
\* is gone, and the socket is closed before the deferred function calls it.
EndInv ==
  /\ recver \in {"failing", "gone"} => sock = "closed"
  /\ errs > 0 => recver \in {"failing", "gone"}
  /\ recver = "failing" => errs <= 1
  /\ recver = "gone" => errs > 0

IInv == TypeOK /\ StreamInStep /\ EndInv

\* The message logged at net_client.go:111 says that a packet is out of range:
\* the connection is cut exactly when the bytes not parsed fill packet_buf.
CutWhenFull ==
  [][recver = "parsing" /\ ~Complete /\ recver' # "parsing" =>
       (recver' = "failing" <=>
          Len(packet_buf) - parse_offset >= max_packet_size)]_vars
=============================================================================
