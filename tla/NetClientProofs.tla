-------------------------- MODULE NetClientProofs ---------------------------
(***************************************************************************)
(* Theorems about NetClient, for every size of packet_buf and io_chan,     *)
(* every number of bytes and every set of callers of Close.                *)
(***************************************************************************)
EXTENDS NetClient, SequenceTheorems, TLAPS

\* What a read of k bytes appends to packet_buf.
LEMMA ReadFacts ==
  ASSUME TypeOK, NEW k \in 1 .. max_packet_size, Read(k)
  PROVE  /\ packet_buf' \in Seq(1 .. MaxBytes)
         /\ Len(packet_buf') = Len(packet_buf) + k
         /\ \A n \in 1 .. Len(packet_buf) : packet_buf'[n] = packet_buf[n]
         /\ \A n \in Len(packet_buf) + 1 .. Len(packet_buf) + k :
              packet_buf'[n] = read + (n - Len(packet_buf))
<1> DEFINE new == [n \in 1 .. k |-> read + n]
<1>1. /\ read \in Nat
      /\ read + k <= MaxBytes
      /\ packet_buf \in Seq(1 .. MaxBytes)
      /\ Len(packet_buf) \in Nat
      /\ packet_buf' = packet_buf \o new
      /\ k \in Nat \ {0}
  BY NetClientAssumption DEF TypeOK, Read
<1>2. new \in Seq(1 .. MaxBytes) /\ Len(new) = k
  <2>1. \A n \in 1 .. k : read + n \in 1 .. MaxBytes
    BY <1>1, NetClientAssumption
  <2>2. new \in [1 .. k -> 1 .. MaxBytes]
    BY <2>1
  <2>3. new \in UNION {[1 .. m -> 1 .. MaxBytes] : m \in Nat}
    BY <1>1, <2>2
  <2>4. new \in Seq(1 .. MaxBytes)
    BY <2>3, SeqDef, Zenon
  <2>5. DOMAIN new = 1 .. Len(new) /\ Len(new) \in Nat /\ DOMAIN new = 1 .. k
    BY <2>4, LenProperties
  <2>6. QED
    BY <1>1, <2>4, <2>5
<1>3. /\ packet_buf \o new \in Seq(1 .. MaxBytes)
      /\ Len(packet_buf \o new) = Len(packet_buf) + k
      /\ \A n \in 1 .. Len(packet_buf) + k :
           (packet_buf \o new)[n] = IF n <= Len(packet_buf) THEN packet_buf[n]
                                    ELSE new[n - Len(packet_buf)]
  BY <1>1, <1>2, ConcatProperties
<1>4. \A n \in Len(packet_buf) + 1 .. Len(packet_buf) + k :
        new[n - Len(packet_buf)] = read + (n - Len(packet_buf))
  BY <1>1
<1>5. QED
  BY <1>1, <1>3, <1>4

\* What moving the bytes not parsed to the beginning of packet_buf leaves there.
LEMMA CompactFacts ==
  ASSUME TypeOK, Compact
  PROVE  /\ packet_buf' \in Seq(1 .. MaxBytes)
         /\ parse_offset' \in 0 .. parse_offset
         /\ Len(packet_buf') - parse_offset' = Len(packet_buf) - parse_offset
         /\ \A n \in parse_offset' + 1 .. Len(packet_buf') :
              packet_buf'[n] = packet_buf[n + (parse_offset - parse_offset')]
<1>1. /\ packet_buf \in Seq(1 .. MaxBytes)
      /\ Len(packet_buf) \in Nat
      /\ parse_offset \in 0 .. Len(packet_buf)
  BY DEF TypeOK
<1>2. CASE Len(packet_buf) >= max_packet_size
  <2> DEFINE rest == SubSeq(packet_buf, parse_offset + 1, Len(packet_buf))
  <2>1. packet_buf' = rest /\ parse_offset' = 0
    BY <1>2 DEF Compact
  <2>2. /\ rest \in Seq(1 .. MaxBytes)
        /\ Len(rest) = Len(packet_buf) - parse_offset
        /\ \A n \in 1 .. Len(packet_buf) - parse_offset :
             rest[n] = packet_buf[n + parse_offset]
    <3>1. ASSUME NEW n \in parse_offset + 1 .. Len(packet_buf)
          PROVE  packet_buf[n] \in 1 .. MaxBytes
      <4>1. n \in 1 .. Len(packet_buf)
        BY <1>1
      <4>2. QED
        BY <1>1, <4>1, ElementOfSeq
    <3>2. QED
      BY <1>1, <3>1, SubSeqProperties
  <2>3. QED
    BY <1>1, <2>1, <2>2
<1>3. CASE ~(Len(packet_buf) >= max_packet_size)
  BY <1>1, <1>3 DEF Compact
<1>4. QED
  BY <1>2, <1>3

-----------------------------------------------------------------------------
(* The inductive invariant.                                                *)

LEMMA InitInductive == Init => IInv
<1> SUFFICES ASSUME Init PROVE IInv
  OBVIOUS
<1>1. TypeOK
  BY NetClientAssumption, EmptySeq DEF Init, TypeOK
<1>2. StreamInStep
  BY EmptySeq DEF Init, StreamInStep
<1>3. EndInv
  BY DEF Init, EndInv
<1>4. QED
  BY <1>1, <1>2, <1>3 DEF IInv

\* The parts of TypeOK about the bytes and about the goroutines.
BytesOK ==
  /\ ends \subseteq 1 .. MaxBytes
  /\ read \in 0 .. MaxBytes
  /\ packet_buf \in Seq(1 .. MaxBytes)
  /\ Len(packet_buf) <= max_packet_size
  /\ parse_offset \in 0 .. Len(packet_buf)
  /\ taken \in 0 .. read

ControlOK ==
  /\ sock \in {"open", "closed"}
  /\ sender \in {"select", "writing", "gone"}
  /\ recver \in {"reading", "parsing", "handling", "closing", "cut", "failing", "gone"}
  /\ io_chan \in 0 .. max_out_packet_nums
  /\ closing \subseteq called
  /\ called \subseteq Users
  /\ errs \in 0 .. 2

LEMMA TypeParts == TypeOK <=> BytesOK /\ ControlOK
BY DEF TypeOK, BytesOK, ControlOK

\* Steps that touch neither packet_buf nor what was read keep StreamInStep.
LEMMA SameBytes ==
  ASSUME BytesOK, StreamInStep, UNCHANGED bufVars
  PROVE  BytesOK' /\ StreamInStep'
BY DEF BytesOK, StreamInStep, bufVars

LEMMA ReadInductive ==
  ASSUME IInv, NEW k \in 1 .. max_packet_size, Read(k)
  PROVE  IInv'
<1>0. TypeOK /\ StreamInStep /\ EndInv
  BY DEF IInv
<1>1. /\ packet_buf' \in Seq(1 .. MaxBytes)
      /\ Len(packet_buf') = Len(packet_buf) + k
      /\ \A n \in 1 .. Len(packet_buf) : packet_buf'[n] = packet_buf[n]
      /\ \A n \in Len(packet_buf) + 1 .. Len(packet_buf) + k :
           packet_buf'[n] = read + (n - Len(packet_buf))
  BY <1>0, ReadFacts
<1>2. Len(packet_buf) \in Nat /\ k \in Nat \ {0} /\ read \in Nat /\ taken \in Nat
      /\ parse_offset \in 0 .. Len(packet_buf)
  BY <1>0, NetClientAssumption DEF TypeOK
<1>3. TypeOK'
  BY <1>0, <1>1, <1>2, NetClientAssumption DEF TypeOK, Read, userVars
<1>4. StreamInStep'
  <2>1. \A n \in parse_offset + 1 .. Len(packet_buf) + k :
          packet_buf'[n] = taken + (n - parse_offset)
    BY <1>0, <1>1, <1>2 DEF StreamInStep
  <2>2. QED
    BY <1>0, <1>1, <1>2, <2>1 DEF StreamInStep, Read
<1>5. EndInv'
  BY <1>0 DEF EndInv, Read
<1>6. QED
  BY <1>3, <1>4, <1>5 DEF IInv

\* The packet Deliver hands over is the first one behind the last.
LEMMA DeliverFacts ==
  ASSUME TypeOK, StreamInStep, Deliver
  PROVE  /\ taken' \in ends
         /\ taken' > taken
         /\ taken' <= read
         /\ parse_offset' \in 1 .. Len(packet_buf)
         /\ parse_offset' > parse_offset
         /\ taken' - taken = parse_offset' - parse_offset
         /\ \A f \in ends : f > taken => f >= taken'
<1>1. PICK p \in parse_offset + 1 .. Len(packet_buf) :
        /\ Parsed(p)
        /\ taken' = taken + (p - parse_offset)
        /\ parse_offset' = p
  BY DEF Deliver
<1>2. /\ Len(packet_buf) \in Nat
      /\ parse_offset \in 0 .. Len(packet_buf)
      /\ taken \in Nat
      /\ ends \subseteq Nat
  BY NetClientAssumption DEF TypeOK
<1>3. packet_buf[p] = taken'
  BY <1>1 DEF StreamInStep
<1>4. ASSUME NEW f \in ends, f > taken, ~(f >= taken')
      PROVE  FALSE
  <2>1. parse_offset + (f - taken) \in parse_offset + 1 .. p - 1
    BY <1>1, <1>2, <1>4
  <2>2. packet_buf[parse_offset + (f - taken)] = f
    BY <1>1, <1>2, <2>1 DEF StreamInStep
  <2>3. QED
    BY <1>1, <1>4, <2>1, <2>2 DEF Parsed
<1>5. QED
  BY <1>1, <1>2, <1>3, <1>4 DEF StreamInStep, Parsed

LEMMA DeliverInductive ==
  ASSUME IInv, Deliver
  PROVE  IInv'
<1>0. TypeOK /\ StreamInStep /\ EndInv
  BY DEF IInv
<1>1. /\ taken' \in ends
      /\ taken' <= read
      /\ parse_offset' \in 1 .. Len(packet_buf)
      /\ parse_offset' > parse_offset
      /\ taken' - taken = parse_offset' - parse_offset
  BY <1>0, DeliverFacts
<1>2. /\ Len(packet_buf) \in Nat
      /\ parse_offset \in 0 .. Len(packet_buf)
      /\ read \in 0 .. MaxBytes
      /\ taken \in Nat
      /\ taken' \in Nat
      /\ MaxBytes \in Nat
  BY <1>0, <1>1, NetClientAssumption DEF TypeOK
<1>3. TypeOK'
  BY <1>0, <1>1, <1>2 DEF TypeOK, Deliver, userVars
<1>4. StreamInStep'
  BY <1>0, <1>1, <1>2 DEF StreamInStep, Deliver
<1>5. EndInv'
  BY <1>0 DEF EndInv, Deliver
<1>6. QED
  BY <1>3, <1>4, <1>5 DEF IInv

\* Positions behind a are positions behind b when as many elements follow.
LEMMA Shifted ==
  ASSUME NEW a \in Nat, NEW b \in Nat, NEW l \in Nat, NEW m \in Nat,
         l - a = m - b, NEW n \in a + 1 .. l
  PROVE  n + (b - a) \in b + 1 .. m
OBVIOUS

LEMMA ReadOnInductive ==
  ASSUME IInv, ReadOn
  PROVE  IInv'
<1>0. TypeOK /\ StreamInStep /\ EndInv
  BY DEF IInv
<1>1. /\ packet_buf' \in Seq(1 .. MaxBytes)
      /\ parse_offset' \in 0 .. parse_offset
      /\ Len(packet_buf') - parse_offset' = Len(packet_buf) - parse_offset
      /\ \A n \in parse_offset' + 1 .. Len(packet_buf') :
           packet_buf'[n] = packet_buf[n + (parse_offset - parse_offset')]
  BY <1>0, CompactFacts DEF ReadOn
<1>2. /\ Len(packet_buf) \in Nat
      /\ Len(packet_buf') \in Nat
      /\ parse_offset \in 0 .. Len(packet_buf)
      /\ parse_offset \in Nat
      /\ parse_offset' \in Nat
      /\ taken \in Nat
  BY <1>0, <1>1, NetClientAssumption, LenProperties DEF TypeOK
<1>3. TypeOK'
  BY <1>0, <1>1, <1>2, NetClientAssumption DEF TypeOK, ReadOn, userVars
<1>4. StreamInStep'
  <2>1. \A n \in parse_offset' + 1 .. Len(packet_buf') :
          packet_buf'[n] = taken + (n - parse_offset')
    <3> SUFFICES ASSUME NEW n \in parse_offset' + 1 .. Len(packet_buf')
                 PROVE  packet_buf'[n] = taken + (n - parse_offset')
      OBVIOUS
    <3>1. n + (parse_offset - parse_offset') \in parse_offset + 1 .. Len(packet_buf)
      BY <1>1, <1>2, Shifted
    <3>2. packet_buf[n + (parse_offset - parse_offset')]
            = taken + ((n + (parse_offset - parse_offset')) - parse_offset)
      BY <1>0, <3>1 DEF StreamInStep
    <3>3. packet_buf'[n] = packet_buf[n + (parse_offset - parse_offset')]
      BY <1>1
    <3>4. QED
      BY <1>1, <1>2, <3>2, <3>3
  <2>2. QED
    BY <1>0, <1>1, <1>2, <2>1 DEF StreamInStep, ReadOn
<1>5. EndInv'
  BY <1>0 DEF EndInv, ReadOn
<1>6. QED
  BY <1>3, <1>4, <1>5 DEF IInv

LEMMA StepInductive == IInv /\ [Next]_vars => IInv'
<1> SUFFICES ASSUME IInv, [Next]_vars PROVE IInv'
  OBVIOUS
<1>0. TypeOK /\ StreamInStep /\ EndInv
  BY DEF IInv
<1>1. CASE \E k \in 1 .. max_packet_size : Read(k)
  BY <1>1, ReadInductive
<1>2. CASE Deliver
  BY <1>2, DeliverInductive
<1>3. CASE ReadOn
  BY <1>3, ReadOnInductive
<1>4. CASE \/ ReadNothing \/ ReadErr \/ CutOff \/ Report \/ OnNetRecv
           \/ SendRoutine \/ Send \/ \E u \in Users : UserCloses(u)
  <2>1. UNCHANGED bufVars
    BY <1>4 DEF ReadNothing, ReadErr, CutOff, Report, OnNetRecv, HandlerReturns,
      HandlerCloses, SendRoutine, TakePacket, WriteOk, WriteErr, TakeClose, Send,
      UserCloses
  <2>2. BytesOK' /\ StreamInStep'
    BY <1>0, <2>1, SameBytes, TypeParts
  <2>3. ControlOK' /\ EndInv'
    <3> USE DEF ControlOK, EndInv
    <3>0. ControlOK /\ EndInv
      BY <1>0, TypeParts
    <3>1. CASE ReadNothing \/ ReadErr
      BY <3>0, <3>1 DEF ReadNothing, ReadErr, userVars
    <3>2. CASE CutOff \/ Report
      BY <3>0, <3>2 DEF CutOff, Report, userVars
    <3>3. CASE OnNetRecv
      BY <3>0, <3>3 DEF OnNetRecv, HandlerReturns, HandlerCloses, userVars
    <3>4. CASE TakePacket \/ WriteOk \/ WriteErr
      BY <3>0, <3>4, NetClientAssumption DEF TakePacket, WriteOk, WriteErr, userVars
    <3>5. CASE TakeClose
      BY <3>0, <3>5 DEF TakeClose
    <3>6. CASE Send
      BY <3>0, <3>6, NetClientAssumption DEF Send, userVars
    <3>7. CASE \E u \in Users : UserCloses(u)
      BY <3>0, <3>7 DEF UserCloses
    <3>8. QED
      BY <1>4, <3>1, <3>2, <3>3, <3>4, <3>5, <3>6, <3>7 DEF SendRoutine
  <2>4. TypeOK'
    BY <2>2, <2>3, TypeParts DEF TypeOK, BytesOK, ControlOK
  <2>5. QED
    BY <2>2, <2>3, <2>4 DEF IInv
<1>5. CASE UNCHANGED vars
  <2>1. UNCHANGED bufVars /\ UNCHANGED <<sock, sender, recver, io_chan, closing, called, errs>>
    BY <1>5 DEF vars, userVars
  <2>2. BytesOK' /\ StreamInStep'
    BY <1>0, <2>1, SameBytes, TypeParts
  <2>3. ControlOK' /\ EndInv'
    BY <1>0, <2>1, TypeParts DEF ControlOK, EndInv
  <2>4. TypeOK'
    BY <2>2, <2>3, TypeParts DEF TypeOK, BytesOK, ControlOK
  <2>5. QED
    BY <2>2, <2>3, <2>4 DEF IInv
<1>6. QED
  BY <1>1, <1>2, <1>3, <1>4, <1>5 DEF Next, RecvRountine

\* IInv holds in every state netClient can reach.
THEOREM Inductive == Spec => []IInv
<1>1. QED
  BY InitInductive, StepInductive, PTL DEF Spec

\* The variables keep their types whatever the sizes and the interleaving
\* (net_client.go, the fields of netClient and the locals of its goroutines).
THEOREM TypeCorrect == Spec => []TypeOK
<1>1. IInv => TypeOK
  BY DEF IInv
<1>2. QED
  BY <1>1, Inductive, PTL

\* Compaction (net_client.go:113-117) and reads of any size keep packet_buf in
\* step with the stream: nothing is skipped or parsed twice.
THEOREM StaysInStep == Spec => []StreamInStep
<1>1. IInv => StreamInStep
  BY DEF IInv
<1>2. QED
  BY <1>1, Inductive, PTL

-----------------------------------------------------------------------------
(* The refinement.                                                         *)

LEMMA InitRefines == Init => Abstract!Init
<1> SUFFICES ASSUME Init PROVE Abstract!Init
  OBVIOUS
<1>1. ends \subseteq Nat \ {0}
  BY NetClientAssumption DEF Init
<1>2. QED
  BY <1>1 DEF Init, Abstract!Init

LEMMA StepRefines == IInv /\ [Next]_vars => [Abstract!Next]_(Abstract!vars)
<1> SUFFICES ASSUME IInv, [Next]_vars PROVE [Abstract!Next]_(Abstract!vars)
  OBVIOUS
<1> USE DEF Abstract!vars
<1>0. TypeOK /\ StreamInStep /\ EndInv
  BY DEF IInv
<1>1. CASE Deliver
  <2>1. Abstract!Packet
    BY <1>0, <1>1, DeliverFacts DEF Abstract!Packet, Deliver, EndInv, TypeOK
  <2>2. QED
    BY <2>1 DEF Abstract!Next
<1>2. CASE CutOff
  <2>1. errs = 0 /\ recver # "gone" /\ recver' # "gone"
    BY <1>0, <1>2 DEF CutOff, EndInv, TypeOK
  <2>2. Abstract!Cut
    BY <1>2, <2>1 DEF Abstract!Cut, CutOff, bufVars
  <2>3. QED
    BY <2>2 DEF Abstract!Next
<1>3. CASE Report
  <2>1. sock # "open" /\ recver # "gone" /\ recver' = "gone"
    BY <1>0, <1>3 DEF Report, EndInv
  <2>2. Abstract!End
    BY <1>3, <2>1 DEF Abstract!End, Report, bufVars
  <2>3. QED
    BY <2>2 DEF Abstract!Next
<1>4. CASE ReadErr \/ WriteErr \/ TakeClose
  <2>1. /\ sock' = "closed"
        /\ (recver' = "gone") = (recver = "gone")
        /\ UNCHANGED <<ends, taken, errs>>
    BY <1>4 DEF ReadErr, WriteErr, TakeClose, bufVars
  <2>2. Abstract!Close
    BY <2>1 DEF Abstract!Close
  <2>3. QED
    BY <2>2 DEF Abstract!Next
<1>5. CASE \/ \E k \in 1 .. max_packet_size : Read(k)
           \/ ReadNothing \/ ReadOn \/ OnNetRecv \/ TakePacket \/ WriteOk \/ Send
           \/ \E u \in Users : UserCloses(u)
  <2>1. /\ UNCHANGED <<ends, taken, errs, sock>>
        /\ (recver' = "gone") = (recver = "gone")
    BY <1>5 DEF Read, ReadNothing, ReadOn, OnNetRecv, HandlerReturns,
      HandlerCloses, TakePacket, WriteOk, Send, UserCloses, bufVars
  <2>2. QED
    BY <2>1
<1>6. CASE UNCHANGED vars
  BY <1>6 DEF vars, bufVars
<1>7. QED
  BY <1>1, <1>2, <1>3, <1>4, <1>5, <1>6 DEF Next, RecvRountine, SendRoutine

\* Whatever the interleaving of the two goroutines, the callers of Close and the
\* peer, the INetFunc sees Connection: whole packets in order, and no call after
\* the OnNetErr that ends it.
THEOREM Refines == Spec => ImplementsConnection
<1>1. QED
  BY InitRefines, StepRefines, Inductive, PTL DEF Spec, ImplementsConnection,
    Abstract!Spec
=============================================================================
