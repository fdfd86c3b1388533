-------------------------- MODULE NetServerProofs ---------------------------
(***************************************************************************)
(* Theorems about NetServer, for every set of connections, ini files and   *)
(* settings, every width of an int and every limit of make.                *)
(***************************************************************************)
EXTENDS NetServer, SequenceTheorems, TLAPS

LEMMA FieldFacts == ClientFields \subseteq Fields
BY DEF Fields

\* What Atoi makes of a value is an int, 0 where there was none to read; make rejects
\* it only when it rejects what is written in the file.
LEMMA NumberFacts ==
  ASSUME NEW ini \in Inis, NEW o
  PROVE  /\ Number(ini, o) \in Ints
         /\ \A f \in Fields : CannotMake(f, Number(ini, o)) =>
              Given(ini, o) /\ CannotMake(f, ini[o])
<1>1. CASE Given(ini, o)
  <2>1. ini[o] \in Int
    BY <1>1, NetServerAssumption DEF Given
  <2>2. Number(ini, o) = Clamp(ini[o])
    BY <1>1 DEF Number
  <2>3. PICK n \in Int : n = ini[o]
    BY <2>1
  <2>4. Clamp(n) \in Ints
    BY <2>3, NetServerAssumption DEF Clamp, Ints, MinInt
  <2>5. ASSUME NEW f \in Fields, CannotMake(f, Clamp(n))
        PROVE  CannotMake(f, n)
    BY <2>3, <2>5, NetServerAssumption DEF Clamp, CannotMake, MinInt
  <2>6. QED
    BY <1>1, <2>2, <2>3, <2>4, <2>5
<1>2. CASE ~Given(ini, o)
  BY <1>2, NetServerAssumption DEF Number, CannotMake, Ints, MinInt
<1>3. QED
  BY <1>1, <1>2

LEMMA InitIInv == Init => IInv
<1> SUFFICES ASSUME Init PROVE IInv
  OBVIOUS
<1>1. 0 \in Ints /\ \A f \in Fields : ~CannotMake(f, 0)
  BY NetServerAssumption DEF Ints, MinInt, CannotMake
<1>2. TypeOK
  <2>1. conf \in [Fields -> Ints]
    BY <1>1 DEF Init, Zero
  <2>2. client_conf \in Numbers /\ sizes \in [Conns -> Numbers]
    BY <1>1 DEF Init, Numbers
  <2>3. calls \in 0 .. MaxCalls /\ starts \in 0 .. MaxStarts
    BY NetServerAssumption DEF Init
  <2>4. backlog \in [Starts -> Seq(Conns)]
    BY EmptySeq DEF Init
  <2>5. wrong \subseteq Fields /\ todo \subseteq ClientFields /\ published \subseteq Numbers
    BY DEF Init
  <2>6. /\ listener \in [Starts -> {"off", "listening", "gone"}]
        /\ conn \in [Conns ->
             {"out", "backlog", "asking", "creating", "made", "reading", "ended", "reset"}]
    BY DEF Init
  <2>7. need \in [Conns -> SUBSET ClientFields] /\ raced \in [Conns -> BOOLEAN]
    BY DEF Init
  <2>8. starting \in BOOLEAN /\ dead \in BOOLEAN
    BY DEF Init
  <2>9. QED
    BY <2>1, <2>2, <2>3, <2>4, <2>5, <2>6, <2>7, <2>8 DEF TypeOK
<1>3. CopyInv
  BY DEF Init, CopyInv
<1>4. ListenInv
  BY DEF Init, ListenInv, Listened
<1>5. ReadInv
  BY DEF Init, ReadInv
<1>6. WrongInv
  BY <1>1 DEF Init, WrongInv, Zero
<1>7. CrashNeedsWrong
  BY DEF Init, CrashNeedsWrong
<1>8. QED
  BY <1>2, <1>3, <1>4, <1>5, <1>6, <1>7 DEF IInv

\* The application changes its Config; what Start copied stays.
LEMMA ConfigStep ==
  ASSUME IInv,
         \/ \E ini \in Inis : LoadFile(ini)
         \/ \E s \in Settings : SetField(s[1], s[2])
  PROVE  IInv'
<1>1. /\ ~starting
      /\ calls < MaxCalls
      /\ calls' = calls + 1
      /\ UNCHANGED <<starts, starting, todo, published, client_conf, listener, backlog,
                     conn, need, sizes, raced, dead>>
  BY DEF LoadFile, SetField, startVars, connVars
<1>2. TypeOK /\ CopyInv /\ ListenInv /\ ReadInv /\ WrongInv /\ CrashNeedsWrong
  BY DEF IInv
<1>3. /\ conf' \in [Fields -> Ints]
      /\ wrong \subseteq wrong'
      /\ wrong' \subseteq Fields
      /\ \A f \in Fields : CannotMake(f, conf'[f]) => f \in wrong'
  <2>1. ASSUME NEW ini \in Inis, LoadFile(ini)
        PROVE  /\ conf' \in [Fields -> Ints]
               /\ wrong \subseteq wrong'
               /\ wrong' \subseteq Fields
               /\ \A f \in Fields : CannotMake(f, conf'[f]) => f \in wrong'
    <3>1. conf' = [f \in Fields |->
                     IF Assigns(ini, f) THEN Number(ini, OptionOf[f]) ELSE conf[f]]
      BY <2>1 DEF LoadFile
    <3>2. wrong' = wrong \cup {f \in Fields : /\ Assigns(ini, f)
                                              /\ Given(ini, OptionOf[f])
                                              /\ CannotMake(f, ini[OptionOf[f]])}
      BY <2>1 DEF LoadFile
    <3>3. \A f \in Fields : conf[f] \in Ints /\ Number(ini, OptionOf[f]) \in Ints
      BY <1>2, NumberFacts DEF TypeOK
    <3>4. conf' \in [Fields -> Ints]
      BY <3>1, <3>3
    <3>5. wrong \subseteq wrong' /\ wrong' \subseteq Fields
      BY <1>2, <3>2 DEF TypeOK
    <3>6. ASSUME NEW f \in Fields, CannotMake(f, conf'[f])
          PROVE  f \in wrong'
      <4>1. CASE Assigns(ini, f)
        <5>1. conf'[f] = Number(ini, OptionOf[f])
          BY <3>1, <4>1
        <5>2. CannotMake(f, Number(ini, OptionOf[f]))
          BY <3>6, <5>1
        <5>3. Given(ini, OptionOf[f]) /\ CannotMake(f, ini[OptionOf[f]])
          BY <5>2, NumberFacts
        <5>4. QED
          BY <3>2, <4>1, <5>3
      <4>2. CASE ~Assigns(ini, f)
        <5>1. conf'[f] = conf[f]
          BY <3>1, <4>2
        <5>2. CannotMake(f, conf[f])
          BY <3>6, <5>1
        <5>3. f \in wrong
          BY <1>2, <5>2 DEF WrongInv
        <5>4. QED
          BY <3>5, <5>3
      <4>3. QED
        BY <4>1, <4>2
    <3>7. QED
      BY <3>4, <3>5, <3>6
  <2>2. ASSUME NEW s \in Settings, SetField(s[1], s[2])
        PROVE  /\ conf' \in [Fields -> Ints]
               /\ wrong \subseteq wrong'
               /\ wrong' \subseteq Fields
               /\ \A f \in Fields : CannotMake(f, conf'[f]) => f \in wrong'
    <3>1. s[1] \in Fields /\ s[2] \in Ints
      BY NetServerAssumption
    <3>2. PICK f \in Fields, n \in Ints : f = s[1] /\ n = s[2]
      BY <3>1
    <3>3. /\ conf' = [conf EXCEPT ![f] = n]
          /\ wrong' = wrong \cup {g \in {f} : CannotMake(g, n)}
      BY <2>2, <3>2 DEF SetField
    <3>4. conf' \in [Fields -> Ints] /\ wrong \subseteq wrong' /\ wrong' \subseteq Fields
      BY <1>2, <3>3 DEF TypeOK
    <3>5. ASSUME NEW g \in Fields, CannotMake(g, conf'[g])
          PROVE  g \in wrong'
      <4>1. CASE g = f
        <5>1. conf'[g] = n
          BY <1>2, <3>3, <4>1 DEF TypeOK
        <5>2. CannotMake(g, n)
          BY <3>5, <5>1
        <5>3. QED
          BY <3>3, <4>1, <5>2
      <4>2. CASE g # f
        <5>1. conf'[g] = conf[g]
          BY <1>2, <3>3, <4>2 DEF TypeOK
        <5>2. CannotMake(g, conf[g])
          BY <3>5, <5>1
        <5>3. QED
          BY <1>2, <3>3, <5>2 DEF WrongInv
      <4>3. QED
        BY <4>1, <4>2
    <3>6. QED
      BY <3>4, <3>5
  <2>3. QED
    BY <2>1, <2>2
<1>4. calls' \in 0 .. MaxCalls
  BY <1>1, <1>2, NetServerAssumption DEF TypeOK
<1>5. TypeOK'
  BY <1>1, <1>2, <1>3, <1>4 DEF TypeOK
<1>6. CopyInv'
  BY <1>1, <1>2 DEF CopyInv
<1>7. ListenInv'
  BY <1>1, <1>2 DEF ListenInv, Listened, Published
<1>8. ReadInv'
  BY <1>1, <1>2 DEF ReadInv, Published
<1>9. WrongInv'
  BY <1>1, <1>2, <1>3 DEF WrongInv
<1>10. CrashNeedsWrong'
  BY <1>1, <1>2, <1>3 DEF CrashNeedsWrong
<1>11. QED
  BY <1>5, <1>6, <1>7, <1>8, <1>9, <1>10 DEF IInv

\* Start publishes the Config; whoever is being made now may see a mixture.
LEMMA StartStep ==
  ASSUME IInv, Start
  PROVE  IInv'
<1> DEFINE p == [f \in ClientFields |-> conf[f]]
<1>1. /\ ~starting
      /\ starts < MaxStarts /\ starts' = starts + 1
      /\ starting' = TRUE
      /\ todo' = ClientFields
      /\ published' = published \cup {p}
      /\ raced' = [c \in Conns |-> raced[c] \/ conn[c] = "creating"]
      /\ UNCHANGED <<conf, calls, wrong, client_conf, listener, backlog, conn, need, sizes, dead>>
  BY DEF Start, confVars
<1>2. TypeOK /\ CopyInv /\ ListenInv /\ ReadInv /\ WrongInv /\ CrashNeedsWrong
  BY DEF IInv
<1>3. p \in Numbers /\ \A f \in ClientFields : p[f] = conf[f]
  BY <1>2, FieldFacts DEF TypeOK, Numbers
<1>4. starts' \in 0 .. MaxStarts /\ starts' > 0
  BY <1>1, <1>2, NetServerAssumption DEF TypeOK
<1>5. raced' \in [Conns -> BOOLEAN]
  BY <1>1
<1>6. TypeOK'
  BY <1>1, <1>2, <1>3, <1>4, <1>5 DEF TypeOK
<1>7. CopyInv'
  <2>1. ClientFields # {}
    BY DEF ClientFields
  <2>2. QED
    BY <1>1, <1>2, <1>4, <2>1 DEF CopyInv
<1>8. ListenInv'
  BY <1>1, <1>2, <1>4 DEF ListenInv, Listened, Published
<1>9. ReadInv'
  <2> SUFFICES ASSUME NEW c \in Conns
               PROVE  /\ conn[c] \in {"creating", "made", "reading"} =>
                           \A f \in ClientFields \ need[c] : Published(f, sizes[c][f])'
                      /\ conn[c] \in {"made", "reading"} =>
                           /\ need[c] = {}
                           /\ ~raced'[c] => sizes[c] \in published'
                      /\ ~(conn[c] = "creating" /\ ~raced'[c])
    BY <1>1 DEF ReadInv
  <2>1. raced'[c] = (raced[c] \/ conn[c] = "creating")
    BY <1>1
  <2>2. \A f \in ClientFields : Published(f, sizes[c][f]) => Published(f, sizes[c][f])'
    BY <1>1 DEF Published
  <2>3. QED
    BY <1>1, <1>2, <2>1, <2>2 DEF ReadInv
<1>10. WrongInv'
  <2>1. ASSUME NEW f \in Fields, CannotMake(f, p[f])
        PROVE  f \in wrong
    <3>1. f \in ClientFields
      BY <2>1 DEF CannotMake, ClientFields
    <3>2. CannotMake(f, conf[f])
      BY <1>3, <2>1, <3>1
    <3>3. QED
      BY <1>2, <3>2 DEF WrongInv
  <2>2. QED
    BY <1>1, <1>2, <2>1 DEF WrongInv
<1>11. CrashNeedsWrong'
  BY <1>1, <1>2 DEF CrashNeedsWrong
<1>12. QED
  BY <1>6, <1>7, <1>8, <1>9, <1>10, <1>11 DEF IInv

\* A field is copied: the number comes from the Config Start was called with, and
\* no connection that is being made is free of the race.
LEMMA CopyStep ==
  ASSUME IInv, NEW f \in ClientFields, Copy(f)
  PROVE  IInv'
<1>1. /\ f \in todo
      /\ todo' = todo \ {f}
      /\ client_conf' = [client_conf EXCEPT ![f] = conf[f]]
      /\ UNCHANGED <<conf, calls, wrong, starts, starting, published, listener, backlog,
                     conn, need, sizes, raced, dead>>
  BY DEF Copy, confVars, connVars
<1>2. TypeOK /\ CopyInv /\ ListenInv /\ ReadInv /\ WrongInv /\ CrashNeedsWrong
  BY DEF IInv
<1>3. conf[f] \in Ints /\ client_conf' \in Numbers
  BY <1>1, <1>2, FieldFacts DEF TypeOK, Numbers
<1>4. TypeOK'
  BY <1>1, <1>2, <1>3 DEF TypeOK
<1>5. starting /\ [g \in ClientFields |-> conf[g]] \in published
  BY <1>1, <1>2 DEF CopyInv
<1>6. \A g \in ClientFields : client_conf'[g] = IF g = f THEN conf[g] ELSE client_conf[g]
  BY <1>1, <1>2 DEF TypeOK, Numbers
<1>7. CopyInv'
  <2>1. \A g \in ClientFields \ todo' : client_conf'[g] = conf[g]
    BY <1>1, <1>2, <1>5, <1>6 DEF CopyInv
  <2>2. ASSUME todo' = {}
        PROVE  client_conf' = [g \in ClientFields |-> conf[g]]
    BY <1>3, <2>1, <2>2 DEF Numbers
  <2>3. QED
    BY <1>1, <1>2, <1>5, <2>1, <2>2 DEF CopyInv
<1>8. Published(f, conf[f])
  BY <1>5 DEF Published
<1>9. ListenInv'
  <2>1. \A g \in ClientFields : Published(g, client_conf[g]) => Published(g, client_conf'[g])
    BY <1>6, <1>8
  <2>2. QED
    BY <1>1, <1>2, <2>1 DEF ListenInv, Listened, Published
<1>10. ReadInv'
  BY <1>1, <1>2 DEF ReadInv, Published
<1>11. WrongInv' /\ CrashNeedsWrong'
  BY <1>1, <1>2 DEF WrongInv, CrashNeedsWrong
<1>12. QED
  BY <1>4, <1>7, <1>9, <1>10, <1>11 DEF IInv

\* Start returns, with a listener or without.
LEMMA ListenStep ==
  ASSUME IInv, Listen
  PROVE  IInv'
<1>1. /\ starting /\ todo = {}
      /\ starting' = FALSE
      /\ listener' = [listener EXCEPT ![starts] = "listening"] \/ listener' = listener
      /\ UNCHANGED <<conf, calls, wrong, starts, todo, published, client_conf, backlog,
                     conn, need, sizes, raced, dead>>
  BY DEF Listen, confVars, connVars
<1>2. TypeOK /\ CopyInv /\ ListenInv /\ ReadInv /\ WrongInv /\ CrashNeedsWrong
  BY DEF IInv
<1>3. TypeOK'
  BY <1>1, <1>2 DEF TypeOK
<1>4. starts > 0 /\ client_conf \in published
  BY <1>1, <1>2 DEF CopyInv
<1>5. CopyInv'
  BY <1>1, <1>4 DEF CopyInv
<1>6. ListenInv'
  <2>1. \A f \in ClientFields : Published(f, client_conf[f])
    BY <1>4 DEF Published
  <2>2. \A n \in Starts : listener[n] # "off" => listener'[n] # "off"
    BY <1>1, <1>2 DEF TypeOK
  <2>3. QED
    BY <1>1, <1>2, <1>4, <2>1, <2>2 DEF ListenInv, Listened, Published
<1>7. ReadInv'
  BY <1>1, <1>2 DEF ReadInv, Published
<1>8. WrongInv' /\ CrashNeedsWrong'
  BY <1>1, <1>2 DEF WrongInv, CrashNeedsWrong
<1>9. QED
  BY <1>3, <1>5, <1>6, <1>7, <1>8 DEF IInv

\* Connections arrive, are accepted or lost, refused or over: none is made.
LEMMA MoveStep ==
  ASSUME IInv,
         \/ \E n \in Starts : Listening(n)
         \/ \E c \in Conns : Refused(c) \/ End(c)
  PROVE  IInv'
<1>1. UNCHANGED <<conf, calls, wrong, starts, starting, todo, published, client_conf,
                  need, sizes, raced, dead>>
  BY DEF Listening, Connect, Refused, End, Accept, AcceptErr, confVars, startVars
<1>2. TypeOK /\ CopyInv /\ ListenInv /\ ReadInv /\ WrongInv /\ CrashNeedsWrong
  BY DEF IInv
<1>3. /\ conn' \in [Conns ->
           {"out", "backlog", "asking", "creating", "made", "reading", "ended", "reset"}]
      /\ \A c \in Conns : conn'[c] \in {"creating", "made", "reading"} => conn'[c] = conn[c]
      /\ (\A c \in Conns : conn'[c] # "out" => conn[c] # "out") \/ Listened
      /\ listener' \in [Starts -> {"off", "listening", "gone"}]
      /\ \A n \in Starts : listener'[n] = "off" <=> listener[n] = "off"
      /\ backlog' \in [Starts -> Seq(Conns)]
  <2>1. ASSUME NEW n \in Starts, NEW c \in Conns, Connect(n, c)
        PROVE  /\ conn' = [conn EXCEPT ![c] = "backlog"]
               /\ Listened
               /\ listener' = listener
               /\ backlog' \in [Starts -> Seq(Conns)]
    <3>1. backlog[n] \in Seq(Conns)
      BY <1>2 DEF TypeOK
    <3>2. Append(backlog[n], c) \in Seq(Conns)
      BY <3>1, AppendProperties
    <3>3. backlog' = [backlog EXCEPT ![n] = Append(backlog[n], c)]
      BY <2>1 DEF Connect
    <3>4. backlog' \in [Starts -> Seq(Conns)]
      BY <1>2, <3>2, <3>3 DEF TypeOK
    <3>5. QED
      BY <2>1, <3>4 DEF Connect, Listened
  <2>2. ASSUME NEW n \in Starts, Accept(n)
        PROVE  /\ \E c \in Conns : conn' = [conn EXCEPT ![c] = "asking"]
               /\ Listened
               /\ listener' = listener
               /\ backlog' \in [Starts -> Seq(Conns)]
    <3>1. backlog[n] \in Seq(Conns) /\ backlog[n] # <<>>
      BY <1>2, <2>2 DEF TypeOK, Accept
    <3>2. Head(backlog[n]) \in Conns /\ Tail(backlog[n]) \in Seq(Conns)
      BY <3>1, HeadTailProperties
    <3>3. backlog' = [backlog EXCEPT ![n] = Tail(backlog[n])]
      BY <2>2 DEF Accept
    <3>4. backlog' \in [Starts -> Seq(Conns)]
      BY <1>2, <3>2, <3>3 DEF TypeOK
    <3>5. QED
      BY <2>2, <3>2, <3>4 DEF Accept, Listened
  <2>3. ASSUME NEW n \in Starts, AcceptErr(n)
        PROVE  /\ \A c \in Conns : conn'[c] = "reset" \/ conn'[c] = conn[c]
               /\ conn' = [c \in Conns |-> conn'[c]]
               /\ Listened
               /\ listener' = [listener EXCEPT ![n] = "gone"] /\ listener[n] # "off"
               /\ backlog' \in [Starts -> Seq(Conns)]
    <3>1. <<>> \in Seq(Conns)
      BY EmptySeq
    <3>2. backlog' = [backlog EXCEPT ![n] = <<>>]
      BY <2>3 DEF AcceptErr
    <3>3. backlog' \in [Starts -> Seq(Conns)]
      BY <1>2, <3>1, <3>2 DEF TypeOK
    <3>4. QED
      BY <2>3, <3>3 DEF AcceptErr, Listened
  <2>4. ASSUME NEW c \in Conns, Refused(c) \/ End(c)
        PROVE  /\ conn' = [conn EXCEPT ![c] = "ended"] /\ conn[c] # "out"
               /\ listener' = listener /\ backlog' = backlog
    BY <2>4 DEF Refused, End
  <2>5. CASE \E n \in Starts : Listening(n)
    <3>1. PICK n \in Starts : Listening(n)
      BY <2>5
    <3>2. CASE \E c \in Conns : Connect(n, c)
      BY <1>2, <2>1, <3>2 DEF TypeOK
    <3>3. CASE Accept(n)
      BY <1>2, <2>2, <3>3 DEF TypeOK
    <3>4. CASE AcceptErr(n)
      BY <1>2, <2>3, <3>4 DEF TypeOK
    <3>5. QED
      BY <3>1, <3>2, <3>3, <3>4 DEF Listening
  <2>6. CASE \E c \in Conns : Refused(c) \/ End(c)
    BY <1>2, <2>4, <2>6 DEF TypeOK
  <2>7. QED
    BY <2>5, <2>6
<1>4. TypeOK'
  BY <1>1, <1>2, <1>3 DEF TypeOK
<1>5. CopyInv' /\ WrongInv' /\ CrashNeedsWrong'
  BY <1>1, <1>2 DEF CopyInv, WrongInv, CrashNeedsWrong
<1>6. ListenInv'
  BY <1>1, <1>2, <1>3 DEF ListenInv, Listened, Published
<1>7. ReadInv'
  <2>1. ASSUME NEW c \in Conns
        PROVE  /\ conn'[c] \in {"creating", "made", "reading"} =>
                    conn[c] \in {"creating", "made", "reading"}
               /\ conn'[c] \in {"made", "reading"} => conn[c] \in {"made", "reading"}
               /\ conn'[c] = "creating" => conn[c] = "creating"
    BY <1>3
  <2>2. QED
    BY <1>1, <1>2, <2>1 DEF ReadInv, Published
<1>8. QED
  BY <1>4, <1>5, <1>6, <1>7 DEF IInv

\* createNetClient begins.
LEMMA AcceptedStep ==
  ASSUME IInv, NEW c \in Conns, Accepted(c)
  PROVE  IInv'
<1>1. /\ conn[c] = "asking"
      /\ conn' = [conn EXCEPT ![c] = "creating"]
      /\ need' = [need EXCEPT ![c] = ClientFields]
      /\ raced' = [raced EXCEPT ![c] = (todo # {})]
      /\ UNCHANGED <<conf, calls, wrong, starts, starting, todo, published, client_conf,
                     listener, backlog, sizes, dead>>
  BY DEF Accepted, confVars, startVars
<1>2. TypeOK /\ CopyInv /\ ListenInv /\ ReadInv /\ WrongInv /\ CrashNeedsWrong
  BY DEF IInv
<1>3. /\ conn' \in [Conns ->
           {"out", "backlog", "asking", "creating", "made", "reading", "ended", "reset"}]
      /\ need' \in [Conns -> SUBSET ClientFields]
  BY <1>1, <1>2 DEF TypeOK
<1>4. PICK b \in BOOLEAN : b = (todo # {})
  OBVIOUS
<1>5. raced' \in [Conns -> BOOLEAN]
  BY <1>1, <1>2, <1>4 DEF TypeOK
<1>6. TypeOK'
  BY <1>1, <1>2, <1>3, <1>5 DEF TypeOK
<1>7. CopyInv' /\ WrongInv' /\ CrashNeedsWrong'
  BY <1>1, <1>2 DEF CopyInv, WrongInv, CrashNeedsWrong
<1>8. /\ conn'[c] = "creating" /\ need'[c] = ClientFields
      /\ raced'[c] = (todo # {})
      /\ \A d \in Conns \ {c} : conn'[d] = conn[d] /\ need'[d] = need[d] /\ raced'[d] = raced[d]
  BY <1>1, <1>2 DEF TypeOK
<1>9. ListenInv'
  BY <1>1, <1>2, <1>8 DEF ListenInv, Listened, Published
<1>10. ReadInv'
  <2>1. ~raced'[c] => todo = {}
    BY <1>8, Zenon
  <2>2. ClientFields \ need'[c] = {}
    BY <1>8
  <2>3. ASSUME NEW d \in Conns \ {c}
        PROVE  /\ conn'[d] \in {"creating", "made", "reading"} =>
                    \A g \in ClientFields \ need'[d] : Published(g, sizes'[d][g])
               /\ conn'[d] \in {"made", "reading"} =>
                    need'[d] = {} /\ (~raced'[d] => sizes'[d] \in published)
               /\ conn'[d] = "creating" /\ ~raced'[d] =>
                    /\ todo = {}
                    /\ \A g \in ClientFields \ need'[d] : sizes'[d][g] = client_conf[g]
    BY <1>1, <1>2, <1>8 DEF ReadInv
  <2>4. conn'[c] = "creating"
    BY <1>8
  <2>5. QED
    BY <1>1, <2>1, <2>2, <2>3, <2>4 DEF ReadInv, Published
<1>11. QED
  BY <1>6, <1>7, <1>9, <1>10 DEF IInv

\* createNetClient reads a field.
LEMMA ReadStep ==
  ASSUME IInv, ~dead, NEW c \in Conns, NEW f \in ClientFields, Read(c, f)
  PROVE  IInv'
<1>1. /\ conn[c] = "creating"
      /\ f \in need[c]
      /\ need' = [need EXCEPT ![c] = need[c] \ {f}]
      /\ sizes' = [sizes EXCEPT ![c] = [sizes[c] EXCEPT ![f] = client_conf[f]]]
      /\ conn' = [conn EXCEPT ![c] = IF need[c] = {f} THEN "made" ELSE "creating"]
      /\ UNCHANGED <<conf, calls, wrong, starts, starting, todo, published, client_conf,
                     listener, backlog, raced>>
  BY DEF Read, Size, confVars, startVars
<1>2. TypeOK /\ CopyInv /\ ListenInv /\ ReadInv /\ WrongInv
  BY DEF IInv
<1>3. Published(f, client_conf[f]) /\ starts > 0 /\ client_conf \in Numbers
  BY <1>1, <1>2 DEF ListenInv, TypeOK
<1>4. dead' \in BOOLEAN /\ (dead' => \E g \in wrong : \E p \in published : CannotMake(g, p[g]))
  <2>1. dead' = (f = "max_out_packet_nums" /\ CannotMake(f, client_conf[f]))
    BY DEF Read, Size
  <2>2. ASSUME CannotMake(f, client_conf[f])
        PROVE  \E g \in wrong : \E p \in published : CannotMake(g, p[g])
    <3>1. PICK p \in published : p[f] = client_conf[f]
      BY <1>3 DEF Published
    <3>2. CannotMake(f, p[f])
      BY <2>2, <3>1
    <3>3. f \in wrong
      BY <1>2, <3>2, FieldFacts DEF WrongInv
    <3>4. QED
      BY <3>2, <3>3
  <2>3. dead' \in BOOLEAN
    BY <2>1, Zenon
  <2>4. dead' => CannotMake(f, client_conf[f])
    BY <2>1, Zenon
  <2>5. QED
    BY <2>2, <2>3, <2>4
<1>5. /\ conn'[c] = IF need[c] = {f} THEN "made" ELSE "creating"
      /\ need'[c] = need[c] \ {f}
      /\ sizes'[c] = [sizes[c] EXCEPT ![f] = client_conf[f]]
      /\ \A d \in Conns \ {c} : conn'[d] = conn[d] /\ need'[d] = need[d] /\ sizes'[d] = sizes[d]
  BY <1>1, <1>2 DEF TypeOK
<1>6. sizes'[c] \in Numbers
  BY <1>2, <1>3, <1>5 DEF TypeOK, Numbers
<1>7. TypeOK'
  <2>1. sizes' \in [Conns -> Numbers]
    BY <1>1, <1>2, <1>5, <1>6 DEF TypeOK
  <2>2. need' \in [Conns -> SUBSET ClientFields]
    BY <1>1, <1>2 DEF TypeOK
  <2>3. conn' \in [Conns ->
          {"out", "backlog", "asking", "creating", "made", "reading", "ended", "reset"}]
    BY <1>1, <1>2 DEF TypeOK
  <2>4. QED
    BY <1>1, <1>2, <1>4, <2>1, <2>2, <2>3 DEF TypeOK
<1>8. CopyInv' /\ WrongInv'
  BY <1>1, <1>2 DEF CopyInv, WrongInv
<1>9. CrashNeedsWrong'
  BY <1>1, <1>4 DEF CrashNeedsWrong
<1>10. ListenInv'
  BY <1>1, <1>2, <1>5 DEF ListenInv, Listened, Published
<1>11. \A g \in ClientFields : sizes'[c][g] = IF g = f THEN client_conf[g] ELSE sizes[c][g]
  BY <1>2, <1>5 DEF TypeOK, Numbers
<1>12. ReadInv'
  <2>1. \A g \in ClientFields \ need'[c] : Published(g, sizes'[c][g])
    BY <1>1, <1>2, <1>3, <1>5, <1>11 DEF ReadInv
  <2>2. ASSUME ~raced[c]
        PROVE  todo = {} /\ \A g \in ClientFields \ need'[c] : sizes'[c][g] = client_conf[g]
    BY <1>1, <1>2, <1>5, <1>11, <2>2 DEF ReadInv
  <2>3. ASSUME need[c] = {f}
        PROVE  need'[c] = {} /\ (~raced[c] => sizes'[c] \in published)
    <3>1. need'[c] = {}
      BY <1>5, <2>3
    <3>2. ASSUME ~raced[c]
          PROVE  sizes'[c] \in published
      <4>1. \A g \in ClientFields : sizes'[c][g] = client_conf[g]
        BY <2>2, <3>1, <3>2
      <4>2. sizes'[c] = client_conf
        BY <1>3, <1>6, <4>1 DEF Numbers
      <4>3. QED
        BY <1>2, <1>3, <2>2, <3>2, <4>2 DEF CopyInv
    <3>3. QED
      BY <3>1, <3>2
  <2>4. ASSUME NEW d \in Conns \ {c}
        PROVE  /\ conn'[d] \in {"creating", "made", "reading"} =>
                    \A g \in ClientFields \ need'[d] : Published(g, sizes'[d][g])
               /\ conn'[d] \in {"made", "reading"} =>
                    need'[d] = {} /\ (~raced[d] => sizes'[d] \in published)
               /\ conn'[d] = "creating" /\ ~raced[d] =>
                    /\ todo = {}
                    /\ \A g \in ClientFields \ need'[d] : sizes'[d][g] = client_conf[g]
    BY <1>2, <1>5 DEF ReadInv
  <2>5. ASSUME NEW g, NEW n
        PROVE  Published(g, n)' <=> Published(g, n)
    BY <1>1 DEF Published
  <2>6. QED
    BY <1>1, <1>5, <2>1, <2>2, <2>3, <2>4 DEF ReadInv, Published
<1>13. QED
  BY <1>7, <1>8, <1>9, <1>10, <1>12 DEF IInv

\* recvRountine makes its buffer.
LEMMA BeginStep ==
  ASSUME IInv, ~dead, NEW c \in Conns, Begin(c)
  PROVE  IInv'
<1>1. /\ conn[c] = "made"
      /\ \E q \in {"reading", "ended"} : conn' = [conn EXCEPT ![c] = q]
      /\ UNCHANGED <<conf, calls, wrong, starts, starting, todo, published, client_conf,
                     listener, backlog, need, sizes, raced>>
  BY DEF Begin, confVars, startVars
<1>2. TypeOK /\ CopyInv /\ ListenInv /\ ReadInv /\ WrongInv
  BY DEF IInv
<1>3. dead' \in BOOLEAN /\ (dead' => \E g \in wrong : \E p \in published : CannotMake(g, p[g]))
  <2>1. PICK f \in ClientFields : f = "max_packet_size"
    BY DEF ClientFields
  <2>2. dead' = CannotMake(f, sizes[c][f])
    BY <2>1 DEF Begin
  <2>3. ASSUME CannotMake(f, sizes[c][f])
        PROVE  \E g \in wrong : \E p \in published : CannotMake(g, p[g])
    <3>1. Published(f, sizes[c][f])
      BY <1>1, <1>2 DEF ReadInv
    <3>2. PICK p \in published : p[f] = sizes[c][f]
      BY <3>1 DEF Published
    <3>3. CannotMake(f, p[f])
      BY <2>3, <3>2
    <3>4. f \in wrong
      BY <1>2, <3>3, FieldFacts DEF WrongInv
    <3>5. QED
      BY <3>3, <3>4
  <2>4. CannotMake(f, sizes[c][f]) \in BOOLEAN
    BY DEF CannotMake
  <2>5. QED
    BY <2>2, <2>3, <2>4
<1>4. PICK q \in {"reading", "ended"} : conn' = [conn EXCEPT ![c] = q]
  BY <1>1
<1>5. conn'[c] = q /\ \A d \in Conns \ {c} : conn'[d] = conn[d]
  BY <1>2, <1>4 DEF TypeOK
<1>6. TypeOK'
  BY <1>1, <1>2, <1>3, <1>4 DEF TypeOK
<1>7. CopyInv' /\ WrongInv'
  BY <1>1, <1>2 DEF CopyInv, WrongInv
<1>8. CrashNeedsWrong'
  BY <1>1, <1>3 DEF CrashNeedsWrong
<1>9. ListenInv'
  BY <1>1, <1>2, <1>5 DEF ListenInv, Listened, Published
<1>10. ReadInv'
  BY <1>1, <1>2, <1>5 DEF ReadInv, Published
<1>11. QED
  BY <1>6, <1>7, <1>8, <1>9, <1>10 DEF IInv

LEMMA StepIInv == IInv /\ [Next]_vars => IInv'
<1> SUFFICES ASSUME IInv, [Next]_vars PROVE IInv'
  OBVIOUS
<1>1. CASE Next
  <2>1. CASE Application
    BY <2>1, ConfigStep, StartStep, CopyStep, ListenStep DEF Application
  <2>2. CASE \E n \in Starts : Listening(n)
    BY <2>2, MoveStep
  <2>3. CASE \E c \in Conns : Client(c)
    BY <1>1, <2>3, MoveStep, AcceptedStep, ReadStep, BeginStep DEF Client, Next
  <2>4. QED
    BY <1>1, <2>1, <2>2, <2>3 DEF Next
<1>2. CASE UNCHANGED vars
  BY <1>2 DEF vars, confVars, startVars, connVars, IInv, TypeOK, CopyInv, ListenInv, Listened,
    ReadInv, WrongInv, CrashNeedsWrong, Published
<1>3. QED
  BY <1>1, <1>2

\* IInv holds in every state of the server.
THEOREM Inductive == Spec => []IInv
<1>1. QED
  BY InitIInv, StepIInv, PTL DEF Spec

\* Every variable keeps its type.
THEOREM TypeCorrect == Spec => []TypeOK
<1>1. IInv => TypeOK
  BY DEF IInv
<1>2. QED
  BY <1>1, Inductive, PTL

\* A netClient works with numbers Start was called with (net_server.go:63-69), even
\* when createNetClient reads them by pointer (net_client.go:33-36) while another
\* Start writes them; without that race they all come from one Config.
THEOREM ConfigIsOfAStart == Spec => []ConfigOfAStart
<1>1. IInv => ConfigOfAStart
  BY DEF IInv, ReadInv, ConfigOfAStart, Published
<1>2. QED
  BY <1>1, Inductive, PTL

\* A configuration whose numbers make accepts never ends the process, whatever it
\* misses or misspells (config.go:48-108).
THEOREM NoCrash == Spec => []CrashNeedsWrong
<1>1. IInv => CrashNeedsWrong
  BY DEF IInv
<1>2. QED
  BY <1>1, Inductive, PTL
=============================================================================
