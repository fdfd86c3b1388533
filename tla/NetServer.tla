----------------------------- MODULE NetServer ------------------------------
(***************************************************************************)
(* sdk/net_server.bak: Config and netServer, up to the netClient that each *)
(* accepted connection becomes (module NetClient).                         *)
(*                                                                         *)
(* One goroutine of the application fills a Config, from an ini file or    *)
(* field by field, and calls Start, which copies it, listens, and leaves a *)
(* goroutine in the accept loop; it may change the Config and call Start   *)
(* again, whether that one still listens or not.  Each connection gets a   *)
(* goroutine of its own, which asks the user (OnNetAccpet) and either      *)
(* closes it or makes a netClient with the numbers Start has copied: there *)
(* is one copy, which these goroutines read through a pointer while a      *)
(* second Start may be writing it.  One panic ends the process.  Stop has  *)
(* an empty body and is left out.                                          *)
(*                                                                         *)
(* An ini file is the function from the options of its section [listen] to *)
(* their values, numbers of any size or NotANumber.  The address is left   *)
(* out: whether one can listen on it is not known.  So is memory that runs *)
(* out on a size that make accepts.                                        *)
(***************************************************************************)
EXTENDS Integers, Sequences

CONSTANTS
  Conns,      \* connections that peers make, each once
  Inis,       \* the ini files there are
  Settings,   \* calls of the setters: <<field, number>>
  NotANumber, \* a value Atoi cannot read
  MaxInt,     \* the largest int
  MaxChan,    \* the largest capacity make accepts for io_chan
  MaxSlice,   \* the largest length make accepts for packet_buf
  Second,     \* time.Second, in nanoseconds
  MaxCalls,   \* bound: calls of LoadFile and the setters
  MaxStarts   \* bound: calls of Start

\* What a netClient is made of, and the number nobody looks at.
ClientFields == {"alram_time", "max_out_packet_nums", "max_packet_size"}
Fields == ClientFields \cup {"max_accpet_nums"}

MinInt == -MaxInt - 1
Ints == MinInt .. MaxInt

ASSUME NetServerAssumption ==
  /\ \A ini \in Inis : \A o \in DOMAIN ini : ini[o] \in Int \cup {NotANumber}
  /\ Settings \subseteq Fields \X Ints
  /\ MaxInt \in Nat /\ MaxChan \in 0 .. MaxInt /\ MaxSlice \in 0 .. MaxInt
  /\ Second \in Nat \ {0}
  /\ MaxCalls \in Nat
  /\ MaxStarts \in Nat

Starts == 1 .. MaxStarts

VARIABLES
  conf,        \* the application's Config
  calls,       \* calls of LoadFile and the setters so far
  wrong,       \* history: fields one of them gave a number that make rejects
  starts,      \* calls of Start so far
  starting,    \* the last one has not returned
  todo,        \* the fields it has still to copy
  published,   \* history: the numbers of the Configs Start was called with
  client_conf, \* the server's copy
  listener,    \* listener[n]: where the goroutine of the n-th Start is
  backlog,     \* backlog[n]: connections to it that are not yet accepted
  conn,        \* conn[c]: where connection c is
  need,        \* need[c]: fields createNetClient has still to read for c
  sizes,       \* sizes[c]: what it has read
  raced,       \* history: Start was copying while createNetClient read for c
  dead         \* the process has panicked

confVars == <<conf, calls, wrong>>
startVars == <<starts, starting, todo, published, client_conf>>
connVars == <<conn, need, sizes, raced>>
vars == <<confVars, startVars, listener, backlog, connVars, dead>>

Zero == [f \in Fields |-> 0]
Numbers == [ClientFields -> Ints]

TypeOK ==
  /\ conf \in [Fields -> Ints]
  /\ calls \in 0 .. MaxCalls
  /\ wrong \subseteq Fields
  /\ starts \in 0 .. MaxStarts
  /\ starting \in BOOLEAN
  /\ todo \subseteq ClientFields
  /\ published \subseteq Numbers
  /\ client_conf \in Numbers
  /\ listener \in [Starts -> {"off", "listening", "gone"}]
  /\ backlog \in [Starts -> Seq(Conns)]
  /\ conn \in [Conns ->
       {"out", "backlog", "asking", "creating", "made", "reading", "ended", "reset"}]
  /\ need \in [Conns -> SUBSET ClientFields]
  /\ sizes \in [Conns -> Numbers]
  /\ raced \in [Conns -> BOOLEAN]
  /\ dead \in BOOLEAN

\* CreateNetServer; a Config starts with zeros.
Init ==
  /\ conf = Zero
  /\ calls = 0
  /\ wrong = {}
  /\ starts = 0
  /\ starting = FALSE
  /\ todo = {}
  /\ published = {}
  /\ client_conf = [f \in ClientFields |-> 0]
  /\ listener = [n \in Starts |-> "off"]
  /\ backlog = [n \in Starts |-> <<>>]
  /\ conn = [c \in Conns |-> "out"]
  /\ need = [c \in Conns |-> {}]
  /\ sizes = [c \in Conns |-> [f \in ClientFields |-> 0]]
  /\ raced = [c \in Conns |-> FALSE]
  /\ dead = FALSE

\* make panics on a negative number and on one that is too large.
CannotMake(f, n) ==
  \/ f = "max_out_packet_nums" /\ n \notin 0 .. MaxChan
  \/ f = "max_packet_size" /\ n \notin 0 .. MaxSlice

-----------------------------------------------------------------------------
(* Config.                                                                 *)

\* The options LoadFile tests for, in this order.
Tested == <<"host", "port", "max_accept_nums", "timeout", "packet_nums", "packet_size">>

\* The test that comes before the assignment of each field, and the option the
\* field is read from, which is not the one tested in the case of max_accpet_nums.
TestOf == [max_accpet_nums |-> 3, alram_time |-> 4,
           max_out_packet_nums |-> 5, max_packet_size |-> 6]
OptionOf == [max_accpet_nums |-> "max_accpet_nums", alram_time |-> "timeout",
             max_out_packet_nums |-> "packet_nums", max_packet_size |-> "packet_size"]

Given(ini, o) == o \in DOMAIN ini /\ ini[o] # NotANumber

\* Atoi of a number an int cannot hold: the nearest one, and an error.
Clamp(n) == IF n > MaxInt THEN MaxInt ELSE IF n < MinInt THEN MinInt ELSE n

\* Mutant: what cannot be read is marked with -1.
MinusOneOnError(ini, o) == IF Given(ini, o) THEN Clamp(ini[o]) ELSE -1

\* The errors of String and Atoi are ignored: what is missing or no number is 0.
Number(ini, o) == IF Given(ini, o) THEN Clamp(ini[o]) ELSE 0

Passes(ini, n) == \A k \in 1 .. n : Tested[k] \in DOMAIN ini
Assigns(ini, f) == Passes(ini, TestOf[f])

\* LoadFile: it returns at the first option that is missing, and the fields
\* before it have been assigned.
LoadFile(ini) ==
  /\ ~starting
  /\ calls < MaxCalls
  /\ calls' = calls + 1
  /\ conf' = [f \in Fields |->
                IF Assigns(ini, f) THEN Number(ini, OptionOf[f]) ELSE conf[f]]
  /\ wrong' = wrong \cup {f \in Fields :
                /\ Assigns(ini, f)
                /\ Given(ini, OptionOf[f])
                /\ CannotMake(f, ini[OptionOf[f]])}
  /\ UNCHANGED <<startVars, listener, backlog, connVars, dead>>

\* SetAccpetNums, SetAlramTime, SetOutPacketNums, SetPacketSize
SetField(f, n) ==
  /\ ~starting
  /\ calls < MaxCalls
  /\ calls' = calls + 1
  /\ conf' = [conf EXCEPT ![f] = n]
  /\ wrong' = wrong \cup {g \in {f} : CannotMake(g, n)}
  /\ UNCHANGED <<startVars, listener, backlog, connVars, dead>>

-----------------------------------------------------------------------------
(* Start and the listening goroutines.                                     *)

\* Start is called: nothing keeps it from being called again.
Start ==
  /\ ~starting
  /\ starts < MaxStarts
  /\ starts' = starts + 1
  /\ starting' = TRUE
  /\ todo' = ClientFields
  /\ published' = published \cup {[f \in ClientFields |-> conf[f]]}
  /\ raced' = [c \in Conns |-> raced[c] \/ conn[c] = "creating"]
  /\ UNCHANGED <<confVars, client_conf, listener, backlog, conn, need, sizes, dead>>

\* It copies a field.  Goroutines that read the copy without a lock may see the
\* fields change in any order.
Copy(f) ==
  /\ f \in todo
  /\ todo' = todo \ {f}
  /\ client_conf' = [client_conf EXCEPT ![f] = conf[f]]
  /\ UNCHANGED <<confVars, starts, starting, published, listener, backlog, connVars, dead>>

\* net.Listen succeeds, or Start returns false.
Listen ==
  /\ starting
  /\ todo = {}
  /\ starting' = FALSE
  /\ \/ listener' = [listener EXCEPT ![starts] = "listening"]
     \/ UNCHANGED listener
  /\ UNCHANGED <<confVars, starts, todo, published, client_conf, backlog, connVars, dead>>

\* A peer connects; the kernel queues it until it is accepted.
Connect(n, c) ==
  /\ conn[c] = "out"
  /\ listener[n] = "listening"
  /\ conn' = [conn EXCEPT ![c] = "backlog"]
  /\ backlog' = [backlog EXCEPT ![n] = Append(@, c)]
  /\ UNCHANGED <<confVars, startVars, listener, need, sizes, raced, dead>>

\* Mutant: OnNetAccpet is called in the loop, as sdk/net_server does.
AcceptInLoop(n) ==
  /\ listener[n] = "listening"
  /\ backlog[n] # <<>>
  /\ \A c \in Conns : conn[c] # "asking"
  /\ conn' = [conn EXCEPT ![Head(backlog[n])] = "asking"]
  /\ backlog' = [backlog EXCEPT ![n] = Tail(@)]
  /\ UNCHANGED <<confVars, startVars, listener, need, sizes, raced, dead>>

\* Accept returns a connection; a goroutine of its own asks about it.
Accept(n) ==
  /\ listener[n] = "listening"
  /\ backlog[n] # <<>>
  /\ conn' = [conn EXCEPT ![Head(backlog[n])] = "asking"]
  /\ backlog' = [backlog EXCEPT ![n] = Tail(@)]
  /\ UNCHANGED <<confVars, startVars, listener, need, sizes, raced, dead>>

\* Accept returns an error: the goroutine returns and closes its listener, for
\* good.  Start has long said true.
AcceptErr(n) ==
  /\ listener[n] = "listening"
  /\ listener' = [listener EXCEPT ![n] = "gone"]
  /\ backlog' = [backlog EXCEPT ![n] = <<>>]
  /\ conn' = [c \in Conns |->
       IF \E i \in 1 .. Len(backlog[n]) : backlog[n][i] = c THEN "reset" ELSE conn[c]]
  /\ UNCHANGED <<confVars, startVars, need, sizes, raced, dead>>

-----------------------------------------------------------------------------
(* The goroutine of connection c.                                          *)

\* OnNetAccpet says no: the connection is closed.
Refused(c) ==
  /\ conn[c] = "asking"
  /\ conn' = [conn EXCEPT ![c] = "ended"]
  /\ UNCHANGED <<confVars, startVars, listener, backlog, need, sizes, raced, dead>>

\* OnNetAccpet says yes: createNetClient is called with a pointer to client_conf.
Accepted(c) ==
  /\ conn[c] = "asking"
  /\ conn' = [conn EXCEPT ![c] = "creating"]
  /\ need' = [need EXCEPT ![c] = ClientFields]
  /\ raced' = [raced EXCEPT ![c] = todo # {}]
  /\ UNCHANGED <<confVars, startVars, listener, backlog, sizes, dead>>

\* Mutant: the Config is kept, not copied.
SizesByReference(f) == conf[f]

Size(f) == client_conf[f]

\* createNetClient reads a field; the make of io_chan may panic.  After the last
\* one the netClient exists.
Read(c, f) ==
  /\ conn[c] = "creating"
  /\ f \in need[c]
  /\ need' = [need EXCEPT ![c] = @ \ {f}]
  /\ sizes' = [sizes EXCEPT ![c][f] = Size(f)]
  /\ conn' = [conn EXCEPT ![c] = IF need[c] = {f} THEN "made" ELSE "creating"]
  /\ dead' = (f = "max_out_packet_nums" /\ CannotMake(f, Size(f)))
  /\ UNCHANGED <<confVars, startVars, listener, backlog, raced>>

\* time.Duration(alram_time) * time.Second, with the width of an int.
Timeout(t) == ((t * Second + MaxInt + 1) % (2 * (MaxInt + 1))) - MaxInt - 1

\* recvRountine makes packet_buf, which may panic.  With no room in it, or a
\* deadline that has passed when it is set, the first read is the last.
Begin(c) ==
  /\ conn[c] = "made"
  /\ dead' = CannotMake("max_packet_size", sizes[c]["max_packet_size"])
  /\ conn' = [conn EXCEPT ![c] =
       IF sizes[c]["max_packet_size"] > 0 /\ Timeout(sizes[c]["alram_time"]) > 0
       THEN "reading" ELSE "ended"]
  /\ UNCHANGED <<confVars, startVars, listener, backlog, need, sizes, raced>>

\* The netClient ends (module NetClient).
End(c) ==
  /\ conn[c] = "reading"
  /\ conn' = [conn EXCEPT ![c] = "ended"]
  /\ UNCHANGED <<confVars, startVars, listener, backlog, need, sizes, raced, dead>>

-----------------------------------------------------------------------------
Application ==
  \/ \E ini \in Inis : LoadFile(ini)
  \/ \E s \in Settings : SetField(s[1], s[2])
  \/ Start
  \/ \E f \in ClientFields : Copy(f)
  \/ Listen

Listening(n) == (\E c \in Conns : Connect(n, c)) \/ Accept(n) \/ AcceptErr(n)

Client(c) ==
  \/ Refused(c) \/ Accepted(c)
  \/ \E f \in ClientFields : Read(c, f)
  \/ Begin(c) \/ End(c)

Next ==
  /\ ~dead
  /\ \/ Application
     \/ \E n \in Starts : Listening(n)
     \/ \E c \in Conns : Client(c)

Spec == Init /\ [][Next]_vars

\* The listening goroutines run.  OnNetAccpet need not return, nor need the
\* application call anything.
Fairness == \A n \in Starts : WF_vars(~dead /\ Accept(n))

FairSpec == Spec /\ Fairness

-----------------------------------------------------------------------------
(* Properties.                                                             *)

\* Whatever the application does with its Config between two calls of Start, and
\* whenever connections come: each number a netClient works with was in a Config
\* that Start was called with, and all of them come from the same one, unless a
\* second Start was copying just while the netClient was made.
ConfigOfAStart ==
  \A c \in Conns : conn[c] \in {"made", "reading"} =>
    /\ \A f \in ClientFields : \E p \in published : sizes[c][f] = p[f]
    /\ ~raced[c] => sizes[c] \in published

\* A connection ends the process only by a number out of range which a file or a
\* setter gave for that very field, and with which Start was called: options that
\* are missing, misspelt or no number cut connections, not more.
CrashNeedsWrong ==
  dead => \E f \in wrong : \E p \in published : CannotMake(f, p[f])

\* A user that takes its time over one connection does not hold up the others:
\* each is taken up, unless its listener or the process is gone.
NotHeldUp == \A c \in Conns : conn[c] = "backlog" ~> conn[c] # "backlog" \/ dead

-----------------------------------------------------------------------------
(* The inductive invariant.                                                *)

Published(f, n) == \E p \in published : p[f] = n

\* While Start copies, the Config stays; what it has copied is what it has been
\* called with.
CopyInv ==
  /\ ~starting => todo = {}
  /\ starting =>
       /\ starts > 0
       /\ [f \in ClientFields |-> conf[f]] \in published
       /\ \A f \in ClientFields \ todo : client_conf[f] = conf[f]
  /\ starts > 0 /\ todo = {} => client_conf \in published

\* Once a Start has said true, client_conf holds only numbers Start was called with;
\* nobody connects before.
Listened == \E n \in Starts : listener[n] # "off"

ListenInv ==
  /\ Listened => starts > 0 /\ \A f \in ClientFields : Published(f, client_conf[f])
  /\ \A c \in Conns : conn[c] # "out" => Listened

\* What has been read was copied by a Start; without a race it is what is there now.
ReadInv ==
  \A c \in Conns :
    /\ conn[c] \in {"creating", "made", "reading"} =>
         \A f \in ClientFields \ need[c] : Published(f, sizes[c][f])
    /\ conn[c] \in {"made", "reading"} =>
         /\ need[c] = {}
         /\ ~raced[c] => sizes[c] \in published
    /\ conn[c] = "creating" /\ ~raced[c] =>
         /\ todo = {}
         /\ \A f \in ClientFields \ need[c] : sizes[c][f] = client_conf[f]

\* A number that make rejects has been given for its field.
WrongInv ==
  \A f \in Fields :
    /\ CannotMake(f, conf[f]) => f \in wrong
    /\ \A p \in published : CannotMake(f, p[f]) => f \in wrong

IInv ==
  /\ TypeOK
  /\ CopyInv
  /\ ListenInv
  /\ ReadInv
  /\ WrongInv
  /\ CrashNeedsWrong
=============================================================================
