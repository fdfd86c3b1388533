---------------------------- MODULE MCNetServer -----------------------------
(***************************************************************************)
(* TLC instances of NetServer.                                             *)
(***************************************************************************)
EXTENDS NetServer, FiniteSets, TLC

\* A file with a number that no int holds.
Large == [o \in {"host", "port", "max_accept_nums", "timeout", "packet_nums", "packet_size"}
            |-> IF o = "packet_size" THEN MaxInt + 5 ELSE 1]

\* Further files: one that misspells as LoadFile does, with a value that is no
\* number, and one with a timeout that is negative in nanoseconds, which ends half-way.
MCInis == {
  Large,
  [o \in DOMAIN Large \cup {"max_accpet_nums"} |->
     IF o = "packet_nums" THEN NotANumber ELSE 2],
  [o \in DOMAIN Large \ {"packet_nums"} |-> MaxInt]}

MCSettings == {<<"max_out_packet_nums", -1>>}
=============================================================================
