------------------------------- MODULE Logger -------------------------------
(***************************************************************************)
(* sdk/logger: the logger that a process shares, in front of the three     *)
(* filelogger's (module RollLog) that its configuration file describes.    *)
(*                                                                         *)
(* Instance makes the logger when there is none yet, Load fills its array  *)
(* of file loggers one by one, and the Log methods use the array as they   *)
(* find it: nothing is locked, and an entry that is still nil is a panic,  *)
(* which ends the process.  Any goroutine may call any of these, on the    *)
(* logger that Instance returned to it last.                               *)
(*                                                                         *)
(* A configuration file says for each tag what getTagData makes of it:     *)
(*   "good"       a path with a directory, numbers or the default 0        *)
(*   "empty_size" filesize="", of which getTagData cuts off the last byte  *)
(*   "no_dir"     a path without '/', of which createFilelogger takes the  *)
(*                first -1 bytes                                           *)
(*   "absent"     it is not in the first 1024 bytes of the file            *)
(* The log level is parsed and stored, and no code looks at it.            *)
(***************************************************************************)
EXTENDS Integers

CONSTANTS
  Users,    \* goroutines
  Confs,    \* the configuration files there are
  MaxLoads  \* bound: calls of Load that get as far as the array

APP == 0
ACC == 1
SYS == 2
file_logger_nums == 3
Slots == 0 .. file_logger_nums - 1
Levels == {"DEBUG", "INFO", "WARN", "ERROR", "FATAL"}

ASSUME LoggerAssumption ==
  /\ Confs \subseteq [Slots -> {"good", "empty_size", "no_dir", "absent"}]
  /\ MaxLoads \in Nat

VARIABLES
  g_single_logger, \* the logger Instance returns, 0 for nil
  made,            \* loggers made so far; the n-th is n
  ptrLogArray,     \* ptrLogArray[x][k]: the Load that made it, 0 for nil
  pc,              \* pc[u]: where u is in Instance or Load
  saw,             \* saw[u]: what u found or stored in g_single_logger
  mine,            \* mine[u]: what Instance returned to u last, 0 before
  load,            \* load[u]: the number of u's last Load
  i,               \* i[u]: loop variable of Load
  conf,            \* conf[n]: the file of the n-th Load
  loads,           \* calls of Load that got as far as the array
  dead,            \* the process has panicked
  loaded,          \* some Load has returned without an error
  early,           \* the logger was shared, or used, before that
  raced,           \* two goroutines have found no logger at once
  overlapped       \* two Loads of one logger have overlapped

instVars == <<g_single_logger, made, saw, raced>>
loadVars == <<ptrLogArray, load, i, conf, loads, loaded, overlapped>>
vars == <<instVars, loadVars, pc, mine, dead, early>>

Loads == 1 .. MaxLoads

TypeOK ==
  /\ made \in Nat
  /\ g_single_logger \in 0 .. made
  /\ ptrLogArray \in [1 .. made -> [Slots -> 0 .. MaxLoads]]
  /\ pc \in [Users -> {"idle", "new", "return", "load"}]
  /\ saw \in [Users -> 0 .. made]
  /\ mine \in [Users -> 0 .. made]
  /\ load \in [Users -> 0 .. MaxLoads]
  /\ i \in [Users -> 0 .. file_logger_nums]
  /\ conf \in [Loads -> [Slots -> {"good", "empty_size", "no_dir", "absent"}]]
  /\ loads \in 0 .. MaxLoads
  /\ dead \in BOOLEAN /\ loaded \in BOOLEAN /\ early \in BOOLEAN
  /\ raced \in BOOLEAN /\ overlapped \in BOOLEAN

Good == [k \in Slots |-> "good"]

Init ==
  /\ g_single_logger = 0
  /\ made = 0
  /\ ptrLogArray = [x \in 1 .. 0 |-> [k \in Slots |-> 0]]
  /\ pc = [u \in Users |-> "idle"]
  /\ saw = [u \in Users |-> 0]
  /\ mine = [u \in Users |-> 0]
  /\ load = [u \in Users |-> 0]
  /\ i = [u \in Users |-> 0]
  /\ conf = [n \in Loads |-> Good]
  /\ loads = 0
  /\ dead = FALSE
  /\ loaded = FALSE
  /\ early = FALSE
  /\ raced = FALSE
  /\ overlapped = FALSE

Goto(u, p) == pc' = [pc EXCEPT ![u] = p]

-----------------------------------------------------------------------------
(* Instance                                                                *)

\* v has the logger or is about to.
Sharing(v) == pc[v] # "idle" \/ mine[v] # 0

\* Mutant: the test is dropped.
FindAlwaysNone(u) == "new"

\* The test of Instance.
Find(u) == IF g_single_logger = 0 THEN "new" ELSE "return"

\* u calls Instance.
Instance(u) ==
  /\ pc[u] = "idle"
  /\ Goto(u, Find(u))
  /\ saw' = [saw EXCEPT ![u] = g_single_logger]
  /\ early' = (early \/ (~loaded /\ \E v \in Users \ {u} : Sharing(v)))
  /\ raced' = (raced \/ (g_single_logger = 0 /\ \E v \in Users : pc[v] = "new"))
  /\ UNCHANGED <<g_single_logger, made, loadVars, mine, dead>>

\* It has found none, and stores a new one over whatever is there by now.
New(u) ==
  /\ pc[u] = "new"
  /\ made' = made + 1
  /\ g_single_logger' = made + 1
  /\ saw' = [saw EXCEPT ![u] = made + 1]
  /\ ptrLogArray' = [x \in 1 .. made + 1 |->
                       IF x <= made THEN ptrLogArray[x] ELSE [k \in Slots |-> 0]]
  /\ Goto(u, "return")
  /\ UNCHANGED <<load, i, conf, loads, loaded, overlapped, mine, dead, early, raced>>

\* It reads the variable once more, or the compiler spares the read.
Return(u) ==
  /\ pc[u] = "return"
  /\ \E x \in {g_single_logger, saw[u]} : mine' = [mine EXCEPT ![u] = x]
  /\ Goto(u, "idle")
  /\ UNCHANGED <<instVars, loadVars, dead, early>>

-----------------------------------------------------------------------------
(* Load                                                                    *)

\* The file cannot be opened, or one of the three tags is not found: an error
\* is returned and nothing has changed.
LoadFails(u) ==
  /\ pc[u] = "idle"
  /\ mine[u] # 0
  /\ UNCHANGED vars

\* getTagData panics on one of the tags, which it meets in any order.
ParsePanics(u, f) ==
  /\ pc[u] = "idle"
  /\ mine[u] # 0
  /\ \E k \in Slots : f[k] = "empty_size"
  /\ loads < MaxLoads
  /\ loads' = loads + 1
  /\ conf' = [conf EXCEPT ![loads + 1] = f]
  /\ dead' = TRUE
  /\ UNCHANGED <<instVars, ptrLogArray, load, i, loaded, overlapped, pc, mine, early>>

\* Mutant: only the first tag is looked for.
FindsFirst(f) == f[APP] \notin {"absent", "empty_size"}

\* All three tags are there.
FindsAll(f) == \A k \in Slots : f[k] \notin {"absent", "empty_size"}

LoadBegins(u, f) ==
  /\ pc[u] = "idle"
  /\ mine[u] # 0
  /\ FindsAll(f)
  /\ loads < MaxLoads
  /\ loads' = loads + 1
  /\ conf' = [conf EXCEPT ![loads + 1] = f]
  /\ load' = [load EXCEPT ![u] = loads + 1]
  /\ i' = [i EXCEPT ![u] = 0]
  /\ Goto(u, "load")
  /\ overlapped' = (overlapped \/ \E v \in Users : pc[v] = "load" /\ mine[v] = mine[u])
  /\ UNCHANGED <<instVars, ptrLogArray, loaded, mine, dead, early>>

\* Mutant: the last file logger is forgotten.
LastButOne(n) == n = file_logger_nums - 1

Last(n) == n = file_logger_nums

\* createFilelogger makes one file logger and never returns an error; after the
\* last one Load returns nil.
LoadOne(u) ==
  /\ pc[u] = "load"
  /\ conf[load[u]][i[u]] = "good"
  /\ ptrLogArray' = [ptrLogArray EXCEPT ![mine[u]][i[u]] = load[u]]
  /\ i' = [i EXCEPT ![u] = @ + 1]
  /\ Goto(u, IF Last(i[u] + 1) THEN "idle" ELSE "load")
  /\ loaded' = (loaded \/ Last(i[u] + 1))
  /\ UNCHANGED <<instVars, load, conf, loads, overlapped, mine, dead, early>>

\* It panics on a path without '/'.
LoadPanics(u) ==
  /\ pc[u] = "load"
  /\ conf[load[u]][i[u]] # "good"
  /\ dead' = TRUE
  /\ UNCHANGED <<instVars, loadVars, pc, mine, early>>

-----------------------------------------------------------------------------
(* The Log methods                                                         *)

\* The file logger each uses.
SlotOf(family, level) == IF family = ACC /\ level = "FATAL" THEN APP ELSE family

\* u calls one of them; LogData reads the fields of the file logger.
Log(u, family, level) ==
  /\ pc[u] = "idle"
  /\ mine[u] # 0
  /\ dead' = (ptrLogArray[mine[u]][SlotOf(family, level)] = 0)
  /\ early' = (early \/ ~loaded)
  /\ UNCHANGED <<instVars, loadVars, pc, mine>>

-----------------------------------------------------------------------------
Next ==
  /\ ~dead
  /\ \E u \in Users :
       \/ Instance(u) \/ New(u) \/ Return(u)
       \/ LoadFails(u)
       \/ \E f \in Confs : ParsePanics(u, f) \/ LoadBegins(u, f)
       \/ LoadOne(u) \/ LoadPanics(u)
       \/ \E family \in Slots, level \in Levels : Log(u, family, level)

Spec == Init /\ [][Next]_vars

-----------------------------------------------------------------------------
(* Properties.                                                             *)

\* Some Load was given a file that createFilelogger or getTagData panics on.
Unreadable ==
  \E n \in 1 .. loads : \E k \in Slots : conf[n][k] \in {"empty_size", "no_dir"}

\* A process in which one goroutine makes and loads the logger before any other
\* calls Instance, and before anybody logs, never panics in the logger, whatever
\* is logged and loaded later at the same time; only a file may still do it.
SafeAfterLoad == dead => early \/ Unreadable

\* Goroutines hold different loggers only if two found none at the same time.
\* Then a Load may well have gone to the logger nobody gets any more.
OneLogger ==
  ~raced => \A u \in Users : mine[u] \in {0, g_single_logger}

\* The three file loggers are those of one Load, also after Loads that failed,
\* unless Loads of this logger overlapped or one is under way.
OneConfig ==
  \A x \in 1 .. made :
    ~overlapped /\ (\A u \in Users : pc[u] = "load" => mine[u] # x) =>
      \A j, k \in Slots : ptrLogArray[x][j] = ptrLogArray[x][k]

-----------------------------------------------------------------------------
(* The inductive invariant.                                                *)

\* Where goroutines are in Instance and Load.
PlaceInv ==
  \A u \in Users :
    /\ pc[u] = "return" => saw[u] # 0
    /\ pc[u] # "idle" \/ mine[u] # 0 => pc[u] = "new" \/ g_single_logger # 0
    /\ pc[u] = "load" =>
         /\ mine[u] # 0
         /\ i[u] < file_logger_nums
         /\ load[u] \in 1 .. loads
         /\ \A k \in Slots : conf[load[u]][k] \in {"good", "no_dir"}

\* Until two have found none, there is one logger and it stays.
RaceInv ==
  ~raced =>
    /\ \A u, v \in Users : pc[u] = "new" /\ pc[v] = "new" => u = v
    /\ \A u \in Users : pc[u] = "new" => g_single_logger = 0
    /\ \A u \in Users : pc[u] = "return" => saw[u] = g_single_logger

\* In a process that is not early one goroutine has the logger until a Load has
\* returned, and then every entry is set.
LoadedInv ==
  /\ loaded => g_single_logger # 0
  /\ \A u \in Users : pc[u] = "load" =>
       \A k \in Slots : k < i[u] => ptrLogArray[mine[u]][k] # 0
  /\ ~early => ~raced
  /\ ~early /\ ~loaded =>
       \A u, v \in Users : Sharing(u) /\ Sharing(v) => u = v
  /\ ~early /\ loaded => \A k \in Slots : ptrLogArray[g_single_logger][k] # 0

\* Until Loads overlap a logger has one at most: what it has set is its own, and
\* what it has not set yet is of one Load.
ConfigInv ==
  ~overlapped =>
    /\ \A u, v \in Users :
         pc[u] = "load" /\ pc[v] = "load" /\ mine[u] = mine[v] => u = v
    /\ \A u \in Users : pc[u] = "load" =>
         \A j \in Slots :
           /\ j < i[u] => ptrLogArray[mine[u]][j] = load[u]
           /\ \A k \in Slots : j >= i[u] /\ k >= i[u] =>
                ptrLogArray[mine[u]][j] = ptrLogArray[mine[u]][k]

IInv ==
  /\ TypeOK
  /\ PlaceInv
  /\ OneLogger
  /\ RaceInv
  /\ LoadedInv
  /\ SafeAfterLoad
  /\ OneConfig
  /\ ConfigInv
=============================================================================
