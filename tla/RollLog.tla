------------------------------ MODULE RollLog -------------------------------
(***************************************************************************)
(* sdk/logger: filelogger, a log file with numbered backups.               *)
(*                                                                         *)
(* Any goroutine calls LogData at any time and nothing is locked (the file *)
(* lock is commented out).  A call checks the directories of the path,     *)
(* reads the size of the file, renames the chain of backups if the file is *)
(* too large (dupFile), opens the file and appends one line.  Every system *)
(* call is a step of its own here.                                         *)
(*                                                                         *)
(* A file is its content, not its name: the n-th file created is n.  The   *)
(* names are numbers too: n >= 0 is strFileName.n, Tmp is strFileName.tmp  *)
(* and Live is strFileName.  A goroutine that has a file open writes to it *)
(* whatever has become of its name.  Sizes are counted in lines.           *)
(*                                                                         *)
(* The process may be stopped at any moment, by log.Fatal or from outside, *)
(* and started again on the same directory.                                *)
(***************************************************************************)
EXTENDS Integers, FiniteSets, Functions

CONSTANTS
  Writers,        \* the goroutines that call LogData
  nMaxFileSize,   \* a file larger than this is rotated
  nMaxRollupNums,
  Depth,          \* number of '/' in strFileDir
  MaxFiles,       \* bound: files created
  MaxLines,       \* bound: lines written
  MaxStops        \* bound: times the process is stopped

ASSUME RollLogAssumption ==
  /\ IsFiniteSet(Writers)
  /\ nMaxFileSize \in Nat
  /\ nMaxRollupNums \in Nat
  /\ Depth \in Nat
  /\ MaxFiles \in Nat
  /\ MaxLines \in Nat
  /\ MaxStops \in Nat

Live == -2
Tmp == -1
Names == Live .. nMaxRollupNums
NoFile == 0
Files == 1 .. MaxFiles

VARIABLES
  dirs,   \* how many components of strFileDir exist, of Depth + 1
  named,  \* named[x]: the file called x
  lines,  \* lines[f]: size of file f
  made,   \* files created
  pc,     \* pc[g]: where g is in LogData
  i,      \* i[g]: loop variable of dupFile
  file,   \* file[g]: the file g has open
  old,    \* the files rotated out of the last backup
  broken, \* rotations have overlapped, or one was cut short
  stops   \* times the process was stopped

vars == <<dirs, named, lines, made, pc, i, file, old, broken, stops>>

Kept == {f \in 1 .. made : \E x \in Names : named[x] = f}
Lost == (1 .. made) \ Kept

\* g has renamed the file to .tmp and not yet .tmp to .0.
Rotating(g) == pc[g] \in {"remove", "shift", "last"}

TypeOK ==
  /\ dirs \in 0 .. Depth + 1
  /\ named \in [Names -> Files \cup {NoFile}]
  /\ lines \in [Files -> Nat]
  /\ made \in 0 .. MaxFiles
  /\ pc \in [Writers -> {"idle", "size", "dup", "remove", "shift", "last", "open", "write"}]
  /\ i \in [Writers -> 0 .. nMaxRollupNums]
  /\ file \in [Writers -> Files \cup {NoFile}]
  /\ old \subseteq Files
  /\ broken \in BOOLEAN
  /\ stops \in 0 .. MaxStops

\* The first start, in a directory of which any part may exist.
Init ==
  /\ dirs \in 0 .. Depth + 1
  /\ named = [x \in Names |-> NoFile]
  /\ lines = [f \in Files |-> 0]
  /\ made = 0
  /\ pc = [g \in Writers |-> "idle"]
  /\ i = [g \in Writers |-> 0]
  /\ file = [g \in Writers |-> NoFile]
  /\ old = {}
  /\ broken = FALSE
  /\ stops = 0

Goto(g, p) == pc' = [pc EXCEPT ![g] = p]
Total == FoldFunction(+, 0, lines)

\* The process ends and is started again.
Stop ==
  /\ stops < MaxStops
  /\ stops' = stops + 1
  /\ pc' = [g \in Writers |-> "idle"]
  /\ file' = [g \in Writers |-> NoFile]
  /\ broken' = (broken \/ \E g \in Writers : Rotating(g))
  /\ UNCHANGED <<named, lines, made, i, old>>

Killed == Stop /\ UNCHANGED dirs

-----------------------------------------------------------------------------
(* LogData, called by goroutine g.                                         *)

\* The components before a '/' all exist.
DirsFound(g) ==
  /\ pc[g] = "idle"
  /\ dirs >= Depth
  /\ Goto(g, "size")
  /\ UNCHANGED <<dirs, named, lines, made, i, file, old, broken, stops>>

\* One does not: it is created, if that is allowed, and log.Fatal follows.
DirMissing(g) ==
  /\ pc[g] = "idle"
  /\ dirs < Depth
  /\ dirs' \in {dirs, dirs + 1}
  /\ Stop

\* Mutant: the size of the .tmp is read.
TmpTooLarge == named[Tmp] # NoFile /\ lines[named[Tmp]] > nMaxFileSize

\* A name that is not there counts as an empty file.
TooLarge == named[Live] # NoFile /\ lines[named[Live]] > nMaxFileSize

\* os.Stat
Size(g) ==
  /\ pc[g] = "size"
  /\ Goto(g, IF TooLarge THEN "dup" ELSE "open")
  /\ UNCHANGED <<dirs, named, lines, made, i, file, old, broken, stops>>

\* os.OpenFile with O_APPEND and O_CREATE.
Open(g) ==
  /\ pc[g] = "open"
  /\ dirs = Depth + 1
  /\ named[Live] # NoFile \/ made < MaxFiles
  /\ made' = IF named[Live] = NoFile THEN made + 1 ELSE made
  /\ named' = [named EXCEPT ![Live] = IF @ = NoFile THEN made + 1 ELSE @]
  /\ file' = [file EXCEPT ![g] = named'[Live]]
  /\ Goto(g, "write")
  /\ UNCHANGED <<dirs, lines, i, old, broken, stops>>

\* strFileDir itself does not exist: log.Fatal.
OpenFails(g) ==
  /\ pc[g] = "open"
  /\ dirs = Depth
  /\ Killed

\* file.WriteString and file.Close.
Write(g) ==
  /\ pc[g] = "write"
  /\ Total < MaxLines
  /\ lines' = [lines EXCEPT ![file[g]] = @ + 1]
  /\ file' = [file EXCEPT ![g] = NoFile]
  /\ Goto(g, "idle")
  /\ UNCHANGED <<dirs, named, made, i, old, broken, stops>>

-----------------------------------------------------------------------------
(* dupFile                                                                 *)

\* Mutant: y becomes a second name of the file.
Link(x, y) ==
  named' = IF named[x] = NoFile THEN named ELSE [named EXCEPT ![y] = named[x]]

\* os.Rename: it replaces what y named, and does nothing when x names nothing.
Rename(x, y) ==
  named' = IF named[x] = NoFile THEN named
           ELSE [named EXCEPT ![y] = named[x], ![x] = NoFile]

\* The file becomes .tmp; a rename that fails ends dupFile.
ToTmp(g) ==
  /\ pc[g] = "dup"
  /\ Rename(Live, Tmp)
  /\ i' = [i EXCEPT ![g] = nMaxRollupNums]
  /\ Goto(g, CASE named[Live] = NoFile -> "open"
               [] named[Live] # NoFile /\ nMaxRollupNums > 0 -> "remove"
               [] OTHER -> "last")
  /\ broken' = (broken \/ \E h \in Writers \ {g} : Rotating(h) /\ named[Live] # NoFile)
  /\ UNCHANGED <<dirs, lines, made, file, old, stops>>

\* Mutant: the last but one is removed.
LastButOne == nMaxRollupNums - 1

LastBackup == nMaxRollupNums

\* os.Remove of the last backup.
RemoveLast(g) ==
  /\ pc[g] = "remove"
  /\ old' = old \cup ({named[LastBackup]} \ {NoFile})
  /\ named' = [named EXCEPT ![LastBackup] = NoFile]
  /\ Goto(g, "shift")
  /\ UNCHANGED <<dirs, lines, made, i, file, broken, stops>>

MoreToShift(n) == n > 0

\* Mutant: the arguments of Rename are swapped.
ShiftBack(n) == Rename(n, n - 1)

ShiftOne(n) == Rename(n - 1, n)

\* One backup takes the next number.
Shift(g) ==
  /\ pc[g] = "shift"
  /\ ShiftOne(i[g])
  /\ i' = [i EXCEPT ![g] = @ - 1]
  /\ Goto(g, IF MoreToShift(i[g] - 1) THEN "shift" ELSE "last")
  /\ UNCHANGED <<dirs, lines, made, file, old, broken, stops>>

\* .tmp becomes .0; with nMaxRollupNums = 0 that is also the last backup.
FromTmp(g) ==
  /\ pc[g] = "last"
  /\ Rename(Tmp, 0)
  /\ old' = IF nMaxRollupNums = 0 THEN old \cup ({named[0]} \ {NoFile}) ELSE old
  /\ Goto(g, "open")
  /\ UNCHANGED <<dirs, lines, made, i, file, broken, stops>>

-----------------------------------------------------------------------------
DupFile(g) == ToTmp(g) \/ RemoveLast(g) \/ Shift(g) \/ FromTmp(g)

LogData(g) ==
  \/ DirsFound(g) \/ DirMissing(g) \/ Size(g) \/ DupFile(g)
  \/ Open(g) \/ OpenFails(g) \/ Write(g)

Next == (\E g \in Writers : LogData(g)) \/ Killed

Spec == Init /\ [][Next]_vars

-----------------------------------------------------------------------------
(* Properties.                                                             *)

\* However rotations overlap and wherever they are cut short, a backup with a
\* higher number is an older file, and no file has two names.
BackupsInOrder ==
  \A x, y \in Names :
    x < y /\ named[x] # NoFile /\ named[y] # NoFile => named[x] > named[y]

\* A file outgrows nMaxFileSize by one line per goroutine at most, although the
\* size is read long before the file is opened and written.
BoundedFile == \A f \in Files : lines[f] <= nMaxFileSize + Cardinality(Writers)

\* A file disappears only as the last backup of its rotation, and is then older
\* than all that are left, unless two rotations overlapped or a stop of the
\* process left a .tmp behind for the next rotation to overwrite.
OnlyOldestLost ==
  ~broken =>
    /\ Lost = old
    /\ \A f \in old, k \in Kept : f < k

\* With no such accident no backup is dropped while fewer than the file and
\* nMaxRollupNums backups would be left: the chain has no gaps.
KeepsEnough ==
  ~broken /\ old # {} => Cardinality(Kept) >= nMaxRollupNums + 1

-----------------------------------------------------------------------------
(* The inductive invariant.                                                *)

\* A goroutine in the loop of dupFile has a backup to move.
LoopInv ==
  \A g \in Writers : pc[g] \in {"remove", "shift"} => i[g] > 0

\* Every file there is has been made.
MadeInv == \A x \in Names : named[x] <= made

\* While rotations do not overlap: there is one at a time, the name the next
\* rename of the chain takes is free, and .tmp is taken during a rotation only.
RotationInv ==
  /\ \A g, h \in Writers : Rotating(g) /\ Rotating(h) => g = h
  /\ \A g \in Writers :
       /\ pc[g] = "remove" => i[g] = nMaxRollupNums
       /\ pc[g] = "shift" => named[i[g]] = NoFile
       /\ pc[g] = "last" /\ nMaxRollupNums > 0 => named[0] = NoFile
       /\ Rotating(g) => named[Tmp] # NoFile
  /\ (\A g \in Writers : ~Rotating(g)) => named[Tmp] = NoFile

IInv ==
  /\ TypeOK
  /\ LoopInv
  /\ MadeInv
  /\ BackupsInOrder
  /\ ~broken => RotationInv
  /\ OnlyOldestLost

\* The goroutines that may yet write a line to f without reading its size again.
\* One that rotates has renamed another file, and what it has written went there.
Committed(f) ==
  {g \in Writers :
     \/ pc[g] = "write" /\ file[g] = f
     \/ named[Live] = f /\ (Rotating(g) \/ pc[g] = "open")}

\* A file that has outgrown nMaxFileSize owes each line beyond it to a goroutine
\* that has to read its size before it writes again.
SizeInv ==
  /\ \A g \in Writers : pc[g] = "write" => file[g] \in 1 .. made
  /\ \A f \in Files : f > made => lines[f] = 0
  /\ \A f \in Files :
       lines[f] > nMaxFileSize =>
         lines[f] + Cardinality(Committed(f)) <= nMaxFileSize + Cardinality(Writers)

\* The number that the rotation under way fills next.
Hole(n) ==
  \E g \in Writers : (pc[g] = "shift" /\ i[g] = n) \/ (pc[g] = "last" /\ n = 0)

\* A number that is free, and not about to be filled, ends the chain, and nothing
\* has been dropped yet.
ChainInv ==
  \A m \in 0 .. nMaxRollupNums :
    named[m] = NoFile /\ ~Hole(m) =>
      /\ old = {}
      /\ \A n \in m .. nMaxRollupNums : named[n] = NoFile
=============================================================================
