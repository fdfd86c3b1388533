--------------------------- MODULE RollLogProofs ----------------------------
(***************************************************************************)
(* Theorems about RollLog, for every number of goroutines, of backups, of  *)
(* lines and of files, and any number of stops of the process.             *)
(***************************************************************************)
EXTENDS RollLog, FiniteSetTheorems, TLAPS

LEMMA NamesFacts ==
  /\ Live \in Names /\ Tmp \in Names /\ 0 \in Names /\ nMaxRollupNums \in Names
  /\ Names \subseteq Int
  /\ \A n \in 1 .. nMaxRollupNums : n \in Names /\ n - 1 \in Names
BY RollLogAssumption DEF Names, Live, Tmp

\* A name is renamed to the next: what it names stays in order.
LEMMA RenameKeepsOrder ==
  ASSUME TypeOK, MadeInv, BackupsInOrder, made' = made,
         NEW x \in Names, x + 1 \in Names, Rename(x, x + 1)
  PROVE  /\ named' \in [Names -> Files \cup {NoFile}]
         /\ MadeInv'
         /\ BackupsInOrder'
<1>1. x \in Int /\ x + 1 # x /\ Names \subseteq Int
  BY NamesFacts
<1>2. named \in [Names -> Files \cup {NoFile}]
  BY DEF TypeOK
<1>3. CASE named[x] = NoFile
  BY <1>2, <1>3 DEF Rename, MadeInv, BackupsInOrder
<1>4. CASE named[x] # NoFile
  <2>1. \A z \in Names :
          named'[z] = IF z = x THEN NoFile ELSE IF z = x + 1 THEN named[x] ELSE named[z]
    BY <1>1, <1>2, <1>4 DEF Rename
  <2>2. named' \in [Names -> Files \cup {NoFile}]
    BY <1>2, <1>4 DEF Rename
  <2>3. MadeInv'
    BY <1>2, <2>1 DEF MadeInv, TypeOK, NoFile
  <2>4. BackupsInOrder'
    <3> SUFFICES ASSUME NEW u \in Names, NEW v \in Names, u < v,
                        named'[u] # NoFile, named'[v] # NoFile
                 PROVE  named'[u] > named'[v]
      BY DEF BackupsInOrder
    <3>1. u # x /\ v # x
      BY <2>1
    <3>2. CASE u = x + 1
      <4>1. named'[u] = named[x] /\ named'[v] = named[v] /\ x < v
        BY <1>1, <2>1, <3>1, <3>2
      <4>2. QED
        BY <1>4, <4>1 DEF BackupsInOrder
    <3>3. CASE v = x + 1
      <4>1. named'[v] = named[x] /\ named'[u] = named[u] /\ u < x
        BY <1>1, <2>1, <3>1, <3>3
      <4>2. QED
        BY <1>4, <4>1 DEF BackupsInOrder
    <3>4. CASE u # x + 1 /\ v # x + 1
      BY <2>1, <3>1, <3>4 DEF BackupsInOrder
    <3>5. QED
      BY <3>2, <3>3, <3>4
  <2>5. QED
    BY <2>2, <2>3, <2>4
<1>5. QED
  BY <1>3, <1>4

\* A rename to a name that is free loses no file.
LEMMA RenameLosesNone ==
  ASSUME TypeOK, made' = made, NEW x \in Names, NEW y \in Names, x # y,
         Rename(x, y), named[y] = NoFile
  PROVE  Kept' = Kept
<1>1. ASSUME NEW f \in 1 .. made
      PROVE  (\E z \in Names : named[z] = f) <=> (\E z \in Names : named'[z] = f)
  <2>1. f # NoFile
    BY DEF NoFile, TypeOK
  <2>2. CASE named[x] = NoFile
    BY <2>2 DEF Rename
  <2>3. CASE named[x] # NoFile
    <3>1. \A z \in Names :
            named'[z] = IF z = x THEN NoFile ELSE IF z = y THEN named[x] ELSE named[z]
      BY <2>3 DEF Rename, TypeOK
    <3>2. ASSUME NEW z \in Names, named[z] = f
          PROVE  \E w \in Names : named'[w] = f
      <4>1. CASE z = x
        BY <3>1, <3>2, <4>1
      <4>2. CASE z # x
        BY <2>1, <3>1, <3>2, <4>2
      <4>3. QED
        BY <4>1, <4>2
    <3>3. ASSUME NEW z \in Names, named'[z] = f
          PROVE  \E w \in Names : named[w] = f
      BY <2>1, <3>1, <3>3
    <3>4. QED
      BY <3>2, <3>3
  <2>4. QED
    BY <2>2, <2>3
<1>2. QED
  BY <1>1 DEF Kept

-----------------------------------------------------------------------------
LEMMA InitIInv == Init => IInv
<1> SUFFICES ASSUME Init PROVE IInv
  OBVIOUS
<1> USE RollLogAssumption
<1>1. TypeOK
  <2>1. /\ named \in [Names -> Files \cup {NoFile}]
        /\ lines \in [Files -> Nat]
        /\ i \in [Writers -> 0 .. nMaxRollupNums]
        /\ file \in [Writers -> Files \cup {NoFile}]
    BY DEF Init
  <2>2. /\ pc \in [Writers -> {"idle", "size", "dup", "remove", "shift", "last", "open", "write"}]
    BY DEF Init
  <2>3. dirs \in 0 .. Depth + 1 /\ made \in 0 .. MaxFiles /\ stops \in 0 .. MaxStops
    BY DEF Init
  <2>4. old \subseteq Files /\ broken \in BOOLEAN
    BY DEF Init
  <2>5. QED
    BY <2>1, <2>2, <2>3, <2>4 DEF TypeOK
<1>2. LoopInv /\ MadeInv /\ BackupsInOrder
  BY DEF Init, LoopInv, MadeInv, BackupsInOrder, NoFile
<1>3. RotationInv
  BY NamesFacts DEF Init, RotationInv, Rotating
<1>4. OnlyOldestLost
  BY DEF Init, OnlyOldestLost, Lost, Kept
<1>5. QED
  BY <1>1, <1>2, <1>3, <1>4 DEF IInv

\* What the steps that rename nothing keep.
LEMMA SameNames ==
  ASSUME TypeOK, MadeInv, BackupsInOrder, OnlyOldestLost,
         UNCHANGED <<named, made, old>>, ~broken' => ~broken
  PROVE  MadeInv' /\ BackupsInOrder' /\ OnlyOldestLost'
BY DEF MadeInv, BackupsInOrder, OnlyOldestLost, Lost, Kept

\* The process stops, in the middle of a rotation or not.
LEMMA StopStep ==
  ASSUME IInv, Stop, dirs' \in 0 .. Depth + 1
  PROVE  IInv'
<1> USE RollLogAssumption
<1>1. TypeOK'
  BY DEF IInv, TypeOK, Stop
<1>2. LoopInv'
  BY DEF Stop, LoopInv
<1>3. MadeInv' /\ BackupsInOrder' /\ OnlyOldestLost'
  BY SameNames DEF IInv, Stop, TypeOK
<1>4. ~broken' => RotationInv'
  <2> SUFFICES ASSUME ~broken' PROVE RotationInv'
    OBVIOUS
  <2>1. ~broken /\ \A g \in Writers : ~Rotating(g)
    BY DEF Stop, IInv, TypeOK
  <2>2. named'[Tmp] = NoFile
    BY <2>1 DEF IInv, RotationInv, Stop
  <2>3. QED
    BY <2>2 DEF Stop, RotationInv, Rotating
<1>5. QED
  BY <1>1, <1>2, <1>3, <1>4 DEF IInv

\* A goroutine moves on and renames nothing.
LEMMA QuietStep ==
  ASSUME IInv, NEW g \in Writers, DirsFound(g) \/ Size(g) \/ Write(g)
  PROVE  IInv'
<1> USE RollLogAssumption
<1>1. /\ UNCHANGED <<dirs, named, made, i, old, broken, stops>>
      /\ ~Rotating(g)
      /\ \E p \in {"idle", "size", "dup", "open"} :
           pc' = [pc EXCEPT ![g] = p]
  BY DEF DirsFound, Size, Write, Goto, Rotating
<1>2. PICK p \in {"idle", "size", "dup", "open"} : pc' = [pc EXCEPT ![g] = p]
  BY <1>1
<1>3. TypeOK'
  <2>1. file' \in [Writers -> Files \cup {NoFile}]
    BY DEF IInv, TypeOK, DirsFound, Size, Write
  <2>2. lines' \in [Files -> Nat]
    BY DEF IInv, TypeOK, DirsFound, Size, Write
  <2>3. QED
    BY <1>1, <1>2, <2>1, <2>2 DEF IInv, TypeOK
<1>4. LoopInv'
  BY <1>1, <1>2 DEF IInv, TypeOK, LoopInv
<1>5. MadeInv' /\ BackupsInOrder' /\ OnlyOldestLost'
  BY <1>1, SameNames DEF IInv
<1>6. ~broken' => RotationInv'
  <2>1. \A h \in Writers : /\ Rotating(h)' <=> Rotating(h)
                           /\ Rotating(h) => pc'[h] = pc[h]
    BY <1>1, <1>2 DEF IInv, TypeOK, Rotating
  <2>2. QED
    BY <1>1, <2>1 DEF IInv, RotationInv, Rotating
<1>7. QED
  BY <1>3, <1>4, <1>5, <1>6 DEF IInv

\* The file is opened, and created if it is not there.
LEMMA OpenStep ==
  ASSUME IInv, NEW g \in Writers, Open(g)
  PROVE  IInv'
<1> USE RollLogAssumption
<1>0. /\ UNCHANGED <<dirs, lines, i, old, broken, stops>>
      /\ pc[g] = "open"
      /\ pc' = [pc EXCEPT ![g] = "write"]
      /\ file' = [file EXCEPT ![g] = named'[Live]]
  BY DEF Open, Goto
<1>1. \A h \in Writers : /\ Rotating(h)' <=> Rotating(h)
                         /\ Rotating(h) => pc'[h] = pc[h]
  BY <1>0 DEF IInv, TypeOK, Rotating
<1>2. LoopInv'
  BY <1>0 DEF IInv, TypeOK, LoopInv
<1>3. CASE named[Live] # NoFile
  <2>1. UNCHANGED <<named, made>>
    BY <1>3, NamesFacts DEF Open, IInv, TypeOK
  <2>2. TypeOK'
    BY <1>0, <2>1, NamesFacts DEF IInv, TypeOK
  <2>3. MadeInv' /\ BackupsInOrder' /\ OnlyOldestLost'
    BY <1>0, <2>1, SameNames DEF IInv
  <2>4. ~broken' => RotationInv'
    BY <1>0, <1>1, <2>1 DEF IInv, RotationInv, Rotating
  <2>5. QED
    BY <1>2, <2>2, <2>3, <2>4 DEF IInv
<1>4. CASE named[Live] = NoFile
  <2>1. /\ made' = made + 1
        /\ made \in Nat
        /\ made + 1 \in Files
        /\ named' = [named EXCEPT ![Live] = made + 1]
        /\ named \in [Names -> Files \cup {NoFile}]
    BY <1>4 DEF Open, IInv, TypeOK, Files
  <2>2. \A x \in Names : named'[x] = IF x = Live THEN made + 1 ELSE named[x]
    BY <2>1
  <2>3. \A x \in Names : named[x] <= made /\ named[x] \in Int
    BY <2>1 DEF IInv, MadeInv, NoFile, Files
  <2>4. TypeOK'
    BY <1>0, <2>1, NamesFacts DEF IInv, TypeOK, Files
  <2>5. MadeInv'
    BY <2>1, <2>2, <2>3 DEF MadeInv
  <2>6. BackupsInOrder'
    <3> SUFFICES ASSUME NEW u \in Names, NEW v \in Names, u < v,
                        named'[u] # NoFile, named'[v] # NoFile
                 PROVE  named'[u] > named'[v]
      BY DEF BackupsInOrder
    <3>1. v # Live /\ named'[v] = named[v]
      BY <2>2 DEF Names, Live
    <3>2. CASE u = Live
      BY <2>1, <2>2, <2>3, <3>1, <3>2
    <3>3. CASE u # Live
      BY <2>2, <3>1, <3>3 DEF IInv, BackupsInOrder
    <3>4. QED
      BY <3>2, <3>3
  <2>7. OnlyOldestLost'
    <3>1. Kept' = Kept \cup {made + 1}
      <4>1. ASSUME NEW f \in 1 .. made
            PROVE  (\E x \in Names : named'[x] = f) <=> (\E x \in Names : named[x] = f)
        <5>1. f # made + 1 /\ f # NoFile
          BY <2>1 DEF NoFile
        <5>2. QED
          BY <1>4, <2>2, <5>1
      <4>2. named'[Live] = made + 1
        BY <2>2, NamesFacts
      <4>3. (1 .. made') = (1 .. made) \cup {made + 1}
        BY <2>1
      <4>4. QED
        BY <4>1, <4>2, <4>3, NamesFacts DEF Kept
    <3>2. Lost' = Lost
      <4>1. (1 .. made') = (1 .. made) \cup {made + 1} /\ made + 1 \notin 1 .. made
        BY <2>1
      <4>2. QED
        BY <3>1, <4>1 DEF Lost
    <3>3. \A f \in Lost : f < made + 1
      BY <2>1 DEF Lost
    <3>4. QED
      BY <1>0, <3>1, <3>2, <3>3 DEF IInv, OnlyOldestLost
  <2>8. ~broken' => RotationInv'
    <3>1. named'[Tmp] = named[Tmp] /\ \A n \in 0 .. nMaxRollupNums : named'[n] = named[n]
      BY <2>2 DEF Names, Live, Tmp
    <3>2. \A h \in Writers : i[h] \in 0 .. nMaxRollupNums
      BY DEF IInv, TypeOK
    <3>3. QED
      BY <1>0, <1>1, <3>1, <3>2 DEF IInv, RotationInv, Rotating
  <2>9. QED
    BY <1>2, <2>4, <2>5, <2>6, <2>7, <2>8 DEF IInv
<1>5. QED
  BY <1>3, <1>4

-----------------------------------------------------------------------------
(* The steps of dupFile.                                                   *)

\* A step of g leaves where the others are alone.
LEMMA OthersStay ==
  ASSUME TypeOK, NEW g \in Writers, NEW p, pc' = [pc EXCEPT ![g] = p]
  PROVE  /\ pc'[g] = p
         /\ \A h \in Writers \ {g} : pc'[h] = pc[h] /\ (Rotating(h)' <=> Rotating(h))
         /\ Rotating(g)' <=> p \in {"remove", "shift", "last"}
BY DEF TypeOK, Rotating

\* The file becomes .tmp.  That name is free unless a rotation is under way.
LEMMA ToTmpStep ==
  ASSUME IInv, NEW g \in Writers, ToTmp(g)
  PROVE  IInv'
<1> USE RollLogAssumption
<1>1. /\ UNCHANGED <<dirs, lines, made, file, old, stops>>
      /\ pc[g] = "dup"
      /\ Rename(Live, Tmp)
      /\ i' = [i EXCEPT ![g] = nMaxRollupNums]
      /\ broken' = (broken \/ \E h \in Writers \ {g} : Rotating(h) /\ named[Live] # NoFile)
  BY DEF ToTmp
<1>2. PICK p \in {"open", "remove", "last"} :
        /\ pc' = [pc EXCEPT ![g] = p]
        /\ p = "open" <=> named[Live] = NoFile
        /\ p = "remove" => nMaxRollupNums > 0
        /\ p = "last" => nMaxRollupNums = 0
  <2>1. CASE named[Live] = NoFile
    BY <2>1 DEF ToTmp, Goto
  <2>2. CASE named[Live] # NoFile /\ nMaxRollupNums > 0
    BY <2>2 DEF ToTmp, Goto
  <2>3. CASE named[Live] # NoFile /\ ~(nMaxRollupNums > 0)
    <3>1. pc' = [pc EXCEPT ![g] = "last"]
      BY <2>3 DEF ToTmp, Goto
    <3>2. QED
      BY <2>3, <3>1
  <2>4. QED
    BY <2>1, <2>2, <2>3
<1>3. TypeOK /\ MadeInv /\ BackupsInOrder /\ LoopInv
  BY DEF IInv
<1>4. /\ named' \in [Names -> Files \cup {NoFile}]
      /\ MadeInv'
      /\ BackupsInOrder'
  <2>1. Live \in Names /\ Live + 1 = Tmp /\ Tmp \in Names
    BY NamesFacts DEF Live, Tmp
  <2>2. QED
    BY <1>1, <1>3, <2>1, RenameKeepsOrder
<1>5. TypeOK'
  <2>1. broken' \in BOOLEAN
    BY <1>1
  <2>2. QED
    BY <1>1, <1>2, <1>3, <1>4, <2>1 DEF TypeOK
<1>6. LoopInv'
  BY <1>1, <1>2, <1>3 DEF LoopInv, TypeOK
<1>7. ASSUME ~broken'
      PROVE  RotationInv' /\ Kept' = Kept
  <2>1. ~broken /\ RotationInv
    BY <1>1, <1>7 DEF IInv
  <2>2. ~Rotating(g)
    BY <1>1 DEF Rotating
  <2>3. CASE named[Live] = NoFile
    <3>1. UNCHANGED named /\ p = "open"
      BY <1>1, <1>2, <2>3 DEF Rename
    <3>2. \A h \in Writers : /\ Rotating(h)' <=> Rotating(h)
                             /\ Rotating(h) => pc'[h] = pc[h] /\ i'[h] = i[h]
      BY <1>1, <1>2, <1>3, <2>2, <3>1, OthersStay DEF TypeOK
    <3>3. RotationInv'
      BY <2>1, <3>1, <3>2 DEF RotationInv, Rotating
    <3>4. QED
      BY <1>1, <3>1, <3>3 DEF Kept
  <2>4. CASE named[Live] # NoFile
    <3>1. \A h \in Writers : ~Rotating(h)
      BY <1>1, <1>7, <2>2, <2>4
    <3>2. named[Tmp] = NoFile
      BY <2>1, <3>1 DEF RotationInv
    <3>3. Kept' = Kept
      BY <1>1, <1>3, <3>2, NamesFacts, RenameLosesNone DEF Live, Tmp
    <3>4. /\ pc'[g] = p
          /\ \A h \in Writers \ {g} : ~Rotating(h)' /\ pc'[h] = pc[h]
          /\ Rotating(g)'
      BY <1>2, <1>3, <2>4, <3>1, OthersStay
    <3>5. i'[g] = nMaxRollupNums /\ p # "shift"
      BY <1>1, <1>2, <1>3 DEF TypeOK
    <3>6. named'[Tmp] # NoFile
      BY <1>1, <1>3, <2>4, NamesFacts DEF Rename, TypeOK, Live, Tmp
    <3>7. RotationInv'
      BY <1>2, <3>4, <3>5, <3>6 DEF RotationInv, Rotating
    <3>8. QED
      BY <3>3, <3>7
  <2>5. QED
    BY <2>3, <2>4
<1>8. OnlyOldestLost'
  <2>1. ~broken' => ~broken
    BY <1>1
  <2>2. QED
    BY <1>1, <1>7, <2>1 DEF IInv, OnlyOldestLost, Lost
<1>9. QED
  BY <1>4, <1>5, <1>6, <1>7, <1>8 DEF IInv

\* The last backup of all, and so the oldest file, is removed or replaced.
LEMMA LastGoes ==
  ASSUME TypeOK, MadeInv, BackupsInOrder, OnlyOldestLost, ~broken,
         made' = made, broken' = broken,
         old' = old \cup ({named[nMaxRollupNums]} \ {NoFile}),
         Kept' = Kept \ {named[nMaxRollupNums]}
  PROVE  OnlyOldestLost'
<1> DEFINE last == named[nMaxRollupNums]
<1>1. last \in Files \cup {NoFile} /\ (last # NoFile => last \in Kept)
  BY NamesFacts DEF TypeOK, MadeInv, Kept, Files, NoFile
<1>2. Lost' = old'
  BY <1>1 DEF OnlyOldestLost, Lost, Kept, NoFile
<1>3. ASSUME NEW k \in Kept', last # NoFile
      PROVE  last < k
  <2>1. PICK x \in Names : named[x] = k
    BY DEF Kept
  <2>2. k # last /\ k # NoFile
    BY <1>3 DEF Kept, NoFile, TypeOK
  <2>3. x < nMaxRollupNums
    BY <2>1, <2>2, RollLogAssumption DEF Names, Live
  <2>4. QED
    BY <1>3, <2>1, <2>2, <2>3, NamesFacts DEF BackupsInOrder
<1>4. ASSUME NEW f \in old', NEW k \in Kept'
      PROVE  f < k
  BY <1>3, <1>4 DEF OnlyOldestLost
<1>5. QED
  BY <1>2, <1>4 DEF OnlyOldestLost

LEMMA RemoveStep ==
  ASSUME IInv, NEW g \in Writers, RemoveLast(g)
  PROVE  IInv'
<1> USE RollLogAssumption
<1> DEFINE last == named[nMaxRollupNums]
<1>1. /\ UNCHANGED <<dirs, lines, made, i, file, broken, stops>>
      /\ pc[g] = "remove"
      /\ pc' = [pc EXCEPT ![g] = "shift"]
      /\ old' = old \cup ({last} \ {NoFile})
      /\ named' = [named EXCEPT ![nMaxRollupNums] = NoFile]
  BY DEF RemoveLast, LastBackup, Goto
<1>2. TypeOK /\ MadeInv /\ BackupsInOrder /\ LoopInv /\ OnlyOldestLost
  BY DEF IInv
<1>3. \A x \in Names : named'[x] = IF x = nMaxRollupNums THEN NoFile ELSE named[x]
  BY <1>1, <1>2 DEF TypeOK
<1>4. TypeOK'
  BY <1>1, <1>2, NamesFacts DEF TypeOK
<1>5. LoopInv'
  BY <1>1, <1>2 DEF LoopInv, TypeOK
<1>6. MadeInv' /\ BackupsInOrder'
  BY <1>1, <1>2, <1>3 DEF MadeInv, BackupsInOrder, NoFile, TypeOK
<1>7. ASSUME ~broken
      PROVE  RotationInv'
  <2>1. /\ RotationInv
        /\ Rotating(g)
        /\ i[g] = nMaxRollupNums
    BY <1>1, <1>7 DEF IInv, RotationInv, Rotating
  <2>2. /\ pc'[g] = "shift"
        /\ \A h \in Writers \ {g} : ~Rotating(h)' /\ pc'[h] = pc[h]
        /\ Rotating(g)'
    BY <1>1, <1>2, <2>1, OthersStay DEF RotationInv
  <2>3. named'[nMaxRollupNums] = NoFile
    BY <1>3, NamesFacts
  <2>4. named'[Tmp] # NoFile
    BY <1>3, <2>1, NamesFacts DEF RotationInv, Tmp
  <2>5. QED
    BY <1>1, <2>1, <2>2, <2>3, <2>4 DEF RotationInv, Rotating
<1>8. Kept' = Kept \ {last}
  <2>1. ASSUME NEW f \in 1 .. made
        PROVE  (\E x \in Names : named'[x] = f) <=> f # last /\ \E x \in Names : named[x] = f
    <3>1. f # NoFile
      BY <1>2 DEF NoFile, TypeOK
    <3>2. ASSUME NEW x \in Names, named'[x] = f
          PROVE  f # last /\ named[x] = f
      <4>1. x # nMaxRollupNums /\ named[x] = f
        BY <1>3, <3>1, <3>2
      <4>2. named[nMaxRollupNums] # f
        BY <1>2, <3>1, <4>1, NamesFacts DEF BackupsInOrder, Names
      <4>3. QED
        BY <4>1, <4>2
    <3>3. ASSUME NEW x \in Names, named[x] = f, f # last
          PROVE  named'[x] = f
      BY <1>3, <3>3
    <3>4. QED
      BY <3>2, <3>3
  <2>2. QED
    BY <1>1, <2>1 DEF Kept
<1>9. OnlyOldestLost'
  BY <1>1, <1>2, <1>8, LastGoes DEF OnlyOldestLost
<1>10. QED
  BY <1>1, <1>4, <1>5, <1>6, <1>7, <1>9 DEF IInv

LEMMA ShiftStep ==
  ASSUME IInv, NEW g \in Writers, Shift(g)
  PROVE  IInv'
<1> USE RollLogAssumption
<1> DEFINE n == i[g]
<1>1. /\ UNCHANGED <<dirs, lines, made, file, old, broken, stops>>
      /\ pc[g] = "shift"
      /\ Rename(n - 1, n)
      /\ i' = [i EXCEPT ![g] = n - 1]
      /\ pc' = [pc EXCEPT ![g] = IF n - 1 > 0 THEN "shift" ELSE "last"]
  BY DEF Shift, ShiftOne, MoreToShift, Goto
<1>2. TypeOK /\ MadeInv /\ BackupsInOrder /\ LoopInv /\ OnlyOldestLost
  BY DEF IInv
<1>3. /\ n \in 1 .. nMaxRollupNums
      /\ n \in Names
      /\ n - 1 \in Names
      /\ (n - 1) + 1 = n
  <2>1. n \in 1 .. nMaxRollupNums
    BY <1>1, <1>2 DEF TypeOK, LoopInv
  <2>2. QED
    BY <2>1, NamesFacts
<1>4. PICK p \in {"shift", "last"} :
        /\ pc' = [pc EXCEPT ![g] = p]
        /\ p = "shift" => n - 1 > 0
        /\ p = "last" => n - 1 = 0
  <2>1. CASE n - 1 > 0
    <3>1. pc' = [pc EXCEPT ![g] = "shift"]
      BY <1>1, <2>1
    <3>2. QED
      BY <2>1, <3>1
  <2>2. CASE ~(n - 1 > 0)
    <3>1. pc' = [pc EXCEPT ![g] = "last"]
      BY <1>1, <2>2
    <3>2. n - 1 = 0
      BY <1>3, <2>2
    <3>3. QED
      BY <3>1, <3>2
  <2>3. QED
    BY <2>1, <2>2
<1>5. /\ named' \in [Names -> Files \cup {NoFile}]
      /\ MadeInv'
      /\ BackupsInOrder'
  <2>1. PICK x \in Names : x = n - 1 /\ x + 1 \in Names /\ Rename(x, x + 1)
    BY <1>1, <1>3
  <2>2. QED
    BY <1>1, <1>2, <2>1, RenameKeepsOrder
<1>6. TypeOK'
  BY <1>1, <1>2, <1>3, <1>4, <1>5 DEF TypeOK
<1>7. LoopInv'
  BY <1>1, <1>2, <1>3, <1>4 DEF LoopInv, TypeOK
<1>8. ASSUME ~broken
      PROVE  RotationInv' /\ Kept' = Kept
  <2>1. RotationInv /\ Rotating(g) /\ named[n] = NoFile
    BY <1>1, <1>8 DEF IInv, RotationInv, Rotating
  <2>2. /\ pc'[g] = p
        /\ \A h \in Writers \ {g} : ~Rotating(h)' /\ pc'[h] = pc[h]
        /\ Rotating(g)'
    BY <1>2, <1>4, <2>1, OthersStay DEF RotationInv
  <2>3. named'[n - 1] = NoFile
    BY <1>1, <1>2, <1>3, <2>1 DEF Rename, TypeOK
  <2>4. i'[g] = n - 1
    BY <1>1, <1>2 DEF TypeOK
  <2>5. named'[Tmp] # NoFile
    <3>1. Tmp # n /\ Tmp # n - 1
      BY <1>3 DEF Tmp
    <3>2. named'[Tmp] = named[Tmp]
      BY <1>1, <1>2, <3>1, NamesFacts DEF Rename, TypeOK
    <3>3. QED
      BY <2>1, <3>2 DEF RotationInv
  <2>6. RotationInv'
    BY <1>4, <2>2, <2>3, <2>4, <2>5 DEF RotationInv, Rotating
  <2>7. Kept' = Kept
    BY <1>1, <1>2, <1>3, <2>1, RenameLosesNone
  <2>8. QED
    BY <2>6, <2>7
<1>9. OnlyOldestLost'
  BY <1>1, <1>2, <1>8 DEF OnlyOldestLost, Lost
<1>10. QED
  BY <1>1, <1>5, <1>6, <1>7, <1>8, <1>9 DEF IInv

\* .tmp becomes .0, and replaces it only where .0 is the last backup.
LEMMA FromTmpStep ==
  ASSUME IInv, NEW g \in Writers, FromTmp(g)
  PROVE  IInv'
<1> USE RollLogAssumption
<1>1. /\ UNCHANGED <<dirs, lines, made, i, file, broken, stops>>
      /\ pc[g] = "last"
      /\ Rename(Tmp, 0)
      /\ old' = IF nMaxRollupNums = 0 THEN old \cup ({named[0]} \ {NoFile}) ELSE old
      /\ pc' = [pc EXCEPT ![g] = "open"]
  BY DEF FromTmp, Goto
<1>2. TypeOK /\ MadeInv /\ BackupsInOrder /\ LoopInv /\ OnlyOldestLost
  BY DEF IInv
<1>3. Tmp \in Names /\ 0 \in Names /\ Tmp + 1 = 0 /\ Tmp # 0
  BY NamesFacts DEF Tmp
<1>4. /\ named' \in [Names -> Files \cup {NoFile}]
      /\ MadeInv'
      /\ BackupsInOrder'
  BY <1>1, <1>2, <1>3, RenameKeepsOrder
<1>5. TypeOK'
  BY <1>1, <1>2, <1>3, <1>4 DEF TypeOK
<1>6. LoopInv'
  BY <1>1, <1>2 DEF LoopInv, TypeOK
<1>7. named'[Tmp] = NoFile
  BY <1>1, <1>2, <1>3 DEF Rename, TypeOK
<1>8. ASSUME ~broken
      PROVE  RotationInv'
  <2>1. RotationInv /\ Rotating(g)
    BY <1>1, <1>8 DEF IInv, Rotating
  <2>2. \A h \in Writers : ~Rotating(h)'
    BY <1>1, <1>2, <2>1, OthersStay DEF RotationInv
  <2>3. QED
    BY <1>7, <2>2 DEF RotationInv, Rotating
<1>9. ASSUME ~broken
      PROVE  OnlyOldestLost'
  <2>1. CASE nMaxRollupNums > 0
    <3>1. named[0] = NoFile
      BY <1>1, <1>9, <2>1 DEF IInv, RotationInv
    <3>2. Kept' = Kept
      BY <1>1, <1>2, <1>3, <3>1, RenameLosesNone
    <3>3. QED
      BY <1>1, <1>2, <2>1, <3>2 DEF OnlyOldestLost, Lost
  <2>2. CASE nMaxRollupNums = 0
    <3>1. named[Tmp] # NoFile
      BY <1>1, <1>9 DEF IInv, RotationInv, Rotating
    <3>2. \A z \in Names :
            named'[z] = IF z = Tmp THEN NoFile ELSE IF z = 0 THEN named[Tmp] ELSE named[z]
      BY <1>1, <1>2, <1>3, <3>1 DEF Rename, TypeOK
    <3>3. ASSUME NEW f \in 1 .. made
          PROVE  (\E x \in Names : named'[x] = f)
                   <=> f # named[0] /\ \E x \in Names : named[x] = f
      <4>1. f # NoFile
        BY <1>2 DEF NoFile, TypeOK
      <4>2. ASSUME NEW x \in Names, named'[x] = f
            PROVE  f # named[0] /\ \E z \in Names : named[z] = f
        <5>1. PICK z \in Names : z # 0 /\ named[z] = f
          BY <1>3, <3>2, <4>1, <4>2
        <5>2. z < 0
          BY <2>2, <5>1 DEF Names, Live
        <5>3. named[0] # f
          <6>1. f \in Int
            OBVIOUS
          <6>2. named[z] # NoFile /\ named[0] # NoFile => named[z] > named[0]
            BY <1>2, <1>3, <5>1, <5>2 DEF BackupsInOrder
          <6>3. QED
            BY <4>1, <5>1, <6>1, <6>2
        <5>4. QED
          BY <5>1, <5>3
      <4>3. ASSUME NEW x \in Names, named[x] = f, f # named[0]
            PROVE  \E z \in Names : named'[z] = f
        <5>1. CASE x = Tmp
          BY <1>3, <3>2, <4>3, <5>1
        <5>2. CASE x # Tmp
          BY <3>2, <4>3, <5>2
        <5>3. QED
          BY <5>1, <5>2
      <4>4. QED
        BY <4>2, <4>3
    <3>4. Kept' = Kept \ {named[nMaxRollupNums]}
      BY <1>1, <2>2, <3>3 DEF Kept
    <3>5. QED
      BY <1>1, <1>2, <1>9, <2>2, <3>4, LastGoes
  <2>3. QED
    BY <2>1, <2>2
<1>10. OnlyOldestLost'
  BY <1>1, <1>9 DEF OnlyOldestLost
<1>11. QED
  BY <1>1, <1>4, <1>5, <1>6, <1>8, <1>10 DEF IInv

-----------------------------------------------------------------------------
LEMMA StepIInv == IInv /\ [Next]_vars => IInv'
<1> SUFFICES ASSUME IInv, [Next]_vars PROVE IInv'
  OBVIOUS
<1>0. TypeOK
  BY DEF IInv
<1>1. ASSUME NEW g \in Writers, DirsFound(g) \/ Size(g) \/ Write(g) PROVE IInv'
  BY <1>1, QuietStep
<1>2. ASSUME NEW g \in Writers, DirMissing(g) PROVE IInv'
  <2>1. dirs' \in 0 .. Depth + 1
    BY <1>0, <1>2, RollLogAssumption DEF DirMissing, TypeOK
  <2>2. QED
    BY <1>2, <2>1, StopStep DEF DirMissing
<1>3. ASSUME NEW g \in Writers, DupFile(g) PROVE IInv'
  BY <1>3, ToTmpStep, RemoveStep, ShiftStep, FromTmpStep DEF DupFile
<1>4. ASSUME NEW g \in Writers, Open(g) PROVE IInv'
  BY <1>4, OpenStep
<1>5. CASE Killed \/ \E g \in Writers : OpenFails(g)
  BY <1>0, <1>5, StopStep DEF Killed, OpenFails, TypeOK
<1>6. CASE UNCHANGED vars
  <2>1. UNCHANGED <<dirs, named, lines, made, pc, i, file, old, broken, stops>>
    BY <1>6 DEF vars
  <2>2. TypeOK' /\ LoopInv' /\ (~broken' => RotationInv')
    BY <2>1 DEF IInv, TypeOK, LoopInv, RotationInv, Rotating
  <2>3. MadeInv' /\ BackupsInOrder' /\ OnlyOldestLost'
    BY <2>1, SameNames DEF IInv
  <2>4. QED
    BY <2>2, <2>3 DEF IInv
<1>7. QED
  BY <1>1, <1>2, <1>3, <1>4, <1>5, <1>6 DEF Next, LogData

\* IInv holds in every state of the log directory and its writers.
THEOREM Inductive == Spec => []IInv
<1>1. QED
  BY InitIInv, StepIInv, PTL DEF Spec

\* Every variable keeps its type: in particular no rename of dupFile
\* (logger.go:426-468) leaves the numbers 0 to nMaxRollupNums.
THEOREM TypeCorrect == Spec => []TypeOK
<1>1. IInv => TypeOK
  BY DEF IInv
<1>2. QED
  BY <1>1, Inductive, PTL

\* Backups are in order of age whatever overlaps and wherever the process stops.
THEOREM OrderKept == Spec => []BackupsInOrder
<1>1. IInv => BackupsInOrder
  BY DEF IInv
<1>2. QED
  BY <1>1, Inductive, PTL

\* While rotations do not overlap and none is cut short, what is lost is what was
\* rotated out, and it is older than all that is left.
THEOREM OldestGoFirst == Spec => []OnlyOldestLost
<1>1. IInv => OnlyOldestLost
  BY DEF IInv
<1>2. QED
  BY <1>1, Inductive, PTL

-----------------------------------------------------------------------------
(* How far a file can outgrow nMaxFileSize.                                *)

\* Any set of goroutines can be counted.
LEMMA WritersCount ==
  ASSUME NEW C \in SUBSET Writers, NEW D \in SUBSET C
  PROVE  /\ IsFiniteSet(C)
         /\ Cardinality(C) \in Nat
         /\ Cardinality(D) \in Nat
         /\ Cardinality(D) <= Cardinality(C)
         /\ Cardinality(Writers) \in Nat
         /\ Cardinality(C) <= Cardinality(Writers)
<1>1. IsFiniteSet(Writers)
  BY RollLogAssumption
<1>2. IsFiniteSet(C) /\ Cardinality(C) <= Cardinality(Writers)
  BY <1>1, FS_Subset
<1>3. IsFiniteSet(D) /\ Cardinality(D) <= Cardinality(C)
  BY <1>2, FS_Subset
<1>4. QED
  BY <1>1, <1>2, <1>3, FS_CardinalityType

\* A step that writes nothing, and commits nobody to a file that is too large.
LEMMA SizeKept ==
  ASSUME TypeOK, SizeInv, lines' = lines, made' \in Nat, made <= made',
         \A g \in Writers : pc'[g] = "write" => file'[g] \in 1 .. made',
         \A f \in Files, h \in Writers :
           lines[f] > nMaxFileSize /\ h \in Committed(f)' => h \in Committed(f)
  PROVE  SizeInv'
<1>1. \A f \in Files : f > made' => lines'[f] = 0
  BY DEF SizeInv, TypeOK, Files
<1>2. ASSUME NEW f \in Files, lines'[f] > nMaxFileSize
      PROVE  lines'[f] + Cardinality(Committed(f)') <= nMaxFileSize + Cardinality(Writers)
  <2>1. Committed(f)' \in SUBSET Committed(f) /\ Committed(f) \in SUBSET Writers
    BY <1>2 DEF Committed
  <2>2. /\ Cardinality(Committed(f)') \in Nat
        /\ Cardinality(Committed(f)) \in Nat
        /\ Cardinality(Committed(f)') <= Cardinality(Committed(f))
        /\ Cardinality(Writers) \in Nat
    BY <2>1, WritersCount
  <2>3. /\ lines[f] \in Nat
        /\ lines[f] + Cardinality(Committed(f)) <= nMaxFileSize + Cardinality(Writers)
    BY <1>2 DEF SizeInv, TypeOK
  <2>4. nMaxFileSize \in Nat
    BY RollLogAssumption
  <2>5. QED
    BY <2>2, <2>3, <2>4
<1>3. QED
  BY <1>1, <1>2 DEF SizeInv

\* The only step that writes: its goroutine was committed to the file and no
\* longer is.
LEMMA WriteSize ==
  ASSUME TypeOK, SizeInv, NEW g \in Writers, Write(g)
  PROVE  SizeInv'
<1> DEFINE w == file[g]
<1>1. /\ pc[g] = "write"
      /\ pc' = [pc EXCEPT ![g] = "idle"]
      /\ lines' = [lines EXCEPT ![w] = @ + 1]
      /\ file' = [file EXCEPT ![g] = NoFile]
      /\ UNCHANGED <<named, made>>
      /\ w \in 1 .. made
      /\ w \in Files
  BY RollLogAssumption DEF Write, Goto, SizeInv, TypeOK, Files
<1>2. /\ \A h \in Writers : pc'[h] = "write" => file'[h] \in 1 .. made'
      /\ \A f \in Files : f > made' => lines'[f] = 0
  BY <1>1 DEF SizeInv, TypeOK
<1>3. ASSUME NEW f \in Files, lines'[f] > nMaxFileSize
      PROVE  lines'[f] + Cardinality(Committed(f)') <= nMaxFileSize + Cardinality(Writers)
  <2>1. Committed(f)' = Committed(f) \ {g}
    BY <1>1 DEF Committed, Rotating, TypeOK
  <2>2. Committed(f) \in SUBSET Writers /\ Committed(f)' \in SUBSET Committed(f)
    BY <2>1 DEF Committed
  <2>3. /\ IsFiniteSet(Committed(f))
        /\ Cardinality(Committed(f)) \in Nat
        /\ Cardinality(Committed(f)') \in Nat
        /\ Cardinality(Committed(f)') <= Cardinality(Committed(f))
        /\ Cardinality(Writers) \in Nat
        /\ Cardinality(Committed(f)) <= Cardinality(Writers)
        /\ nMaxFileSize \in Nat
        /\ lines[f] \in Nat
    BY <2>2, WritersCount, RollLogAssumption DEF TypeOK
  <2>4. CASE f = w
    <3>1. g \in Committed(f)
      BY <1>1, <2>4 DEF Committed
    <3>2. Cardinality(Committed(f)') = Cardinality(Committed(f)) - 1
      BY <2>1, <2>3, <3>1, FS_RemoveElement
    <3>3. lines'[f] = lines[f] + 1
      BY <1>1, <2>4 DEF TypeOK
    <3>4. CASE lines[f] > nMaxFileSize
      <4>1. lines[f] + Cardinality(Committed(f)) <= nMaxFileSize + Cardinality(Writers)
        BY <3>4 DEF SizeInv
      <4>2. QED
        BY <2>3, <3>2, <3>3, <4>1
    <3>5. CASE lines[f] <= nMaxFileSize
      BY <2>3, <3>2, <3>3, <3>5
    <3>6. QED
      BY <2>3, <3>4, <3>5
  <2>5. CASE f # w
    <3>1. lines'[f] = lines[f]
      BY <1>1, <2>5 DEF TypeOK
    <3>2. lines[f] + Cardinality(Committed(f)) <= nMaxFileSize + Cardinality(Writers)
      BY <1>3, <3>1 DEF SizeInv
    <3>3. QED
      BY <2>3, <3>1, <3>2
  <2>6. QED
    BY <2>4, <2>5
<1>4. QED
  BY <1>2, <1>3 DEF SizeInv

LEMMA InitSize == Init => SizeInv
BY RollLogAssumption DEF Init, SizeInv, Files

LEMMA StepSize == IInv /\ IInv' /\ SizeInv /\ [Next]_vars => SizeInv'
<1> SUFFICES ASSUME IInv, IInv', SizeInv, [Next]_vars PROVE SizeInv'
  OBVIOUS
<1>0. TypeOK /\ made \in Nat /\ made' \in Nat
  BY DEF IInv, TypeOK
<1>1. ASSUME NEW g \in Writers, DirsFound(g) PROVE SizeInv'
  <2>1. /\ UNCHANGED <<named, lines, made, file>>
        /\ pc[g] = "idle" /\ pc' = [pc EXCEPT ![g] = "size"]
    BY <1>1 DEF DirsFound, Goto
  <2>2. \A f \in Files, h \in Writers : h \in Committed(f)' => h \in Committed(f)
    BY <1>0, <2>1 DEF Committed, Rotating, TypeOK
  <2>3. QED
    BY <1>0, <2>1, <2>2, SizeKept DEF SizeInv, TypeOK
<1>2. ASSUME NEW g \in Writers, Size(g) PROVE SizeInv'
  \* Whoever finds the file small enough may add a line; it was not too large.
  <2>1. /\ UNCHANGED <<named, lines, made, file>>
        /\ pc[g] = "size"
        /\ pc' = [pc EXCEPT ![g] = IF TooLarge THEN "dup" ELSE "open"]
    BY <1>2 DEF Size, Goto
  <2>2. ASSUME NEW f \in Files, lines[f] > nMaxFileSize, NEW h \in Writers, h \in Committed(f)'
        PROVE  h \in Committed(f)
    <3>1. CASE h # g
      BY <1>0, <2>1, <2>2, <3>1 DEF Committed, Rotating, TypeOK
    <3>2. CASE h = g
      <4>1. pc'[g] = "open" /\ ~TooLarge /\ named[Live] = f
        BY <1>0, <2>1, <2>2, <3>2 DEF Committed, Rotating, TypeOK
      <4>2. QED
        BY <2>2, <4>1 DEF TooLarge, Files, NoFile
    <3>3. QED
      BY <3>1, <3>2
  <2>3. \A h \in Writers : pc'[h] = "write" => file'[h] \in 1 .. made'
    BY <1>0, <2>1 DEF SizeInv, TypeOK
  <2>4. QED
    BY <1>0, <2>1, <2>2, <2>3, SizeKept
<1>3. ASSUME NEW g \in Writers, Write(g) PROVE SizeInv'
  BY <1>0, <1>3, WriteSize
<1>4. ASSUME NEW g \in Writers, ToTmp(g) PROVE SizeInv'
  \* The file loses its name, and with it those who would have opened it.
  <2>1. /\ UNCHANGED <<lines, made, file>>
        /\ pc[g] = "dup"
        /\ Rename(Live, Tmp)
    BY <1>4 DEF ToTmp
  <2>2. named'[Live] = NoFile
    BY <1>0, <2>1, NamesFacts DEF Rename, TypeOK, Live, Tmp
  <2>3. PICK p \in {"open", "remove", "last"} : pc' = [pc EXCEPT ![g] = p]
    <3>1. CASE named[Live] = NoFile
      BY <1>4, <3>1 DEF ToTmp, Goto
    <3>2. CASE named[Live] # NoFile /\ nMaxRollupNums > 0
      BY <1>4, <3>2 DEF ToTmp, Goto
    <3>3. CASE named[Live] # NoFile /\ ~(nMaxRollupNums > 0)
      <4>1. pc' = [pc EXCEPT ![g] = "last"]
        BY <1>4, <3>3 DEF ToTmp, Goto
      <4>2. QED
        BY <4>1
    <3>4. QED
      BY <3>1, <3>2, <3>3
  <2>4. \A f \in Files, h \in Writers : h \in Committed(f)' => h \in Committed(f)
    BY <1>0, <2>1, <2>2, <2>3 DEF Committed, TypeOK, Files, NoFile
  <2>5. \A h \in Writers : pc'[h] = "write" => file'[h] \in 1 .. made'
    BY <1>0, <2>1, <2>3 DEF SizeInv, TypeOK
  <2>6. QED
    BY <1>0, <2>1, <2>4, <2>5, SizeKept
<1>5. ASSUME NEW g \in Writers, RemoveLast(g) \/ Shift(g) \/ FromTmp(g) PROVE SizeInv'
  \* They rename backups only, and end in "open".
  <2>1. UNCHANGED <<lines, made, file>> /\ Rotating(g) /\ pc[g] # "write"
    BY <1>5 DEF RemoveLast, Shift, FromTmp, Rotating
  <2>2. PICK p \in {"shift", "last", "open"} : pc' = [pc EXCEPT ![g] = p]
    <3>1. CASE RemoveLast(g)
      BY <3>1 DEF RemoveLast, Goto
    <3>2. CASE Shift(g)
      <4>1. pc' = [pc EXCEPT ![g] = IF MoreToShift(i[g] - 1) THEN "shift" ELSE "last"]
        BY <3>2 DEF Shift, Goto
      <4>2. QED
        BY <4>1
    <3>3. CASE FromTmp(g)
      BY <3>3 DEF FromTmp, Goto
    <3>4. QED
      BY <1>5, <3>1, <3>2, <3>3
  <2>3. named'[Live] = named[Live]
    <3>1. CASE RemoveLast(g)
      BY <1>0, <3>1, RollLogAssumption, NamesFacts DEF RemoveLast, LastBackup, TypeOK, Live
    <3>2. CASE Shift(g)
      <4>1. i[g] \in 1 .. nMaxRollupNums
        BY <1>0, <3>2 DEF Shift, IInv, LoopInv, TypeOK
      <4>2. QED
        BY <1>0, <3>2, <4>1, NamesFacts DEF Shift, ShiftOne, Rename, TypeOK, Live
    <3>3. CASE FromTmp(g)
      BY <1>0, <3>3, NamesFacts DEF FromTmp, Rename, TypeOK, Live, Tmp
    <3>4. QED
      BY <1>5, <3>1, <3>2, <3>3
  <2>4. \A f \in Files, h \in Writers : h \in Committed(f)' => h \in Committed(f)
    BY <1>0, <2>1, <2>2, <2>3 DEF Committed, Rotating, TypeOK
  <2>5. \A h \in Writers : pc'[h] = "write" => file'[h] \in 1 .. made'
    BY <1>0, <2>1, <2>2 DEF SizeInv, TypeOK
  <2>6. QED
    BY <1>0, <2>1, <2>4, <2>5, SizeKept
<1>6. ASSUME NEW g \in Writers, Open(g) PROVE SizeInv'
  <2>1. /\ UNCHANGED lines
        /\ pc[g] = "open"
        /\ pc' = [pc EXCEPT ![g] = "write"]
        /\ file' = [file EXCEPT ![g] = named'[Live]]
    BY <1>6 DEF Open, Goto
  <2>2. CASE named[Live] # NoFile
    <3>1. named'[Live] = named[Live] /\ made' = made /\ named[Live] \in 1 .. made
      BY <1>0, <1>6, <2>2, NamesFacts, RollLogAssumption
         DEF Open, TypeOK, IInv, MadeInv, Files, NoFile
    <3>2. \A f \in Files, h \in Writers : h \in Committed(f)' => h \in Committed(f)
      BY <1>0, <2>1, <3>1 DEF Committed, Rotating, TypeOK
    <3>3. \A h \in Writers : pc'[h] = "write" => file'[h] \in 1 .. made'
      BY <1>0, <2>1, <3>1 DEF SizeInv, TypeOK
    <3>4. QED
      BY <1>0, <2>1, <3>1, <3>2, <3>3, SizeKept
  <2>3. CASE named[Live] = NoFile
    <3>1. named'[Live] = made + 1 /\ made' = made + 1
      BY <1>0, <1>6, <2>3, NamesFacts DEF Open, TypeOK
    <3>2. ASSUME NEW f \in Files, lines[f] > nMaxFileSize, NEW h \in Writers, h \in Committed(f)'
          PROVE  h \in Committed(f)
      <4>1. f # made + 1
        BY <1>0, <3>2, RollLogAssumption DEF SizeInv, Files
      <4>2. h # g /\ pc'[h] = "write" /\ file'[h] = f
        BY <1>0, <2>1, <3>1, <3>2, <4>1 DEF Committed, TypeOK
      <4>3. QED
        BY <1>0, <2>1, <4>2 DEF Committed, TypeOK
    <3>3. \A h \in Writers : pc'[h] = "write" => file'[h] \in 1 .. made'
      BY <1>0, <2>1, <3>1 DEF SizeInv, TypeOK
    <3>4. QED
      BY <1>0, <2>1, <3>1, <3>2, <3>3, SizeKept
  <2>4. QED
    BY <2>2, <2>3
<1>7. ASSUME Stop, UNCHANGED <<named, lines, made>> PROVE SizeInv'
  \* Nobody is committed to anything.
  <2>1. pc' = [g \in Writers |-> "idle"]
    BY <1>7 DEF Stop
  <2>2. \A f \in Files, h \in Writers : h \notin Committed(f)'
    BY <2>1 DEF Committed, Rotating
  <2>3. QED
    BY <1>0, <1>7, <2>1, <2>2, SizeKept
<1>8. CASE UNCHANGED vars
  <2>1. UNCHANGED <<named, lines, made, pc, file>>
    BY <1>8 DEF vars
  <2>2. QED
    BY <2>1 DEF SizeInv, Committed, Rotating
<1>9. ASSUME NEW g \in Writers, DirMissing(g) \/ OpenFails(g) PROVE SizeInv'
  BY <1>7, <1>9 DEF DirMissing, OpenFails, Killed, Stop
<1>10. CASE Killed
  BY <1>7, <1>10 DEF Killed, Stop
<1>11. QED
  BY <1>1, <1>2, <1>3, <1>4, <1>5, <1>6, <1>8, <1>9, <1>10 DEF Next, LogData, DupFile

\* No file outgrows nMaxFileSize by more than a line per goroutine, for any number
\* of goroutines and however the size check (logger.go:512-521) is overtaken.
THEOREM SizeBounded == Spec => []BoundedFile
<1>1. IInv /\ SizeInv => BoundedFile
  <2> SUFFICES ASSUME IInv, SizeInv, NEW f \in Files
               PROVE  lines[f] <= nMaxFileSize + Cardinality(Writers)
    BY DEF BoundedFile
  <2>1. Committed(f) \in SUBSET Writers
    BY DEF Committed
  <2>2. /\ Cardinality(Committed(f)) \in Nat
        /\ Cardinality(Writers) \in Nat
        /\ lines[f] \in Nat
        /\ nMaxFileSize \in Nat
    BY <2>1, WritersCount, RollLogAssumption DEF IInv, TypeOK
  <2>3. QED
    BY <2>2 DEF SizeInv
<1>2. QED
  BY <1>1, InitIInv, InitSize, StepIInv, StepSize, PTL DEF Spec

-----------------------------------------------------------------------------
(* The chain of backups has no gaps.                                       *)

LEMMA InitChain == Init => ChainInv
BY DEF Init, ChainInv, Names, Live

\* While nobody rotates no number is about to be filled.
LEMMA NoHole ==
  ASSUME \A g \in Writers : ~Rotating(g), NEW n
  PROVE  ~Hole(n)
BY DEF Rotating, Hole

\* While g rotates, it alone says which number is next.
LEMMA HoleOf ==
  ASSUME RotationInv, NEW g \in Writers, Rotating(g), NEW n
  PROVE  Hole(n) <=> (pc[g] = "shift" /\ i[g] = n) \/ (pc[g] = "last" /\ n = 0)
BY DEF RotationInv, Rotating, Hole

\* Steps that touch neither the backups nor a rotation.
LEMMA ChainKept ==
  ASSUME ChainInv, UNCHANGED old,
         \A n \in 0 .. nMaxRollupNums : named'[n] = named[n],
         \A n \in 0 .. nMaxRollupNums : Hole(n) => Hole(n)'
  PROVE  ChainInv'
<1>1. \A m \in 0 .. nMaxRollupNums : m .. nMaxRollupNums \subseteq 0 .. nMaxRollupNums
  BY RollLogAssumption
<1>2. QED
  BY <1>1 DEF ChainInv

\* The last backup is removed: if there was one, every number was taken.
LEMMA RemoveChain ==
  ASSUME IInv, IInv', ~broken, ~broken', ChainInv, NEW g \in Writers, RemoveLast(g)
  PROVE  ChainInv'
<1> USE RollLogAssumption
<1>1. /\ RotationInv /\ RotationInv' /\ Rotating(g) /\ Rotating(g)'
      /\ pc[g] = "remove" /\ pc'[g] = "shift"
      /\ i[g] = nMaxRollupNums /\ i' = i
  BY DEF IInv, TypeOK, RotationInv, Rotating, RemoveLast, Goto
<1>2. /\ \A n \in 0 .. nMaxRollupNums :
           named'[n] = IF n = nMaxRollupNums THEN NoFile ELSE named[n]
      /\ old' = old \cup ({named[nMaxRollupNums]} \ {NoFile})
  BY DEF RemoveLast, LastBackup, IInv, TypeOK, Names, Live
<1>3. \A n : ~Hole(n)
  BY <1>1, HoleOf
<1>4. Hole(nMaxRollupNums)'
  BY <1>1 DEF Hole
<1> SUFFICES ASSUME NEW m \in 0 .. nMaxRollupNums, named'[m] = NoFile, ~Hole(m)'
             PROVE  old' = {} /\ \A n \in m .. nMaxRollupNums : named'[n] = NoFile
  BY DEF ChainInv
<1>5. m # nMaxRollupNums /\ named[m] = NoFile
  BY <1>2, <1>4
<1>6. /\ old = {}
      /\ \A n \in m .. nMaxRollupNums : named[n] = NoFile
  BY <1>3, <1>5 DEF ChainInv
<1>7. named[nMaxRollupNums] = NoFile
  BY <1>6
<1>8. QED
  BY <1>2, <1>6, <1>7

\* A backup takes the next number, and the free number moves down with it.
LEMMA ShiftChain ==
  ASSUME IInv, IInv', ~broken, ~broken', ChainInv, NEW g \in Writers, Shift(g)
  PROVE  ChainInv'
<1> USE RollLogAssumption
<1>0. PICK k \in 1 .. nMaxRollupNums : k = i[g]
  BY DEF IInv, LoopInv, TypeOK, Shift
<1>1. /\ RotationInv /\ Rotating(g)
      /\ pc[g] = "shift"
      /\ i[g] = k
      /\ named[k] = NoFile
      /\ old' = old
      /\ Rename(k - 1, k)
  BY <1>0 DEF IInv, RotationInv, Rotating, Shift, ShiftOne
<1>2. Hole(k - 1)'
  <2>1. i'[g] = k - 1 /\ pc'[g] = IF k - 1 > 0 THEN "shift" ELSE "last"
    BY <1>0 DEF IInv, TypeOK, Shift, Goto, MoreToShift
  <2>2. CASE k - 1 > 0
    <3>1. pc'[g] = "shift" /\ i'[g] = k - 1
      BY <2>1, <2>2
    <3>2. QED
      BY <3>1 DEF Hole
  <2>3. CASE k - 1 = 0
    <3>1. pc'[g] = "last" /\ k - 1 = 0
      BY <2>1, <2>3
    <3>2. QED
      BY <3>1 DEF Hole
  <2>4. QED
    BY <1>1, <2>2, <2>3
<1>3. \A n : Hole(n) <=> n = k
  BY <1>1, HoleOf
<1> SUFFICES ASSUME NEW m \in 0 .. nMaxRollupNums, named'[m] = NoFile, ~Hole(m)'
             PROVE  old = {} /\ \A n \in m .. nMaxRollupNums : named'[n] = NoFile
  BY <1>1 DEF ChainInv
<1>4. m # k - 1
  BY <1>2
<1>5. CASE named[k - 1] = NoFile
  <2>1. named' = named
    BY <1>1, <1>5 DEF Rename
  <2>2. old = {} /\ \A n \in k - 1 .. nMaxRollupNums : named[n] = NoFile
    BY <1>1, <1>3, <1>5 DEF ChainInv
  <2>3. CASE m = k
    BY <1>1, <2>1, <2>2, <2>3
  <2>4. CASE m # k
    BY <1>3, <2>1, <2>4 DEF ChainInv
  <2>5. QED
    BY <2>3, <2>4
<1>6. CASE named[k - 1] # NoFile
  <2>1. \A n \in 0 .. nMaxRollupNums :
          named'[n] = IF n = k - 1 THEN NoFile ELSE IF n = k THEN named[k - 1] ELSE named[n]
    BY <1>1, <1>6 DEF Rename, IInv, TypeOK, Names, Live
  <2>2. m # k /\ named[m] = NoFile
    BY <1>1, <1>4, <1>6, <2>1
  <2>3. old = {} /\ \A n \in m .. nMaxRollupNums : named[n] = NoFile
    BY <1>3, <2>2 DEF ChainInv
  <2>4. m > k
    BY <1>1, <1>4, <1>6, <2>2, <2>3
  <2>5. QED
    BY <1>1, <2>1, <2>3, <2>4
<1>7. QED
  BY <1>5, <1>6

\* .tmp fills the number that was left, 0.
LEMMA FromTmpChain ==
  ASSUME IInv, ~broken, ChainInv, NEW g \in Writers, FromTmp(g)
  PROVE  ChainInv'
<1> USE RollLogAssumption
<1>1. /\ RotationInv /\ Rotating(g)
      /\ pc[g] = "last"
      /\ named[Tmp] # NoFile
      /\ old' = IF nMaxRollupNums = 0 THEN old \cup ({named[0]} \ {NoFile}) ELSE old
  BY DEF IInv, RotationInv, Rotating, FromTmp
<1>2. \A n : Hole(n) <=> n = 0
  BY <1>1, HoleOf
<1>3. \A n \in 0 .. nMaxRollupNums : named'[n] = IF n = 0 THEN named[Tmp] ELSE named[n]
  BY <1>1, NamesFacts DEF FromTmp, Rename, IInv, TypeOK, Names, Live, Tmp
<1> SUFFICES ASSUME NEW m \in 0 .. nMaxRollupNums, named'[m] = NoFile
             PROVE  old' = {} /\ \A n \in m .. nMaxRollupNums : named'[n] = NoFile
  BY DEF ChainInv
<1>4. m # 0 /\ named[m] = NoFile
  BY <1>1, <1>3
<1>5. old = {} /\ \A n \in m .. nMaxRollupNums : named[n] = NoFile
  BY <1>2, <1>4 DEF ChainInv
<1>6. QED
  BY <1>1, <1>3, <1>4, <1>5

LEMMA StepChain ==
  IInv /\ IInv' /\ (~broken => ChainInv) /\ [Next]_vars => (~broken' => ChainInv')
<1> SUFFICES ASSUME IInv, IInv', ~broken => ChainInv, [Next]_vars, ~broken'
             PROVE  ChainInv'
  OBVIOUS
<1>0. TypeOK /\ 0 .. nMaxRollupNums \subseteq Names \ {Live, Tmp}
  BY RollLogAssumption DEF IInv, Names, Live, Tmp
<1>1. ASSUME NEW g \in Writers, DirsFound(g) \/ Size(g) \/ Write(g) \/ Open(g)
      PROVE  ChainInv'
  <2>1. UNCHANGED <<old, i, broken>> /\ ~Rotating(g)
    BY <1>1 DEF DirsFound, Size, Write, Open, Rotating
  <2>2. \A h \in Writers \ {g} : pc'[h] = pc[h]
    BY <1>0, <1>1 DEF DirsFound, Size, Write, Open, Goto, TypeOK
  <2>3. \A n \in 0 .. nMaxRollupNums : named'[n] = named[n]
    BY <1>0, <1>1 DEF DirsFound, Size, Write, Open, TypeOK
  <2>4. \A n \in 0 .. nMaxRollupNums : Hole(n) => Hole(n)'
    BY <2>1, <2>2 DEF Hole, Rotating
  <2>5. QED
    BY <2>1, <2>3, <2>4, ChainKept
<1>2. ASSUME NEW g \in Writers, ToTmp(g) PROVE ChainInv'
  <2>1. UNCHANGED old /\ ~broken /\ ~Rotating(g)
    BY <1>2 DEF ToTmp, Rotating
  <2>2. \A h \in Writers \ {g} : pc'[h] = pc[h] /\ i'[h] = i[h]
    BY <1>0, <1>2 DEF ToTmp, Goto, TypeOK
  <2>3. \A n \in 0 .. nMaxRollupNums : named'[n] = named[n]
    BY <1>0, <1>2, NamesFacts DEF ToTmp, Rename, TypeOK
  <2>4. \A n \in 0 .. nMaxRollupNums : Hole(n) => Hole(n)'
    BY <2>1, <2>2 DEF Hole, Rotating
  <2>5. QED
    BY <2>1, <2>3, <2>4, ChainKept
<1>3. ASSUME NEW g \in Writers, RemoveLast(g) PROVE ChainInv'
  BY <1>3, RemoveChain DEF RemoveLast
<1>4. ASSUME NEW g \in Writers, Shift(g) PROVE ChainInv'
  BY <1>4, ShiftChain DEF Shift
<1>5. ASSUME NEW g \in Writers, FromTmp(g) PROVE ChainInv'
  BY <1>5, FromTmpChain DEF FromTmp
<1>6. ASSUME Stop, UNCHANGED <<named, old>> PROVE ChainInv'
  \* A stop in the middle of a rotation counts as an accident.
  <2>1. ~broken /\ \A g \in Writers : ~Rotating(g)
    BY <1>6 DEF Stop
  <2>2. \A n \in 0 .. nMaxRollupNums : ~Hole(n)
    BY <2>1, NoHole
  <2>3. QED
    BY <1>6, <2>1, <2>2, ChainKept
<1>7. CASE UNCHANGED vars
  <2>1. UNCHANGED <<named, pc, i, old, broken>>
    BY <1>7 DEF vars
  <2>2. QED
    BY <2>1 DEF ChainInv, Hole
<1>8. ASSUME NEW g \in Writers, DirMissing(g) \/ OpenFails(g) PROVE ChainInv'
  BY <1>6, <1>8 DEF DirMissing, OpenFails, Killed, Stop
<1>9. CASE Killed
  BY <1>6, <1>9 DEF Killed, Stop
<1>10. QED
  BY <1>1, <1>2, <1>3, <1>4, <1>5, <1>7, <1>8, <1>9 DEF Next, LogData, DupFile

\* Once something has been dropped each number has a file of its own, .tmp standing
\* in for the number that the rotation under way fills next.
LEMMA EnoughKept ==
  ASSUME IInv, ~broken => ChainInv
  PROVE  KeepsEnough
<1> SUFFICES ASSUME ~broken, old # {} PROVE Cardinality(Kept) >= nMaxRollupNums + 1
  BY DEF KeepsEnough
<1> USE RollLogAssumption
<1>1. TypeOK /\ BackupsInOrder /\ MadeInv /\ RotationInv /\ ChainInv
  BY DEF IInv
<1>2. 0 .. nMaxRollupNums \subseteq Names /\ Names \subseteq Int
  BY DEF Names, Live
<1> DEFINE ToFile == [n \in 0 .. nMaxRollupNums |->
                        IF named[n] # NoFile THEN named[n] ELSE named[Tmp]]
<1>3. \A n \in 0 .. nMaxRollupNums : named[n] = NoFile => Hole(n)
  BY <1>1 DEF ChainInv
<1>4. ASSUME NEW n \in 0 .. nMaxRollupNums, named[n] = NoFile
      PROVE  /\ named[Tmp] # NoFile
             /\ \A m \in 0 .. nMaxRollupNums : named[m] = NoFile => m = n
  <2>1. PICK g \in Writers : Rotating(g)
    BY <1>3, <1>4 DEF Hole, Rotating
  <2>2. \A m \in 0 .. nMaxRollupNums :
          Hole(m) <=> (pc[g] = "shift" /\ i[g] = m) \/ (pc[g] = "last" /\ m = 0)
    BY <1>1, <2>1, HoleOf
  <2>3. QED
    BY <1>1, <1>3, <1>4, <2>1, <2>2 DEF RotationInv
<1>5. ASSUME NEW x \in Names, named[x] # NoFile PROVE named[x] \in Kept
  BY <1>1, <1>5 DEF Kept, TypeOK, MadeInv, Files, NoFile
<1>6. ASSUME NEW x \in Names, NEW y \in Names, named[x] # NoFile, named[x] = named[y]
      PROVE  x = y
  <2>1. named[x] \in Int
    BY <1>1 DEF TypeOK, Files, NoFile
  <2>2. ~(x < y) /\ ~(y < x)
    BY <1>1, <1>6, <2>1 DEF BackupsInOrder
  <2>3. QED
    BY <1>2, <2>2
<1>7. ToFile \in [0 .. nMaxRollupNums -> Kept]
  BY <1>2, <1>4, <1>5, NamesFacts
<1>8. ASSUME NEW m \in 0 .. nMaxRollupNums, NEW n \in 0 .. nMaxRollupNums,
             ToFile[m] = ToFile[n]
      PROVE  m = n
  <2>1. Tmp # m /\ Tmp # n /\ Tmp \in Names
    BY NamesFacts DEF Tmp
  <2>2. CASE named[m] # NoFile /\ named[n] # NoFile
    BY <1>2, <1>6, <1>8, <2>2
  <2>3. CASE named[m] = NoFile /\ named[n] = NoFile
    BY <1>4, <2>3
  <2>4. CASE named[m] # NoFile /\ named[n] = NoFile
    <3>1. named[m] = named[Tmp]
      BY <1>8, <2>4
    <3>2. QED
      BY <1>2, <1>6, <2>1, <2>4, <3>1
  <2>5. CASE named[m] = NoFile /\ named[n] # NoFile
    <3>1. named[n] = named[Tmp]
      BY <1>8, <2>5
    <3>2. QED
      BY <1>2, <1>6, <2>1, <2>5, <3>1
  <2>6. QED
    BY <2>2, <2>3, <2>4, <2>5
<1>9. ToFile \in Injection(0 .. nMaxRollupNums, Kept)
  BY <1>7, <1>8 DEF Injection, IsInjective
<1>10. IsFiniteSet(Kept) /\ Cardinality(Kept) \in Nat
  <2>1. IsFiniteSet(1 .. made) /\ Kept \in SUBSET (1 .. made)
    BY <1>1, FS_Interval DEF TypeOK, Kept
  <2>2. QED
    BY <2>1, FS_Subset, FS_CardinalityType
<1>11. Cardinality(0 .. nMaxRollupNums) <= Cardinality(Kept)
  BY <1>9, <1>10, FS_Injection
<1>12. Cardinality(0 .. nMaxRollupNums) = nMaxRollupNums + 1
  BY FS_Interval
<1>13. QED
  BY <1>10, <1>11, <1>12

\* Until rotations overlap or one is cut short, dupFile (logger.go:426-468) drops a
\* backup only when the file and nMaxRollupNums backups are left.
THEOREM EnoughAlways == Spec => []KeepsEnough
<1>1. Init => (~broken => ChainInv)
  BY InitChain
<1>2. QED
  BY <1>1, InitIInv, StepIInv, StepChain, EnoughKept, PTL DEF Spec
=============================================================================
