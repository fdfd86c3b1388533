---------------------------- MODULE LoggerProofs ----------------------------
(***************************************************************************)
(* Theorems about Logger, for every set of goroutines and configuration    *)
(* files.                                                                  *)
(***************************************************************************)
EXTENDS Logger, TLAPS

LEMMA SlotFacts ==
  /\ Slots = {0, 1, 2}
  /\ file_logger_nums = 3
  /\ \A family \in Slots, level \in Levels : SlotOf(family, level) \in Slots
BY DEF Slots, file_logger_nums, SlotOf, APP, ACC

LEMMA InitIInv == Init => IInv
<1> SUFFICES ASSUME Init PROVE IInv
  OBVIOUS
<1>1. TypeOK
  <2>1. /\ made \in Nat /\ g_single_logger \in 0 .. made
        /\ mine \in [Users -> 0 .. made] /\ saw \in [Users -> 0 .. made]
        /\ load \in [Users -> 0 .. MaxLoads] /\ loads \in 0 .. MaxLoads
        /\ i \in [Users -> 0 .. file_logger_nums]
    BY LoggerAssumption, SlotFacts DEF Init
  <2>2. /\ ptrLogArray \in [1 .. made -> [Slots -> 0 .. MaxLoads]]
        /\ pc \in [Users -> {"idle", "new", "return", "load"}]
        /\ conf \in [Loads -> [Slots -> {"good", "empty_size", "no_dir", "absent"}]]
    BY DEF Init, Good
  <2>3. /\ dead \in BOOLEAN /\ loaded \in BOOLEAN /\ early \in BOOLEAN
        /\ raced \in BOOLEAN /\ overlapped \in BOOLEAN
    BY DEF Init
  <2>4. QED
    BY <2>1, <2>2, <2>3 DEF TypeOK
<1>2. PlaceInv /\ OneLogger /\ RaceInv
  BY DEF Init, PlaceInv, OneLogger, RaceInv
<1>3. LoadedInv /\ SafeAfterLoad
  BY DEF Init, LoadedInv, SafeAfterLoad, Sharing
<1>4. OneConfig /\ ConfigInv
  BY DEF Init, OneConfig, ConfigInv
<1>5. QED
  BY <1>1, <1>2, <1>3, <1>4 DEF IInv

-----------------------------------------------------------------------------
(* Instance                                                                *)

LEMMA InstanceStep ==
  ASSUME IInv, NEW u \in Users, Instance(u)
  PROVE  IInv'
<1>1. TypeOK /\ PlaceInv /\ OneLogger /\ RaceInv /\ LoadedInv /\ SafeAfterLoad
        /\ OneConfig /\ ConfigInv
  BY DEF IInv
<1>2. /\ pc[u] = "idle"
      /\ UNCHANGED <<g_single_logger, made, ptrLogArray, load, i, conf, loads, loaded,
                     overlapped, mine, dead>>
      /\ pc' = [pc EXCEPT ![u] = Find(u)]
      /\ saw' = [saw EXCEPT ![u] = g_single_logger]
  BY DEF Instance, Goto, loadVars
<1>3. /\ early' = (early \/ (~loaded /\ \E v \in Users \ {u} : Sharing(v)))
      /\ raced' = (raced \/ (g_single_logger = 0 /\ \E v \in Users : pc[v] = "new"))
  BY DEF Instance
<1>4. /\ \A v \in Users : pc'[v] = IF v = u THEN Find(u) ELSE pc[v]
      /\ \A v \in Users : saw'[v] = IF v = u THEN g_single_logger ELSE saw[v]
      /\ Find(u) \in {"new", "return"}
      /\ Find(u) = "new" <=> g_single_logger = 0
  BY <1>1, <1>2 DEF TypeOK, Find
<1>5. early' \in BOOLEAN /\ raced' \in BOOLEAN
  BY <1>3
<1>6. TypeOK'
  BY <1>1, <1>2, <1>4, <1>5 DEF TypeOK, Loads
<1>7. PlaceInv' /\ OneLogger'
  <2>1. PlaceInv'
    <3>1. ASSUME NEW v \in Users
          PROVE  /\ pc'[v] = "return" => saw'[v] # 0
                 /\ pc'[v] # "idle" \/ mine[v] # 0 => pc'[v] = "new" \/ g_single_logger # 0
                 /\ pc'[v] = "load" => pc[v] = "load"
      BY <1>1, <1>4 DEF PlaceInv
    <3>2. QED
      BY <1>1, <1>2, <3>1 DEF PlaceInv
  <2>2. ~raced' => ~raced
    BY <1>3
  <2>3. QED
    BY <1>1, <1>2, <2>1, <2>2 DEF OneLogger
<1>8. RaceInv'
  <2>1. SUFFICES ASSUME ~raced' PROVE RaceInv'
    BY DEF RaceInv
  <2>2. ~raced /\ (g_single_logger = 0 => \A v \in Users : pc[v] # "new")
    BY <1>3, <2>1
  <2>3. \A v \in Users : pc'[v] = "new" => v = u /\ g_single_logger = 0
    BY <1>1, <1>4, <2>2 DEF RaceInv
  <2>4. \A v \in Users : pc'[v] = "return" => saw'[v] = g_single_logger
    BY <1>1, <1>4, <2>2 DEF RaceInv
  <2>5. QED
    BY <1>2, <2>3, <2>4 DEF RaceInv
<1>9. LoadedInv'
  <2>1. loaded' => g_single_logger' # 0
    BY <1>1, <1>2 DEF LoadedInv
  <2>2. \A v \in Users : pc'[v] = "load" =>
          \A k \in Slots : k < i'[v] => ptrLogArray'[mine'[v]][k] # 0
    BY <1>1, <1>2, <1>4 DEF LoadedInv
  <2>3. ~early' => ~raced'
    <3>1. SUFFICES ASSUME ~early', raced' PROVE FALSE
      OBVIOUS
    <3>2. ~early /\ ~raced
      BY <1>1, <1>3, <3>1 DEF LoadedInv
    <3>3. PICK v \in Users : g_single_logger = 0 /\ pc[v] = "new"
      BY <1>3, <3>1, <3>2
    <3>4. ~loaded /\ v # u /\ Sharing(v)
      BY <1>1, <1>2, <3>3 DEF LoadedInv, Sharing
    <3>5. QED
      BY <1>3, <3>1, <3>4
  <2>4. ~early' /\ ~loaded' =>
          \A v, w \in Users : Sharing(v)' /\ Sharing(w)' => v = w
    <3>1. SUFFICES ASSUME ~early', ~loaded, NEW v \in Users, Sharing(v)'
                   PROVE  v = u
      BY <1>2
    <3>2. v # u => Sharing(v)
      BY <1>2, <1>4, <3>1 DEF Sharing
    <3>3. QED
      BY <1>3, <3>1, <3>2
  <2>5. ~early' /\ loaded' => \A k \in Slots : ptrLogArray'[g_single_logger'][k] # 0
    BY <1>1, <1>2, <1>3 DEF LoadedInv
  <2>6. QED
    BY <2>1, <2>2, <2>3, <2>4, <2>5 DEF LoadedInv
<1>10. SafeAfterLoad'
  BY <1>1, <1>2, <1>3 DEF SafeAfterLoad, Unreadable
<1>11. OneConfig' /\ ConfigInv'
  BY <1>1, <1>2, <1>4 DEF OneConfig, ConfigInv
<1>12. QED
  BY <1>6, <1>7, <1>8, <1>9, <1>10, <1>11 DEF IInv

LEMMA NewStep ==
  ASSUME IInv, NEW u \in Users, New(u)
  PROVE  IInv'
<1>1. TypeOK /\ PlaceInv /\ OneLogger /\ RaceInv /\ LoadedInv /\ SafeAfterLoad
        /\ OneConfig /\ ConfigInv
  BY DEF IInv
<1>2. /\ pc[u] = "new"
      /\ UNCHANGED <<load, i, conf, loads, loaded, overlapped, mine, dead, early, raced>>
      /\ made' = made + 1
      /\ g_single_logger' = made + 1
      /\ pc' = [pc EXCEPT ![u] = "return"]
      /\ saw' = [saw EXCEPT ![u] = made + 1]
  BY DEF New, Goto
<1>3. /\ \A x \in 1 .. made : ptrLogArray'[x] = ptrLogArray[x]
      /\ ptrLogArray'[made + 1] = [k \in Slots |-> 0]
      /\ ptrLogArray' \in [1 .. made + 1 -> [Slots -> 0 .. MaxLoads]]
  <2>1. ptrLogArray' = [x \in 1 .. made + 1 |->
                       IF x <= made THEN ptrLogArray[x] ELSE [k \in Slots |-> 0]]
    BY DEF New
  <2>2. made \in Nat /\ ptrLogArray \in [1 .. made -> [Slots -> 0 .. MaxLoads]]
    BY <1>1 DEF TypeOK
  <2>3. [k \in Slots |-> 0] \in [Slots -> 0 .. MaxLoads]
    BY LoggerAssumption
  <2>4. QED
    BY <2>1, <2>2, <2>3
<1>4. /\ \A v \in Users : pc'[v] = IF v = u THEN "return" ELSE pc[v]
      /\ \A v \in Users : saw'[v] = IF v = u THEN made + 1 ELSE saw[v]
  BY <1>1, <1>2 DEF TypeOK
<1>5. TypeOK'
  <2>1. made' \in Nat /\ g_single_logger' \in 0 .. made'
    BY <1>1, <1>2 DEF TypeOK
  <2>2. mine' \in [Users -> 0 .. made'] /\ saw' \in [Users -> 0 .. made']
    BY <1>1, <1>2 DEF TypeOK
  <2>3. ptrLogArray' \in [1 .. made' -> [Slots -> 0 .. MaxLoads]]
    BY <1>2, <1>3
  <2>4. QED
    BY <1>1, <1>2, <2>1, <2>2, <2>3 DEF TypeOK, Loads
<1>6. g_single_logger' # 0
  BY <1>1, <1>2 DEF TypeOK
<1>7. PlaceInv'
  BY <1>1, <1>2, <1>4, <1>6 DEF PlaceInv
<1>8. OneLogger' /\ RaceInv'
  <2>1. SUFFICES ASSUME ~raced PROVE OneLogger' /\ RaceInv'
    BY <1>2 DEF OneLogger, RaceInv
  <2>2. g_single_logger = 0 /\ \A v \in Users : pc[v] = "new" => v = u
    BY <1>1, <1>2, <2>1 DEF RaceInv
  <2>3. \A v \in Users : mine[v] = 0
    BY <1>1, <2>1, <2>2 DEF OneLogger
  <2>4. \A v \in Users : pc[v] = "return" => FALSE
    BY <1>1, <2>1, <2>2 DEF RaceInv, PlaceInv
  <2>5. QED
    BY <1>2, <1>4, <2>2, <2>3, <2>4 DEF OneLogger, RaceInv
<1>9. \A v \in Users : pc[v] = "load" => mine[v] \in 1 .. made
  BY <1>1 DEF PlaceInv, TypeOK
<1>10. LoadedInv'
  <2>1. \A v \in Users : pc'[v] = "load" =>
          \A k \in Slots : k < i'[v] => ptrLogArray'[mine'[v]][k] # 0
    BY <1>1, <1>2, <1>3, <1>4, <1>9 DEF LoadedInv
  <2>2. \A v \in Users : Sharing(v)' => Sharing(v)
    BY <1>2, <1>4 DEF Sharing
  <2>3. ~(~early /\ loaded)
    BY <1>1, <1>2 DEF LoadedInv, RaceInv
  <2>4. QED
    BY <1>1, <1>2, <1>6, <2>1, <2>2, <2>3 DEF LoadedInv
<1>11. SafeAfterLoad'
  BY <1>1, <1>2 DEF SafeAfterLoad, Unreadable
<1>12. ConfigInv'
  BY <1>1, <1>2, <1>3, <1>4, <1>9 DEF ConfigInv
<1>13. OneConfig'
  <2>1. SUFFICES ASSUME ~overlapped, NEW x \in 1 .. made + 1,
                        \A v \in Users : pc'[v] = "load" => mine[v] # x
                 PROVE  \A j, k \in Slots : ptrLogArray'[x][j] = ptrLogArray'[x][k]
    BY <1>2 DEF OneConfig
  <2>2. CASE x = made + 1
    BY <1>3, <2>2
  <2>3. CASE x # made + 1
    <3>1. x \in 1 .. made
      BY <1>1, <2>3 DEF TypeOK
    <3>2. \A v \in Users : pc[v] = "load" => mine[v] # x
      BY <1>2, <1>4, <2>1
    <3>3. QED
      BY <1>1, <1>3, <2>1, <3>1, <3>2 DEF OneConfig
  <2>4. QED
    BY <2>2, <2>3
<1>14. QED
  BY <1>5, <1>7, <1>8, <1>10, <1>11, <1>12, <1>13 DEF IInv

LEMMA ReturnStep ==
  ASSUME IInv, NEW u \in Users, Return(u)
  PROVE  IInv'
<1>1. TypeOK /\ PlaceInv /\ OneLogger /\ RaceInv /\ LoadedInv /\ SafeAfterLoad
        /\ OneConfig /\ ConfigInv
  BY DEF IInv
<1>2. PICK x \in {g_single_logger, saw[u]} : mine' = [mine EXCEPT ![u] = x]
  BY DEF Return
<1>3. /\ pc[u] = "return"
      /\ UNCHANGED <<g_single_logger, made, saw, raced, ptrLogArray, load, i, conf, loads,
                     loaded, overlapped, dead, early>>
      /\ pc' = [pc EXCEPT ![u] = "idle"]
  BY DEF Return, Goto, instVars, loadVars
<1>4. /\ \A v \in Users : pc'[v] = IF v = u THEN "idle" ELSE pc[v]
      /\ \A v \in Users : mine'[v] = IF v = u THEN x ELSE mine[v]
  BY <1>1, <1>2, <1>3 DEF TypeOK
<1>5. g_single_logger # 0 /\ saw[u] # 0 /\ x # 0
  BY <1>1, <1>2, <1>3 DEF PlaceInv
<1>6. TypeOK'
  <2>1. mine' \in [Users -> 0 .. made]
    BY <1>1, <1>2 DEF TypeOK
  <2>2. QED
    BY <1>1, <1>3, <2>1 DEF TypeOK, Loads
<1>7. PlaceInv'
  BY <1>1, <1>3, <1>4, <1>5 DEF PlaceInv
<1>8. OneLogger' /\ RaceInv'
  BY <1>1, <1>2, <1>3, <1>4 DEF OneLogger, RaceInv
<1>9. LoadedInv'
  <2>1. \A v \in Users : Sharing(v)' => Sharing(v)
    BY <1>3, <1>4 DEF Sharing
  <2>2. QED
    BY <1>1, <1>3, <1>4, <2>1 DEF LoadedInv
<1>10. SafeAfterLoad'
  BY <1>1, <1>3 DEF SafeAfterLoad, Unreadable
<1>11. OneConfig' /\ ConfigInv'
  BY <1>1, <1>3, <1>4 DEF OneConfig, ConfigInv
<1>12. QED
  BY <1>6, <1>7, <1>8, <1>9, <1>10, <1>11 DEF IInv
-----------------------------------------------------------------------------
(* Load                                                                    *)

LEMMA ParsePanicsStep ==
  ASSUME IInv, NEW u \in Users, NEW f \in Confs, ParsePanics(u, f)
  PROVE  IInv'
<1>1. TypeOK /\ PlaceInv /\ OneLogger /\ RaceInv /\ LoadedInv /\ OneConfig /\ ConfigInv
  BY DEF IInv
<1>2. /\ loads < MaxLoads /\ loads' = loads + 1
      /\ conf' = [conf EXCEPT ![loads + 1] = f]
      /\ dead' = TRUE
      /\ UNCHANGED <<g_single_logger, made, saw, raced, ptrLogArray, load, i, loaded,
                     overlapped, pc, mine, early>>
  BY DEF ParsePanics, instVars
<1>3. /\ loads + 1 \in Loads
      /\ \A n \in Loads : conf'[n] = IF n = loads + 1 THEN f ELSE conf[n]
  BY <1>1, <1>2, LoggerAssumption DEF TypeOK, Loads
<1>4. TypeOK'
  <2>1. loads' \in 0 .. MaxLoads
    BY <1>1, <1>2, LoggerAssumption DEF TypeOK
  <2>2. conf' \in [Loads -> [Slots -> {"good", "empty_size", "no_dir", "absent"}]]
    BY <1>1, <1>2, LoggerAssumption DEF TypeOK
  <2>3. QED
    BY <1>1, <1>2, <2>1, <2>2 DEF TypeOK
<1>5. PlaceInv'
  <2>1. ASSUME NEW v \in Users, pc[v] = "load"
        PROVE  load[v] \in 1 .. loads /\ load[v] \in 1 .. loads + 1 /\ conf'[load[v]] = conf[load[v]]
    <3>1. load[v] \in 1 .. loads /\ loads \in Nat /\ MaxLoads \in Nat
      BY <1>1, <2>1, LoggerAssumption DEF PlaceInv, TypeOK
    <3>2. load[v] \in Loads /\ load[v] # loads + 1 /\ load[v] \in 1 .. loads + 1
      BY <1>2, <3>1 DEF Loads
    <3>3. QED
      BY <1>3, <3>1, <3>2
  <2>2. QED
    BY <1>1, <1>2, <2>1 DEF PlaceInv
<1>6. OneLogger' /\ RaceInv' /\ LoadedInv'
  BY <1>1, <1>2 DEF OneLogger, RaceInv, LoadedInv, Sharing
<1>7. SafeAfterLoad'
  <2>1. PICK k \in Slots : f[k] = "empty_size"
    BY DEF ParsePanics
  <2>2. loads + 1 \in 1 .. loads'
    BY <1>1, <1>2 DEF TypeOK
  <2>3. conf'[loads + 1][k] = "empty_size"
    BY <1>3, <2>1
  <2>4. QED
    BY <2>2, <2>3 DEF SafeAfterLoad, Unreadable
<1>8. OneConfig' /\ ConfigInv'
  BY <1>1, <1>2 DEF OneConfig, ConfigInv
<1>9. QED
  BY <1>4, <1>5, <1>6, <1>7, <1>8 DEF IInv

LEMMA LoadBeginsStep ==
  ASSUME IInv, ~dead, NEW u \in Users, NEW f \in Confs, LoadBegins(u, f)
  PROVE  IInv'
<1>1. TypeOK /\ PlaceInv /\ OneLogger /\ RaceInv /\ LoadedInv /\ OneConfig /\ ConfigInv
  BY DEF IInv
<1>2. /\ pc[u] = "idle" /\ mine[u] # 0
      /\ loads < MaxLoads /\ loads' = loads + 1
      /\ conf' = [conf EXCEPT ![loads + 1] = f]
      /\ load' = [load EXCEPT ![u] = loads + 1]
      /\ i' = [i EXCEPT ![u] = 0]
      /\ pc' = [pc EXCEPT ![u] = "load"]
      /\ UNCHANGED <<g_single_logger, made, saw, raced, ptrLogArray, loaded, mine, dead,
                     early>>
  BY DEF LoadBegins, instVars, Goto
<1>3. overlapped' = (overlapped \/ \E v \in Users : pc[v] = "load" /\ mine[v] = mine[u])
  BY DEF LoadBegins
<1>4. /\ loads \in Nat /\ MaxLoads \in Nat /\ loads + 1 \in Loads
      /\ \A n \in Loads : conf'[n] = IF n = loads + 1 THEN f ELSE conf[n]
      /\ \A v \in Users : pc'[v] = IF v = u THEN "load" ELSE pc[v]
      /\ \A v \in Users : load'[v] = IF v = u THEN loads + 1 ELSE load[v]
      /\ \A v \in Users : i'[v] = IF v = u THEN 0 ELSE i[v]
  BY <1>1, <1>2, LoggerAssumption DEF TypeOK, Loads
<1>5. TypeOK'
  <2>1. loads' \in 0 .. MaxLoads
    BY <1>2, <1>4
  <2>2. conf' \in [Loads -> [Slots -> {"good", "empty_size", "no_dir", "absent"}]]
    BY <1>1, <1>2, LoggerAssumption DEF TypeOK
  <2>3. load' \in [Users -> 0 .. MaxLoads] /\ i' \in [Users -> 0 .. file_logger_nums]
    BY <1>1, <1>2, <1>4, SlotFacts DEF TypeOK
  <2>4. pc' \in [Users -> {"idle", "new", "return", "load"}] /\ overlapped' \in BOOLEAN
    BY <1>1, <1>2, <1>3 DEF TypeOK
  <2>5. QED
    BY <1>1, <1>2, <2>1, <2>2, <2>3, <2>4 DEF TypeOK
<1>6. PlaceInv'
  <2>1. ASSUME NEW v \in Users, v # u, pc[v] = "load"
        PROVE  load[v] \in 1 .. loads + 1 /\ conf'[load[v]] = conf[load[v]]
    <3>1. load[v] \in 1 .. loads
      BY <1>1, <2>1 DEF PlaceInv
    <3>2. load[v] \in Loads /\ load[v] # loads + 1 /\ load[v] \in 1 .. loads + 1
      BY <1>2, <1>4, <3>1 DEF Loads
    <3>3. QED
      BY <1>4, <3>2
  <2>2. \A k \in Slots : conf'[loads + 1][k] \in {"good", "no_dir"}
    <3>1. f \in [Slots -> {"good", "empty_size", "no_dir", "absent"}]
      BY LoggerAssumption
    <3>2. conf'[loads + 1] = f
      BY <1>4
    <3>3. QED
      BY <3>1, <3>2 DEF LoadBegins, FindsAll
  <2>3. loads + 1 \in 1 .. loads'
    BY <1>2, <1>4
  <2>4. QED
    BY <1>1, <1>2, <1>4, <2>1, <2>2, <2>3, SlotFacts DEF PlaceInv
<1>7. OneLogger' /\ RaceInv'
  BY <1>1, <1>2, <1>4 DEF OneLogger, RaceInv
<1>8. LoadedInv'
  <2>1. \A v \in Users : Sharing(v)' => Sharing(v)
    BY <1>2, <1>4 DEF Sharing
  <2>2. \A k \in Slots : ~(k < 0)
    BY SlotFacts
  <2>3. QED
    BY <1>1, <1>2, <1>4, <2>1, <2>2 DEF LoadedInv
<1>9. SafeAfterLoad'
  BY <1>2 DEF SafeAfterLoad
<1>10. OneConfig'
  <2>1. ~overlapped' => ~overlapped
    BY <1>3
  <2>2. \A v \in Users : pc[v] = "load" => pc'[v] = "load"
    BY <1>4
  <2>3. QED
    BY <1>1, <1>2, <2>1, <2>2 DEF OneConfig
<1>11. ConfigInv'
  <2>1. SUFFICES ASSUME ~overlapped' PROVE ConfigInv'
    BY DEF ConfigInv
  <2>2. ~overlapped /\ \A v \in Users : pc[v] = "load" => mine[v] # mine[u]
    BY <1>3, <2>1
  <2>3. mine[u] \in 1 .. made
    BY <1>1, <1>2 DEF TypeOK
  <2>4. \A j, k \in Slots : ptrLogArray[mine[u]][j] = ptrLogArray[mine[u]][k]
    BY <1>1, <2>2, <2>3 DEF OneConfig
  <2>5. \A v, w \in Users :
          pc'[v] = "load" /\ pc'[w] = "load" /\ mine[v] = mine[w] => v = w
    BY <1>1, <1>4, <2>2 DEF ConfigInv
  <2>6. \A j \in Slots : ~(j < 0)
    BY SlotFacts
  <2>7. ASSUME NEW v \in Users, pc'[v] = "load", NEW j \in Slots
        PROVE  /\ j < i'[v] => ptrLogArray[mine[v]][j] = load'[v]
               /\ \A k \in Slots : j >= i'[v] /\ k >= i'[v] =>
                    ptrLogArray[mine[v]][j] = ptrLogArray[mine[v]][k]
    <3>1. CASE v = u
      BY <1>4, <2>4, <2>6, <3>1
    <3>2. CASE v # u
      BY <1>1, <1>4, <2>2, <2>7, <3>2 DEF ConfigInv
    <3>3. QED
      BY <3>1, <3>2
  <2>8. QED
    BY <1>2, <2>5, <2>7 DEF ConfigInv
<1>12. QED
  BY <1>5, <1>6, <1>7, <1>8, <1>9, <1>10, <1>11 DEF IInv

LEMMA LoadOneStep ==
  ASSUME IInv, NEW u \in Users, LoadOne(u)
  PROVE  IInv'
<1>1. TypeOK /\ PlaceInv /\ OneLogger /\ RaceInv /\ LoadedInv /\ SafeAfterLoad
        /\ OneConfig /\ ConfigInv
  BY DEF IInv
<1>2. /\ pc[u] = "load"
      /\ ptrLogArray' = [ptrLogArray EXCEPT ![mine[u]][i[u]] = load[u]]
      /\ i' = [i EXCEPT ![u] = @ + 1]
      /\ pc' = [pc EXCEPT ![u] = IF Last(i[u] + 1) THEN "idle" ELSE "load"]
      /\ loaded' = (loaded \/ Last(i[u] + 1))
      /\ UNCHANGED <<g_single_logger, made, saw, raced, load, conf, loads, overlapped, mine,
                     dead, early>>
  BY DEF LoadOne, instVars, Goto
<1> DEFINE x == mine[u]
           n == i[u]
<1>3. /\ x \in 1 .. made /\ n \in Slots /\ n \in {0, 1, 2}
      /\ load[u] \in 1 .. MaxLoads /\ load[u] # 0
      /\ Last(n + 1) <=> n = 2
  <2>1. n \in 0 .. 3 /\ n < 3 /\ n \in Int
    BY <1>1, <1>2, SlotFacts DEF PlaceInv, TypeOK
  <2>2. n \in Slots /\ n \in {0, 1, 2}
    BY <2>1, SlotFacts
  <2>3. Last(n + 1) <=> n = 2
    BY <2>1, SlotFacts DEF Last
  <2>4. load[u] \in 1 .. MaxLoads /\ load[u] # 0
    BY <1>1, <1>2, LoggerAssumption DEF PlaceInv, TypeOK
  <2>5. x \in 1 .. made
    BY <1>1, <1>2 DEF PlaceInv, TypeOK
  <2>6. QED
    BY <2>2, <2>3, <2>4, <2>5
<1>4. /\ \A y \in 1 .. made : \A k \in Slots :
           ptrLogArray'[y][k] = IF y = x /\ k = n THEN load[u] ELSE ptrLogArray[y][k]
      /\ \A v \in Users : pc'[v] = IF v # u THEN pc[v] ELSE IF n = 2 THEN "idle" ELSE "load"
      /\ \A v \in Users : i'[v] = IF v = u THEN n + 1 ELSE i[v]
  BY <1>1, <1>2, <1>3 DEF TypeOK
<1>5. TypeOK'
  <2>1. ptrLogArray' \in [1 .. made -> [Slots -> 0 .. MaxLoads]]
    BY <1>1, <1>2, <1>3 DEF TypeOK
  <2>2. i' \in [Users -> 0 .. file_logger_nums]
    BY <1>1, <1>2, <1>3, SlotFacts DEF TypeOK
  <2>3. pc' \in [Users -> {"idle", "new", "return", "load"}] /\ loaded' \in BOOLEAN
    BY <1>1, <1>2 DEF TypeOK
  <2>4. QED
    BY <1>1, <1>2, <2>1, <2>2, <2>3 DEF TypeOK
<1>6. g_single_logger # 0
  BY <1>1, <1>2 DEF PlaceInv
<1>7. PlaceInv'
  <2>1. n # 2 => n + 1 < file_logger_nums
    BY <1>3, SlotFacts
  <2>2. ASSUME NEW v \in Users
        PROVE  /\ pc'[v] = "return" => pc[v] = "return"
               /\ pc'[v] = "load" => pc[v] = "load" /\ i'[v] < file_logger_nums
    BY <1>1, <1>2, <1>4, <2>1 DEF PlaceInv
  <2>3. QED
    BY <1>1, <1>2, <1>6, <2>2 DEF PlaceInv
<1>8. OneLogger' /\ RaceInv'
  BY <1>1, <1>2, <1>4 DEF OneLogger, RaceInv
<1>9. LoadedInv'
  <2>1. \A v \in Users : pc'[v] = "load" =>
          \A k \in Slots : k < i'[v] => ptrLogArray'[mine[v]][k] # 0
    <3>1. SUFFICES ASSUME NEW v \in Users, pc'[v] = "load",
                          NEW k \in Slots, k < i'[v]
                   PROVE  ptrLogArray'[mine[v]][k] # 0
      OBVIOUS
    <3>2. pc[v] = "load" /\ mine[v] \in 1 .. made
      BY <1>1, <1>2, <1>4, <3>1 DEF PlaceInv, TypeOK
    <3>3. CASE mine[v] = x /\ k = n
      BY <1>3, <1>4, <3>2, <3>3
    <3>4. CASE ~(mine[v] = x /\ k = n)
      <4>1. k < i[v]
        BY <1>3, <1>4, <3>1, <3>4, SlotFacts
      <4>2. QED
        BY <1>1, <1>4, <3>2, <3>4, <4>1 DEF LoadedInv
    <3>5. QED
      BY <3>3, <3>4
  <2>2. ~early /\ loaded' => \A k \in Slots : ptrLogArray'[g_single_logger][k] # 0
    <3>1. SUFFICES ASSUME ~early, loaded', NEW k \in Slots
                   PROVE  ptrLogArray'[g_single_logger][k] # 0
      OBVIOUS
    <3>2. x = g_single_logger
      BY <1>1, <1>3, <3>1 DEF LoadedInv, OneLogger
    <3>3. CASE k = n
      BY <1>3, <1>4, <3>2, <3>3
    <3>4. CASE k # n /\ loaded
      BY <1>1, <1>3, <1>4, <3>1, <3>2, <3>4 DEF LoadedInv
    <3>5. CASE k # n /\ ~loaded
      <4>0. Last(n + 1)
        BY <1>2, <3>1, <3>5
      <4>1. n = 2 /\ k < n
        BY <1>3, <3>5, <4>0, SlotFacts
      <4>2. ptrLogArray[x][k] # 0
        BY <1>1, <1>2, <4>1 DEF LoadedInv
      <4>3. QED
        BY <1>3, <1>4, <3>2, <3>5, <4>2
    <3>6. QED
      BY <3>3, <3>4, <3>5
  <2>3. \A v \in Users : Sharing(v)' => Sharing(v)
    BY <1>2, <1>4 DEF Sharing
  <2>4. loaded => loaded'
    BY <1>2
  <2>5. QED
    BY <1>1, <1>2, <1>6, <2>1, <2>2, <2>3, <2>4 DEF LoadedInv
<1>10. SafeAfterLoad'
  BY <1>1, <1>2 DEF SafeAfterLoad, Unreadable
<1>11. OneConfig'
  <2>1. SUFFICES ASSUME NEW y \in 1 .. made, ~overlapped,
                        \A v \in Users : pc'[v] = "load" => mine[v] # y,
                        NEW j \in Slots, NEW k \in Slots
                 PROVE  ptrLogArray'[y][j] = ptrLogArray'[y][k]
    BY <1>2 DEF OneConfig
  <2>2. CASE y # x
    <3>1. \A v \in Users : pc[v] = "load" => mine[v] # y
      BY <1>4, <2>1, <2>2
    <3>2. QED
      BY <1>1, <1>4, <2>1, <2>2, <3>1 DEF OneConfig
  <2>3. CASE y = x
    <3>1. n = 2
      BY <1>3, <1>4, <2>1, <2>3
    <3>2. \A m \in Slots : m < n => ptrLogArray[x][m] = load[u]
      BY <1>1, <1>2, <2>1 DEF ConfigInv
    <3>3. \A m \in Slots : ptrLogArray'[x][m] = load[u]
      BY <1>3, <1>4, <3>1, <3>2, SlotFacts
    <3>4. QED
      BY <2>3, <3>3
  <2>4. QED
    BY <2>2, <2>3
<1>12. ConfigInv'
  <2>1. SUFFICES ASSUME ~overlapped PROVE ConfigInv'
    BY <1>2 DEF ConfigInv
  <2>2. \A v, w \in Users :
          pc'[v] = "load" /\ pc'[w] = "load" /\ mine[v] = mine[w] => v = w
    BY <1>1, <1>2, <1>4, <2>1 DEF ConfigInv
  <2>3. ASSUME NEW v \in Users, pc'[v] = "load", NEW j \in Slots
        PROVE  /\ j < i'[v] => ptrLogArray'[mine[v]][j] = load[v]
               /\ \A k \in Slots : j >= i'[v] /\ k >= i'[v] =>
                    ptrLogArray'[mine[v]][j] = ptrLogArray'[mine[v]][k]
    <3>1. pc[v] = "load" /\ mine[v] \in 1 .. made
      BY <1>1, <1>2, <1>4, <2>3 DEF PlaceInv, TypeOK
    <3>2. /\ j < i[v] => ptrLogArray[mine[v]][j] = load[v]
          /\ \A k \in Slots : j >= i[v] /\ k >= i[v] =>
               ptrLogArray[mine[v]][j] = ptrLogArray[mine[v]][k]
      BY <1>1, <2>1, <2>3, <3>1 DEF ConfigInv
    <3>3. CASE v # u
      <4>1. mine[v] # x
        BY <1>1, <1>2, <2>1, <3>1, <3>3 DEF ConfigInv
      <4>2. \A k \in Slots : ptrLogArray'[mine[v]][k] = ptrLogArray[mine[v]][k]
        BY <1>4, <3>1, <4>1
      <4>3. QED
        BY <1>4, <3>2, <3>3, <4>2
    <3>4. CASE v = u
      <4>1. \A k \in Slots : ptrLogArray'[x][k] = IF k = n THEN load[u] ELSE ptrLogArray[x][k]
        BY <1>3, <1>4
      <4>2. i'[v] = n + 1
        BY <1>4, <3>4
      <4>3. j < n + 1 => ptrLogArray'[x][j] = load[u]
        BY <1>3, <3>2, <3>4, <4>1, SlotFacts
      <4>4. ASSUME NEW k \in Slots, j >= n + 1, k >= n + 1
            PROVE  ptrLogArray'[x][j] = ptrLogArray'[x][k]
        <5>1. j # n /\ k # n /\ j >= n /\ k >= n
          BY <1>3, <4>4, SlotFacts
        <5>2. QED
          BY <3>2, <3>4, <4>1, <5>1
      <4>5. QED
        BY <3>4, <4>2, <4>3, <4>4
    <3>5. QED
      BY <3>3, <3>4
  <2>4. QED
    BY <1>2, <2>2, <2>3 DEF ConfigInv
<1>13. QED
  BY <1>5, <1>7, <1>8, <1>9, <1>10, <1>11, <1>12 DEF IInv

LEMMA LoadPanicsStep ==
  ASSUME IInv, NEW u \in Users, LoadPanics(u)
  PROVE  IInv'
<1>1. TypeOK /\ PlaceInv /\ OneLogger /\ RaceInv /\ LoadedInv /\ OneConfig /\ ConfigInv
  BY DEF IInv
<1>2. /\ pc[u] = "load"
      /\ conf[load[u]][i[u]] # "good"
      /\ dead' = TRUE
      /\ UNCHANGED <<g_single_logger, made, saw, raced, ptrLogArray, load, i, conf, loads,
                     loaded, overlapped, pc, mine, early>>
  BY DEF LoadPanics, instVars, loadVars
<1>3. i[u] \in Slots /\ load[u] \in 1 .. loads
  BY <1>1, <1>2, SlotFacts DEF PlaceInv, TypeOK
<1>4. conf[load[u]][i[u]] = "no_dir"
  BY <1>1, <1>2, <1>3 DEF PlaceInv
<1>5. SafeAfterLoad'
  BY <1>2, <1>3, <1>4 DEF SafeAfterLoad, Unreadable
<1>6. TypeOK'
  BY <1>1, <1>2 DEF TypeOK
<1>7. PlaceInv' /\ OneLogger' /\ RaceInv' /\ LoadedInv' /\ OneConfig' /\ ConfigInv'
  BY <1>1, <1>2 DEF PlaceInv, OneLogger, RaceInv, LoadedInv, Sharing, OneConfig, ConfigInv
<1>8. QED
  BY <1>5, <1>6, <1>7 DEF IInv

-----------------------------------------------------------------------------
(* The Log methods                                                         *)

LEMMA LogStep ==
  ASSUME IInv, ~dead, NEW u \in Users, NEW family \in Slots, NEW level \in Levels,
         Log(u, family, level)
  PROVE  IInv'
<1>1. TypeOK /\ PlaceInv /\ OneLogger /\ RaceInv /\ LoadedInv /\ OneConfig /\ ConfigInv
  BY DEF IInv
<1> DEFINE k == SlotOf(family, level)
<1>2. /\ mine[u] # 0
      /\ dead' = (ptrLogArray[mine[u]][k] = 0)
      /\ early' = (early \/ ~loaded)
      /\ UNCHANGED <<g_single_logger, made, saw, raced, ptrLogArray, load, i, conf, loads,
                     loaded, overlapped, pc, mine>>
  BY DEF Log, instVars, loadVars
<1>3. k \in Slots
  BY SlotFacts
<1> HIDE DEF k
<1>4. dead' \in BOOLEAN /\ early' \in BOOLEAN
  BY <1>2
<1>5. TypeOK'
  BY <1>1, <1>2, <1>4 DEF TypeOK
<1>6. ~early' => ~early /\ loaded
  BY <1>2
<1>7. LoadedInv'
  BY <1>1, <1>2, <1>6 DEF LoadedInv, Sharing
<1>8. SafeAfterLoad'
  <2>1. SUFFICES ASSUME ~early' PROVE ~dead'
    BY DEF SafeAfterLoad
  <2>2. mine[u] = g_single_logger
    BY <1>1, <1>2, <1>6, <2>1 DEF LoadedInv, OneLogger
  <2>3. ptrLogArray[mine[u]][k] # 0
    BY <1>1, <1>3, <1>6, <2>1, <2>2 DEF LoadedInv
  <2>4. QED
    BY <1>2, <2>3
<1>9. PlaceInv' /\ OneLogger' /\ RaceInv' /\ OneConfig' /\ ConfigInv'
  BY <1>1, <1>2 DEF PlaceInv, OneLogger, RaceInv, OneConfig, ConfigInv
<1>10. QED
  BY <1>5, <1>7, <1>8, <1>9 DEF IInv

LEMMA Unchanged == IInv /\ UNCHANGED vars => IInv'
<1> SUFFICES ASSUME IInv, UNCHANGED vars PROVE IInv'
  OBVIOUS
<1>1. UNCHANGED <<g_single_logger, made, saw, raced, ptrLogArray, load, i, conf, loads, loaded,
                  overlapped, pc, mine, dead, early>>
  BY DEF vars, instVars, loadVars
<1>2. TypeOK' /\ PlaceInv' /\ OneLogger' /\ RaceInv'
  BY <1>1 DEF IInv, TypeOK, PlaceInv, OneLogger, RaceInv
<1>3. LoadedInv' /\ SafeAfterLoad' /\ OneConfig' /\ ConfigInv'
  BY <1>1 DEF IInv, LoadedInv, Sharing, SafeAfterLoad, Unreadable, OneConfig, ConfigInv
<1>4. QED
  BY <1>2, <1>3 DEF IInv

LEMMA StepIInv == IInv /\ [Next]_vars => IInv'
<1> SUFFICES ASSUME IInv, [Next]_vars PROVE IInv'
  OBVIOUS
<1>1. CASE UNCHANGED vars
  BY <1>1, Unchanged
<1>2. CASE Next
  <2>1. ~dead
    BY <1>2 DEF Next
  <2>2. PICK u \in Users :
          \/ Instance(u) \/ New(u) \/ Return(u)
          \/ LoadFails(u)
          \/ \E f \in Confs : ParsePanics(u, f) \/ LoadBegins(u, f)
          \/ LoadOne(u) \/ LoadPanics(u)
          \/ \E family \in Slots, level \in Levels : Log(u, family, level)
    BY <1>2 DEF Next
  <2>3. CASE Instance(u) \/ New(u) \/ Return(u)
    BY <2>3, InstanceStep, NewStep, ReturnStep
  <2>4. CASE LoadFails(u)
    BY <2>4, Unchanged DEF LoadFails
  <2>5. CASE \E f \in Confs : ParsePanics(u, f) \/ LoadBegins(u, f)
    BY <2>1, <2>5, ParsePanicsStep, LoadBeginsStep
  <2>6. CASE LoadOne(u) \/ LoadPanics(u)
    BY <2>6, LoadOneStep, LoadPanicsStep
  <2>7. CASE \E family \in Slots, level \in Levels : Log(u, family, level)
    BY <2>1, <2>7, LogStep
  <2>8. QED
    BY <2>2, <2>3, <2>4, <2>5, <2>6, <2>7
<1>3. QED
  BY <1>1, <1>2

\* IInv holds in every state of the process.
THEOREM Inductive == Spec => []IInv
<1>1. QED
  BY InitIInv, StepIInv, PTL DEF Spec

\* Every variable keeps its type.
THEOREM TypeCorrect == Spec => []TypeOK
<1>1. IInv => TypeOK
  BY DEF IInv
<1>2. QED
  BY <1>1, Inductive, PTL

\* main's convention, to load the logger before it starts anything
\* (http_server/main.go:24, test_logger/main.go:28), is enough against nil file
\* loggers (logger.go:265-397).
THEOREM ConventionIsEnough == Spec => []SafeAfterLoad
<1>1. IInv => SafeAfterLoad
  BY DEF IInv
<1>2. QED
  BY <1>1, Inductive, PTL

\* Instance (logger.go:204-209) hands out one logger unless two calls found none.
THEOREM SharedByAll == Spec => []OneLogger
<1>1. IInv => OneLogger
  BY DEF IInv
<1>2. QED
  BY <1>1, Inductive, PTL

\* Loads that fail or follow one another never mix configurations
\* (logger.go:302-315).
THEOREM NeverMixed == Spec => []OneConfig
<1>1. IInv => OneConfig
  BY DEF IInv
<1>2. QED
  BY <1>1, Inductive, PTL
=============================================================================
