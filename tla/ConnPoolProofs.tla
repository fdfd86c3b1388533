--------------------------- MODULE ConnPoolProofs ---------------------------
(***************************************************************************)
(* Theorems about ConnPool, for any addresses, numbers of connections,     *)
(* capacities of channels, rounds of the alarm and calls of users.         *)
(***************************************************************************)
EXTENDS ConnPool, TLAPS

-----------------------------------------------------------------------------
(* Sequences.                                                              *)

LEMMA TailFacts ==
  ASSUME NEW S, NEW s \in Seq(S), s # <<>>
  PROVE  /\ Tail(s) \in Seq(S)
         /\ Len(s) \in Nat /\ Len(s) > 0
         /\ Len(Tail(s)) = Len(s) - 1
         /\ Head(s) = s[1] /\ Head(s) \in S
         /\ \A n \in 1 .. Len(s) - 1 : Tail(s)[n] = s[n + 1]
  OBVIOUS

LEMMA AppendFacts ==
  ASSUME NEW S, NEW s \in Seq(S), NEW x \in S
  PROVE  /\ Append(s, x) \in Seq(S)
         /\ Len(s) \in Nat
         /\ Len(Append(s, x)) = Len(s) + 1
         /\ \A n \in 1 .. Len(s) : Append(s, x)[n] = s[n]
         /\ Append(s, x)[Len(s) + 1] = x
  OBVIOUS

\* Whether c occurs in s, and whether it does at one place only.
Has(s, c) == \E n \in 1 .. Len(s) : s[n] = c
HasOnce(s, c) == \A m, n \in 1 .. Len(s) : s[m] = c /\ s[n] = c => m = n

\* A sequence whose first element goes to the end, and one without its n-th.
Rotate(s) == Append(Tail(s), Head(s))
RemoveNth(s, n) == SubSeq(s, 1, n - 1) \o SubSeq(s, n + 1, Len(s))

LEMMA AppendHas ==
  ASSUME NEW S, NEW s \in Seq(S), NEW x \in S
  PROVE  /\ Append(s, x) \in Seq(S)
         /\ \A c : Has(Append(s, x), c) <=> Has(s, c) \/ c = x
         /\ \A c : HasOnce(s, c) /\ ~(c = x /\ Has(s, c)) => HasOnce(Append(s, x), c)
<1>1. /\ Append(s, x) \in Seq(S)
      /\ Len(s) \in Nat
      /\ Len(Append(s, x)) = Len(s) + 1
      /\ \A n \in 1 .. Len(s) : Append(s, x)[n] = s[n]
      /\ Append(s, x)[Len(s) + 1] = x
  BY AppendFacts
<1>2. \A n \in 1 .. Len(Append(s, x)) : n = Len(s) + 1 \/ n \in 1 .. Len(s)
  BY <1>1
<1>3. \A n \in 1 .. Len(s) : n \in 1 .. Len(Append(s, x))
  BY <1>1
<1>4. Len(s) + 1 \in 1 .. Len(Append(s, x))
  BY <1>1
<1>5. \A c : Has(Append(s, x), c) <=> Has(s, c) \/ c = x
  BY <1>1, <1>2, <1>3, <1>4 DEF Has
<1>6. ASSUME NEW c, HasOnce(s, c), ~(c = x /\ Has(s, c))
      PROVE  HasOnce(Append(s, x), c)
  BY <1>1, <1>2, <1>6 DEF Has, HasOnce
<1>7. QED
  BY <1>1, <1>5, <1>6

LEMMA RotateHas ==
  ASSUME NEW S, NEW s \in Seq(S), s # <<>>
  PROVE  /\ Rotate(s) \in Seq(S)
         /\ Rotate(s) # <<>>
         /\ \A c : Has(Rotate(s), c) <=> Has(s, c)
         /\ \A c : HasOnce(s, c) => HasOnce(Rotate(s), c)
<1>1. /\ Tail(s) \in Seq(S)
      /\ Len(s) \in Nat /\ Len(s) > 0
      /\ Len(Tail(s)) = Len(s) - 1
      /\ Head(s) = s[1] /\ Head(s) \in S
      /\ \A n \in 1 .. Len(s) - 1 : Tail(s)[n] = s[n + 1]
  BY TailFacts
<1>2. /\ Rotate(s) \in Seq(S)
      /\ Len(Rotate(s)) = Len(s)
      /\ \A n \in 1 .. Len(s) - 1 : Rotate(s)[n] = Tail(s)[n]
      /\ Rotate(s)[Len(s)] = s[1]
  BY <1>1, AppendFacts DEF Rotate
<1>3. \A n \in 1 .. Len(s) - 1 : Rotate(s)[n] = s[n + 1]
  BY <1>1, <1>2
<1>4. \A n \in 1 .. Len(Rotate(s)) :
        \/ n = Len(s) /\ 1 \in 1 .. Len(s) /\ Rotate(s)[n] = s[1]
        \/ n \in 1 .. Len(s) - 1 /\ n + 1 \in 1 .. Len(s) /\ n + 1 # 1 /\ Rotate(s)[n] = s[n + 1]
  <2> SUFFICES ASSUME NEW n \in 1 .. Len(Rotate(s))
               PROVE  \/ n = Len(s) /\ 1 \in 1 .. Len(s) /\ Rotate(s)[n] = s[1]
                      \/ /\ n \in 1 .. Len(s) - 1 /\ n + 1 \in 1 .. Len(s) /\ n + 1 # 1
                         /\ Rotate(s)[n] = s[n + 1]
    OBVIOUS
  <2> DEFINE l == Len(s)
  <2>0. l \in Nat /\ l > 0 /\ n \in 1 .. l
    BY <1>1, <1>2
  <2> HIDE DEF l
  <2>1. n = Len(s) \/ n \in 1 .. Len(s) - 1
    <3>1. n = l \/ n \in 1 .. l - 1
      BY <2>0
    <3>2. QED
      BY <3>1 DEF l
  <2>2. CASE n = Len(s)
    BY <1>1, <1>2, <2>2
  <2>3. CASE n \in 1 .. Len(s) - 1
    <3>1. n \in 1 .. l - 1 /\ n + 1 \in 1 .. l /\ n + 1 # 1
      BY <2>0, <2>3 DEF l
    <3>2. QED
      BY <1>3, <2>3, <3>1 DEF l
  <2>4. QED
    BY <2>1, <2>2, <2>3
<1>5. \A n \in 1 .. Len(s) :
        \/ n = 1 /\ Len(s) \in 1 .. Len(Rotate(s)) /\ Rotate(s)[Len(s)] = s[1]
        \/ n - 1 \in 1 .. Len(Rotate(s)) /\ Rotate(s)[n - 1] = s[n]
  BY <1>1, <1>2, <1>3
<1>6. \A c : Has(Rotate(s), c) <=> Has(s, c)
  BY <1>4, <1>5 DEF Has
<1>7. ASSUME NEW c, HasOnce(s, c), NEW m \in 1 .. Len(Rotate(s)), NEW n \in 1 .. Len(Rotate(s)),
             Rotate(s)[m] = c, Rotate(s)[n] = c
      PROVE  m = n
  <2>1. m \in Int /\ n \in Int
    BY <1>2
  <2>2. CASE m = Len(s) /\ n = Len(s)
    BY <2>2
  <2>3. CASE m = Len(s) /\ n # Len(s)
    BY <1>4, <1>7, <2>3 DEF HasOnce
  <2>4. CASE m # Len(s) /\ n = Len(s)
    BY <1>4, <1>7, <2>4 DEF HasOnce
  <2>5. CASE m # Len(s) /\ n # Len(s)
    <3>1. m + 1 = n + 1
      BY <1>4, <1>7, <2>5 DEF HasOnce
    <3>2. QED
      BY <2>1, <3>1
  <2>6. QED
    BY <2>2, <2>3, <2>4, <2>5
<1>8. Rotate(s) # <<>>
  BY <1>1, <1>2
<1>9. QED
  BY <1>2, <1>6, <1>7, <1>8 DEF HasOnce

LEMMA RemoveHas ==
  ASSUME NEW S, NEW s \in Seq(S), NEW n \in 1 .. Len(s), HasOnce(s, s[n])
  PROVE  /\ RemoveNth(s, n) \in Seq(S)
         /\ \A c : Has(RemoveNth(s, n), c) <=> Has(s, c) /\ c # s[n]
         /\ \A c : HasOnce(s, c) => HasOnce(RemoveNth(s, n), c)
<1> DEFINE u == SubSeq(s, 1, n - 1)
           v == SubSeq(s, n + 1, Len(s))
<1>1. Len(s) \in Nat /\ n \in Nat /\ n >= 1 /\ n <= Len(s)
  OBVIOUS
<1>2. u \in Seq(S) /\ Len(u) = n - 1 /\ \A m \in 1 .. n - 1 : u[m] = s[m]
  BY <1>1
<1>3. v \in Seq(S) /\ Len(v) = Len(s) - n /\ \A m \in 1 .. Len(s) - n : v[m] = s[m + n]
  BY <1>1
<1>4. RemoveNth(s, n) = u \o v
  BY DEF RemoveNth
<1> HIDE DEF u, v
<1>5. /\ RemoveNth(s, n) \in Seq(S)
      /\ Len(RemoveNth(s, n)) = Len(u) + Len(v)
      /\ \A m \in 1 .. Len(u) : RemoveNth(s, n)[m] = u[m]
      /\ \A m \in 1 .. Len(v) : RemoveNth(s, n)[m + Len(u)] = v[m]
  <2>1. u \in Seq(S) /\ v \in Seq(S)
    BY <1>2, <1>3
  <2>2. /\ u \o v \in Seq(S)
        /\ Len(u \o v) = Len(u) + Len(v)
        /\ \A m \in 1 .. Len(u) : (u \o v)[m] = u[m]
        /\ \A m \in 1 .. Len(v) : (u \o v)[m + Len(u)] = v[m]
    BY <2>1
  <2>3. QED
    BY <1>4, <2>2
<1>6. Len(RemoveNth(s, n)) = Len(s) - 1
  BY <1>1, <1>2, <1>3, <1>5
<1>7. \A m \in 1 .. n - 1 : RemoveNth(s, n)[m] = s[m]
  BY <1>2, <1>5
<1>8. ASSUME NEW m \in n .. Len(s) - 1
      PROVE  RemoveNth(s, n)[m] = s[m + 1]
  <2> DEFINE l == Len(s)
  <2>0. l \in Nat /\ n \in Nat /\ m \in Int /\ n <= m /\ m <= l - 1 /\ Len(v) = l - n
    BY <1>1, <1>3
  <2> HIDE DEF l
  <2>1. m - (n - 1) \in 1 .. Len(v) /\ m - (n - 1) + n = m + 1 /\ m - (n - 1) + (n - 1) = m
    BY <2>0
  <2>2. RemoveNth(s, n)[m - (n - 1) + Len(u)] = v[m - (n - 1)]
    BY <1>5, <2>1
  <2>3. v[m - (n - 1)] = s[m - (n - 1) + n]
    BY <1>3, <2>1 DEF l
  <2>4. QED
    BY <1>2, <2>1, <2>2, <2>3
<1>9. \A m \in 1 .. Len(RemoveNth(s, n)) :
        \/ m \in 1 .. n - 1 /\ m \in 1 .. Len(s) /\ RemoveNth(s, n)[m] = s[m]
        \/ m \in n .. Len(s) - 1 /\ m + 1 \in 1 .. Len(s) /\ RemoveNth(s, n)[m] = s[m + 1]
  BY <1>1, <1>6, <1>7, <1>8
<1>10. \A m \in 1 .. Len(s) :
        \/ m = n
        \/ m \in 1 .. Len(RemoveNth(s, n)) /\ RemoveNth(s, n)[m] = s[m]
        \/ m - 1 \in 1 .. Len(RemoveNth(s, n)) /\ RemoveNth(s, n)[m - 1] = s[m]
  BY <1>1, <1>6, <1>7, <1>8
<1>11. \A m \in 1 .. Len(RemoveNth(s, n)) : \E k \in 1 .. Len(s) :
         k # n /\ RemoveNth(s, n)[m] = s[k] /\ m = IF k < n THEN k ELSE k - 1
  BY <1>1, <1>9
<1>12. \A c : Has(RemoveNth(s, n), c) => Has(s, c) /\ c # s[n]
  BY <1>11 DEF Has, HasOnce
<1>13. \A c : Has(s, c) /\ c # s[n] => Has(RemoveNth(s, n), c)
  BY <1>10 DEF Has
<1>14. ASSUME NEW c, HasOnce(s, c), NEW k \in 1 .. Len(RemoveNth(s, n)), NEW m \in 1 .. Len(RemoveNth(s, n)),
              RemoveNth(s, n)[k] = c, RemoveNth(s, n)[m] = c
       PROVE  k = m
  BY <1>11, <1>14 DEF HasOnce
<1>15. QED
  BY <1>5, <1>12, <1>13, <1>14 DEF HasOnce

-----------------------------------------------------------------------------
(* hub_chann: what is in flight after an event is taken or posted.         *)

LEMMA TakeFlight ==
  ASSUME TypeOK, NEW t, Take(t)
  PROVE  /\ hub_chann' \in Seq(Events) /\ Len(hub_chann') <= HubCap
         /\ Head(hub_chann) = hub_chann[1] /\ 1 \in 1 .. Len(hub_chann)
         /\ Head(hub_chann) \in Events
         /\ \A n \in 1 .. Len(hub_chann') :
              n + 1 \in 1 .. Len(hub_chann) /\ hub_chann'[n] = hub_chann[n + 1]
         /\ \A c, type : InFlight(c, type)' => InFlight(c, type)
         /\ \A c, type : InFlight(c, type) /\ ~Is(Head(hub_chann), type, c) => InFlight(c, type)'
         /\ \A c, type : Once(c, type) => Once(c, type)'
         /\ \A c, type : Once(c, type) /\ Is(Head(hub_chann), type, c) => ~InFlight(c, type)'
<1>1. hub_chann \in Seq(Events) /\ Len(hub_chann) <= HubCap /\ hub_chann # <<>>
      /\ hub_chann' = Tail(hub_chann) /\ HubCap \in Nat
  BY ConnPoolAssumption DEF TypeOK, Take
<1>2. /\ hub_chann' \in Seq(Events)
      /\ Len(hub_chann) \in Nat /\ Len(hub_chann) > 0
      /\ Len(hub_chann') = Len(hub_chann) - 1
      /\ Head(hub_chann) = hub_chann[1] /\ Head(hub_chann) \in Events
      /\ \A n \in 1 .. Len(hub_chann) - 1 : hub_chann'[n] = hub_chann[n + 1]
  BY <1>1, TailFacts
<1>3. \A n \in 1 .. Len(hub_chann') :
        n + 1 \in 1 .. Len(hub_chann) /\ hub_chann'[n] = hub_chann[n + 1]
  BY <1>2
<1>4. \A n \in 1 .. Len(hub_chann) :
        n = 1 \/ (n - 1 \in 1 .. Len(hub_chann') /\ hub_chann'[n - 1] = hub_chann[n])
  BY <1>2
<1>5. \A c, type : InFlight(c, type)' => InFlight(c, type)
  BY <1>3 DEF InFlight, Is
<1>6. \A c, type : InFlight(c, type) /\ ~Is(Head(hub_chann), type, c) => InFlight(c, type)'
  BY <1>2, <1>4 DEF InFlight, Is
<1>7. \A c, type : Once(c, type) => Once(c, type)'
  <2> SUFFICES ASSUME NEW c, NEW type, Once(c, type),
                      NEW m \in 1 .. Len(hub_chann'), NEW n \in 1 .. Len(hub_chann'),
                      Is(hub_chann'[m], type, c), Is(hub_chann'[n], type, c)
               PROVE  m = n
    BY DEF Once, Is
  <2>1. m + 1 = n + 1
    BY <1>3 DEF Once
  <2>2. QED
    BY <1>2, <2>1
<1>8. \A c, type : Once(c, type) /\ Is(Head(hub_chann), type, c) => ~InFlight(c, type)'
  <2> SUFFICES ASSUME NEW c, NEW type, Once(c, type), Is(Head(hub_chann), type, c),
                      NEW n \in 1 .. Len(hub_chann'), Is(hub_chann'[n], type, c)
               PROVE  FALSE
    BY DEF InFlight, Is
  <2>1. 1 = n + 1
    BY <1>2, <1>3 DEF Once
  <2>2. QED
    BY <1>2, <2>1
<1>9. QED
  BY <1>1, <1>2, <1>3, <1>5, <1>6, <1>7, <1>8

LEMMA PostFlight ==
  ASSUME TypeOK, NEW e \in Events, PostEvent(e)
  PROVE  /\ hub_chann' \in Seq(Events) /\ Len(hub_chann') <= HubCap
         /\ \A n \in 1 .. Len(hub_chann') :
              hub_chann'[n] = e \/ (n \in 1 .. Len(hub_chann) /\ hub_chann'[n] = hub_chann[n])
         /\ \A c, type : InFlight(c, type)' <=> InFlight(c, type) \/ Is(e, type, c)
         /\ \A c, type :
              Once(c, type) /\ (Is(e, type, c) => ~InFlight(c, type)) => Once(c, type)'
<1>1. hub_chann \in Seq(Events) /\ Len(hub_chann) < HubCap /\ HubCap \in Nat
      /\ hub_chann' = Append(hub_chann, e)
  BY ConnPoolAssumption DEF TypeOK, PostEvent
<1>2. /\ hub_chann' \in Seq(Events)
      /\ Len(hub_chann) \in Nat
      /\ Len(hub_chann') = Len(hub_chann) + 1
      /\ \A n \in 1 .. Len(hub_chann) : hub_chann'[n] = hub_chann[n]
      /\ hub_chann'[Len(hub_chann) + 1] = e
  BY <1>1, AppendFacts
<1>3. \A n \in 1 .. Len(hub_chann') :
        \/ n = Len(hub_chann) + 1 /\ hub_chann'[n] = e
        \/ n \in 1 .. Len(hub_chann) /\ hub_chann'[n] = hub_chann[n]
  BY <1>2
<1>4. \A c, type : InFlight(c, type)' => InFlight(c, type) \/ Is(e, type, c)
  BY <1>3 DEF InFlight, Is
<1>5. \A c, type : InFlight(c, type) => InFlight(c, type)'
  BY <1>2 DEF InFlight, Is
<1>6. \A c, type : Is(e, type, c) => InFlight(c, type)'
  <2>1. Len(hub_chann) + 1 \in 1 .. Len(hub_chann')
    BY <1>2
  <2>2. QED
    BY <1>2, <2>1 DEF InFlight, Is
<1>7. ASSUME NEW c, NEW type, Once(c, type), Is(e, type, c) => ~InFlight(c, type)
      PROVE  Once(c, type)'
  BY <1>3, <1>7 DEF Once, InFlight, Is
<1>8. QED
  BY <1>1, <1>2, <1>3, <1>4, <1>5, <1>6, <1>7

-----------------------------------------------------------------------------
(* conns_map: who is filed after a list changes.                           *)

LEMMA FiledOnceSplit ==
  ASSUME NEW c
  PROVE  FiledOnce(c) <=>
           /\ \A a \in Addrs : HasOnce(conns_map[a], c)
           /\ \A a, b \in Addrs : Filed(c, a) /\ Filed(c, b) => a = b
  BY DEF FiledOnce, HasOnce, Filed

\* List b becomes t.
LEMMA ListChange ==
  ASSUME TypeOK, NEW b \in Addrs, NEW t \in Seq(Conns),
         conns_map' = [conns_map EXCEPT ![b] = t]
  PROVE  /\ conns_map' \in [Addrs -> Seq(Conns)]
         /\ conns_map'[b] = t
         /\ \A a \in Addrs : a # b => conns_map'[a] = conns_map[a]
         /\ \A c : Filed(c, b)' <=> Has(t, c)
         /\ \A c : \A a \in Addrs : a # b => (Filed(c, a)' <=> Filed(c, a))
         /\ \A c :
              FiledOnce(c) /\ HasOnce(t, c) /\ (Has(t, c) => \A a \in Addrs : Filed(c, a) => a = b) => FiledOnce(c)'
<1>1. /\ conns_map' \in [Addrs -> Seq(Conns)]
      /\ conns_map'[b] = t
      /\ \A a \in Addrs : a # b => conns_map'[a] = conns_map[a]
  BY DEF TypeOK
<1>2. \A c : Filed(c, b)' <=> Has(t, c)
  BY <1>1 DEF Filed, Has
<1>3. \A c : \A a \in Addrs : a # b => (Filed(c, a)' <=> Filed(c, a))
  BY <1>1 DEF Filed
<1>4. ASSUME NEW c, FiledOnce(c), HasOnce(t, c),
             Has(t, c) => \A a \in Addrs : Filed(c, a) => a = b
      PROVE  FiledOnce(c)'
  <2>1. \A a \in Addrs : HasOnce(conns_map'[a], c)
    BY <1>1, <1>4, FiledOnceSplit
  <2>2. \A a, e \in Addrs : Filed(c, a) /\ Filed(c, e) => a = e
    BY <1>4, FiledOnceSplit
  <2>3. \A a, e \in Addrs : Filed(c, a)' /\ Filed(c, e)' => a = e
    <3> SUFFICES ASSUME NEW a \in Addrs, NEW e \in Addrs, Filed(c, a)', Filed(c, e)'
                 PROVE  a = e
      OBVIOUS
    <3>1. CASE a = b /\ e = b
      BY <3>1
    <3>2. CASE a # b /\ e # b
      BY <1>3, <2>2, <3>2
    <3>3. CASE a # b /\ e = b
      BY <1>2, <1>3, <1>4, <3>3
    <3>4. CASE a = b /\ e # b
      BY <1>2, <1>3, <1>4, <3>4
    <3>5. QED
      BY <3>1, <3>2, <3>3, <3>4
  <2>4. QED
    BY <2>1, <2>3 DEF FiledOnce, HasOnce, Filed
<1>5. QED
  BY <1>1, <1>2, <1>3, <1>4

LEMMA RotateFiles ==
  ASSUME TypeOK, NEW b \in Addrs, conns_map[b] # <<>>,
         conns_map' = [conns_map EXCEPT ![b] = Append(Tail(@), Head(@))]
  PROVE  /\ conns_map' \in [Addrs -> Seq(Conns)]
         /\ \A a \in Addrs : conns_map[a] = <<>> => conns_map'[a] = <<>>
         /\ \A c : \A a \in Addrs : Filed(c, a)' <=> Filed(c, a)
         /\ \A c : FiledOnce(c) => FiledOnce(c)'
<1> DEFINE s == conns_map[b]
<1>1. s \in Seq(Conns)
  BY DEF TypeOK
<1>2. conns_map' = [conns_map EXCEPT ![b] = Rotate(s)]
  BY DEF Rotate
<1>3. /\ Rotate(s) \in Seq(Conns)
      /\ \A c : Has(Rotate(s), c) <=> Has(s, c)
      /\ \A c : HasOnce(s, c) => HasOnce(Rotate(s), c)
  BY <1>1, RotateHas
<1>4. \A c : Filed(c, b) <=> Has(s, c)
  BY DEF Filed, Has
<1>5. /\ conns_map' \in [Addrs -> Seq(Conns)]
      /\ \A a \in Addrs : a # b => conns_map'[a] = conns_map[a]
      /\ \A c : Filed(c, b)' <=> Has(Rotate(s), c)
      /\ \A c : \A a \in Addrs : a # b => (Filed(c, a)' <=> Filed(c, a))
      /\ \A c :
           FiledOnce(c) /\ HasOnce(Rotate(s), c) /\ (Has(Rotate(s), c) => \A a \in Addrs : Filed(c, a) => a = b) => FiledOnce(c)'
  BY <1>2, <1>3, ListChange
<1>6. \A a \in Addrs : conns_map[a] = <<>> => conns_map'[a] = <<>>
  BY <1>5
<1>7. \A c : \A a \in Addrs : Filed(c, a)' <=> Filed(c, a)
  BY <1>3, <1>4, <1>5
<1>8. \A c : FiledOnce(c) =>
        /\ HasOnce(s, c)
        /\ Filed(c, b) => \A a \in Addrs : Filed(c, a) => a = b
  BY FiledOnceSplit
<1> HIDE DEF s
<1>9. QED
  BY <1>3, <1>4, <1>5, <1>6, <1>7, <1>8

LEMMA AppendFiles ==
  ASSUME TypeOK, NEW b \in Addrs, NEW x \in Conns, \A a \in Addrs : ~Filed(x, a),
         conns_map' = [conns_map EXCEPT ![b] = Append(@, x)]
  PROVE  /\ conns_map' \in [Addrs -> Seq(Conns)]
         /\ \A a \in Addrs : a # b => conns_map'[a] = conns_map[a]
         /\ \A c : \A a \in Addrs : Filed(c, a)' <=> Filed(c, a) \/ (c = x /\ a = b)
         /\ \A c : FiledOnce(c) => FiledOnce(c)'
<1> DEFINE s == conns_map[b]
           t == Append(s, x)
<1>1. s \in Seq(Conns)
  BY DEF TypeOK
<1>2. conns_map' = [conns_map EXCEPT ![b] = t]
  OBVIOUS
<1>3. /\ t \in Seq(Conns)
      /\ \A c : Has(t, c) <=> Has(s, c) \/ c = x
      /\ \A c : HasOnce(s, c) /\ ~(c = x /\ Has(s, c)) => HasOnce(t, c)
  BY <1>1, AppendHas
<1>4. \A c : Filed(c, b) <=> Has(s, c)
  BY DEF Filed, Has
<1> HIDE DEF t
<1>5. /\ conns_map' \in [Addrs -> Seq(Conns)]
      /\ \A a \in Addrs : a # b => conns_map'[a] = conns_map[a]
      /\ \A c : Filed(c, b)' <=> Has(t, c)
      /\ \A c : \A a \in Addrs : a # b => (Filed(c, a)' <=> Filed(c, a))
      /\ \A c :
           FiledOnce(c) /\ HasOnce(t, c) /\ (Has(t, c) => \A a \in Addrs : Filed(c, a) => a = b) => FiledOnce(c)'
  BY <1>2, <1>3, ListChange
<1>6. \A c : \A a \in Addrs : Filed(c, a)' <=> Filed(c, a) \/ (c = x /\ a = b)
  BY <1>3, <1>4, <1>5
<1>7. \A c : FiledOnce(c) =>
        /\ HasOnce(s, c)
        /\ Filed(c, b) => \A a \in Addrs : Filed(c, a) => a = b
  BY FiledOnceSplit
<1> HIDE DEF s
<1>8. QED
  BY <1>3, <1>4, <1>5, <1>6, <1>7

LEMMA UnlistFiles ==
  ASSUME TypeOK, NEW b \in Addrs, NEW x, FiledOnce(x), Unlist(x, b)
  PROVE  /\ conns_map' \in [Addrs -> Seq(Conns)]
         /\ \A a \in Addrs : a # b => conns_map'[a] = conns_map[a]
         /\ \A c : \A a \in Addrs : Filed(c, a)' <=> Filed(c, a) /\ ~(c = x /\ a = b)
         /\ \A c : FiledOnce(c) => FiledOnce(c)'
<1> DEFINE s == conns_map[b]
<1>1. s \in Seq(Conns)
  BY DEF TypeOK
<1>2. PICK n \in 1 .. Len(s) :
        /\ s[n] = x
        /\ conns_map' = [conns_map EXCEPT ![b] = RemoveNth(s, n)]
  BY DEF Unlist, RemoveNth
<1> DEFINE t == RemoveNth(s, n)
<1>3. \A c : FiledOnce(c) =>
        /\ HasOnce(s, c)
        /\ Filed(c, b) => \A a \in Addrs : Filed(c, a) => a = b
  BY FiledOnceSplit
<1>4. /\ t \in Seq(Conns)
      /\ \A c : Has(t, c) <=> Has(s, c) /\ c # s[n]
      /\ \A c : HasOnce(s, c) => HasOnce(t, c)
  BY <1>1, <1>2, <1>3, RemoveHas
<1>5. \A c : Filed(c, b) <=> Has(s, c)
  BY DEF Filed, Has
<1> HIDE DEF t
<1>6. /\ conns_map' \in [Addrs -> Seq(Conns)]
      /\ \A a \in Addrs : a # b => conns_map'[a] = conns_map[a]
      /\ \A c : Filed(c, b)' <=> Has(t, c)
      /\ \A c : \A a \in Addrs : a # b => (Filed(c, a)' <=> Filed(c, a))
      /\ \A c :
           FiledOnce(c) /\ HasOnce(t, c) /\ (Has(t, c) => \A a \in Addrs : Filed(c, a) => a = b) => FiledOnce(c)'
  BY <1>2, <1>4, ListChange DEF t
<1>7. \A c : \A a \in Addrs : Filed(c, a)' <=> Filed(c, a) /\ ~(c = x /\ a = b)
  BY <1>2, <1>4, <1>5, <1>6
<1> HIDE DEF s
<1>8. QED
  BY <1>3, <1>4, <1>5, <1>6, <1>7

-----------------------------------------------------------------------------
(* The goroutines that dial.                                               *)

LEMMA DialerFacts ==
  ASSUME NEW round \in Nat, NEW a \in Addrs, NEW id \in Nat
  PROVE  LET d == Dialer(round, a, id)
         IN  /\ d \in Goroutines
             /\ d.round = round /\ d.at = "start" /\ d.addr = a /\ d.event = NoEvent
  BY DEF Dialer, Goroutines, NoEvent, Event, Events, Types

LEMMA NoEventFacts == NoEvent \in Events /\ NoEvent.conn = NoConn /\ NoEvent.type = "none"
  BY DEF NoEvent, Event, Events, Types

\* What changes when a goroutine has dialed, or goes on.
LEMMA PostingFacts ==
  ASSUME NEW d \in Goroutines, NEW e \in Events
  PROVE  LET f == [d EXCEPT !.at = "posting", !.event = e]
         IN  /\ f \in Goroutines
             /\ f.round = d.round /\ f.addr = d.addr /\ f.at = "posting" /\ f.event = e
  BY DEF Goroutines

LEMMA NextFacts ==
  ASSUME NEW d \in Goroutines, NEW i \in Nat
  PROVE  LET f == [d EXCEPT !.at = "next", !.i = i, !.target = NoAddr, !.event = NoEvent]
         IN  /\ f \in Goroutines
             /\ f.round = d.round /\ f.addr = d.addr /\ f.at = "next" /\ f.event = NoEvent
  BY NoEventFacts DEF Goroutines

\* Goroutines without a connection come and go.
LEMMA SameCarriers ==
  ASSUME \A d \in dialers' : d \in dialers \/ d.event.conn = NoConn,
         \A d \in dialers : d \in dialers' \/ d.event.conn = NoConn
  PROVE  /\ \A c \in Conns : Carried(c)' <=> Carried(c)
         /\ \A c \in Conns : CarriedOnce(c) => CarriedOnce(c)'
<1>1. \A c \in Conns : c # NoConn
  BY ConnPoolAssumption DEF Conns, NoConn
<1>2. QED
  BY <1>1 DEF Carried, CarriedOnce

-----------------------------------------------------------------------------
(* Steps that leave every connection where it is.                          *)

SamePlaces ==
  \A c \in Conns :
    /\ \A a \in Addrs : Filed(c, a)' <=> Filed(c, a)
    /\ Carried(c)' <=> Carried(c)
    /\ \A type \in {"af", "close"} : InFlight(c, type)' <=> InFlight(c, type)
    /\ FiledOnce(c)' /\ CarriedOnce(c)' /\ Once(c, "af")' /\ Once(c, "close")'

\* cConn.run moves, but does not post CLOSE; it has been sent something unless
\* it goes to line 113.
RunsOn ==
  \A c \in Conns :
    \/ run'[c] = run[c]
    \/ run[c] \in {"draining", "ending"} /\ run'[c] = "stuck"
    \/ run[c] \in {"draining", "ending"} /\ run'[c] \in {"ending", "dropped"} /\ ~Fresh(c)

LEMMA SamePlacesStep ==
  ASSUME IInv, SamePlaces, RunsOn, UNCHANGED <<remote_addr, shut>>,
         \A c \in Conns : send_chann[c] = 0 /\ (\A a \in Addrs : ~Filed(c, a)) => send_chann'[c] = 0,
         loopAddr # <<>> => loopAddr' # <<>>,
         \A a \in Addrs : a \notin known' => conns_map'[a] = <<>>,
         hub = "closing" => hub' = "closing",
         hub' = "panic" => \E c \in Conns, a \in Addrs : shut[c] /\ Filed(c, a)
  PROVE  FreshInv' /\ FiledInv' /\ EndInv' /\ PanicNeedsMisfiled'
<1>1. \A c \in Conns : (Fresh(c)' <=> Fresh(c)) /\ (c \in Made' <=> c \in Made)
  BY DEF SamePlaces, RunsOn, Fresh, Made
<1>2. FreshInv'
  <2>1. ASSUME NEW c \in Conns, Fresh(c)
        PROVE  /\ \A a \in Addrs : ~Filed(c, a)'
               /\ run'[c] \in {"draining", "stuck"}
               /\ send_chann'[c] = 0
               /\ ~shut'[c]
    <3>1. /\ \A a \in Addrs : ~Filed(c, a)
          /\ run[c] \in {"draining", "stuck"}
          /\ send_chann[c] = 0
          /\ ~shut[c]
      BY <2>1 DEF IInv, FreshInv
    <3>2. QED
      BY <2>1, <3>1 DEF SamePlaces, RunsOn
  <2>2. \A c \in Conns : ~(Carried(c) /\ InFlight(c, "af"))
    BY DEF IInv, FreshInv
  <2>3. QED
    BY <1>1, <2>1, <2>2 DEF FreshInv, SamePlaces
<1>3. FiledInv'
  <2>1. \A c \in Conns, a \in Addrs : Filed(c, a)' => run'[c] # "none"
    BY DEF IInv, FiledInv, SamePlaces, RunsOn
  <2>2. ASSUME NEW c \in Made', hub' # "closing"
        PROVE  shut'[c] \/ Fresh(c)' \/ \E a \in Addrs : Filed(c, a)'
    <3>1. c \in Conns /\ c \in Made /\ hub # "closing"
      BY <1>1, <2>2 DEF Made
    <3>2. shut[c] \/ Fresh(c) \/ \E a \in Addrs : Filed(c, a)
      BY <3>1 DEF IInv, FiledInv
    <3>3. QED
      BY <1>1, <3>1, <3>2 DEF SamePlaces
  <2>3. QED
    BY <2>1, <2>2 DEF FiledInv, SamePlaces
<1>4. EndInv'
  <2> SUFFICES ASSUME NEW c \in Conns
               PROVE  /\ Once(c, "close")'
                      /\ InFlight(c, "close")' => run'[c] = "ended" /\ ~shut'[c]
                      /\ shut'[c] => run'[c] = "ended"
                                      /\ \A a \in Addrs : Filed(c, a)' => remote_addr'[c] # a
                      /\ run'[c] = "none" => send_chann'[c] = 0
    BY DEF EndInv
  <2>1. /\ InFlight(c, "close") => run[c] = "ended" /\ ~shut[c]
        /\ shut[c] => run[c] = "ended" /\ \A a \in Addrs : Filed(c, a) => remote_addr[c] # a
        /\ run[c] = "none" => send_chann[c] = 0 /\ \A a \in Addrs : ~Filed(c, a)
    BY DEF IInv, EndInv, FiledInv
  <2>2. run[c] = "ended" => run'[c] = "ended"
    BY DEF RunsOn
  <2>3. run'[c] = "none" => run[c] = "none"
    BY DEF RunsOn
  <2>4. QED
    BY <2>1, <2>2, <2>3 DEF SamePlaces
<1>5. PanicNeedsMisfiled'
  <2>1. ASSUME NEW c \in Made', NEW a \in Addrs, Filed(c, a)', remote_addr'[c] # a
        PROVE  loopAddr' # <<>>
    BY <1>1, <2>1 DEF IInv, PanicNeedsMisfiled, SamePlaces, Made
  <2>2. ASSUME hub' = "panic"
        PROVE  \E c \in Made', a \in Addrs : Filed(c, a)' /\ remote_addr'[c] # a
    <3>1. PICK c \in Conns, a \in Addrs : shut[c] /\ Filed(c, a)
      BY <2>2
    <3>2. remote_addr[c] # a
      BY <3>1 DEF IInv, EndInv
    <3>3. c \in Made'
      BY <1>1, <3>1 DEF IInv, FiledInv, Made
    <3>4. QED
      BY <3>1, <3>2, <3>3 DEF SamePlaces
  <2>3. QED
    BY <2>1, <2>2 DEF PanicNeedsMisfiled
<1>6. QED
  BY <1>2, <1>3, <1>4, <1>5

\* New events are not AF or CLOSE, and no goroutine starts posting.
LEMMA SameEventsStep ==
  ASSUME IInv, RunsOn, UNCHANGED <<remote_addr, connect_id>>,
         loopAddr # <<>> => loopAddr' # <<>>,
         \A d \in dialers' : d \in dialers \/ d.at # "posting",
         \A n \in 1 .. Len(hub_chann') :
           \/ \E m \in 1 .. Len(hub_chann) : hub_chann'[n] = hub_chann[m]
           \/ /\ hub_chann'[n].type \notin {"af", "close"}
              /\ hub_chann'[n].type = "add" => hub_chann'[n].addr \in Addrs
              /\ hub_chann'[n].type = "rm" => hub_chann'[n].addr \in Addrs
              /\ hub_chann'[n].type = "send2" => hub_chann'[n].id \in Ids
  PROVE  EventInv'
<1>1. \A e : Truthful(e) =>
        /\ e.conn \in Made'
        /\ e.id \in Ids
        /\ connect_id'[e.conn] = e.id
        /\ e.addr # remote_addr'[e.conn] => loopAddr' # <<>>
  BY DEF RunsOn, Truthful, Made
<1>2. ASSUME NEW d \in dialers', d.at = "posting"
      PROVE  Truthful(d.event)'
  <2>1. Truthful(d.event)
    BY <1>2 DEF IInv, EventInv
  <2>2. QED
    BY <1>1, <2>1 DEF Truthful
<1>3. ASSUME NEW n \in 1 .. Len(hub_chann')
      PROVE  LET e == hub_chann'[n]
             IN  /\ e.type = "af" =>
                      /\ e.conn \in Made'
                      /\ e.id \in Ids
                      /\ connect_id'[e.conn] = e.id
                      /\ e.addr # remote_addr'[e.conn] => loopAddr' # <<>>
                 /\ e.type = "close" => e.conn \in Conns
                 /\ e.type = "add" => e.addr \in Addrs
                 /\ e.type = "rm" => e.addr \in Addrs
                 /\ e.type = "send2" => e.id \in Ids
  <2>1. CASE \E m \in 1 .. Len(hub_chann) : hub_chann'[n] = hub_chann[m]
    <3>1. PICK m \in 1 .. Len(hub_chann) : hub_chann'[n] = hub_chann[m]
      BY <2>1
    <3>2. LET e == hub_chann[m]
          IN  /\ e.type = "af" => Truthful(e)
              /\ e.type = "close" => e.conn \in Conns
              /\ e.type = "add" => e.addr \in Addrs
              /\ e.type = "rm" => e.addr \in Addrs
              /\ e.type = "send2" => e.id \in Ids
      BY DEF IInv, EventInv
    <3>3. QED
      BY <1>1, <3>1, <3>2
  <2>2. QED
    BY <2>1
<1>4. QED
  BY <1>2, <1>3 DEF EventInv, Truthful

\* What IInv says that SamePlaces keeps.
LEMMA OnceFacts ==
  ASSUME IInv, NEW c \in Conns
  PROVE  FiledOnce(c) /\ CarriedOnce(c) /\ Once(c, "af") /\ Once(c, "close")
  BY DEF IInv, FreshInv, FiledInv, EndInv

LEMMA SameLists ==
  ASSUME UNCHANGED conns_map, NEW c
  PROVE  (\A a \in Addrs : Filed(c, a)' <=> Filed(c, a)) /\ (FiledOnce(c)' <=> FiledOnce(c))
  BY DEF Filed, FiledOnce

LEMMA SameFlight ==
  ASSUME UNCHANGED hub_chann, NEW c, NEW type
  PROVE  (InFlight(c, type)' <=> InFlight(c, type)) /\ (Once(c, type)' <=> Once(c, type))
  BY DEF InFlight, Once

\* An event that is not AF or CLOSE is taken, or posted.
LEMMA TakeOther ==
  ASSUME IInv, NEW t, t \notin {"af", "close"}, Take(t)
  PROVE  /\ hub_chann' \in Seq(Events) /\ Len(hub_chann') <= HubCap
         /\ \A n \in 1 .. Len(hub_chann') :
              \E m \in 1 .. Len(hub_chann) : hub_chann'[n] = hub_chann[m]
         /\ \A c \in Conns : \A type \in {"af", "close"} :
              (InFlight(c, type)' <=> InFlight(c, type)) /\ Once(c, type)'
<1>1. TypeOK /\ Head(hub_chann).type = t
  BY DEF IInv, Take
<1>2. \A c : \A type \in {"af", "close"} : ~Is(Head(hub_chann), type, c)
  BY <1>1 DEF Is
<1>3. QED
  BY <1>1, <1>2, TakeFlight, OnceFacts

LEMMA PostOther ==
  ASSUME IInv, NEW e \in Events, e.type \notin {"af", "close"}, PostEvent(e)
  PROVE  /\ hub_chann' \in Seq(Events) /\ Len(hub_chann') <= HubCap
         /\ \A n \in 1 .. Len(hub_chann') :
              hub_chann'[n] = e \/ \E m \in 1 .. Len(hub_chann) : hub_chann'[n] = hub_chann[m]
         /\ \A c \in Conns : \A type \in {"af", "close"} :
              (InFlight(c, type)' <=> InFlight(c, type)) /\ Once(c, type)'
<1>1. TypeOK
  BY DEF IInv
<1>2. \A c : \A type \in {"af", "close"} : ~Is(e, type, c)
  BY DEF Is
<1>3. QED
  BY <1>1, <1>2, PostFlight, OnceFacts

LEMMA SameIndex ==
  ASSUME IInv, SamePlaces, UNCHANGED <<conns_id_map, connect_id>>
  PROVE  IndexInv'
<1> SUFFICES ASSUME NEW i \in Ids, conns_id_map'[i] # NoConn
             PROVE  /\ connect_id'[conns_id_map'[i]] = i
                    /\ \E a \in Addrs : Has(conns_map'[a], conns_id_map'[i])
  BY DEF IndexInv, Filed, Has
<1>1. conns_id_map'[i] = conns_id_map[i] /\ conns_id_map[i] \in Conns
  BY DEF IInv, TypeOK
<1>2. /\ connect_id[conns_id_map[i]] = i
      /\ \E a \in Addrs : Filed(conns_id_map[i], a)
  BY <1>1 DEF IInv, IndexInv
<1>3. ASSUME NEW c \in Conns, NEW a \in Addrs, Filed(c, a)
      PROVE  Has(conns_map'[a], c)
  BY <1>3 DEF SamePlaces, Filed, Has
<1>4. QED
  BY <1>1, <1>2, <1>3

\* What such a step does to the events, to the lists, to the goroutines, to the
\* connections and to what the hub does.
KeepsEvents ==
  /\ \A n \in 1 .. Len(hub_chann') :
       \/ \E m \in 1 .. Len(hub_chann) : hub_chann'[n] = hub_chann[m]
       \/ /\ hub_chann'[n].type \notin {"af", "close"}
          /\ hub_chann'[n].type = "add" => hub_chann'[n].addr \in Addrs
          /\ hub_chann'[n].type = "rm" => hub_chann'[n].addr \in Addrs
          /\ hub_chann'[n].type = "send2" => hub_chann'[n].id \in Ids
  /\ \A c \in Conns : \A type \in {"af", "close"} :
       (InFlight(c, type)' <=> InFlight(c, type)) /\ Once(c, type)'

KeepsLists ==
  /\ \A c \in Conns : \A a \in Addrs : Filed(c, a)' <=> Filed(c, a)
  /\ \A c \in Conns : FiledOnce(c) => FiledOnce(c)'
  /\ \A a \in Addrs : a \notin known' => conns_map'[a] = <<>>

KeepsCarriers ==
  /\ \A d \in dialers' : d \in dialers \/ (d.event = NoEvent /\ d.at # "posting")
  /\ \A d \in dialers : d \in dialers' \/ d.event = NoEvent

KeepsConns ==
  /\ RunsOn
  /\ UNCHANGED <<remote_addr, connect_id, shut, conns_id_map>>
  /\ \A c \in Conns :
       send_chann[c] = 0 /\ (\A a \in Addrs : ~Filed(c, a)) => send_chann'[c] = 0

KeepsHub ==
  /\ loopAddr # <<>> => loopAddr' # <<>>
  /\ hub = "closing" => hub' = "closing"
  /\ hub' = "panic" => \E c \in Conns, a \in Addrs : shut[c] /\ Filed(c, a)

LEMMA QuietStep ==
  ASSUME IInv, KeepsEvents, KeepsLists, KeepsCarriers, KeepsConns, KeepsHub, TypeOK', DialerInv'
  PROVE  IInv'
<1>1. SamePlaces
  <2>1. /\ \A c \in Conns : Carried(c)' <=> Carried(c)
        /\ \A c \in Conns : CarriedOnce(c) => CarriedOnce(c)'
    BY SameCarriers, NoEventFacts DEF KeepsCarriers
  <2>2. QED
    BY <2>1, OnceFacts DEF SamePlaces, KeepsEvents, KeepsLists
<1>2. EventInv'
  BY SameEventsStep DEF KeepsEvents, KeepsCarriers, KeepsConns, KeepsHub
<1>3. FreshInv' /\ FiledInv' /\ EndInv' /\ PanicNeedsMisfiled'
  BY <1>1, SamePlacesStep DEF KeepsConns, KeepsHub, KeepsLists
<1>4. IndexInv'
  BY <1>1, SameIndex DEF KeepsConns
<1>5. QED
  BY <1>2, <1>3, <1>4 DEF IInv

LEMMA TakeKeepsEvents ==
  ASSUME IInv, NEW t, t \notin {"af", "close"}, Take(t)
  PROVE  KeepsEvents /\ hub_chann' \in Seq(Events) /\ Len(hub_chann') <= HubCap
  BY TakeOther DEF KeepsEvents

LEMMA SameKeeps ==
  ASSUME IInv
  PROVE  /\ UNCHANGED hub_chann => KeepsEvents
         /\ UNCHANGED <<conns_map, known>> => KeepsLists
         /\ UNCHANGED dialers => KeepsCarriers
         /\ UNCHANGED <<connVars, conns_id_map>> => KeepsConns
         /\ UNCHANGED <<hub, loopAddr>> /\ hub # "panic" => KeepsHub
<1>1. UNCHANGED hub_chann => KeepsEvents
  BY SameFlight, OnceFacts DEF KeepsEvents
<1>2. UNCHANGED <<conns_map, known>> => KeepsLists
  BY SameLists DEF KeepsLists, IInv, FiledInv
<1>3. UNCHANGED dialers => KeepsCarriers
  BY DEF KeepsCarriers
<1>4. UNCHANGED <<connVars, conns_id_map>> => KeepsConns
  BY DEF KeepsConns, RunsOn, connVars
<1>5. UNCHANGED <<hub, loopAddr>> /\ hub # "panic" => KeepsHub
  BY DEF KeepsHub
<1>6. QED
  BY <1>1, <1>2, <1>3, <1>4, <1>5

-----------------------------------------------------------------------------
(* Users and the alarm.                                                    *)

LEMMA UserCallStep ==
  ASSUME IInv, hub # "panic", UserCall
  PROVE  IInv'
<1> USE DEF hubVars, connVars
<1>1. PICK e \in UserEvents : PostEvent(e)
  BY DEF UserCall
<1>2. /\ e \in Events /\ e.type \notin {"af", "close"}
      /\ e.type \in {"add", "rm"} => e.addr \in Addrs
      /\ e.type = "send2" => e.id \in Ids
  BY DEF UserEvents, Event, Events, Types
<1>3. KeepsEvents /\ hub_chann' \in Seq(Events) /\ Len(hub_chann') <= HubCap
  BY <1>1, <1>2, PostOther DEF KeepsEvents
<1>4. KeepsLists /\ KeepsCarriers /\ KeepsConns /\ KeepsHub
  BY SameKeeps DEF UserCall
<1>5. TypeOK'
  <2>1. calls' \in 0 .. MaxCalls
    BY ConnPoolAssumption DEF UserCall, IInv, TypeOK
  <2>2. QED
    BY <1>3, <2>1 DEF UserCall, IInv, TypeOK
<1>6. DialerInv'
  BY DEF UserCall, IInv, DialerInv
<1>7. QED
  BY <1>3, <1>4, <1>5, <1>6, QuietStep

LEMMA AlarmRingsStep ==
  ASSUME IInv, hub # "panic", AlarmRings
  PROVE  IInv'
<1> USE DEF hubVars, connVars
<1> DEFINE e == Event("alram", NoAddr, NoConn, 0)
<1>1. PostEvent(e)
  BY DEF AlarmRings
<1>2. e \in Events /\ e.type = "alram"
  BY DEF Event, Events, Types
<1> HIDE DEF e
<1>3. KeepsEvents /\ hub_chann' \in Seq(Events) /\ Len(hub_chann') <= HubCap
  BY <1>1, <1>2, PostOther DEF KeepsEvents
<1>4. KeepsLists /\ KeepsCarriers /\ KeepsConns /\ KeepsHub
  BY SameKeeps DEF AlarmRings
<1>5. TypeOK'
  BY <1>3 DEF AlarmRings, IInv, TypeOK
<1>6. DialerInv'
  BY DEF AlarmRings, IInv, DialerInv
<1>7. QED
  BY <1>3, <1>4, <1>5, <1>6, QuietStep

-----------------------------------------------------------------------------
(* The hub, when it takes an event that is not AF or CLOSE.                *)

LEMMA HeadFacts ==
  ASSUME IInv, NEW t, Take(t)
  PROVE  /\ Head(hub_chann) \in Events /\ Head(hub_chann).type = t
         /\ t \in {"add", "rm"} => Head(hub_chann).addr \in Addrs
         /\ t = "send2" => Head(hub_chann).id \in Ids
         /\ t = "af" => Truthful(Head(hub_chann)) /\ InFlight(Head(hub_chann).conn, "af")
         /\ t = "close" => /\ Head(hub_chann).conn \in Conns
                           /\ InFlight(Head(hub_chann).conn, "close")
<1>1. TypeOK /\ Head(hub_chann).type = t
  BY DEF IInv, Take
<1>2. Head(hub_chann) = hub_chann[1] /\ 1 \in 1 .. Len(hub_chann) /\ Head(hub_chann) \in Events
  BY <1>1, TakeFlight
<1>3. QED
  BY <1>1, <1>2 DEF IInv, EventInv, InFlight, Is

LEMMA DoAddConnsStep ==
  ASSUME IInv, hub # "panic", DoAddConns
  PROVE  IInv'
<1> USE DEF connVars
<1> DEFINE a == Head(hub_chann).addr
           f == Dialer(0, a, auto_incs + 1)
<1>1. Take("add") /\ a \in Addrs
  BY HeadFacts DEF DoAddConns
<1>2. KeepsEvents /\ hub_chann' \in Seq(Events) /\ Len(hub_chann') <= HubCap
  BY <1>1, TakeKeepsEvents
<1>3. auto_incs \in Nat /\ auto_incs + 1 \in Nat
  BY DEF IInv, TypeOK
<1>4. f \in Goroutines /\ f.round = 0 /\ f.at = "start" /\ f.event = NoEvent
  BY <1>1, <1>3, DialerFacts
<1>5. known' = known \cup {a} /\ (dialers' = dialers \/ dialers' = dialers \cup {f})
      /\ auto_incs' \in Nat
      /\ UNCHANGED <<hub, todo, conns_map, conns_id_map, loopAddr, unlinked, asleep, connVars, calls>>
  BY <1>3 DEF DoAddConns
<1> HIDE DEF a, f
<1>6. KeepsLists
  BY <1>5, SameLists DEF IInv, FiledInv, KeepsLists
<1>7. KeepsCarriers
  BY <1>4, <1>5 DEF KeepsCarriers
<1>8. KeepsConns /\ KeepsHub
  BY <1>5, SameKeeps
<1>9. TypeOK'
  BY <1>1, <1>2, <1>4, <1>5 DEF IInv, TypeOK
<1>10. DialerInv'
  <2>1. hub' = "alram" => loopAddr' # <<>>
    BY <1>5 DEF IInv, DialerInv
  <2>2. ASSUME NEW d \in dialers'
        PROVE  /\ d.round # 0 => d.round \in 1 .. Len(loopAddr') /\ loopAddr'[d.round] \in Addrs
               /\ d.round = 0 /\ d.at = "dialing" => d.target = d.addr
               /\ IF d.at = "posting" THEN d.event.type = "af" ELSE d.event = NoEvent
    <3>1. CASE d \in dialers
      BY <1>5, <3>1 DEF IInv, DialerInv
    <3>2. CASE d = f
      BY <1>4, <3>2
    <3>3. QED
      BY <1>5, <3>1, <3>2
  <2>3. QED
    BY <2>1, <2>2 DEF DialerInv
<1>11. QED
  BY <1>2, <1>6, <1>7, <1>8, <1>9, <1>10, QuietStep

LEMMA DoRmConnsStep ==
  ASSUME IInv, hub # "panic", DoRmConns
  PROVE  IInv'
<1> USE DEF connVars
<1> DEFINE a == Head(hub_chann).addr
<1>1. Take("rm") /\ a \in Addrs
  BY HeadFacts DEF DoRmConns
<1>2. KeepsEvents /\ hub_chann' \in Seq(Events) /\ Len(hub_chann') <= HubCap
  BY <1>1, TakeKeepsEvents
<1>3. /\ \/ hub' = "closing" /\ UNCHANGED <<known, unlinked>>
         \/ /\ conns_map[a] = <<>> /\ known' = known \ {a} /\ UNCHANGED hub
            /\ unlinked' = unlinked \cup {n \in 1 .. Len(loopAddr) : loopAddr[n] = a}
      /\ UNCHANGED <<todo, conns_map, conns_id_map, loopAddr,
                     auto_incs, asleep, dialers, connVars, calls>>
  BY DEF DoRmConns, CloseConn
<1> HIDE DEF a
<1>4. KeepsLists
  BY <1>3, SameLists DEF IInv, FiledInv, KeepsLists
<1>5. KeepsCarriers /\ KeepsConns
  BY <1>3, SameKeeps
<1>6. KeepsHub
  BY <1>3 DEF KeepsHub
<1>7. TypeOK'
  <2>1. /\ hub' \in {"idle", "alram", "closing", "panic"}
        /\ known' \subseteq Addrs
        /\ unlinked' \subseteq Nat
    <3>1. hub \in {"idle", "alram", "closing", "panic"} /\ known \subseteq Addrs /\ unlinked \subseteq Nat
      BY DEF IInv, TypeOK
    <3>2. {n \in 1 .. Len(loopAddr) : loopAddr[n] = a} \subseteq Nat
      OBVIOUS
    <3>3. QED
      BY <1>3, <3>1, <3>2
  <2>2. QED
    BY <1>2, <1>3, <2>1 DEF IInv, TypeOK
<1>8. DialerInv'
  <2>1. hub = "idle"
    BY <1>1 DEF Take
  <2>2. QED
    BY <1>3, <2>1 DEF IInv, DialerInv
<1>9. QED
  BY <1>2, <1>4, <1>5, <1>6, <1>7, <1>8, QuietStep

\* cConn.Send, to connections that are in a list.
LEMMA SendFacts ==
  ASSUME IInv, hub # "panic", NEW cs \in SUBSET Conns, \A c \in cs : \E a \in Addrs : Filed(c, a),
         SendAll(cs), UNCHANGED <<run, remote_addr, connect_id, shut, conns_id_map>>
  PROVE  /\ send_chann' \in [Conns -> 0 .. SendCap]
         /\ KeepsConns
         /\ hub' = hub \/ hub' = "panic"
         /\ hub' = "panic" => \E c \in Conns, a \in Addrs : shut[c] /\ Filed(c, a)
<1>1. /\ send_chann \in [Conns -> 0 .. SendCap]
      /\ SendCap \in Nat
  BY ConnPoolAssumption DEF IInv, TypeOK
<1>2. CASE \E c \in cs : shut[c]
  <2>1. hub' = "panic" /\ UNCHANGED send_chann
    BY <1>2 DEF SendAll
  <2>2. QED
    BY <1>1, <1>2, <2>1 DEF KeepsConns, RunsOn
<1>3. CASE ~\E c \in cs : shut[c]
  <2>1. /\ UNCHANGED hub
        /\ send_chann' = [c \in Conns |->
              IF c \in cs /\ send_chann[c] < SendCap THEN send_chann[c] + 1 ELSE send_chann[c]]
    BY <1>3 DEF SendAll, HasRoom
  <2>2. \A c \in Conns :
          IF c \in cs /\ send_chann[c] < SendCap
          THEN send_chann[c] + 1 \in 0 .. SendCap
          ELSE send_chann[c] \in 0 .. SendCap
    BY <1>1
  <2>3. send_chann' \in [Conns -> 0 .. SendCap]
    BY <2>1, <2>2
  <2>4. \A c \in Conns : (\A a \in Addrs : ~Filed(c, a)) => send_chann'[c] = send_chann[c]
    BY <2>1
  <2>5. QED
    BY <2>1, <2>3, <2>4 DEF KeepsConns, RunsOn
<1>4. QED
  BY <1>2, <1>3

LEMMA FirstFiled ==
  ASSUME IInv, NEW b \in Addrs, conns_map[b] # <<>>
  PROVE  Head(conns_map[b]) \in Conns /\ Filed(Head(conns_map[b]), b)
<1>1. conns_map[b] \in Seq(Conns)
  BY DEF IInv, TypeOK
<1>2. Len(conns_map[b]) \in Nat /\ Len(conns_map[b]) > 0
      /\ Head(conns_map[b]) = conns_map[b][1] /\ Head(conns_map[b]) \in Conns
  BY <1>1, TailFacts
<1>3. QED
  BY <1>2 DEF Filed

LEMMA DoSendDataStep ==
  ASSUME IInv, hub # "panic", DoSendData
  PROVE  IInv'
<1> DEFINE a == Head(hub_chann).addr
<1>1. Take("send") /\ hub = "idle"
  BY DEF DoSendData, Take
<1>2. KeepsEvents /\ hub_chann' \in Seq(Events) /\ Len(hub_chann') <= HubCap
  BY <1>1, TakeKeepsEvents
<1>3. UNCHANGED <<todo, known, conns_id_map, loopAddr, unlinked,
                  auto_incs, asleep, dialers, run, remote_addr, connect_id, shut, calls>>
  BY DEF DoSendData
<1>4. /\ conns_map' \in [Addrs -> Seq(Conns)]
      /\ send_chann' \in [Conns -> 0 .. SendCap]
      /\ KeepsLists
      /\ KeepsConns
      /\ hub' = hub \/ hub' = "panic"
      /\ hub' = "panic" => \E c \in Conns, b \in Addrs : shut[c] /\ Filed(c, b)
  <2>1. CASE a \in known /\ Usable(a) # {}
    <3>1. PICK b \in Usable(a) :
            /\ SendAll({Head(conns_map[b])})
            /\ conns_map' = [conns_map EXCEPT ![b] = Append(Tail(@), Head(@))]
      BY <2>1 DEF DoSendData
    <3>2. b \in Addrs /\ conns_map[b] # <<>>
      BY <2>1 DEF Usable, IInv, TypeOK
    <3>3. Head(conns_map[b]) \in Conns /\ Filed(Head(conns_map[b]), b)
      BY <3>2, FirstFiled
    <3>4. /\ send_chann' \in [Conns -> 0 .. SendCap]
          /\ KeepsConns
          /\ hub' = hub \/ hub' = "panic"
          /\ hub' = "panic" => \E c \in Conns, e \in Addrs : shut[c] /\ Filed(c, e)
      <4> DEFINE cs == {Head(conns_map[b])}
      <4>1. cs \in SUBSET Conns /\ \A c \in cs : \E e \in Addrs : Filed(c, e)
        BY <3>2, <3>3
      <4>2. SendAll(cs)
        BY <3>1
      <4> HIDE DEF cs
      <4>3. QED
        BY <1>3, <4>1, <4>2, SendFacts
    <3>5. conns_map' \in [Addrs -> Seq(Conns)] /\ KeepsLists
      <4>1. /\ conns_map' \in [Addrs -> Seq(Conns)]
            /\ \A e \in Addrs : conns_map[e] = <<>> => conns_map'[e] = <<>>
            /\ \A c : \A e \in Addrs : Filed(c, e)' <=> Filed(c, e)
            /\ \A c : FiledOnce(c) => FiledOnce(c)'
        BY <3>1, <3>2, RotateFiles DEF IInv
      <4>2. \A e \in Addrs : e \notin known' => conns_map'[e] = <<>>
        BY <1>3, <4>1 DEF IInv, FiledInv
      <4>3. QED
        BY <4>1, <4>2 DEF KeepsLists
    <3>6. QED
      BY <3>4, <3>5
  <2>2. CASE ~(a \in known /\ Usable(a) # {})
    <3>1. UNCHANGED <<hub, send_chann, conns_map>>
      BY <2>2 DEF DoSendData
    <3>2. KeepsLists /\ KeepsConns
      BY <1>3, <3>1, SameKeeps DEF connVars
    <3>3. QED
      BY <3>1, <3>2 DEF IInv, TypeOK
  <2>3. QED
    BY <2>1, <2>2
<1>5. KeepsCarriers
  BY <1>3, SameKeeps
<1>6. KeepsHub
  BY <1>1, <1>3, <1>4 DEF KeepsHub
<1>7. TypeOK'
  BY <1>2, <1>3, <1>4 DEF IInv, TypeOK
<1>8. DialerInv'
  BY <1>3, <1>4 DEF IInv, DialerInv
<1>9. QED
  BY <1>2, <1>4, <1>5, <1>6, <1>7, <1>8, QuietStep

LEMMA DoSendData2Step ==
  ASSUME IInv, hub # "panic", DoSendData2
  PROVE  IInv'
<1> DEFINE c == conns_id_map[Head(hub_chann).id]
<1>1. Take("send2") /\ hub = "idle" /\ Head(hub_chann).id \in Ids
  BY HeadFacts DEF DoSendData2, Take
<1>2. KeepsEvents /\ hub_chann' \in Seq(Events) /\ Len(hub_chann') <= HubCap
  BY <1>1, TakeKeepsEvents
<1>3. UNCHANGED <<todo, conns_map, known, conns_id_map, loopAddr, unlinked,
                  auto_incs, asleep, dialers, run, remote_addr, connect_id, shut, calls>>
  BY DEF DoSendData2
<1>4. /\ send_chann' \in [Conns -> 0 .. SendCap]
      /\ KeepsConns
      /\ hub' = hub \/ hub' = "panic"
      /\ hub' = "panic" => \E x \in Conns, b \in Addrs : shut[x] /\ Filed(x, b)
  <2> DEFINE cs == {c} \ {NoConn}
  <2>1. cs \in SUBSET Conns
    BY <1>1 DEF IInv, TypeOK
  <2>2. \A x \in cs : \E b \in Addrs : Filed(x, b)
    BY <1>1 DEF IInv, IndexInv
  <2>3. SendAll(cs)
    BY DEF DoSendData2
  <2> HIDE DEF cs
  <2>4. QED
    BY <1>3, <2>1, <2>2, <2>3, SendFacts
<1>5. KeepsLists /\ KeepsCarriers
  BY <1>3, SameKeeps
<1>6. KeepsHub
  BY <1>1, <1>3, <1>4 DEF KeepsHub
<1>7. TypeOK'
  BY <1>2, <1>3, <1>4 DEF IInv, TypeOK
<1>8. DialerInv'
  BY <1>3, <1>4 DEF IInv, DialerInv
<1>9. QED
  BY <1>2, <1>4, <1>5, <1>6, <1>7, <1>8, QuietStep

LEMMA DoAlramConnsStep ==
  ASSUME IInv, hub # "panic", DoAlramConns
  PROVE  IInv'
<1>1. Take("alram")
  BY DEF DoAlramConns
<1>2. KeepsEvents /\ hub_chann' \in Seq(Events) /\ Len(hub_chann') <= HubCap
  BY <1>1, TakeKeepsEvents
<1>3. /\ hub' = "alram"
      /\ todo' = known
      /\ loopAddr' = Append(loopAddr, NoAddr)
      /\ UNCHANGED <<conns_map, known, conns_id_map, unlinked, auto_incs, asleep,
                     dialers, connVars, calls>>
  BY DEF DoAlramConns
<1>4. /\ loopAddr' \in Seq(Addrs \cup {NoAddr})
      /\ Len(loopAddr) \in Nat
      /\ Len(loopAddr') = Len(loopAddr) + 1
      /\ \A n \in 1 .. Len(loopAddr) : loopAddr'[n] = loopAddr[n]
  BY <1>3, AppendFacts DEF IInv, TypeOK
<1>5. loopAddr' # <<>>
  BY <1>4
<1>6. KeepsLists /\ KeepsCarriers /\ KeepsConns
  BY <1>3, SameKeeps
<1>7. KeepsHub
  BY <1>1, <1>3, <1>5 DEF KeepsHub, Take
<1>8. TypeOK'
  BY <1>2, <1>3, <1>4 DEF IInv, TypeOK, connVars
<1>9. DialerInv'
  BY <1>3, <1>4, <1>5 DEF IInv, DialerInv
<1>10. QED
  BY <1>2, <1>6, <1>7, <1>8, <1>9, QuietStep

-----------------------------------------------------------------------------
(* The loop of doAlramConns.                                               *)

\* The loop reaches address k.
LEMMA ReachFacts ==
  ASSUME IInv, hub = "alram", NEW k \in Addrs,
         loopAddr' = [loopAddr EXCEPT ![Len(loopAddr)] = k]
  PROVE  /\ loopAddr' \in Seq(Addrs \cup {NoAddr})
         /\ Len(loopAddr) \in Nat /\ Len(loopAddr) > 0
         /\ Len(loopAddr') = Len(loopAddr)
         /\ loopAddr'[Len(loopAddr)] = k
         /\ \A n \in 1 .. Len(loopAddr) : loopAddr[n] \in Addrs => loopAddr'[n] \in Addrs
<1>1. loopAddr \in Seq(Addrs \cup {NoAddr}) /\ loopAddr # <<>>
  BY DEF IInv, TypeOK, DialerInv
<1>2. Len(loopAddr) \in Nat /\ Len(loopAddr) > 0 /\ Len(loopAddr) \in 1 .. Len(loopAddr)
  BY <1>1
<1>3. loopAddr \in [1 .. Len(loopAddr) -> Addrs \cup {NoAddr}]
  BY <1>1
<1>4. loopAddr' \in [1 .. Len(loopAddr) -> Addrs \cup {NoAddr}]
  BY <1>3
<1>5. loopAddr' \in Seq(Addrs \cup {NoAddr}) /\ Len(loopAddr') = Len(loopAddr)
  <2>1. \A n \in Nat : \A t \in [1 .. n -> Addrs \cup {NoAddr}] :
          t \in Seq(Addrs \cup {NoAddr}) /\ Len(t) = n
    OBVIOUS
  <2>2. QED
    BY <1>2, <1>4, <2>1
<1>6. loopAddr'[Len(loopAddr)] = k
  BY <1>2, <1>3
<1>7. \A n \in 1 .. Len(loopAddr) : loopAddr[n] \in Addrs => loopAddr'[n] \in Addrs
  BY <1>2, <1>3
<1>8. QED
  BY <1>2, <1>5, <1>6, <1>7

LEMMA AlramLoopStep ==
  ASSUME IInv, hub # "panic", AlramLoop
  PROVE  IInv'
<1>1. /\ hub = "alram"
      /\ UNCHANGED <<conns_map, known, conns_id_map, unlinked, hub_chann,
                     auto_incs, asleep, run, remote_addr, connect_id, shut, calls>>
  BY DEF AlramLoop
<1>2. PICK k \in todo :
        /\ todo' = todo \ {k}
        /\ loopAddr' = [loopAddr EXCEPT ![Len(loopAddr)] = k]
        /\ SendAll({c \in Conns : Heart_bit /\ Filed(c, k)})
        /\ \/ dialers' = dialers \cup {Dialer(Len(loopAddr), k, 0)}
           \/ dialers' = dialers
  BY DEF AlramLoop
<1>3. k \in Addrs /\ todo' \subseteq Addrs
  BY <1>2 DEF IInv, TypeOK
<1>4. /\ loopAddr' \in Seq(Addrs \cup {NoAddr})
      /\ Len(loopAddr) \in Nat /\ Len(loopAddr) > 0
      /\ Len(loopAddr') = Len(loopAddr)
      /\ loopAddr'[Len(loopAddr)] = k
      /\ \A n \in 1 .. Len(loopAddr) : loopAddr[n] \in Addrs => loopAddr'[n] \in Addrs
  BY <1>1, <1>2, <1>3, ReachFacts
<1>5. loopAddr' # <<>>
  BY <1>4
<1> DEFINE f == Dialer(Len(loopAddr), k, 0)
<1>6. f \in Goroutines /\ f.round = Len(loopAddr) /\ f.at = "start" /\ f.event = NoEvent
  BY <1>3, <1>4, DialerFacts
<1>7. dialers' = dialers \cup {f} \/ dialers' = dialers
  BY <1>2
<1> HIDE DEF f
<1>8. /\ send_chann' \in [Conns -> 0 .. SendCap]
      /\ KeepsConns
      /\ hub' = hub \/ hub' = "panic"
      /\ hub' = "panic" => \E c \in Conns, a \in Addrs : shut[c] /\ Filed(c, a)
  <2> DEFINE cs == {c \in Conns : Heart_bit /\ Filed(c, k)}
  <2>1. cs \in SUBSET Conns /\ \A c \in cs : \E a \in Addrs : Filed(c, a)
    BY <1>3
  <2>2. SendAll(cs)
    BY <1>2
  <2> HIDE DEF cs
  <2>3. QED
    BY <1>1, <2>1, <2>2, SendFacts
<1>9. KeepsEvents /\ KeepsLists
  BY <1>1, SameKeeps
<1>10. KeepsCarriers
  BY <1>6, <1>7 DEF KeepsCarriers
<1>11. KeepsHub
  BY <1>1, <1>5, <1>8 DEF KeepsHub
<1>12. TypeOK'
  BY <1>1, <1>3, <1>4, <1>6, <1>7, <1>8 DEF IInv, TypeOK
<1>13. DialerInv'
  <2>1. ASSUME NEW d \in dialers'
        PROVE  /\ d.round # 0 => d.round \in 1 .. Len(loopAddr') /\ loopAddr'[d.round] \in Addrs
               /\ d.round = 0 /\ d.at = "dialing" => d.target = d.addr
               /\ IF d.at = "posting" THEN d.event.type = "af" ELSE d.event = NoEvent
    <3>1. CASE d \in dialers
      BY <1>4, <3>1 DEF IInv, DialerInv
    <3>2. CASE d = f
      <4>1. Len(loopAddr) \in 1 .. Len(loopAddr')
        BY <1>4
      <4>2. QED
        BY <1>3, <1>4, <1>6, <3>2, <4>1
    <3>3. QED
      BY <1>7, <3>1, <3>2
  <2>2. QED
    BY <1>5, <2>1 DEF DialerInv
<1>14. QED
  BY <1>8, <1>9, <1>10, <1>11, <1>12, <1>13, QuietStep

LEMMA AlramEndStep ==
  ASSUME IInv, hub # "panic", AlramEnd
  PROVE  IInv'
<1>1. /\ hub = "alram" /\ hub' = "idle" /\ asleep' = TRUE
      /\ UNCHANGED <<todo, conns_map, known, conns_id_map, loopAddr, unlinked, hub_chann,
                     auto_incs, dialers, connVars, calls>>
  BY DEF AlramEnd
<1>2. KeepsEvents /\ KeepsLists /\ KeepsCarriers /\ KeepsConns
  BY <1>1, SameKeeps
<1>3. KeepsHub
  BY <1>1 DEF KeepsHub
<1>4. TypeOK'
  BY <1>1 DEF IInv, TypeOK, connVars
<1>5. DialerInv'
  BY <1>1 DEF IInv, DialerInv
<1>6. QED
  BY <1>2, <1>3, <1>4, <1>5, QuietStep

-----------------------------------------------------------------------------
(* Goroutines that dial, and fail.                                         *)

LEMMA AddrFacts ==
  ASSUME IInv, NEW d \in dialers
  PROVE  /\ d \in Goroutines /\ AddrOf(d) \in Addrs
         /\ d.round = 0 => AddrOf(d) = d.addr
         /\ d.round # 0 => loopAddr # <<>>
<1>1. /\ d \in Goroutines
      /\ d.round # 0 => d.round \in 1 .. Len(loopAddr) /\ loopAddr[d.round] \in Addrs
  BY DEF IInv, TypeOK, DialerInv
<1>2. d.addr \in Addrs
  BY <1>1 DEF Goroutines
<1>3. QED
  BY <1>1, <1>2 DEF AddrOf

\* Goroutine d, which has no connection, goes on as f or returns.
LEMMA GoesOn ==
  ASSUME IInv, NEW d \in dialers, NEW f \in Goroutines, d.at # "posting",
         f.round = d.round, f.at # "posting", f.event = NoEvent,
         f.round = 0 /\ f.at = "dialing" => f.target = f.addr,
         dialers' = dialers \ {d} \/ Become(d, f),
         UNCHANGED <<hub, loopAddr>>
  PROVE  KeepsCarriers /\ DialerInv' /\ dialers' \subseteq Goroutines
<1>1. dialers' = dialers \ {d} \/ dialers' = (dialers \ {d}) \cup {f}
  BY DEF Become
<1>2. d.event = NoEvent
  BY DEF IInv, DialerInv
<1>3. KeepsCarriers
  BY <1>1, <1>2 DEF KeepsCarriers
<1>4. DialerInv'
  BY <1>1 DEF IInv, DialerInv
<1>5. dialers' \subseteq Goroutines
  BY <1>1 DEF IInv, TypeOK
<1>6. QED
  BY <1>3, <1>4, <1>5

LEMMA DialStep ==
  ASSUME IInv, hub # "panic", NEW d \in dialers, Dial(d)
  PROVE  IInv'
<1> DEFINE i == IF d.at = "next" THEN d.i ELSE FirstIndex(d)
           f == [d EXCEPT !.at = "dialing", !.i = i, !.target = AddrOf(d)]
<1>1. /\ d.at \in {"start", "next"}
      /\ dialers' = dialers \ {d} \/ Become(d, f)
      /\ UNCHANGED <<hubVars, hub_chann, auto_incs, asleep, connVars, calls>>
  BY DEF Dial
<1>2. /\ d \in Goroutines /\ AddrOf(d) \in Addrs
      /\ d.round = 0 => AddrOf(d) = d.addr
  BY AddrFacts
<1>3. i \in Nat
  <2>1. d.i \in Nat
    BY <1>2 DEF Goroutines
  <2>2. conns_map[AddrOf(d)] \in Seq(Conns)
    BY <1>2 DEF IInv, TypeOK
  <2>3. Len(conns_map[AddrOf(d)]) \in Nat
    BY <2>2
  <2>4. QED
    BY <2>1, <2>3 DEF FirstIndex
<1> HIDE DEF i
<1>4. /\ f \in Goroutines
      /\ f.round = d.round /\ f.addr = d.addr /\ f.at = "dialing"
      /\ f.target = AddrOf(d) /\ f.event = d.event
  <2> DEFINE a == AddrOf(d)
  <2>1. a \in Addrs \cup {NoAddr}
    BY <1>2
  <2> HIDE DEF a
  <2>2. LET g == [d EXCEPT !.at = "dialing", !.i = i, !.target = a]
        IN  /\ g \in Goroutines
            /\ g.round = d.round /\ g.addr = d.addr /\ g.at = "dialing"
            /\ g.target = a /\ g.event = d.event
    BY <1>2, <1>3, <2>1 DEF Goroutines
  <2>3. QED
    BY <2>2 DEF a
<1>5. d.event = NoEvent
  BY <1>1 DEF IInv, DialerInv
<1> HIDE DEF f
<1>6. KeepsCarriers /\ DialerInv' /\ dialers' \subseteq Goroutines
  BY <1>1, <1>2, <1>4, <1>5, GoesOn DEF hubVars
<1>7. KeepsEvents /\ KeepsLists /\ KeepsConns /\ KeepsHub
  BY <1>1, SameKeeps DEF hubVars
<1>8. TypeOK'
  BY <1>1, <1>6 DEF IInv, TypeOK, hubVars, connVars
<1>9. QED
  BY <1>6, <1>7, <1>8, QuietStep

\* Goroutine d begins its next iteration, as f, or returns.
LEMMA LoopFacts ==
  ASSUME IInv, NEW d \in dialers, Loop(d, d.i + 1) \/ dialers' = dialers \ {d}
  PROVE  \E f \in Goroutines :
           /\ f.round = d.round /\ f.at = "next" /\ f.event = NoEvent
           /\ dialers' = dialers \ {d} \/ Become(d, f)
<1> DEFINE f == [d EXCEPT !.at = "next", !.i = d.i + 1, !.target = NoAddr, !.event = NoEvent]
<1>1. d \in Goroutines
  BY AddrFacts
<1>2. d.i + 1 \in Nat
  BY <1>1 DEF Goroutines
<1>3. /\ f \in Goroutines
      /\ f.round = d.round /\ f.addr = d.addr /\ f.at = "next" /\ f.event = NoEvent
  BY <1>1, <1>2, NextFacts
<1>4. dialers' = dialers \ {d} \/ Become(d, f)
  BY DEF Loop
<1> HIDE DEF f
<1>5. QED
  BY <1>3, <1>4

LEMMA DialFailsStep ==
  ASSUME IInv, hub # "panic", NEW d \in dialers, DialFails(d)
  PROVE  IInv'
<1>1. /\ d.at = "dialing"
      /\ Loop(d, d.i + 1) \/ dialers' = dialers \ {d}
      /\ UNCHANGED <<hubVars, hub_chann, auto_incs, asleep, connVars, calls>>
  BY DEF DialFails
<1>2. PICK f \in Goroutines :
        /\ f.round = d.round /\ f.at = "next" /\ f.event = NoEvent
        /\ dialers' = dialers \ {d} \/ Become(d, f)
  BY <1>1, LoopFacts
<1>3. KeepsCarriers /\ DialerInv' /\ dialers' \subseteq Goroutines
  BY <1>1, <1>2, GoesOn DEF hubVars
<1>4. KeepsEvents /\ KeepsLists /\ KeepsConns /\ KeepsHub
  BY <1>1, SameKeeps DEF hubVars
<1>5. TypeOK'
  BY <1>1, <1>3 DEF IInv, TypeOK, hubVars, connVars
<1>6. QED
  BY <1>3, <1>4, <1>5, QuietStep

-----------------------------------------------------------------------------
(* cConn.run, until it posts CLOSE.                                        *)

\* c's goroutine writes, stops or gives up.
LEMMA RunStep ==
  ASSUME IInv, hub # "panic", NEW c \in Conns,
         WriteOk(c) \/ WriteErr(c) \/ WriteTimesOut(c) \/ Stick(c) \/ CloseDropped(c)
  PROVE  IInv'
<1>1. /\ UNCHANGED <<hubVars, hub_chann, auto_incs, asleep, dialers, remote_addr,
                     connect_id, shut, calls>>
      /\ \/ send_chann' = send_chann
         \/ send_chann[c] > 0 /\ send_chann' = [send_chann EXCEPT ![c] = @ - 1]
      /\ \/ run' = run
         \/ /\ run[c] \in {"draining", "ending"}
            /\ run' = [run EXCEPT ![c] = "stuck"]
         \/ /\ run[c] = "draining" /\ send_chann[c] > 0
            /\ run' = [run EXCEPT ![c] = "ending"]
         \/ /\ run[c] = "ending"
            /\ run' = [run EXCEPT ![c] = "dropped"]
  BY DEF WriteOk, WriteErr, WriteTimesOut, Stick, CloseDropped
<1>2. /\ send_chann \in [Conns -> 0 .. SendCap] /\ SendCap \in Nat
      /\ run \in [Conns -> {"none", "draining", "stuck", "ending", "ended", "dropped"}]
  BY ConnPoolAssumption DEF IInv, TypeOK
<1>3. send_chann' \in [Conns -> 0 .. SendCap]
  <2>1. CASE send_chann' = send_chann
    BY <1>2, <2>1
  <2>2. CASE send_chann[c] > 0 /\ send_chann' = [send_chann EXCEPT ![c] = @ - 1]
    <3>1. send_chann[c] - 1 \in 0 .. SendCap
      BY <1>2, <2>2
    <3>2. QED
      BY <1>2, <2>2, <3>1
  <2>3. QED
    BY <1>1, <2>1, <2>2
<1>4. \A b \in Conns : send_chann[b] = 0 => send_chann'[b] = 0
  <2>1. CASE send_chann' = send_chann
    BY <2>1
  <2>2. CASE send_chann[c] > 0 /\ send_chann' = [send_chann EXCEPT ![c] = @ - 1]
    BY <1>2, <2>2
  <2>3. QED
    BY <1>1, <2>1, <2>2
<1>5. send_chann[c] > 0 \/ run[c] = "ending" => ~Fresh(c)
  <2>1. Fresh(c) => run[c] \in {"draining", "stuck"} /\ send_chann[c] = 0
    BY DEF IInv, FreshInv
  <2>2. QED
    BY <2>1
<1>6. RunsOn
  BY <1>1, <1>2, <1>5 DEF RunsOn
<1>7. run' \in [Conns -> {"none", "draining", "stuck", "ending", "ended", "dropped"}]
  BY <1>1, <1>2
<1>8. KeepsConns
  BY <1>1, <1>4, <1>6 DEF KeepsConns, hubVars
<1>9. KeepsEvents /\ KeepsLists /\ KeepsCarriers /\ KeepsHub
  BY <1>1, SameKeeps DEF hubVars
<1>10. TypeOK'
  BY <1>1, <1>3, <1>7 DEF IInv, TypeOK, hubVars
<1>11. DialerInv'
  BY <1>1 DEF IInv, DialerInv, hubVars
<1>12. QED
  BY <1>8, <1>9, <1>10, <1>11, QuietStep

-----------------------------------------------------------------------------
(* The life of a connection: made, posted, filed, ended, closed.           *)

\* A connection that has not been made is nowhere.
LEMMA UnmadeFacts ==
  ASSUME IInv, NEW c \in Conns, run[c] = "none"
  PROVE  /\ ~Carried(c) /\ ~InFlight(c, "af") /\ ~InFlight(c, "close")
         /\ \A a \in Addrs : ~Filed(c, a)
         /\ ~shut[c] /\ send_chann[c] = 0
         /\ \A i \in Ids : conns_id_map[i] # c
<1>1. c # NoConn
  BY ConnPoolAssumption DEF Conns, NoConn
<1>2. ~Carried(c)
  <2> SUFFICES ASSUME NEW d \in dialers, d.event.conn = c
               PROVE  FALSE
    BY DEF Carried
  <2>1. d.at = "posting"
    BY <1>1, NoEventFacts DEF IInv, DialerInv
  <2>2. QED
    BY <2>1 DEF IInv, EventInv, Truthful, Made
<1>3. ~InFlight(c, "af")
  BY DEF InFlight, Is, IInv, EventInv, Truthful, Made
<1>4. ~InFlight(c, "close") /\ ~shut[c] /\ send_chann[c] = 0
  BY DEF IInv, EndInv
<1>5. \A a \in Addrs : ~Filed(c, a)
  BY DEF IInv, FiledInv
<1>6. \A i \in Ids : conns_id_map[i] # c
  BY <1>1, <1>5 DEF IInv, IndexInv
<1>7. QED
  BY <1>2, <1>3, <1>4, <1>5, <1>6

LEMMA DialedStep ==
  ASSUME IInv, hub # "panic", NEW d \in dialers, Dialed(d)
  PROVE  IInv'
<1>1. PICK c \in Conns, id \in Ids :
        /\ run[c] = "none"
        /\ auto_incs' = IF d.round = 0 THEN auto_incs ELSE auto_incs + 1
        /\ run' = [run EXCEPT ![c] = "draining"]
        /\ remote_addr' = [remote_addr EXCEPT ![c] = d.target]
        /\ connect_id' = [connect_id EXCEPT ![c] = id]
        /\ Become(d, [d EXCEPT !.at = "posting", !.event = Event("af", AddrOf(d), c, id)])
  BY DEF Dialed
<1>2. /\ d.at = "dialing"
      /\ UNCHANGED <<hub, todo, conns_map, known, conns_id_map, loopAddr, unlinked,
                     hub_chann, asleep, send_chann, shut, calls>>
  BY DEF Dialed, hubVars
<1>3. /\ d \in Goroutines /\ AddrOf(d) \in Addrs
      /\ d.round = 0 => AddrOf(d) = d.addr
      /\ d.round # 0 => loopAddr # <<>>
  BY AddrFacts
<1> DEFINE e == Event("af", AddrOf(d), c, id)
           f == [d EXCEPT !.at = "posting", !.event = e]
<1>4. /\ e \in Events
      /\ e.type = "af" /\ e.addr = AddrOf(d) /\ e.conn = c /\ e.id = id
  BY <1>3 DEF Event, Events, Types
<1>5. dialers' = (dialers \ {d}) \cup {f}
  BY <1>1 DEF Become
<1> HIDE DEF e
<1>6. /\ f \in Goroutines
      /\ f.round = d.round /\ f.addr = d.addr /\ f.at = "posting" /\ f.event = e
  BY <1>3, <1>4, PostingFacts
<1> HIDE DEF f
<1>7. d.event = NoEvent /\ (d.round = 0 => d.target = d.addr)
  BY <1>2 DEF IInv, DialerInv
<1>8. c # NoConn /\ NoConn \notin Conns
  BY ConnPoolAssumption DEF Conns, NoConn
<1>9. /\ ~Carried(c) /\ ~InFlight(c, "af") /\ ~InFlight(c, "close")
      /\ \A a \in Addrs : ~Filed(c, a)
      /\ ~shut[c] /\ send_chann[c] = 0
      /\ \A i \in Ids : conns_id_map[i] # c
  BY <1>1, UnmadeFacts
<1>10. \A b \in Conns : Carried(b)' <=> Carried(b) \/ b = c
  BY <1>4, <1>5, <1>6, <1>7, <1>8, NoEventFacts DEF Carried
<1>11. \A b \in Conns : CarriedOnce(b)'
  <2> SUFFICES ASSUME NEW b \in Conns, NEW g \in dialers', NEW h \in dialers',
                      g.event.conn = b, h.event.conn = b
               PROVE  g = h
    BY DEF CarriedOnce
  <2>1. CASE g \in dialers /\ h \in dialers
    BY <2>1, OnceFacts DEF CarriedOnce
  <2>2. CASE g = f /\ h = f
    BY <2>2
  <2>3. CASE (g = f /\ h \in dialers) \/ (h = f /\ g \in dialers)
    <3>1. b = c
      BY <1>4, <1>6, <2>3
    <3>2. QED
      BY <1>9, <2>3, <3>1 DEF Carried
  <2>4. QED
    BY <1>5, <2>1, <2>2, <2>3
<1>12. \A b : \A type : (InFlight(b, type)' <=> InFlight(b, type)) /\ (Once(b, type)' <=> Once(b, type))
  BY <1>2, SameFlight
<1>13. \A b : (\A a \in Addrs : Filed(b, a)' <=> Filed(b, a)) /\ (FiledOnce(b)' <=> FiledOnce(b))
  BY <1>2, SameLists
<1>14. /\ run \in [Conns -> {"none", "draining", "stuck", "ending", "ended", "dropped"}]
       /\ remote_addr \in [Conns -> Addrs \cup {NoAddr}]
       /\ connect_id \in [Conns -> Ids \cup {0}]
  BY DEF IInv, TypeOK
<1>15. /\ run'[c] = "draining" /\ remote_addr'[c] = d.target /\ connect_id'[c] = id
       /\ \A b \in Conns : b # c =>
            run'[b] = run[b] /\ remote_addr'[b] = remote_addr[b] /\ connect_id'[b] = connect_id[b]
  BY <1>1, <1>14
<1>16. TypeOK'
  <2>1. /\ run' \in [Conns -> {"none", "draining", "stuck", "ending", "ended", "dropped"}]
        /\ connect_id' \in [Conns -> Ids \cup {0}]
    BY <1>1, <1>14
  <2>2. d.target \in Addrs \cup {NoAddr}
    BY <1>3 DEF Goroutines
  <2>3. remote_addr' \in [Conns -> Addrs \cup {NoAddr}]
    BY <1>1, <1>14, <2>2
  <2>4. auto_incs' \in Nat
    BY <1>1 DEF IInv, TypeOK
  <2>5. dialers' \subseteq Goroutines
    BY <1>5, <1>6 DEF IInv, TypeOK
  <2>6. QED
    BY <1>2, <2>1, <2>3, <2>4, <2>5 DEF IInv, TypeOK
<1>17. DialerInv'
  BY <1>2, <1>4, <1>5, <1>6 DEF IInv, DialerInv
<1>18. EventInv'
  <2>1. \A x : Truthful(x) =>
          /\ x.conn \in Conns /\ run'[x.conn] # "none"
          /\ x.id \in Ids
          /\ connect_id'[x.conn] = x.id
          /\ x.addr # remote_addr'[x.conn] => loopAddr' # <<>>
    BY <1>1, <1>2, <1>15 DEF Truthful, Made
  <2>2. /\ e.conn \in Conns /\ run'[e.conn] # "none"
        /\ e.id \in Ids
        /\ connect_id'[e.conn] = e.id
        /\ e.addr # remote_addr'[e.conn] => loopAddr' # <<>>
    BY <1>2, <1>3, <1>4, <1>7, <1>15
  <2>3. ASSUME NEW g \in dialers', g.at = "posting"
        PROVE  Truthful(g.event)'
    <3>1. CASE g \in dialers
      <4>1. Truthful(g.event)
        BY <2>3, <3>1 DEF IInv, EventInv
      <4>2. QED
        BY <2>1, <4>1 DEF Truthful, Made
    <3>2. CASE g = f
      BY <1>6, <2>2, <3>2 DEF Truthful, Made
    <3>3. QED
      BY <1>5, <3>1, <3>2
  <2>4. \A n \in 1 .. Len(hub_chann) :
          LET x == hub_chann[n]
          IN  /\ x.type = "af" => Truthful(x)
              /\ x.type = "close" => x.conn \in Conns
              /\ x.type = "add" => x.addr \in Addrs
              /\ x.type = "rm" => x.addr \in Addrs
              /\ x.type = "send2" => x.id \in Ids
    BY DEF IInv, EventInv
  <2>5. QED
    BY <1>2, <2>1, <2>3, <2>4 DEF EventInv, Truthful, Made
<1>19. FreshInv'
  <2> SUFFICES ASSUME NEW b \in Conns
               PROVE  /\ ~(Carried(b)' /\ InFlight(b, "af")')
                      /\ Carried(b)' \/ InFlight(b, "af")' =>
                           /\ \A a \in Addrs : ~Filed(b, a)'
                           /\ run'[b] \in {"draining", "stuck"}
                           /\ send_chann'[b] = 0
                           /\ ~shut'[b]
    BY <1>11, <1>12, OnceFacts DEF FreshInv, Fresh
  <2>1. CASE b = c
    BY <1>2, <1>9, <1>12, <1>13, <1>15, <2>1
  <2>2. CASE b # c
    BY <1>2, <1>10, <1>12, <1>13, <1>15, <2>2 DEF IInv, FreshInv, Fresh
  <2>3. QED
    BY <2>1, <2>2
<1>20. FiledInv'
  <2>1. \A b \in Conns, a \in Addrs : Filed(b, a)' => run'[b] # "none"
    BY <1>13, <1>15 DEF IInv, FiledInv
  <2>2. ASSUME NEW b \in Conns, run'[b] # "none", hub' # "closing"
        PROVE  shut'[b] \/ Fresh(b)' \/ \E a \in Addrs : Filed(b, a)'
    <3>1. CASE b = c
      BY <1>10, <3>1 DEF Fresh
    <3>2. CASE b # c
      <4>1. shut[b] \/ Fresh(b) \/ \E a \in Addrs : Filed(b, a)
        BY <1>2, <1>15, <2>2, <3>2 DEF IInv, FiledInv, Made
      <4>2. QED
        BY <1>2, <1>10, <1>12, <1>13, <4>1 DEF Fresh
    <3>3. QED
      BY <3>1, <3>2
  <2>3. QED
    BY <1>2, <1>13, <2>1, <2>2, OnceFacts DEF IInv, FiledInv, Made
<1>21. EndInv'
  BY <1>2, <1>9, <1>12, <1>13, <1>15, OnceFacts DEF IInv, EndInv
<1>22. IndexInv'
  <2> SUFFICES ASSUME NEW i \in Ids, conns_id_map[i] # NoConn
               PROVE  /\ connect_id'[conns_id_map[i]] = i
                      /\ \E a \in Addrs : Filed(conns_id_map[i], a)
    BY <1>2 DEF IndexInv, Filed
  <2>1. conns_id_map[i] \in Conns /\ conns_id_map[i] # c
    BY <1>9 DEF IInv, TypeOK
  <2>2. QED
    BY <1>15, <2>1 DEF IInv, IndexInv
<1>23. PanicNeedsMisfiled'
  BY <1>2, <1>9, <1>13, <1>15 DEF IInv, PanicNeedsMisfiled, Made
<1>24. QED
  BY <1>16, <1>17, <1>18, <1>19, <1>20, <1>21, <1>22, <1>23 DEF IInv

\* What each event must be, when it is one that was there or the new one, e.
LEMMA PostedEvents ==
  ASSUME IInv, NEW e \in Events, e.type = "af" => Truthful(e), e.type = "close" => e.conn \in Conns,
         e.type \in {"af", "close"},
         \A n \in 1 .. Len(hub_chann') :
           hub_chann'[n] = e \/ (n \in 1 .. Len(hub_chann) /\ hub_chann'[n] = hub_chann[n]),
         \A d \in dialers' : d \in dialers \/ d.at # "posting",
         \A c \in Conns : run[c] # "none" => run'[c] # "none",
         UNCHANGED <<remote_addr, connect_id, loopAddr>>
  PROVE  EventInv'
<1>1. \A x : Truthful(x) =>
        /\ x.conn \in Conns /\ run'[x.conn] # "none"
        /\ x.id \in Ids
        /\ connect_id'[x.conn] = x.id
        /\ x.addr # remote_addr'[x.conn] => loopAddr' # <<>>
  BY DEF Truthful, Made
<1>2. \A d \in dialers' : d.at = "posting" => Truthful(d.event)
  BY DEF IInv, EventInv
<1>3. ASSUME NEW n \in 1 .. Len(hub_chann')
      PROVE  LET x == hub_chann'[n]
             IN  /\ x.type = "af" => Truthful(x)
                 /\ x.type = "close" => x.conn \in Conns
                 /\ x.type = "add" => x.addr \in Addrs
                 /\ x.type = "rm" => x.addr \in Addrs
                 /\ x.type = "send2" => x.id \in Ids
  <2>1. CASE hub_chann'[n] = e
    BY <2>1
  <2>2. CASE n \in 1 .. Len(hub_chann) /\ hub_chann'[n] = hub_chann[n]
    BY <2>2 DEF IInv, EventInv
  <2>3. QED
    BY <2>1, <2>2
<1>4. QED
  BY <1>1, <1>2, <1>3 DEF EventInv, Truthful, Made

LEMMA DialerPostsStep ==
  ASSUME IInv, hub # "panic", NEW d \in dialers, DialerPosts(d)
  PROVE  IInv'
<1> DEFINE e == d.event
           c == e.conn
<1>1. /\ d.at = "posting" /\ PostEvent(e) /\ Loop(d, d.i + 1)
      /\ UNCHANGED <<hub, todo, conns_map, known, conns_id_map, loopAddr, unlinked,
                     auto_incs, asleep, run, remote_addr, connect_id, send_chann, shut, calls>>
  BY DEF DialerPosts, hubVars, connVars
<1>2. d \in Goroutines /\ e \in Events
  BY AddrFacts DEF Goroutines
<1>3. e.type = "af" /\ Truthful(e)
  BY <1>1 DEF IInv, DialerInv, EventInv
<1>4. c \in Conns /\ c # NoConn
  BY <1>3, ConnPoolAssumption DEF Truthful, Made, Conns, NoConn
<1>5. PICK f \in Goroutines :
        /\ f.round = d.round /\ f.at = "next" /\ f.event = NoEvent
        /\ dialers' = dialers \ {d} \/ Become(d, f)
  BY <1>1, LoopFacts
<1>6. dialers' = dialers \ {d} \/ dialers' = (dialers \ {d}) \cup {f}
  BY <1>5 DEF Become
<1>7. Carried(c) /\ CarriedOnce(c)
  BY <1>4, OnceFacts DEF Carried
<1>8. /\ ~InFlight(c, "af") /\ run[c] \in {"draining", "stuck"} /\ send_chann[c] = 0 /\ ~shut[c]
      /\ \A a \in Addrs : ~Filed(c, a)
  BY <1>4, <1>7 DEF IInv, FreshInv, Fresh
<1>9. \A b \in Conns : (Carried(b)' <=> Carried(b) /\ b # c) /\ CarriedOnce(b)'
  <2>1. \A g \in dialers : g.event.conn = c => g = d
    BY <1>7 DEF CarriedOnce
  <2>2. \A b \in Conns : b # NoConn
    BY ConnPoolAssumption DEF Conns, NoConn
  <2>3. ASSUME NEW b \in Conns
        PROVE  Carried(b)' <=> Carried(b) /\ b # c
    BY <1>5, <1>6, <2>1, <2>2, NoEventFacts DEF Carried
  <2>4. ASSUME NEW b \in Conns
        PROVE  CarriedOnce(b)'
    <3>1. CarriedOnce(b)
      BY OnceFacts
    <3>2. QED
      BY <1>5, <1>6, <2>2, <3>1, NoEventFacts DEF CarriedOnce
  <2>5. QED
    BY <2>3, <2>4
<1> HIDE DEF e, c
<1>10. /\ hub_chann' \in Seq(Events) /\ Len(hub_chann') <= HubCap
       /\ \A n \in 1 .. Len(hub_chann') :
            hub_chann'[n] = e \/ (n \in 1 .. Len(hub_chann) /\ hub_chann'[n] = hub_chann[n])
       /\ \A b, type : InFlight(b, type)' <=> InFlight(b, type) \/ Is(e, type, b)
       /\ \A b, type :
            Once(b, type) /\ (Is(e, type, b) => ~InFlight(b, type)) => Once(b, type)'
  BY <1>1, <1>2, PostFlight DEF IInv
<1>11. \A b \in Conns :
         /\ InFlight(b, "af")' <=> InFlight(b, "af") \/ b = c
         /\ InFlight(b, "close")' <=> InFlight(b, "close")
         /\ Once(b, "af")' /\ Once(b, "close")'
  <2>1. \A b : ~Is(e, "close", b) /\ (Is(e, "af", b) <=> b = c)
    BY <1>3 DEF Is, c
  <2>2. QED
    BY <1>8, <1>10, <2>1, OnceFacts
<1>12. \A b : (\A a \in Addrs : Filed(b, a)' <=> Filed(b, a)) /\ (FiledOnce(b)' <=> FiledOnce(b))
  BY <1>1, SameLists
<1>13. \A b \in Conns : Fresh(b)' <=> Fresh(b)
  BY <1>7, <1>9, <1>11 DEF Fresh
<1>14. TypeOK'
  <2>1. dialers' \subseteq Goroutines
    BY <1>5, <1>6 DEF IInv, TypeOK
  <2>2. QED
    BY <1>1, <1>10, <2>1 DEF IInv, TypeOK
<1>15. DialerInv'
  BY <1>1, <1>5, <1>6 DEF IInv, DialerInv
<1>16. EventInv'
  BY <1>1, <1>2, <1>3, <1>5, <1>6, <1>10, PostedEvents
<1>17. FreshInv'
  <2>1. \A b \in Conns : ~(Carried(b)' /\ InFlight(b, "af")')
    BY <1>9, <1>11 DEF IInv, FreshInv
  <2>2. \A b \in Conns : Fresh(b) =>
          /\ \A a \in Addrs : ~Filed(b, a)
          /\ run[b] \in {"draining", "stuck"} /\ send_chann[b] = 0 /\ ~shut[b]
    BY DEF IInv, FreshInv
  <2>3. QED
    BY <1>1, <1>9, <1>11, <1>12, <1>13, <2>1, <2>2 DEF FreshInv
<1>18. FiledInv'
  BY <1>1, <1>12, <1>13 DEF IInv, FiledInv, Made
<1>19. EndInv'
  BY <1>1, <1>11, <1>12 DEF IInv, EndInv
<1>20. IndexInv'
  BY <1>1 DEF IInv, IndexInv, Filed
<1>21. PanicNeedsMisfiled'
  BY <1>1, <1>12 DEF IInv, PanicNeedsMisfiled, Made
<1>22. QED
  BY <1>14, <1>15, <1>16, <1>17, <1>18, <1>19, <1>20, <1>21 DEF IInv

LEMMA PostCloseStep ==
  ASSUME IInv, hub # "panic", NEW c \in Conns, PostClose(c)
  PROVE  IInv'
<1> DEFINE e == Event("close", remote_addr[c], c, 0)
<1>1. /\ run[c] = "ending" /\ PostEvent(e) /\ run' = [run EXCEPT ![c] = "ended"]
      /\ UNCHANGED <<hub, todo, conns_map, known, conns_id_map, loopAddr, unlinked,
                     auto_incs, asleep, dialers, remote_addr, connect_id, send_chann, shut, calls>>
  BY DEF PostClose, hubVars
<1>2. e \in Events /\ e.type = "close" /\ e.conn = c
  BY DEF IInv, TypeOK, Event, Events, Types
<1> HIDE DEF e
<1>3. run \in [Conns -> {"none", "draining", "stuck", "ending", "ended", "dropped"}]
  BY DEF IInv, TypeOK
<1>4. run'[c] = "ended" /\ \A b \in Conns : b # c => run'[b] = run[b]
  BY <1>1, <1>3
<1>5. ~Fresh(c) /\ ~InFlight(c, "close") /\ ~shut[c]
  BY <1>1 DEF IInv, FreshInv, EndInv
<1>6. /\ hub_chann' \in Seq(Events) /\ Len(hub_chann') <= HubCap
      /\ \A n \in 1 .. Len(hub_chann') :
           hub_chann'[n] = e \/ (n \in 1 .. Len(hub_chann) /\ hub_chann'[n] = hub_chann[n])
      /\ \A b, type : InFlight(b, type)' <=> InFlight(b, type) \/ Is(e, type, b)
      /\ \A b, type :
           Once(b, type) /\ (Is(e, type, b) => ~InFlight(b, type)) => Once(b, type)'
  BY <1>1, <1>2, PostFlight DEF IInv
<1>7. \A b \in Conns :
        /\ InFlight(b, "af")' <=> InFlight(b, "af")
        /\ InFlight(b, "close")' <=> InFlight(b, "close") \/ b = c
        /\ Once(b, "af")' /\ Once(b, "close")'
  <2>1. \A b : ~Is(e, "af", b) /\ (Is(e, "close", b) <=> b = c)
    BY <1>2 DEF Is
  <2>2. QED
    BY <1>5, <1>6, <2>1, OnceFacts
<1>8. \A b : (\A a \in Addrs : Filed(b, a)' <=> Filed(b, a)) /\ (FiledOnce(b)' <=> FiledOnce(b))
  BY <1>1, SameLists
<1>9. \A b : (Carried(b)' <=> Carried(b)) /\ (CarriedOnce(b)' <=> CarriedOnce(b))
  BY <1>1 DEF Carried, CarriedOnce
<1>10. \A b \in Conns : Fresh(b)' <=> Fresh(b)
  BY <1>7, <1>9 DEF Fresh
<1>11. TypeOK'
  <2>1. run' \in [Conns -> {"none", "draining", "stuck", "ending", "ended", "dropped"}]
    BY <1>1, <1>3
  <2>2. QED
    BY <1>1, <1>6, <2>1 DEF IInv, TypeOK
<1>12. DialerInv'
  BY <1>1 DEF IInv, DialerInv
<1>13. EventInv'
  BY <1>1, <1>2, <1>4, <1>6, PostedEvents
<1>14. FreshInv'
  <2>1. ASSUME NEW b \in Conns
        PROVE  /\ ~(Carried(b) /\ InFlight(b, "af"))
               /\ CarriedOnce(b)
               /\ Fresh(b) =>
                    /\ \A a \in Addrs : ~Filed(b, a)
                    /\ run[b] \in {"draining", "stuck"} /\ send_chann[b] = 0 /\ ~shut[b]
    BY DEF IInv, FreshInv
  <2>2. QED
    BY <1>1, <1>4, <1>5, <1>7, <1>8, <1>9, <1>10, <2>1 DEF FreshInv
<1>15. FiledInv'
  <2>1. \A b \in Conns : (run'[b] # "none") <=> (run[b] # "none")
    BY <1>1, <1>4
  <2>2. QED
    BY <1>1, <1>8, <1>10, <2>1 DEF IInv, FiledInv, Made
<1>16. EndInv'
  BY <1>1, <1>4, <1>5, <1>7, <1>8 DEF IInv, EndInv
<1>17. IndexInv'
  BY <1>1 DEF IInv, IndexInv, Filed
<1>18. PanicNeedsMisfiled'
  BY <1>1, <1>4, <1>8 DEF IInv, PanicNeedsMisfiled, Made
<1>19. QED
  BY <1>11, <1>12, <1>13, <1>14, <1>15, <1>16, <1>17, <1>18 DEF IInv

\* The events left when the hub has taken one, the connections being what they were.
LEMMA TakenEvents ==
  ASSUME IInv, NEW t, Take(t), UNCHANGED <<dialers, run, remote_addr, connect_id, loopAddr>>
  PROVE  /\ EventInv'
         /\ \A c \in Conns : Once(c, "af")' /\ Once(c, "close")'
<1>1. /\ \A n \in 1 .. Len(hub_chann') :
           n + 1 \in 1 .. Len(hub_chann) /\ hub_chann'[n] = hub_chann[n + 1]
      /\ \A c, type : Once(c, type) => Once(c, type)'
  BY TakeFlight DEF IInv
<1>2. \A n \in 1 .. Len(hub_chann') :
        \E m \in 1 .. Len(hub_chann) : hub_chann'[n] = hub_chann[m]
  BY <1>1
<1>3. EventInv'
  BY <1>2, SameEventsStep DEF RunsOn
<1>4. QED
  BY <1>1, <1>3, OnceFacts

LEMMA DoAfterConnsStep ==
  ASSUME IInv, hub # "panic", DoAfterConns
  PROVE  IInv'
<1> DEFINE e == Head(hub_chann)
           c == e.conn
<1>1. /\ Take("af") /\ hub = "idle"
      /\ UNCHANGED <<todo, known, loopAddr, unlinked, auto_incs, asleep, dialers,
                     run, remote_addr, connect_id, send_chann, shut, calls>>
  BY DEF DoAfterConns, Take, connVars
<1>2. e.type = "af" /\ Truthful(e) /\ InFlight(c, "af")
  BY <1>1, HeadFacts
<1>3. c \in Conns /\ c # NoConn
  BY <1>2, ConnPoolAssumption DEF Truthful, Made, Conns, NoConn
<1>4. /\ ~Carried(c) /\ run[c] \in {"draining", "stuck"} /\ send_chann[c] = 0 /\ ~shut[c]
      /\ \A a \in Addrs : ~Filed(c, a)
  BY <1>2, <1>3 DEF IInv, FreshInv, Fresh
<1>5. /\ hub_chann' \in Seq(Events) /\ Len(hub_chann') <= HubCap
      /\ \A b, type : InFlight(b, type)' => InFlight(b, type)
      /\ \A b, type : InFlight(b, type) /\ ~Is(e, type, b) => InFlight(b, type)'
      /\ \A b, type : Once(b, type) /\ Is(e, type, b) => ~InFlight(b, type)'
  BY <1>1, TakeFlight DEF IInv
<1>6. \A b \in Conns :
        /\ InFlight(b, "af")' <=> InFlight(b, "af") /\ b # c
        /\ InFlight(b, "close")' <=> InFlight(b, "close")
  <2>1. \A b : ~Is(e, "close", b) /\ (Is(e, "af", b) <=> b = c)
    BY <1>2 DEF Is
  <2>2. QED
    BY <1>3, <1>5, <2>1, OnceFacts
<1>7. EventInv' /\ \A b \in Conns : Once(b, "af")' /\ Once(b, "close")'
  BY <1>1, TakenEvents
<1>8. \A b : (Carried(b)' <=> Carried(b)) /\ (CarriedOnce(b)' <=> CarriedOnce(b))
  BY <1>1 DEF Carried, CarriedOnce
<1>9. \A b \in Conns : Fresh(b)' <=> Fresh(b) /\ b # c
  BY <1>4, <1>6, <1>8 DEF Fresh
<1>10. DialerInv'
  <2>1. hub' \in {"idle", "closing"}
    BY <1>1 DEF DoAfterConns, CloseConn
  <2>2. QED
    BY <1>1, <2>1 DEF IInv, DialerInv
<1>11. \A b \in Conns :
         /\ CarriedOnce(b)
         /\ ~(Carried(b) /\ InFlight(b, "af"))
         /\ Fresh(b) =>
              /\ \A a \in Addrs : ~Filed(b, a)
              /\ run[b] \in {"draining", "stuck"} /\ send_chann[b] = 0 /\ ~shut[b]
  BY DEF IInv, FreshInv
<1>12. CASE e.addr \notin known
  <2>1. hub' = "closing" /\ UNCHANGED <<conns_map, conns_id_map>>
    BY <1>12 DEF DoAfterConns, CloseConn
  <2>2. \A b : (\A a \in Addrs : Filed(b, a)' <=> Filed(b, a)) /\ (FiledOnce(b)' <=> FiledOnce(b))
    BY <2>1, SameLists
  <2>3. TypeOK'
    BY <1>1, <1>5, <2>1 DEF IInv, TypeOK
  <2>4. FreshInv'
    BY <1>1, <1>6, <1>7, <1>8, <1>9, <1>11, <2>2 DEF FreshInv
  <2>5. FiledInv'
    BY <1>1, <2>1, <2>2 DEF IInv, FiledInv
  <2>6. EndInv'
    BY <1>1, <1>6, <1>7, <2>2 DEF IInv, EndInv
  <2>7. IndexInv'
    BY <1>1, <2>1 DEF IInv, IndexInv, Filed
  <2>8. PanicNeedsMisfiled'
    BY <1>1, <2>1, <2>2 DEF IInv, PanicNeedsMisfiled, Made
  <2>9. QED
    BY <1>7, <1>10, <2>3, <2>4, <2>5, <2>6, <2>7, <2>8 DEF IInv
<1>13. CASE e.addr \in known
  <2>1. /\ conns_map' = [conns_map EXCEPT ![e.addr] = Append(@, c)]
        /\ conns_id_map' = [conns_id_map EXCEPT ![e.id] = c]
        /\ UNCHANGED hub
    BY <1>13 DEF DoAfterConns
  <2>2. e.addr \in Addrs /\ e.id \in Ids
    BY <1>2, <1>13 DEF Truthful, IInv, TypeOK
  <2>3. /\ conns_map' \in [Addrs -> Seq(Conns)]
        /\ \A a \in Addrs : a # e.addr => conns_map'[a] = conns_map[a]
        /\ \A b : \A a \in Addrs : Filed(b, a)' <=> Filed(b, a) \/ (b = c /\ a = e.addr)
        /\ \A b : FiledOnce(b) => FiledOnce(b)'
    BY <1>3, <1>4, <2>1, <2>2, AppendFiles DEF IInv
  <2>4. conns_id_map \in [Ids -> Conns \cup {NoConn}]
    BY DEF IInv, TypeOK
  <2>5. TypeOK'
    <3>1. conns_id_map' \in [Ids -> Conns \cup {NoConn}]
      BY <1>3, <2>1, <2>4
    <3>2. QED
      BY <1>1, <1>5, <2>1, <2>3, <3>1 DEF IInv, TypeOK
  <2>6. FreshInv'
    BY <1>1, <1>6, <1>7, <1>8, <1>9, <1>11, <2>3 DEF FreshInv
  <2>7. FiledInv'
    <3>1. \A a \in Addrs : a \notin known' => conns_map'[a] = <<>>
      BY <1>1, <1>13, <2>3 DEF IInv, FiledInv
    <3>2. \A b \in Conns, a \in Addrs : Filed(b, a)' => run'[b] # "none"
      BY <1>1, <1>4, <2>3 DEF IInv, FiledInv
    <3>3. \A b \in Conns : FiledOnce(b)'
      BY <2>3, OnceFacts
    <3>4. ASSUME NEW b \in Conns, run[b] # "none"
          PROVE  shut[b] \/ Fresh(b)' \/ \E a \in Addrs : Filed(b, a)'
      <4>1. shut[b] \/ Fresh(b) \/ \E a \in Addrs : Filed(b, a)
        BY <1>1, <3>4 DEF IInv, FiledInv, Made
      <4>2. CASE b = c
        BY <2>2, <2>3, <4>2
      <4>3. CASE b # c
        BY <1>9, <2>3, <4>1, <4>3
      <4>4. QED
        BY <4>2, <4>3
    <3>5. QED
      BY <1>1, <3>1, <3>2, <3>3, <3>4 DEF FiledInv, Made
  <2>8. EndInv'
    BY <1>1, <1>4, <1>6, <1>7, <2>3 DEF IInv, EndInv
  <2>9. IndexInv'
    <3> SUFFICES ASSUME NEW i \in Ids, conns_id_map'[i] # NoConn
                 PROVE  /\ connect_id[conns_id_map'[i]] = i
                        /\ \E a \in Addrs : Has(conns_map'[a], conns_id_map'[i])
      BY <1>1 DEF IndexInv, Filed, Has
    <3>1. \A b : \A a \in Addrs : Filed(b, a)' <=> Has(conns_map'[a], b)
      BY DEF Filed, Has
    <3>2. CASE i = e.id
      <4>1. conns_id_map'[i] = c
        BY <2>1, <2>4, <3>2
      <4>2. connect_id[c] = i
        BY <1>2, <3>2 DEF Truthful
      <4>3. Has(conns_map'[e.addr], c)
        BY <2>2, <2>3, <3>1
      <4>4. QED
        BY <2>2, <4>1, <4>2, <4>3
    <3>3. CASE i # e.id
      <4>1. conns_id_map'[i] = conns_id_map[i]
        BY <2>1, <2>4, <3>3
      <4>2. PICK a \in Addrs : Filed(conns_id_map[i], a)
        BY <4>1 DEF IInv, IndexInv
      <4>3. Has(conns_map'[a], conns_id_map[i])
        BY <2>3, <3>1, <4>2
      <4>4. connect_id[conns_id_map[i]] = i
        BY <4>1 DEF IInv, IndexInv
      <4>5. QED
        BY <4>1, <4>3, <4>4
    <3>4. QED
      BY <3>2, <3>3
  <2>10. PanicNeedsMisfiled'
    <3>1. hub' = "idle"
      BY <1>1, <2>1
    <3>2. ASSUME NEW b \in Made, NEW a \in Addrs, Filed(b, a)', remote_addr[b] # a
          PROVE  loopAddr # <<>>
      <4>1. CASE Filed(b, a)
        BY <3>2, <4>1 DEF IInv, PanicNeedsMisfiled
      <4>2. CASE b = c /\ a = e.addr
        BY <1>2, <3>2, <4>2 DEF Truthful
      <4>3. QED
        BY <2>3, <3>2, <4>1, <4>2
    <3>3. QED
      BY <1>1, <3>1, <3>2 DEF PanicNeedsMisfiled, Made
  <2>11. QED
    BY <1>7, <1>10, <2>5, <2>6, <2>7, <2>8, <2>9, <2>10 DEF IInv
<1>14. QED
  BY <1>12, <1>13

LEMMA DoCloseConnsStep ==
  ASSUME IInv, hub # "panic", DoCloseConns
  PROVE  IInv'
<1> DEFINE e == Head(hub_chann)
           c == e.conn
           o == remote_addr[c]
<1>1. /\ Take("close") /\ hub = "idle"
      /\ shut' = [shut EXCEPT ![c] = TRUE]
      /\ send_chann' = [send_chann EXCEPT ![c] = 0]
      /\ UNCHANGED <<hub, todo, known, loopAddr, unlinked,
                     auto_incs, asleep, dialers, run, remote_addr, connect_id, calls>>
  BY DEF DoCloseConns, Take
<1>2. e.type = "close" /\ c \in Conns /\ InFlight(c, "close")
  BY <1>1, HeadFacts
<1>3. run[c] = "ended" /\ ~shut[c] /\ ~Fresh(c)
  BY <1>2 DEF IInv, EndInv, FreshInv
<1>4. /\ hub_chann' \in Seq(Events) /\ Len(hub_chann') <= HubCap
      /\ \A b, type : InFlight(b, type)' => InFlight(b, type)
      /\ \A b, type : InFlight(b, type) /\ ~Is(e, type, b) => InFlight(b, type)'
      /\ \A b, type : Once(b, type) /\ Is(e, type, b) => ~InFlight(b, type)'
  BY <1>1, TakeFlight DEF IInv
<1>5. \A b \in Conns :
        /\ InFlight(b, "af")' <=> InFlight(b, "af")
        /\ InFlight(b, "close")' <=> InFlight(b, "close") /\ b # c
  <2>1. \A b : ~Is(e, "af", b) /\ (Is(e, "close", b) <=> b = c)
    BY <1>2 DEF Is
  <2>2. QED
    BY <1>2, <1>4, <2>1, OnceFacts
<1>6. EventInv' /\ \A b \in Conns : Once(b, "af")' /\ Once(b, "close")'
  BY <1>1, TakenEvents
<1>7. \A b : (Carried(b)' <=> Carried(b)) /\ (CarriedOnce(b)' <=> CarriedOnce(b))
  BY <1>1 DEF Carried, CarriedOnce
<1>8. \A b \in Conns : Fresh(b)' <=> Fresh(b)
  BY <1>5, <1>7 DEF Fresh
<1>9. /\ shut \in [Conns -> BOOLEAN]
      /\ send_chann \in [Conns -> 0 .. SendCap] /\ 0 \in 0 .. SendCap
      /\ conns_id_map \in [Ids -> Conns \cup {NoConn}]
  BY ConnPoolAssumption DEF IInv, TypeOK
<1>10. /\ shut'[c] /\ send_chann'[c] = 0
       /\ \A b \in Conns : b # c => (shut'[b] <=> shut[b]) /\ send_chann'[b] = send_chann[b]
  BY <1>1, <1>2, <1>9
\* c leaves its own list and the index, or is not there.
<1>11. /\ conns_map' \in [Addrs -> Seq(Conns)]
       /\ \A a \in Addrs : conns_map[a] = <<>> => conns_map'[a] = <<>>
       /\ \A b : \A a \in Addrs : Filed(b, a)' <=> Filed(b, a) /\ ~(b = c /\ a = o)
       /\ \A b : FiledOnce(b) => FiledOnce(b)'
       /\ conns_id_map' \in [Ids -> Conns \cup {NoConn}]
       /\ \A i \in Ids : conns_id_map'[i] = conns_id_map[i] \/ conns_id_map'[i] = NoConn
       /\ \A b : b = c => (\E a \in Addrs : Filed(b, a)') \/ \A i \in Ids : conns_id_map'[i] # b
  <2>1. CASE o \in known /\ Filed(c, o)
    <3>1. Unlist(c, o) /\ conns_id_map' = [conns_id_map EXCEPT ![connect_id[c]] = NoConn]
      BY <2>1 DEF DoCloseConns, Unindex
    <3>2. o \in Addrs /\ FiledOnce(c)
      BY <1>2, <2>1, OnceFacts DEF IInv, TypeOK
    <3>3. /\ conns_map' \in [Addrs -> Seq(Conns)]
          /\ \A a \in Addrs : a # o => conns_map'[a] = conns_map[a]
          /\ \A b : \A a \in Addrs : Filed(b, a)' <=> Filed(b, a) /\ ~(b = c /\ a = o)
          /\ \A b : FiledOnce(b) => FiledOnce(b)'
      BY <3>1, <3>2, UnlistFiles DEF IInv
    <3>4. conns_map[o] # <<>>
      BY <2>1 DEF Filed
    <3>5. /\ conns_id_map' \in [Ids -> Conns \cup {NoConn}]
          /\ \A i \in Ids : conns_id_map'[i] = IF i = connect_id[c] THEN NoConn ELSE conns_id_map[i]
      BY <1>9, <3>1
    <3>6. \A i \in Ids : conns_id_map'[i] # c
      <4>1. c # NoConn
        BY <1>2, ConnPoolAssumption DEF Conns, NoConn
      <4>2. QED
        BY <3>5, <4>1 DEF IInv, IndexInv
    <3>7. QED
      BY <3>3, <3>4, <3>5, <3>6
  <2>2. CASE ~(o \in known /\ Filed(c, o))
    <3>1. UNCHANGED <<conns_map, conns_id_map>>
      BY <2>2 DEF DoCloseConns
    <3>2. o \in Addrs => ~Filed(c, o)
      BY <2>2 DEF IInv, FiledInv, Filed
    <3>3. \A b : (\A a \in Addrs : Filed(b, a)' <=> Filed(b, a)) /\ (FiledOnce(b)' <=> FiledOnce(b))
      BY <3>1, SameLists
    <3>4. (\E a \in Addrs : Filed(c, a)) \/ \A i \in Ids : conns_id_map[i] # c
      <4>1. c # NoConn
        BY <1>2, ConnPoolAssumption DEF Conns, NoConn
      <4>2. QED
        BY <4>1 DEF IInv, IndexInv
    <3>5. QED
      BY <1>9, <3>1, <3>2, <3>3, <3>4 DEF IInv, TypeOK
  <2>3. QED
    BY <2>1, <2>2
<1>12. TypeOK'
  <2>1. shut' \in [Conns -> BOOLEAN] /\ send_chann' \in [Conns -> 0 .. SendCap]
    BY <1>1, <1>9
  <2>2. QED
    BY <1>1, <1>4, <1>11, <2>1 DEF IInv, TypeOK
<1>13. DialerInv'
  BY <1>1 DEF IInv, DialerInv
<1>14. FreshInv'
  <2>1. \A b \in Conns :
          /\ CarriedOnce(b)
          /\ ~(Carried(b) /\ InFlight(b, "af"))
          /\ Fresh(b) =>
               /\ \A a \in Addrs : ~Filed(b, a)
               /\ run[b] \in {"draining", "stuck"} /\ send_chann[b] = 0 /\ ~shut[b]
    BY DEF IInv, FreshInv
  <2>2. QED
    BY <1>1, <1>3, <1>5, <1>6, <1>7, <1>8, <1>10, <1>11, <2>1 DEF FreshInv
<1>15. FiledInv'
  <2>1. ASSUME NEW b \in Conns, run[b] # "none"
        PROVE  shut'[b] \/ Fresh(b)' \/ \E a \in Addrs : Filed(b, a)'
    <3>1. shut[b] \/ Fresh(b) \/ \E a \in Addrs : Filed(b, a)
      BY <1>1, <2>1 DEF IInv, FiledInv, Made
    <3>2. QED
      BY <1>8, <1>10, <1>11, <3>1
  <2>2. \A a \in Addrs : a \notin known' => conns_map'[a] = <<>>
    BY <1>1, <1>11 DEF IInv, FiledInv
  <2>3. \A b \in Conns, a \in Addrs : Filed(b, a)' => run'[b] # "none"
    BY <1>1, <1>11 DEF IInv, FiledInv
  <2>4. \A b \in Conns : FiledOnce(b)'
    BY <1>11, OnceFacts
  <2>5. QED
    BY <1>1, <2>1, <2>2, <2>3, <2>4 DEF FiledInv, Made
<1>16. EndInv'
  <2> SUFFICES ASSUME NEW b \in Conns
               PROVE  /\ InFlight(b, "close")' => run'[b] = "ended" /\ ~shut'[b]
                      /\ shut'[b] => run'[b] = "ended"
                                      /\ \A a \in Addrs : Filed(b, a)' => remote_addr'[b] # a
                      /\ run'[b] = "none" => send_chann'[b] = 0
    BY <1>6 DEF EndInv
  <2>1. CASE b = c
    BY <1>1, <1>3, <1>5, <1>10, <1>11, <2>1
  <2>2. CASE b # c
    BY <1>1, <1>5, <1>10, <1>11, <2>2 DEF IInv, EndInv
  <2>3. QED
    BY <2>1, <2>2
<1>17. IndexInv'
  <2> SUFFICES ASSUME NEW i \in Ids, conns_id_map'[i] # NoConn
               PROVE  /\ connect_id[conns_id_map'[i]] = i
                      /\ \E a \in Addrs : Has(conns_map'[a], conns_id_map'[i])
    BY <1>1 DEF IndexInv, Filed, Has
  <2>1. \A b : \A a \in Addrs : Filed(b, a)' <=> Has(conns_map'[a], b)
    BY DEF Filed, Has
  <2>2. conns_id_map'[i] = conns_id_map[i] /\ connect_id[conns_id_map[i]] = i
    BY <1>11 DEF IInv, IndexInv
  <2>3. CASE conns_id_map[i] = c
    BY <1>11, <2>1, <2>2, <2>3
  <2>4. CASE conns_id_map[i] # c
    <3>1. PICK a \in Addrs : Filed(conns_id_map[i], a)
      BY <2>2 DEF IInv, IndexInv
    <3>2. QED
      BY <1>11, <2>1, <2>2, <2>4, <3>1
  <2>5. QED
    BY <2>3, <2>4
<1>18. PanicNeedsMisfiled'
  BY <1>1, <1>11 DEF IInv, PanicNeedsMisfiled, Made
<1>19. QED
  BY <1>6, <1>12, <1>13, <1>14, <1>15, <1>16, <1>17, <1>18 DEF IInv

-----------------------------------------------------------------------------
(* The invariant.                                                          *)

LEMMA InitIInv == Init => IInv
<1> SUFFICES ASSUME Init
             PROVE  IInv
  OBVIOUS
<1>1. TypeOK
  <2>1. \A S : <<>> \in Seq(S) /\ Len(<<>>) = 0
    OBVIOUS
  <2>2. conns_map \in [Addrs -> Seq(Conns)]
    BY <2>1 DEF Init
  <2>3. HubCap \in Nat /\ SendCap \in Nat /\ MaxCalls \in Nat
    BY ConnPoolAssumption
  <2>4. calls \in 0 .. MaxCalls /\ send_chann \in [Conns -> 0 .. SendCap]
    BY <2>3 DEF Init
  <2>5. QED
    BY <2>1, <2>2, <2>3, <2>4 DEF Init, TypeOK
<1>2. Len(hub_chann) = 0 /\ \A a \in Addrs : Len(conns_map[a]) = 0
  BY DEF Init
<1>3. \A c : /\ ~Carried(c) /\ CarriedOnce(c)
            /\ \A type : ~InFlight(c, type) /\ Once(c, type)
            /\ FiledOnce(c) /\ \A a \in Addrs : ~Filed(c, a)
  BY <1>2 DEF Init, Carried, CarriedOnce, InFlight, Once, FiledOnce, Filed
<1>4. DialerInv /\ EventInv
  BY <1>2 DEF Init, DialerInv, EventInv
<1>5. FreshInv /\ FiledInv /\ EndInv
  BY <1>3 DEF Init, FreshInv, FiledInv, EndInv, Fresh, Made
<1>6. IndexInv /\ PanicNeedsMisfiled
  BY DEF Init, IndexInv, PanicNeedsMisfiled, Made
<1>7. QED
  BY <1>1, <1>4, <1>5, <1>6 DEF IInv

LEMMA NextIInv == IInv /\ [Next]_vars => IInv'
<1> SUFFICES ASSUME IInv, [Next]_vars
             PROVE  IInv'
  OBVIOUS
<1>1. CASE UNCHANGED vars
  <2> USE <1>1 DEF vars, hubVars, connVars
  <2>1. TypeOK'
    BY DEF IInv, TypeOK
  <2>2. DialerInv'
    BY DEF IInv, DialerInv
  <2>3. EventInv'
    BY DEF IInv, EventInv, Truthful, Made
  <2>4. FreshInv'
    BY DEF IInv, FreshInv, CarriedOnce, Once, Carried, InFlight, Fresh, Filed
  <2>5. FiledInv'
    BY DEF IInv, FiledInv, Filed, FiledOnce, Made, Fresh, Carried, InFlight
  <2>6. EndInv'
    BY DEF IInv, EndInv, Once, InFlight, Filed
  <2>7. IndexInv' /\ PanicNeedsMisfiled'
    BY DEF IInv, IndexInv, PanicNeedsMisfiled, Filed, Made
  <2>8. QED
    BY <2>1, <2>2, <2>3, <2>4, <2>5, <2>6, <2>7 DEF IInv
<1>2. CASE Next
  <2>1. hub # "panic"
    BY <1>2 DEF Next
  <2>2. CASE UserCall
    BY <2>1, <2>2, UserCallStep
  <2>3. CASE AlarmRings
    BY <2>1, <2>3, AlarmRingsStep
  <2>4. CASE HubStep
    BY <2>1, <2>4, DoAddConnsStep, DoRmConnsStep, DoSendDataStep, DoSendData2Step,
      DoAfterConnsStep, DoCloseConnsStep, DoAlramConnsStep, AlramLoopStep, AlramEndStep
      DEF HubStep
  <2>5. ASSUME NEW d \in dialers, DialerStep(d)
        PROVE  IInv'
    BY <2>1, <2>5, DialStep, DialedStep, DialFailsStep, DialerPostsStep DEF DialerStep
  <2>6. ASSUME NEW c \in Conns, Run(c)
        PROVE  IInv'
    BY <2>1, <2>6, RunStep, PostCloseStep DEF Run
  <2>7. QED
    BY <1>2, <2>2, <2>3, <2>4, <2>5, <2>6 DEF Next
<1>3. QED
  BY <1>1, <1>2

\* IInv holds at every step of the hub, of the dialing goroutines and of the
\* connections.
THEOREM Inductive == Spec => []IInv
  BY InitIInv, NextIInv, PTL DEF Spec

\* The pool's maps, queues and goroutines always have the values Go's types and
\* the capacities of its channels allow.
THEOREM TypeCorrect == Spec => []TypeOK
<1>1. IInv => TypeOK
  BY DEF IInv
<1>2. QED
  BY <1>1, Inductive, PTL

-----------------------------------------------------------------------------
(* What the hub lets go of, and what its index misses.                     *)

LEMMA PostKeeps ==
  ASSUME TypeOK, NEW e, PostEvent(e), NEW c, NEW type, InFlight(c, type)
  PROVE  InFlight(c, type)'
<1>1. hub_chann \in Seq(Events \cup {e}) /\ e \in Events \cup {e}
  BY DEF TypeOK
<1>2. hub_chann' = Append(hub_chann, e)
  BY DEF PostEvent
<1>3. /\ Len(hub_chann) \in Nat /\ Len(hub_chann') = Len(hub_chann) + 1
      /\ \A n \in 1 .. Len(hub_chann) : hub_chann'[n] = hub_chann[n]
  BY <1>1, <1>2, AppendFacts
<1>4. PICK n \in 1 .. Len(hub_chann) : Is(hub_chann[n], type, c)
  BY DEF InFlight
<1>5. n \in 1 .. Len(hub_chann') /\ Is(hub_chann'[n], type, c)
  BY <1>3, <1>4
<1>6. QED
  BY <1>5 DEF InFlight

\* A step that leaves lists and closed channels alone, and loses no connection on its
\* way to the hub, lets go of none.
LEMMA KeepsLetGo ==
  ASSUME UNCHANGED <<conns_map, shut>>,
         \A c \in Conns : Fresh(c) => Fresh(c)',
         \A c \in Conns : run'[c] # "none" => run[c] # "none" \/ Fresh(c)'
  PROVE  \A c \in Conns : LetGo(c)' => LetGo(c)
<1>1. \A c : \A a \in Addrs : Filed(c, a)' <=> Filed(c, a)
  BY SameLists
<1>2. \A c \in Conns : Listed(c)' <=> Listed(c)
  BY <1>1 DEF Listed
<1>3. QED
  BY <1>2 DEF LetGo, Made

LEMMA SameDialersKeep ==
  ASSUME UNCHANGED dialers, \A c \in Conns : InFlight(c, "af") => InFlight(c, "af")'
  PROVE  \A c \in Conns : Fresh(c) => Fresh(c)'
  BY DEF Fresh, Carried

\* Only the hub lets go of a connection.
LEMMA OthersKeepLetGo ==
  ASSUME IInv,
         \/ UserCall \/ AlarmRings
         \/ \E d \in dialers : DialerStep(d)
         \/ \E c \in Conns : Run(c)
  PROVE  (\A c \in Conns : LetGo(c)' => LetGo(c)) /\ UNCHANGED hub
<1> USE DEF hubVars, connVars
<1>0. TypeOK /\ \A c \in Conns : run[c] \in {"none", "draining", "stuck", "ending", "ended", "dropped"}
  BY DEF IInv, TypeOK
<1>1. CASE UserCall \/ AlarmRings
  <2>1. /\ UNCHANGED <<hub, conns_map, shut, dialers, run>>
        /\ \E e : PostEvent(e)
    BY <1>1 DEF UserCall, AlarmRings
  <2>2. \A c \in Conns : InFlight(c, "af") => InFlight(c, "af")'
    BY <1>0, <2>1, PostKeeps
  <2>3. QED
    BY <2>1, <2>2, SameDialersKeep, KeepsLetGo
<1>2. ASSUME NEW d \in dialers, DialerStep(d)
      PROVE  (\A c \in Conns : LetGo(c)' => LetGo(c)) /\ UNCHANGED hub
  <2>1. UNCHANGED <<hub, conns_map, shut>>
    BY <1>2 DEF DialerStep, Dial, Dialed, DialFails, DialerPosts
  <2>2. NoConn \notin Conns
    BY ConnPoolAssumption DEF Conns, NoConn
  <2>3. CASE Dial(d) \/ DialFails(d)
    <3>1. UNCHANGED <<hub_chann, run>> /\ d.at # "posting"
      BY <2>3 DEF Dial, DialFails
    <3>2. d.event.conn = NoConn
      BY <3>1, NoEventFacts DEF IInv, DialerInv
    <3>3. \A b \in dialers : b # d => b \in dialers'
      BY <2>3 DEF Dial, DialFails, Become, Loop
    <3>4. \A c \in Conns : Fresh(c) => Fresh(c)'
      BY <2>2, <3>1, <3>2, <3>3, SameFlight DEF Fresh, Carried
    <3>5. QED
      BY <2>1, <3>1, <3>4, KeepsLetGo
  <2>4. CASE DialerPosts(d)
    <3>1. UNCHANGED run /\ PostEvent(d.event) /\ d.at = "posting"
      BY <2>4 DEF DialerPosts
    <3>2. d.event.type = "af" /\ d \in Goroutines /\ d.event \in Events
      BY <3>1 DEF IInv, DialerInv, TypeOK, Goroutines
    <3>3. \A b \in dialers : b # d => b \in dialers'
      BY <2>4 DEF DialerPosts, Become, Loop
    <3>4. \A c \in Conns : InFlight(c, "af")' <=> InFlight(c, "af") \/ d.event.conn = c
      BY <1>0, <3>1, <3>2, PostFlight DEF Is
    <3>5. \A c \in Conns : Fresh(c) => Fresh(c)'
      BY <3>3, <3>4 DEF Fresh, Carried
    <3>6. QED
      BY <2>1, <3>1, <3>5, KeepsLetGo
  <2>5. CASE Dialed(d)
    <3>1. PICK c \in Conns, id \in Ids :
            /\ run' = [run EXCEPT ![c] = "draining"]
            /\ Become(d, [d EXCEPT !.at = "posting", !.event = Event("af", AddrOf(d), c, id)])
      BY <2>5 DEF Dialed
    <3>2. UNCHANGED hub_chann /\ d.at = "dialing"
      BY <2>5 DEF Dialed
    <3>3. d.event.conn = NoConn /\ d \in Goroutines
      BY <3>2, NoEventFacts DEF IInv, DialerInv, TypeOK
    <3> DEFINE e == Event("af", AddrOf(d), c, id)
               f == [d EXCEPT !.at = "posting", !.event = e]
    <3>4. f.event = e /\ e.conn = c
      BY <3>3 DEF Goroutines, Event
    <3>5. dialers' = (dialers \ {d}) \cup {f}
      BY <3>1 DEF Become
    <3> HIDE DEF e, f
    <3>6. Carried(c)' /\ \A b \in Conns : Carried(b) => Carried(b)'
      BY <2>2, <3>3, <3>4, <3>5 DEF Carried
    <3>7. \A b \in Conns : Fresh(b) => Fresh(b)'
      BY <3>2, <3>6, SameFlight DEF Fresh
    <3>8. \A b \in Conns : run'[b] # "none" => run[b] # "none" \/ Fresh(b)'
      BY <1>0, <3>1, <3>6 DEF Fresh
    <3>9. QED
      BY <2>1, <3>7, <3>8, KeepsLetGo
  <2>6. QED
    BY <1>2, <2>3, <2>4, <2>5 DEF DialerStep
<1>3. ASSUME NEW b \in Conns, Run(b)
      PROVE  (\A c \in Conns : LetGo(c)' => LetGo(c)) /\ UNCHANGED hub
  <2>1. /\ UNCHANGED <<hub, conns_map, shut, dialers>>
        /\ UNCHANGED hub_chann \/ \E e : PostEvent(e)
        /\ run[b] # "none"
    BY <1>3 DEF Run, WriteOk, WriteErr, WriteTimesOut, Stick, PostClose, CloseDropped
  <2>2. \A c \in Conns : InFlight(c, "af") => InFlight(c, "af")'
    BY <1>0, <2>1, PostKeeps, SameFlight
  <2>3. UNCHANGED run \/ \E r : run' = [run EXCEPT ![b] = r]
    BY <1>3 DEF Run, WriteOk, WriteErr, WriteTimesOut, Stick, PostClose, CloseDropped
  <2>4. \A c \in Conns : run'[c] # "none" => run[c] # "none"
    <3>1. run \in [Conns -> {"none", "draining", "stuck", "ending", "ended", "dropped"}]
      BY <1>0 DEF TypeOK
    <3>2. QED
      BY <2>1, <2>3, <3>1
  <2>5. QED
    BY <2>1, <2>2, <2>4, SameDialersKeep, KeepsLetGo
<1>4. QED
  BY <1>1, <1>2, <1>3

\* connHub lets go of a connection once, and then hangs.
LEMMA LetGoStep == IInv /\ IInv' /\ LetGoInv /\ [Next]_vars => LetGoInv'
<1> SUFFICES ASSUME IInv, IInv', LetGoInv, [Next]_vars
             PROVE  LetGoInv'
  OBVIOUS
<1>1. CASE hub' # "closing"
  <2>1. \A c \in Conns : ~LetGo(c)'
    BY <1>1 DEF IInv, FiledInv, LetGo, Listed, Made
  <2>2. QED
    BY <2>1 DEF LetGoInv
<1>2. CASE hub' = "closing"
  <2>1. CASE \A c \in Conns : LetGo(c)' => LetGo(c)
    BY <2>1 DEF LetGoInv
  <2>2. CASE UNCHANGED vars
    <3>1. \A c \in Conns : LetGo(c)' => LetGo(c)
      BY <2>2 DEF vars, hubVars, connVars, LetGo, Listed, Fresh, Made, Carried, InFlight, Filed
    <3>2. QED
      BY <2>1, <3>1
  <2>3. CASE Next /\ ~HubStep
    <3>1. \A c \in Conns : LetGo(c)' => LetGo(c)
      BY <2>3, OthersKeepLetGo DEF Next
    <3>2. QED
      BY <2>1, <3>1
  <2>4. CASE HubStep
    <3>1. hub # "closing" /\ (DoRmConns \/ DoAfterConns)
      BY <1>2, <2>4 DEF HubStep, DoAddConns, DoRmConns, DoSendData, DoSendData2, DoAfterConns,
        DoCloseConns, DoAlramConns, AlramLoop, AlramEnd, Take, SendAll
    <3>2. \A c \in Conns : ~LetGo(c)
      BY <3>1 DEF IInv, FiledInv, LetGo, Listed, Made
    <3>3. /\ UNCHANGED <<dialers, shut, run>>
          /\ \E t \in {"rm", "af"} : Take(t)
      BY <3>1 DEF DoRmConns, DoAfterConns, connVars
    <3>4. PICK t \in {"rm", "af"} : Take(t)
      BY <3>3
    <3> DEFINE x == Head(hub_chann).conn
    <3>5. UNCHANGED conns_map
      BY <1>2, <3>1 DEF DoRmConns, DoAfterConns, Take
    <3>6. /\ \A c : (\A a \in Addrs : Filed(c, a)' <=> Filed(c, a))
          /\ \A c \in Conns : Listed(c)' <=> Listed(c)
      BY <3>5, SameLists DEF Listed
    <3>7. \A c \in Conns : c # x /\ InFlight(c, "af") => InFlight(c, "af")'
      BY <3>4, TakeFlight DEF IInv, Is
    <3>8. \A c \in Conns : LetGo(c)' => c = x
      BY <3>2, <3>3, <3>6, <3>7 DEF LetGo, Made, Fresh, Carried
    <3>9. QED
      BY <3>8 DEF LetGoInv
  <2>5. QED
    BY <2>2, <2>3, <2>4
<1>3. QED
  BY <1>1, <1>2

LEMMA KeepsMiss ==
  ASSUME MissInv, UNCHANGED <<conns_id_map, shut>>,
         \A c \in Conns : \A a \in Addrs : Filed(c, a)' => Filed(c, a),
         \A c \in Made : run'[c] # "none" /\ connect_id'[c] = connect_id[c],
         \A c \in Conns : run'[c] # "none" =>
           run[c] # "none" \/ (connect_id'[c] \in Ids /\ \A a \in Addrs : ~Filed(c, a))
  PROVE  MissInv'
<1> SUFFICES ASSUME NEW c \in Conns, run'[c] # "none"
             PROVE  /\ connect_id'[c] \in Ids
                    /\ Listed(c)' /\ ~shut'[c] /\ conns_id_map'[connect_id'[c]] # c =>
                         \E d \in Made' \ {c} : connect_id'[d] = connect_id'[c]
  BY DEF MissInv, Made
<1>1. Listed(c)' => Listed(c)
  BY DEF Listed
<1>2. CASE run[c] = "none"
  BY <1>1, <1>2 DEF Listed
<1>3. CASE run[c] # "none"
  <2>1. c \in Made /\ connect_id'[c] = connect_id[c] /\ connect_id[c] \in Ids
    BY <1>3 DEF Made, MissInv
  <2>2. ASSUME Listed(c)', ~shut'[c], conns_id_map'[connect_id'[c]] # c
        PROVE  \E d \in Made' \ {c} : connect_id'[d] = connect_id'[c]
    <3>1. PICK d \in Made \ {c} : connect_id[d] = connect_id[c]
      BY <1>1, <2>1, <2>2 DEF MissInv
    <3>2. d \in Made' \ {c} /\ connect_id'[d] = connect_id'[c]
      BY <2>1, <3>1 DEF Made
    <3>3. QED
      BY <3>2
  <2>3. QED
    BY <2>1, <2>2
<1>4. QED
  BY <1>2, <1>3

\* doAfterConns files under the connection's own id, and doCloseConns frees an id only
\* when it closes a connection made with it.
LEMMA MissStep == IInv /\ IInv' /\ MissInv /\ [Next]_vars => MissInv'
<1> SUFFICES ASSUME IInv, IInv', MissInv, [Next]_vars
             PROVE  MissInv'
  OBVIOUS
<1> USE DEF hubVars, connVars
<1>1. /\ TypeOK /\ MissInv
      /\ run \in [Conns -> {"none", "draining", "stuck", "ending", "ended", "dropped"}]
      /\ connect_id \in [Conns -> Ids \cup {0}]
      /\ shut \in [Conns -> BOOLEAN]
      /\ conns_id_map \in [Ids -> Conns \cup {NoConn}]
  BY DEF IInv, TypeOK
<1>2. \A c \in Conns : run[c] # "none" <=> c \in Made
  BY DEF Made
<1>3. CASE /\ UNCHANGED <<conns_id_map, shut, connect_id>>
           /\ \A c \in Conns : run'[c] # "none" <=> run[c] # "none"
           /\ \A c \in Conns : \A a \in Addrs : Filed(c, a)' => Filed(c, a)
  <2>1. \A c \in Made : run'[c] # "none" /\ connect_id'[c] = connect_id[c]
    BY <1>3 DEF Made
  <2>2. \A c \in Conns : run'[c] # "none" => run[c] # "none"
    BY <1>3
  <2>3. UNCHANGED <<conns_id_map, shut>>
    BY <1>3
  <2>4. \A c \in Conns : \A a \in Addrs : Filed(c, a)' => Filed(c, a)
    BY <1>3
  <2>5. QED
    BY <1>1, <2>1, <2>2, <2>3, <2>4, KeepsMiss
<1>4. CASE UNCHANGED vars
  <2>1. UNCHANGED <<conns_id_map, shut, connect_id, run, conns_map>>
    BY <1>4 DEF vars
  <2>2. QED
    BY <1>3, <2>1, SameLists
<1>5. CASE \/ UserCall \/ AlarmRings
           \/ DoAddConns \/ DoRmConns \/ DoSendData2 \/ DoAlramConns \/ AlramLoop \/ AlramEnd
           \/ \E d \in dialers : Dial(d) \/ DialFails(d) \/ DialerPosts(d)
  <2>1. UNCHANGED <<conns_id_map, shut, connect_id, run, conns_map>>
    BY <1>5 DEF UserCall, AlarmRings, DoAddConns, DoRmConns, DoSendData2, DoAlramConns,
      AlramLoop, AlramEnd, Dial, DialFails, DialerPosts
  <2>2. QED
    BY <1>3, <2>1, SameLists
<1>6. CASE DoSendData
  <2>1. UNCHANGED <<conns_id_map, shut, connect_id, run>>
    BY <1>6 DEF DoSendData
  <2>2. \A c \in Conns : \A a \in Addrs : Filed(c, a)' => Filed(c, a)
    <3>1. CASE UNCHANGED conns_map
      BY <3>1, SameLists
    <3>2. CASE ~UNCHANGED conns_map
      <4>1. Head(hub_chann).addr \in known /\ Usable(Head(hub_chann).addr) # {}
        BY <1>6, <3>2 DEF DoSendData
      <4>2. PICK b \in Usable(Head(hub_chann).addr) :
              conns_map' = [conns_map EXCEPT ![b] = Append(Tail(@), Head(@))]
        BY <1>6, <4>1 DEF DoSendData
      <4>3. b \in Addrs /\ conns_map[b] # <<>>
        BY <1>1, <4>1, <4>2 DEF Usable, TypeOK
      <4>4. QED
        BY <1>1, <4>2, <4>3, RotateFiles
    <3>3. QED
      BY <3>1, <3>2
  <2>3. QED
    BY <1>3, <2>1, <2>2
<1>7. ASSUME NEW c \in Conns, Run(c)
      PROVE  MissInv'
  <2>1. UNCHANGED <<conns_id_map, shut, connect_id, conns_map>> /\ run[c] # "none"
    BY <1>7 DEF Run, WriteOk, WriteErr, WriteTimesOut, Stick, PostClose, CloseDropped
  <2>2. UNCHANGED run \/ \E r \in {"ending", "stuck", "ended", "dropped"} :
                           run' = [run EXCEPT ![c] = r]
    BY <1>7 DEF Run, WriteOk, WriteErr, WriteTimesOut, Stick, PostClose, CloseDropped
  <2>3. \A b \in Conns : run'[b] # "none" <=> run[b] # "none"
    BY <1>1, <2>1, <2>2
  <2>4. QED
    BY <1>3, <2>1, <2>3, SameLists
<1>8. ASSUME NEW d \in dialers, Dialed(d)
      PROVE  MissInv'
  <2>1. PICK c \in Conns, id \in Ids :
          /\ run[c] = "none"
          /\ run' = [run EXCEPT ![c] = "draining"]
          /\ connect_id' = [connect_id EXCEPT ![c] = id]
    BY <1>8 DEF Dialed
  <2>2. UNCHANGED <<conns_map, conns_id_map, shut>>
    BY <1>8 DEF Dialed
  <2>3. \A a \in Addrs : ~Filed(c, a)
    BY <2>1, UnmadeFacts
  <2>4. /\ connect_id'[c] = id
        /\ \A b \in Conns : b # c => run'[b] = run[b] /\ connect_id'[b] = connect_id[b]
    BY <1>1, <2>1
  <2>5. \A b \in Made : run'[b] # "none" /\ connect_id'[b] = connect_id[b]
    BY <2>1, <2>4 DEF Made
  <2>6. \A b \in Conns : run'[b] # "none" =>
          run[b] # "none" \/ (connect_id'[b] \in Ids /\ \A a \in Addrs : ~Filed(b, a))
    BY <2>1, <2>3, <2>4
  <2>7. \A b \in Conns : \A a \in Addrs : Filed(b, a)' => Filed(b, a)
    BY <2>2, SameLists
  <2>8. QED
    BY <1>1, <2>2, <2>5, <2>6, <2>7, KeepsMiss
<1>9. CASE DoAfterConns
  <2> DEFINE e == Head(hub_chann)
             c == e.conn
  <2>1. Take("af") /\ UNCHANGED <<connect_id, run, shut>>
    BY <1>9 DEF DoAfterConns
  <2>2. c \in Made /\ e.id \in Ids /\ connect_id[c] = e.id /\ InFlight(c, "af")
    BY <2>1, HeadFacts DEF Truthful
  <2>3. c \in Conns /\ \A a \in Addrs : ~Filed(c, a)
    BY <2>2 DEF IInv, FreshInv, Fresh, Made
  <2>4. CASE e.addr \notin known
    <3>1. UNCHANGED <<conns_map, conns_id_map>>
      BY <1>9, <2>4 DEF DoAfterConns
    <3>2. QED
      BY <1>3, <2>1, <3>1, SameLists
  <2>5. CASE e.addr \in known
    <3>1. /\ conns_map' = [conns_map EXCEPT ![e.addr] = Append(@, c)]
          /\ conns_id_map' = [conns_id_map EXCEPT ![e.id] = c]
      BY <1>9, <2>5 DEF DoAfterConns
    <3>2. e.addr \in Addrs
      BY <1>1, <2>5 DEF TypeOK
    <3> HIDE DEF e, c
    <3>3. \A b : \A a \in Addrs : Filed(b, a)' <=> Filed(b, a) \/ (b = c /\ a = e.addr)
      BY <1>1, <2>3, <3>1, <3>2, AppendFiles
    <3>4. \A i \in Ids : conns_id_map'[i] = IF i = e.id THEN c ELSE conns_id_map[i]
      BY <1>1, <3>1
    <3>5. ASSUME NEW b \in Made
          PROVE  /\ connect_id[b] \in Ids
                 /\ Listed(b)' /\ ~shut[b] /\ conns_id_map'[connect_id[b]] # b =>
                      \E x \in Made \ {b} : connect_id[x] = connect_id[b]
      <4>1. connect_id[b] \in Ids
        BY <1>1 DEF MissInv
      <4>2. CASE b # c
        <5>1. Listed(b)' => Listed(b)
          BY <3>3, <4>2 DEF Listed
        <5>2. CASE connect_id[b] = e.id
          BY <2>2, <4>1, <4>2, <5>2
        <5>3. CASE connect_id[b] # e.id
          BY <1>1, <3>4, <4>1, <5>1, <5>3 DEF MissInv
        <5>4. QED
          BY <5>2, <5>3
      <4>3. CASE b = c
        BY <2>2, <3>4, <4>1, <4>3
      <4>4. QED
        BY <4>2, <4>3
    <3>6. Made' = Made
      BY <2>1 DEF Made
    <3>7. QED
      BY <2>1, <3>5, <3>6 DEF MissInv
  <2>6. QED
    BY <2>4, <2>5
<1>10. CASE DoCloseConns
  <2> DEFINE c == Head(hub_chann).conn
             o == remote_addr[c]
  <2>1. /\ Take("close") /\ shut' = [shut EXCEPT ![c] = TRUE]
        /\ UNCHANGED <<connect_id, run>>
    BY <1>10 DEF DoCloseConns
  <2>2. c \in Conns /\ InFlight(c, "close") /\ run[c] = "ended" /\ c \in Made
    BY <2>1, HeadFacts DEF IInv, EndInv, Made
  <2>3. shut'[c] /\ \A b \in Conns : b # c => shut'[b] = shut[b]
    BY <1>1, <2>1, <2>2
  <2>4. \A b \in Conns : b # c => \A a \in Addrs : Filed(b, a)' => Filed(b, a)
    <3>1. CASE o \in known /\ Filed(c, o)
      <4>1. Unlist(c, o) /\ o \in Addrs /\ FiledOnce(c)
        BY <1>1, <1>10, <2>2, <3>1, OnceFacts DEF DoCloseConns, TypeOK
      <4>2. QED
        BY <1>1, <4>1, UnlistFiles
    <3>2. CASE ~(o \in known /\ Filed(c, o))
      <4>1. UNCHANGED conns_map
        BY <1>10, <3>2 DEF DoCloseConns
      <4>2. QED
        BY <4>1, SameLists
    <3>3. QED
      BY <3>1, <3>2
  <2>5. \A i \in Ids : i # connect_id[c] => conns_id_map'[i] = conns_id_map[i]
    BY <1>1, <1>10 DEF DoCloseConns, Unindex
  <2> HIDE DEF c, o
  <2>6. ASSUME NEW b \in Made
        PROVE  /\ connect_id[b] \in Ids
               /\ Listed(b)' /\ ~shut'[b] /\ conns_id_map'[connect_id[b]] # b =>
                    \E x \in Made \ {b} : connect_id[x] = connect_id[b]
    <3>1. connect_id[b] \in Ids /\ b \in Conns
      BY <1>1 DEF MissInv, Made
    <3>2. CASE b # c
      <4>1. Listed(b)' => Listed(b)
        BY <2>4, <3>1, <3>2 DEF Listed
      <4>2. CASE connect_id[b] = connect_id[c]
        BY <2>2, <3>1, <3>2, <4>2
      <4>3. CASE connect_id[b] # connect_id[c]
        BY <1>1, <2>3, <2>5, <3>1, <3>2, <4>1, <4>3 DEF MissInv
      <4>4. QED
        BY <4>2, <4>3
    <3>3. CASE b = c
      BY <2>3, <3>1, <3>3
    <3>4. QED
      BY <3>2, <3>3
  <2>7. Made' = Made
    BY <2>1 DEF Made
  <2>8. QED
    BY <2>1, <2>6, <2>7 DEF MissInv
<1>11. QED
  BY <1>4, <1>5, <1>6, <1>7, <1>8, <1>9, <1>10 DEF Next, HubStep, DialerStep

LEMMA InitLetGo == Init => LetGoInv /\ MissInv
  BY DEF Init, LetGoInv, MissInv, LetGo, Made

-----------------------------------------------------------------------------
(* What the invariant is for.                                               *)

\* However a connection came to be, doAfterConns, doCloseConns and the goroutines
\* that dial pass it on without losing it or having it twice, and a closed one stays
\* in a list only where doCloseConns does not look.
THEOREM ConnsInOnePlace == Spec => []OnePlace
<1>1. IInv /\ LetGoInv => OnePlace
  <2> SUFFICES ASSUME IInv, LetGoInv
               PROVE  OnePlace
    OBVIOUS
  <2>1. \A c \in Made :
          /\ CarriedOnce(c) /\ Once(c, "af") /\ ~(Carried(c) /\ InFlight(c, "af"))
          /\ FiledOnce(c)
          /\ Fresh(c) => ~Listed(c) /\ ~shut[c]
          /\ \A a \in Addrs : shut[c] /\ Filed(c, a) => remote_addr[c] # a
    BY DEF IInv, FreshInv, FiledInv, EndInv, Made, Listed
  <2>2. \A c, d \in Conns : LetGo(c) /\ LetGo(d) => c = d /\ hub = "closing"
    BY DEF IInv, FiledInv, LetGoInv, LetGo, Made, Listed
  <2>3. QED
    BY <2>1, <2>2 DEF OnePlace
<1>2. IInv /\ IInv' /\ LetGoInv /\ [Next]_vars => LetGoInv'
  BY LetGoStep
<1>3. Init => LetGoInv
  BY InitLetGo
<1>4. QED
  BY <1>1, <1>2, <1>3, Inductive, PTL DEF Spec

\* doCloseConns closes a send_chann once, after the goroutine that empties it.
THEOREM ClosedOnce == Spec => []ShutOnce
<1>1. IInv => ShutOnce
  BY DEF IInv, EndInv, ShutOnce, Made
<1>2. QED
  BY <1>1, Inductive, PTL

\* doSendData2 finds in conns_id_map the connections that doAfterConns has filed
\* and doCloseConns has not taken off, and all of them but those that share an id.
THEOREM IndexIsSound == Spec => []IndexSound
<1>1. IInv /\ MissInv => IndexSound
  BY DEF IInv, IndexInv, MissInv, IndexSound, Listed
<1>2. IInv /\ IInv' /\ MissInv /\ [Next]_vars => MissInv'
  BY MissStep
<1>3. Init => MissInv
  BY InitLetGo
<1>4. QED
  BY <1>1, <1>2, <1>3, Inductive, PTL DEF Spec

\* The hub panics in cConn.Send only because doAlramConns filed a connection under
\* the address its loop had moved on to.
THEOREM PanicIsMisfiled == Spec => []PanicNeedsMisfiled
<1>1. IInv => PanicNeedsMisfiled
  BY DEF IInv
<1>2. QED
  BY <1>1, Inductive, PTL

-----------------------------------------------------------------------------
(* ConnPool implements ClientPool.                                         *)

\* How far a connection has come, read off its goroutine, its channel and the lists.
StageIs(s, r, closed, filed) ==
  /\ s \in {"none", "dialed", "pooled", "ended", "closed"}
  /\ s = "none" <=> r = "none"
  /\ s = "closed" <=> closed
  /\ s = "ended" <=> ~closed /\ r \in {"ending", "ended", "dropped"}
  /\ s = "pooled" <=> ~closed /\ r \in {"draining", "stuck"} /\ filed
  /\ s = "dialed" <=> ~closed /\ r \in {"draining", "stuck"} /\ ~filed

LEMMA StageFacts ==
  ASSUME IInv, NEW c \in Conns
  PROVE  StageIs(Stage(c), run[c], shut[c], \E a \in Addrs : Filed(c, a))
<1>1. /\ run[c] \in {"none", "draining", "stuck", "ending", "ended", "dropped"}
      /\ shut[c] \in BOOLEAN
      /\ shut[c] => run[c] = "ended"
  BY DEF IInv, TypeOK, EndInv
<1>2. QED
  BY <1>1 DEF StageIs, Stage

LEMMA NextStageFacts ==
  ASSUME IInv', NEW c \in Conns
  PROVE  StageIs(Stage(c)', run'[c], shut'[c], \E a \in Addrs : Filed(c, a)')
<1>1. /\ run'[c] \in {"none", "draining", "stuck", "ending", "ended", "dropped"}
      /\ shut'[c] \in BOOLEAN
      /\ shut'[c] => run'[c] = "ended"
  BY DEF IInv, TypeOK, EndInv
<1>2. QED
  BY <1>1 DEF StageIs, Stage

\* What a goroutine may do without its connection coming further.
StaysIn(r, s) ==
  \/ r = s
  \/ r \in {"draining", "stuck"} /\ s \in {"draining", "stuck"}
  \/ r \in {"ending", "ended", "dropped"} /\ s \in {"ending", "ended", "dropped"}

LEMMA SameStage ==
  ASSUME IInv, IInv', NEW c \in Conns, shut'[c] = shut[c], StaysIn(run[c], run'[c]),
         \A a \in Addrs : Filed(c, a)' <=> Filed(c, a)
  PROVE  Stage(c)' = Stage(c)
<1>1. (\E a \in Addrs : Filed(c, a)') <=> \E a \in Addrs : Filed(c, a)
  OBVIOUS
<1>2. StageIs(Stage(c), run[c], shut[c], \E a \in Addrs : Filed(c, a))
  BY StageFacts
<1>3. StageIs(Stage(c)', run'[c], shut'[c], \E a \in Addrs : Filed(c, a)')
  BY NextStageFacts
<1>4. QED
  BY <1>1, <1>2, <1>3 DEF StageIs, StaysIn

LEMMA Moved ==
  ASSUME NEW c \in Conns, NEW from, NEW to, Stage(c) = from, Stage(c)' = to,
         \A b \in Conns : b # c => Stage(b)' = Stage(b)
  PROVE  Abstract!Moves(c, from, to)
  BY DEF Abstract!Moves

\* The connections stay as far as they are.
StagesStay == \A c \in Conns : Stage(c)' = Stage(c)

\* The hub stops serving, in cConn.Close.
LEMMA Hangs ==
  ASSUME IInv, hub = "idle", hub' = "closing", StagesStay, UNCHANGED send_chann,
         NEW c \in Conns, run[c] # "none"
  PROVE  Abstract!Hang
<1>1. Stage(c) # "none"
  BY StageFacts DEF StageIs
<1>2. PoolState = "serving" /\ PoolState' = "hung"
  BY DEF PoolState
<1>3. QED
  BY <1>1, <1>2 DEF StagesStay, Abstract!Hang

\* The hub sends to connections that are filed: those that have room are given the
\* message, and one that has been closed ends the process.
LEMMA Sends ==
  ASSUME IInv, hub \in {"idle", "alram"}, NEW cs \in SUBSET Conns,
         \A c \in cs : \E a \in Addrs : Filed(c, a), SendAll(cs), StagesStay
  PROVE  Abstract!Give({c \in cs : HasRoom(c)}) \/ Abstract!Die
<1> DEFINE S == {c \in cs : HasRoom(c)}
<1>1. PoolState = "serving"
  BY DEF PoolState
<1>2. CASE \E c \in cs : shut[c]
  <2>1. hub' = "panic" /\ UNCHANGED send_chann
    BY <1>2 DEF SendAll
  <2>2. \E c \in Conns : Stage(c) = "closed"
    BY <1>2, StageFacts DEF StageIs
  <2>3. PoolState' = "dead"
    BY <2>1 DEF PoolState
  <2>4. Abstract!Die
    BY <1>1, <2>1, <2>2, <2>3 DEF StagesStay, Abstract!Die
  <2>5. QED
    BY <2>4
<1>3. CASE ~\E c \in cs : shut[c]
  <2>1. UNCHANGED hub /\ send_chann' = [c \in Conns |->
          IF c \in cs /\ HasRoom(c) THEN send_chann[c] + 1 ELSE send_chann[c]]
    BY <1>3 DEF SendAll
  <2>2. PoolState' = PoolState
    BY <2>1 DEF PoolState
  <2>3. ASSUME NEW c \in S
        PROVE  Stage(c) \in {"pooled", "ended"} /\ send_chann[c] < SendCap
    <3>1. c \in Conns /\ ~shut[c] /\ \E a \in Addrs : Filed(c, a)
      BY <1>3
    <3>2. run[c] # "none"
      BY <3>1 DEF IInv, FiledInv
    <3>3. StageIs(Stage(c), run[c], shut[c], \E a \in Addrs : Filed(c, a))
      BY <3>1, StageFacts
    <3>4. Stage(c) \in {"pooled", "ended"}
      BY <3>1, <3>2, <3>3 DEF StageIs
    <3>5. QED
      BY <3>4 DEF HasRoom
  <2>4. send_chann' = [c \in Conns |-> IF c \in S THEN send_chann[c] + 1 ELSE send_chann[c]]
    BY <2>1
  <2> HIDE DEF S
  <2>5. \A c \in S : c \in Conns
    BY DEF S
  <2>6. Abstract!Give(S)
    BY <1>1, <2>2, <2>3, <2>4, <2>5 DEF StagesStay, Abstract!Give
  <2>7. QED
    BY <2>6 DEF S
<1>4. QED
  BY <1>2, <1>3

LEMMA KeepsIdle ==
  ASSUME IdleInv,
         \A c \in Conns :
           shut'[c] \/ (shut'[c] = shut[c] /\ \A a \in Addrs : Filed(c, a) => Filed(c, a)'),
         \A c \in Conns :
           \/ shut'[c]
           \/ \E a \in Addrs : Filed(c, a)'
           \/ /\ send_chann[c] = 0 => send_chann'[c] = 0
              /\ StaysIn(run[c], run'[c]) \/ run'[c] = "draining"
  PROVE  IdleInv'
<1> SUFFICES ASSUME NEW c \in Conns, ~shut'[c], \A a \in Addrs : ~Filed(c, a)'
             PROVE  send_chann'[c] = 0 /\ run'[c] \in {"none", "draining", "stuck"}
  BY DEF IdleInv
<1>1. ~shut[c] /\ \A a \in Addrs : ~Filed(c, a)
  OBVIOUS
<1>2. send_chann[c] = 0 /\ run[c] \in {"none", "draining", "stuck"}
  BY <1>1 DEF IdleInv
<1>3. QED
  BY <1>2 DEF StaysIn

\* A step that ClientPool does not see.
LEMMA UnseenStep ==
  ASSUME IInv, IInv', IdleInv, UNCHANGED <<conns_map, shut, send_chann>>,
         hub' = hub \/ {hub, hub'} \subseteq {"idle", "alram"},
         \A c \in Conns : StaysIn(run[c], run'[c])
  PROVE  IdleInv' /\ UNCHANGED Abstract!vars
<1>1. \A c \in Conns, a \in Addrs : Filed(c, a)' <=> Filed(c, a)
  BY SameLists
<1>2. StagesStay
  BY <1>1, SameStage DEF StagesStay
<1>3. PoolState' = PoolState
  BY DEF PoolState
<1>4. UNCHANGED Abstract!vars
  BY <1>2, <1>3 DEF StagesStay, Abstract!vars
<1>5. IdleInv'
  BY <1>1, KeepsIdle
<1>6. QED
  BY <1>4, <1>5

LEMMA UserRefines ==
  ASSUME IInv, IInv', IdleInv,
         \/ UserCall \/ AlarmRings \/ DoAddConns \/ DoAlramConns \/ AlramEnd
         \/ \E d \in dialers : Dial(d) \/ DialFails(d) \/ DialerPosts(d)
  PROVE  IdleInv' /\ UNCHANGED Abstract!vars
<1>1. UNCHANGED <<conns_map, run, shut, send_chann>>
  BY DEF UserCall, AlarmRings, DoAddConns, DoAlramConns, AlramEnd, Dial, DialFails,
    DialerPosts, hubVars, connVars
<1>2. hub' = hub \/ {hub, hub'} \subseteq {"idle", "alram"}
  BY DEF UserCall, AlarmRings, DoAddConns, DoAlramConns, AlramEnd, Dial, DialFails,
    DialerPosts, hubVars, Take
<1>3. QED
  BY <1>1, <1>2, UnseenStep DEF StaysIn

LEMMA RunRefines ==
  ASSUME IInv, IInv', IdleInv, NEW c \in Conns, Stick(c) \/ PostClose(c) \/ CloseDropped(c)
  PROVE  IdleInv' /\ UNCHANGED Abstract!vars
<1>1. UNCHANGED <<hub, conns_map, shut, send_chann>>
  BY DEF Stick, PostClose, CloseDropped, hubVars
<1>2. \A b \in Conns : StaysIn(run[b], run'[b])
  BY DEF Stick, PostClose, CloseDropped, StaysIn, IInv, TypeOK
<1>3. QED
  BY <1>1, <1>2, UnseenStep

\* A connection that has a message to write is pooled; the message is written, or
\* ends it.
LEMMA WriteRefines ==
  ASSUME IInv, IInv', IdleInv, hub # "panic", NEW c \in Conns,
         WriteOk(c) \/ WriteTimesOut(c) \/ WriteErr(c)
  PROVE  IdleInv' /\ (Abstract!Write(c) \/ Abstract!Fail(c))
<1>1. /\ run[c] = "draining" /\ send_chann[c] > 0
      /\ send_chann' = [send_chann EXCEPT ![c] = @ - 1]
      /\ UNCHANGED <<hub, conns_map, shut>>
  BY DEF WriteOk, WriteTimesOut, WriteErr, hubVars
<1>2. \/ run' = run
      \/ run' = [run EXCEPT ![c] = "stuck"]
      \/ run' = [run EXCEPT ![c] = "ending"]
  BY DEF WriteOk, WriteTimesOut, WriteErr
<1>3. /\ run \in [Conns -> {"none", "draining", "stuck", "ending", "ended", "dropped"}]
      /\ send_chann \in [Conns -> 0 .. SendCap]
  BY DEF IInv, TypeOK
<1>4. \A b \in Conns, a \in Addrs : Filed(b, a)' <=> Filed(b, a)
  BY <1>1, SameLists
<1>5. ~shut[c]
  BY <1>1 DEF IInv, EndInv
<1>6. \E a \in Addrs : Filed(c, a)
  BY <1>1, <1>3, <1>5 DEF IdleInv
<1>7. \E a \in Addrs : Filed(c, a)'
  BY <1>4, <1>6
<1>8. Stage(c) = "pooled"
  BY <1>1, <1>5, <1>6, StageFacts DEF StageIs
<1>9. \A b \in Conns : b # c => Stage(b)' = Stage(b)
  BY <1>1, <1>2, <1>3, <1>4, SameStage DEF StaysIn
<1>10. IdleInv'
  <2>1. \A b \in Conns : b # c => send_chann'[b] = send_chann[b] /\ run'[b] = run[b]
    BY <1>1, <1>2, <1>3
  <2>2. QED
    BY <1>1, <1>4, <1>7, <2>1, KeepsIdle DEF StaysIn
<1>11. Abstract!Takes(c)
  BY <1>1 DEF Abstract!Takes, PoolState
<1>12. CASE run' = run \/ run' = [run EXCEPT ![c] = "stuck"]
  <2>1. StaysIn(run[c], run'[c])
    BY <1>1, <1>3, <1>12 DEF StaysIn
  <2>2. Stage(c)' = Stage(c)
    BY <1>1, <1>4, <2>1, SameStage
  <2>3. Abstract!Write(c)
    BY <1>8, <1>9, <1>11, <2>2 DEF Abstract!Write
  <2>4. QED
    BY <1>10, <2>3
<1>13. CASE run' = [run EXCEPT ![c] = "ending"]
  <2>1. run'[c] = "ending" /\ ~shut'[c]
    BY <1>1, <1>3, <1>5, <1>13
  <2>2. Stage(c)' = "ended"
    BY <2>1, NextStageFacts DEF StageIs
  <2>3. Abstract!Moves(c, "pooled", "ended")
    BY <1>8, <1>9, <2>2, Moved
  <2>4. QED
    BY <1>10, <1>11, <2>3 DEF Abstract!Fail
<1>14. QED
  BY <1>2, <1>12, <1>13

LEMMA DialedRefines ==
  ASSUME IInv, IInv', IdleInv, hub # "panic", NEW d \in dialers, Dialed(d)
  PROVE  IdleInv' /\ \E c \in Conns : Abstract!Dial(c)
<1>1. PICK c \in Conns : run[c] = "none" /\ run' = [run EXCEPT ![c] = "draining"]
  BY DEF Dialed
<1>2. UNCHANGED <<hub, conns_map, shut, send_chann>>
  BY DEF Dialed, hubVars
<1>3. run \in [Conns -> {"none", "draining", "stuck", "ending", "ended", "dropped"}]
  BY DEF IInv, TypeOK
<1>4. run'[c] = "draining" /\ \A b \in Conns : b # c => run'[b] = run[b]
  BY <1>1, <1>3
<1>5. \A b \in Conns, a \in Addrs : Filed(b, a)' <=> Filed(b, a)
  BY <1>2, SameLists
<1>6. ~shut[c] /\ \A a \in Addrs : ~Filed(c, a)
  BY <1>1, UnmadeFacts
<1>7. Stage(c) = "none"
  BY <1>1, StageFacts DEF StageIs
<1>8. Stage(c)' = "dialed"
  <2>1. ~shut'[c] /\ ~\E a \in Addrs : Filed(c, a)'
    BY <1>2, <1>5, <1>6
  <2>2. QED
    BY <1>4, <2>1, NextStageFacts DEF StageIs
<1>9. \A b \in Conns : b # c => Stage(b)' = Stage(b)
  BY <1>2, <1>4, <1>5, SameStage DEF StaysIn
<1>10. Abstract!Moves(c, "none", "dialed")
  BY <1>7, <1>8, <1>9, Moved
<1>11. PoolState # "dead" /\ PoolState' = PoolState
  BY <1>2 DEF PoolState
<1>12. Abstract!Dial(c)
  BY <1>2, <1>10, <1>11 DEF Abstract!Dial
<1>13. IdleInv'
  BY <1>2, <1>4, <1>5, KeepsIdle DEF StaysIn
<1>14. QED
  BY <1>12, <1>13

\* The steps in which the hub sends file nothing, and unfile nothing.
LEMMA SendsRefine ==
  ASSUME IInv, IInv', IdleInv, hub \in {"idle", "alram"}, NEW cs \in SUBSET Conns,
         \A c \in cs : \E a \in Addrs : Filed(c, a), SendAll(cs),
         \A c \in Conns, a \in Addrs : Filed(c, a)' <=> Filed(c, a),
         UNCHANGED <<run, shut>>
  PROVE  IdleInv' /\ ((\E S \in SUBSET Conns : Abstract!Give(S)) \/ Abstract!Die)
<1>1. StagesStay
  BY SameStage DEF StagesStay, StaysIn
<1>2. Abstract!Give({c \in cs : HasRoom(c)}) \/ Abstract!Die
  BY <1>1, Sends
<1>3. {c \in cs : HasRoom(c)} \in SUBSET Conns
  OBVIOUS
<1>4. \A c \in Conns : (\A a \in Addrs : ~Filed(c, a)) => send_chann'[c] = send_chann[c]
  <2>1. send_chann \in [Conns -> 0 .. SendCap]
    BY DEF IInv, TypeOK
  <2>2. QED
    BY <2>1 DEF SendAll
<1>5. IdleInv'
  BY <1>4, KeepsIdle DEF StaysIn
<1>6. QED
  BY <1>2, <1>3, <1>5

LEMMA SendDataRefines ==
  ASSUME IInv, IInv', IdleInv, DoSendData
  PROVE  /\ IdleInv'
         /\ (\E S \in SUBSET Conns : Abstract!Give(S)) \/ Abstract!Die \/ UNCHANGED Abstract!vars
<1> DEFINE a == Head(hub_chann).addr
<1>1. hub = "idle" /\ UNCHANGED <<run, shut>>
  BY DEF DoSendData, Take
<1>2. CASE a \in known /\ Usable(a) # {}
  <2>1. PICK b \in Usable(a) :
          /\ SendAll({Head(conns_map[b])})
          /\ conns_map' = [conns_map EXCEPT ![b] = Append(Tail(@), Head(@))]
    BY <1>2 DEF DoSendData
  <2>2. b \in Addrs /\ conns_map[b] # <<>>
    BY <1>2 DEF Usable, IInv, TypeOK
  <2>3. \A c \in Conns, e \in Addrs : Filed(c, e)' <=> Filed(c, e)
    BY <2>1, <2>2, RotateFiles DEF IInv
  <2> DEFINE cs == {Head(conns_map[b])}
  <2>4. cs \in SUBSET Conns /\ \A c \in cs : \E e \in Addrs : Filed(c, e)
    BY <2>2, FirstFiled
  <2>5. SendAll(cs)
    BY <2>1
  <2> HIDE DEF cs
  <2>6. QED
    BY <1>1, <2>3, <2>4, <2>5, SendsRefine
<1>3. CASE ~(a \in known /\ Usable(a) # {})
  <2>1. UNCHANGED <<hub, send_chann, conns_map>>
    BY <1>3 DEF DoSendData
  <2>2. QED
    BY <1>1, <2>1, UnseenStep DEF StaysIn
<1>4. QED
  BY <1>2, <1>3

LEMMA SendData2Refines ==
  ASSUME IInv, IInv', IdleInv, DoSendData2
  PROVE  IdleInv' /\ ((\E S \in SUBSET Conns : Abstract!Give(S)) \/ Abstract!Die)
<1>1. hub = "idle" /\ Head(hub_chann).id \in Ids
  BY HeadFacts DEF DoSendData2, Take
<1>2. UNCHANGED <<conns_map, run, shut>>
  BY DEF DoSendData2
<1> DEFINE cs == {conns_id_map[Head(hub_chann).id]} \ {NoConn}
<1>3. cs \in SUBSET Conns /\ \A c \in cs : \E a \in Addrs : Filed(c, a)
  BY <1>1 DEF IInv, TypeOK, IndexInv
<1>4. SendAll(cs)
  BY DEF DoSendData2
<1> HIDE DEF cs
<1>5. \A c \in Conns, a \in Addrs : Filed(c, a)' <=> Filed(c, a)
  BY <1>2, SameLists
<1>6. QED
  BY <1>1, <1>2, <1>3, <1>4, <1>5, SendsRefine

LEMMA AlramRefines ==
  ASSUME IInv, IInv', IdleInv, AlramLoop
  PROVE  IdleInv' /\ ((\E S \in SUBSET Conns : Abstract!Give(S)) \/ Abstract!Die)
<1>1. hub = "alram" /\ UNCHANGED <<conns_map, run, shut>>
  BY DEF AlramLoop
<1>2. PICK k \in todo : SendAll({c \in Conns : Heart_bit /\ Filed(c, k)})
  BY DEF AlramLoop
<1>3. k \in Addrs
  BY <1>2 DEF IInv, TypeOK
<1> DEFINE cs == {c \in Conns : Heart_bit /\ Filed(c, k)}
<1>4. cs \in SUBSET Conns /\ (\A c \in cs : \E a \in Addrs : Filed(c, a)) /\ SendAll(cs)
  BY <1>2, <1>3
<1> HIDE DEF cs
<1>5. \A c \in Conns, a \in Addrs : Filed(c, a)' <=> Filed(c, a)
  BY <1>1, SameLists
<1>6. QED
  BY <1>1, <1>4, <1>5, SendsRefine

\* The hub hangs in cConn.Close with a connection that exists.
LEMMA HangsRefine ==
  ASSUME IInv, IInv', IdleInv, hub = "idle", hub' = "closing",
         UNCHANGED <<conns_map, run, shut, send_chann>>, NEW c \in Conns, run[c] # "none"
  PROVE  IdleInv' /\ Abstract!Hang
<1>1. \A b \in Conns, a \in Addrs : Filed(b, a)' <=> Filed(b, a)
  BY SameLists
<1>2. StagesStay
  BY <1>1, SameStage DEF StagesStay, StaysIn
<1>3. IdleInv'
  BY <1>1, KeepsIdle DEF StaysIn
<1>4. QED
  BY <1>2, <1>3, Hangs

LEMMA RmRefines ==
  ASSUME IInv, IInv', IdleInv, DoRmConns
  PROVE  IdleInv' /\ (Abstract!Hang \/ UNCHANGED Abstract!vars)
<1> DEFINE a == Head(hub_chann).addr
<1>1. hub = "idle" /\ a \in Addrs /\ UNCHANGED <<conns_map, run, shut, send_chann>>
  BY HeadFacts DEF DoRmConns, Take, connVars
<1>2. CASE conns_map[a] # <<>>
  <2>1. Head(conns_map[a]) \in Conns /\ Filed(Head(conns_map[a]), a)
    BY <1>1, <1>2, FirstFiled
  <2>2. run[Head(conns_map[a])] # "none"
    BY <1>1, <2>1 DEF IInv, FiledInv
  <2>3. hub' = "closing"
    BY <1>2 DEF DoRmConns, CloseConn
  <2>4. QED
    BY <1>1, <2>1, <2>2, <2>3, HangsRefine
<1>3. CASE conns_map[a] = <<>>
  <2>1. UNCHANGED hub
    BY <1>3 DEF DoRmConns
  <2>2. QED
    BY <1>1, <2>1, UnseenStep DEF StaysIn
<1>4. QED
  BY <1>2, <1>3

LEMMA AfterRefines ==
  ASSUME IInv, IInv', IdleInv, DoAfterConns
  PROVE  IdleInv' /\ (Abstract!Hang \/ \E c \in Conns : Abstract!Admit(c))
<1> DEFINE e == Head(hub_chann)
<1>1. Take("af") /\ hub = "idle" /\ UNCHANGED <<known, run, send_chann, shut>>
  BY DEF DoAfterConns, Take, connVars
<1>2. PICK c \in Conns : c = e.conn /\ InFlight(c, "af")
  BY <1>1, HeadFacts DEF Truthful, Made
<1>3. /\ run[c] \in {"draining", "stuck"} /\ ~shut[c]
      /\ \A a \in Addrs : ~Filed(c, a)
  BY <1>2 DEF IInv, FreshInv, Fresh
<1>4. CASE e.addr \in known
  <2>1. /\ conns_map' = [conns_map EXCEPT ![e.addr] = Append(@, c)]
        /\ UNCHANGED hub
    BY <1>2, <1>4 DEF DoAfterConns
  <2>2. e.addr \in Addrs
    BY <1>4 DEF IInv, TypeOK
  <2>3. \A b : \A a \in Addrs : Filed(b, a)' <=> Filed(b, a) \/ (b = c /\ a = e.addr)
    BY <1>3, <2>1, <2>2, AppendFiles DEF IInv
  <2>4. Stage(c) = "dialed"
    BY <1>3, StageFacts DEF StageIs
  <2>5. Stage(c)' = "pooled"
    <3>1. ~shut'[c] /\ run'[c] \in {"draining", "stuck"} /\ \E a \in Addrs : Filed(c, a)'
      BY <1>1, <1>3, <2>2, <2>3
    <3>2. QED
      BY <3>1, NextStageFacts DEF StageIs
  <2>6. \A b \in Conns : b # c => Stage(b)' = Stage(b)
    BY <1>1, <2>3, SameStage DEF StaysIn
  <2>7. Abstract!Moves(c, "dialed", "pooled")
    BY <2>4, <2>5, <2>6, Moved
  <2>8. PoolState = "serving" /\ PoolState' = PoolState
    BY <1>1, <2>1 DEF PoolState
  <2>9. Abstract!Admit(c)
    BY <1>1, <2>7, <2>8 DEF Abstract!Admit
  <2>10. IdleInv'
    BY <1>1, <2>3, KeepsIdle DEF StaysIn
  <2>11. QED
    BY <2>9, <2>10
<1>5. CASE e.addr \notin known
  <2>1. hub' = "closing" /\ UNCHANGED conns_map
    BY <1>5 DEF DoAfterConns, CloseConn
  <2>2. run[c] # "none"
    BY <1>3
  <2>3. QED
    BY <1>1, <2>1, <2>2, HangsRefine
<1>6. QED
  BY <1>4, <1>5

LEMMA CloseRefines ==
  ASSUME IInv, IInv', IdleInv, DoCloseConns
  PROVE  IdleInv' /\ \E c \in Conns : Abstract!Close(c)
<1>1. Take("close") /\ hub = "idle" /\ UNCHANGED <<hub, known, run>>
  BY DEF DoCloseConns, Take
<1>2. PICK c \in Conns : c = Head(hub_chann).conn /\ InFlight(c, "close")
  BY <1>1, HeadFacts
<1>3. /\ shut' = [shut EXCEPT ![c] = TRUE]
      /\ send_chann' = [send_chann EXCEPT ![c] = 0]
  BY <1>2 DEF DoCloseConns
<1>4. run[c] = "ended" /\ ~shut[c]
  BY <1>2 DEF IInv, EndInv
<1> DEFINE o == remote_addr[c]
<1>5. \A b : \A a \in Addrs : Filed(b, a)' <=> Filed(b, a) /\ ~(b = c /\ a = o)
  <2>1. CASE o \in known /\ Filed(c, o)
    <3>1. Unlist(c, o) /\ o \in Addrs /\ FiledOnce(c)
      BY <1>2, <2>1, OnceFacts DEF DoCloseConns, IInv, TypeOK
    <3>2. QED
      BY <3>1, UnlistFiles DEF IInv
  <2>2. CASE ~(o \in known /\ Filed(c, o))
    <3>1. UNCHANGED conns_map
      BY <1>2, <2>2 DEF DoCloseConns
    <3>2. o \in Addrs => ~Filed(c, o)
      BY <2>2 DEF IInv, FiledInv, Filed
    <3>3. QED
      BY <3>1, <3>2, SameLists
  <2>3. QED
    BY <2>1, <2>2
<1>6. /\ shut'[c] /\ \A b \in Conns : b # c => shut'[b] = shut[b] /\ send_chann'[b] = send_chann[b]
  BY <1>2, <1>3 DEF IInv, TypeOK
<1>7. Stage(c) = "ended"
  BY <1>4, StageFacts DEF StageIs
<1>8. Stage(c)' = "closed"
  BY <1>6, NextStageFacts DEF StageIs
<1>9. \A b \in Conns : b # c => Stage(b)' = Stage(b)
  <2>1. ASSUME NEW b \in Conns, b # c
        PROVE  Stage(b)' = Stage(b)
    <3>1. shut'[b] = shut[b] /\ StaysIn(run[b], run'[b])
      BY <1>1, <1>6, <2>1 DEF StaysIn
    <3>2. \A a \in Addrs : Filed(b, a)' <=> Filed(b, a)
      BY <1>5, <2>1
    <3>3. QED
      BY <3>1, <3>2, SameStage
  <2>2. QED
    BY <2>1
<1>10. Abstract!Moves(c, "ended", "closed")
  BY <1>7, <1>8, <1>9, Moved
<1>11. PoolState = "serving" /\ PoolState' = PoolState
  BY <1>1 DEF PoolState
<1>12. Abstract!Close(c)
  BY <1>3, <1>10, <1>11 DEF Abstract!Close
<1>13. IdleInv'
  BY <1>1, <1>3, <1>5, <1>6, KeepsIdle DEF StaysIn
<1>14. QED
  BY <1>12, <1>13

LEMMA InitRefines == Init => Abstract!Init /\ IdleInv
<1> SUFFICES ASSUME Init
             PROVE  Abstract!Init /\ IdleInv
  OBVIOUS
<1>1. [c \in Conns |-> Stage(c)] = [c \in Conns |-> "none"]
  BY DEF Init, Stage
<1>2. PoolState = "serving"
  BY DEF Init, PoolState
<1>3. IdleInv
  BY DEF Init, IdleInv
<1>4. QED
  BY <1>1, <1>2, <1>3 DEF Init, Abstract!Init

LEMMA StepRefines ==
  IInv /\ IInv' /\ IdleInv /\ [Next]_vars => IdleInv' /\ [Abstract!Next]_(Abstract!vars)
<1> SUFFICES ASSUME IInv, IInv', IdleInv, [Next]_vars
             PROVE  IdleInv' /\ [Abstract!Next]_(Abstract!vars)
  OBVIOUS
<1>1. CASE UNCHANGED vars
  <2>1. UNCHANGED <<hub, conns_map, run, shut, send_chann>>
    BY <1>1 DEF vars, hubVars, connVars
  <2>2. QED
    BY <2>1, UnseenStep DEF StaysIn
<1>2. CASE Next
  <2>1. hub # "panic"
    BY <1>2 DEF Next
  <2>2. CASE UserCall \/ AlarmRings
    BY <2>2, UserRefines
  <2>3. CASE HubStep
    <3>1. CASE DoAddConns \/ DoAlramConns \/ AlramEnd
      BY <3>1, UserRefines
    <3>2. CASE DoRmConns
      BY <3>2, RmRefines DEF Abstract!Next
    <3>3. CASE DoSendData
      BY <3>3, SendDataRefines DEF Abstract!Next
    <3>4. CASE DoSendData2
      BY <3>4, SendData2Refines DEF Abstract!Next
    <3>5. CASE DoAfterConns
      BY <3>5, AfterRefines DEF Abstract!Next
    <3>6. CASE DoCloseConns
      BY <3>6, CloseRefines DEF Abstract!Next
    <3>7. CASE AlramLoop
      BY <3>7, AlramRefines DEF Abstract!Next
    <3>8. QED
      BY <2>3, <3>1, <3>2, <3>3, <3>4, <3>5, <3>6, <3>7 DEF HubStep
  <2>4. ASSUME NEW d \in dialers, DialerStep(d)
        PROVE  IdleInv' /\ [Abstract!Next]_(Abstract!vars)
    <3>1. CASE Dialed(d)
      BY <2>1, <3>1, DialedRefines DEF Abstract!Next
    <3>2. CASE Dial(d) \/ DialFails(d) \/ DialerPosts(d)
      BY <3>2, UserRefines
    <3>3. QED
      BY <2>4, <3>1, <3>2 DEF DialerStep
  <2>5. ASSUME NEW c \in Conns, Run(c)
        PROVE  IdleInv' /\ [Abstract!Next]_(Abstract!vars)
    <3>1. CASE WriteOk(c) \/ WriteTimesOut(c) \/ WriteErr(c)
      BY <2>1, <3>1, WriteRefines DEF Abstract!Next
    <3>2. CASE Stick(c) \/ PostClose(c) \/ CloseDropped(c)
      BY <3>2, RunRefines
    <3>3. QED
      BY <2>5, <3>1, <3>2 DEF Run
  <2>6. QED
    BY <1>2, <2>2, <2>3, <2>4, <2>5 DEF Next
<1>3. QED
  BY <1>1, <1>2

\* A connection that the hub has not filed, or has let go of, has been given no
\* message, so cConn.run has had no write to fail on.
THEOREM IdleUntilFiled == Spec => []IdleInv
  BY InitRefines, StepRefines, Inductive, PTL DEF Spec

\* connHub, the dialing goroutines and cConn.run, in whatever order their events are
\* handled, give each connection the one life ClientPool describes.
THEOREM Refines == Spec => ImplementsClientPool
<1>1. IInv /\ IInv' /\ IdleInv /\ [Next]_vars => [Abstract!Next]_(Abstract!vars)
  BY StepRefines
<1>2. QED
  BY <1>1, InitRefines, IdleUntilFiled, Inductive, PTL DEF Spec, ImplementsClientPool,
    Abstract!Spec
=============================================================================
