------------------------- MODULE LoginCountersProofs -------------------------
(***************************************************************************)
(* What LoginCounters keeps for every set of addresses, threshold, window, *)
(* number of keys and interval of sweeps, over either store: the types,    *)
(* what is behind an alarm and a throttle, how many failures go unmatched, *)
(* and which counter is evicted.                                           *)
(***************************************************************************)
EXTENDS LoginCounters, SubsequenceProofs, FiniteSetTheorems

-----------------------------------------------------------------------------
(* The order of the keys.                                                    *)

\* o holds each key of K once, each before the keys used after it, those h names.
Ordered(o, K, h) ==
  /\ o \in Seq(Ips) /\ K = {o[i] : i \in 1..Len(o)}
  /\ \A i, j \in 1..Len(o) : i < j => o[i] # o[j] /\ o[j] \in h[o[i]]

\* Keys are taken out of the order.
LEMMA OrderedWithout ==
  ASSUME NEW o, NEW K, NEW h, NEW T, Ordered(o, K, h)
  PROVE  Ordered(Without(o, T), K \ T, h)
<1> DEFINE w == Without(o, T)
<1>1. o \in Seq(Ips) /\ w \in Seq(Ips) /\ \E e : Places(e, w, o, T)
  BY WithoutPlaces DEF Ordered
<1> HIDE DEF w
<1>2. PICK e : Places(e, w, o, T) BY <1>1
<1>3. K \ T = {w[j] : j \in 1..Len(w)}
  <2>1. ASSUME NEW k \in K \ T PROVE \E j \in 1..Len(w) : w[j] = k
    <3>1. PICK i \in 1..Len(o) : o[i] = k BY DEF Ordered
    <3> QED BY <1>2, <3>1 DEF Places
  <2>2. ASSUME NEW j \in 1..Len(w) PROVE w[j] \in K \ T BY <1>2 DEF Places, Ordered
  <2> QED BY <2>1, <2>2
<1>4. ASSUME NEW i \in 1..Len(w), NEW j \in 1..Len(w), i < j
      PROVE  w[i] # w[j] /\ w[j] \in h[w[i]]
  <2>1. e[i] \in 1..Len(o) /\ e[j] \in 1..Len(o) /\ e[i] < e[j] /\ w[i] = o[e[i]] /\ w[j] = o[e[j]]
    BY <1>2, <1>4 DEF Places
  <2> QED BY <2>1 DEF Ordered
<1>5. Ordered(w, K \ T, h) BY <1>1, <1>3, <1>4 DEF Ordered
<1> QED BY <1>5 DEF w

\* The use of a key moves it to the end.
LEMMA OrderedUse ==
  ASSUME NEW o, NEW K, NEW h, Ordered(o, K, h), NEW ip \in Ips \ K, K \subseteq Ips,
         h \in [Ips -> SUBSET Ips]
  PROVE  Ordered(Append(o, ip), K \union {ip},
                 [k \in Ips |-> IF k = ip THEN {} ELSE h[k] \union {ip}])
<1> DEFINE w == Append(o, ip)
           n == Len(o)
           g == [k \in Ips |-> IF k = ip THEN {} ELSE h[k] \union {ip}]
<1>1. /\ o \in Seq(Ips) /\ n \in Nat /\ w \in Seq(Ips) /\ Len(w) = n + 1 /\ w[n + 1] = ip
      /\ \A i \in 1..n : w[i] = o[i] /\ o[i] \in K
  BY DEF Ordered
<1>2. ASSUME NEW i \in 1..Len(w), NEW j \in 1..Len(w), i < j
      PROVE  w[i] # w[j] /\ w[j] \in g[w[i]]
  <2>1. i \in 1..n /\ w[i] = o[i] /\ o[i] # ip /\ o[i] \in Ips BY <1>1, <1>2
  <2>2. g[w[i]] = h[o[i]] \union {ip} BY <2>1
  <2>3. CASE j = n + 1 BY <1>1, <2>1, <2>2, <2>3
  <2>4. CASE j # n + 1
    <3>1. j \in 1..n /\ w[j] = o[j] BY <1>1, <2>4
    <3> QED BY <1>2, <2>1, <2>2, <3>1 DEF Ordered
  <2> QED BY <2>3, <2>4
<1>3. K \union {ip} = {w[i] : i \in 1..Len(w)}
  <2>1. ASSUME NEW k \in K \union {ip} PROVE \E i \in 1..Len(w) : w[i] = k
    <3>1. CASE k = ip BY <1>1, <3>1
    <3>2. CASE k \in K
      <4>1. PICK i \in 1..n : o[i] = k BY <3>2 DEF Ordered
      <4> QED BY <1>1, <4>1
    <3> QED BY <3>1, <3>2
  <2>2. ASSUME NEW i \in 1..Len(w) PROVE w[i] \in K \union {ip}
    <3>1. i = n + 1 \/ i \in 1..n BY <1>1
    <3> QED BY <1>1, <3>1
  <2> QED BY <2>1, <2>2
<1> HIDE DEF g, w
<1>4. Ordered(w, K \union {ip}, g) BY <1>1, <1>2, <1>3 DEF Ordered
<1> QED BY <1>4 DEF g, w

\* The first e keys of the order are evicted.
LEMMA OrderedLast ==
  ASSUME NEW o, NEW K, NEW h, Ordered(o, K, h), NEW e \in 0..Len(o)
  PROVE  LET w == SubSeq(o, e + 1, Len(o)) IN
         /\ w \in Seq(Ips) /\ Len(w) = Len(o) - e /\ \A i \in 1..Len(w) : w[i] = o[e + i]
         /\ Ordered(w, {w[i] : i \in DOMAIN w}, h)
<1> DEFINE w == SubSeq(o, e + 1, Len(o))
<1>1. o \in Seq(Ips) /\ Len(o) \in Nat /\ e \in Nat /\ e <= Len(o) BY DEF Ordered
<1>2. w \in Seq(Ips) /\ Len(w) = Len(o) - e /\ \A i \in 1..Len(w) : w[i] = o[e + i]
  BY <1>1
<1>3. DOMAIN w = 1..Len(w) BY <1>2
<1> HIDE DEF w
<1>4. ASSUME NEW i \in 1..Len(w), NEW j \in 1..Len(w), i < j
      PROVE  w[i] # w[j] /\ w[j] \in h[w[i]]
  <2>1. e + i \in 1..Len(o) /\ e + j \in 1..Len(o) /\ e + i < e + j BY <1>1, <1>2, <1>4
  <2> QED BY <1>2, <2>1 DEF Ordered
<1>5. Ordered(w, {w[i] : i \in DOMAIN w}, h) BY <1>2, <1>3, <1>4 DEF Ordered
<1> QED BY <1>2, <1>5 DEF w

\* A sequence that holds each key once is as long as they are many.
LEMMA OrderedLength ==
  ASSUME NEW o, NEW K, NEW h, Ordered(o, K, h)
  PROVE  IsFiniteSet(K) /\ Cardinality(K) = Len(o)
<1>1. o \in Seq(Ips) /\ Len(o) \in Nat BY DEF Ordered
<1> DEFINE f == [i \in 1..Len(o) |-> o[i]]
<1>2. IsFiniteSet(1..Len(o)) /\ Cardinality(1..Len(o)) = Len(o)
  BY <1>1, FS_Interval
<1>3. f \in Bijection(1..Len(o), K)
  <2>1. f \in [1..Len(o) -> K] BY DEF Ordered
  <2>2. \A i, j \in 1..Len(o) : f[i] = f[j] => i = j BY <1>1 DEF Ordered
  <2>3. \A k \in K : \E i \in 1..Len(o) : f[i] = k BY DEF Ordered
  <2> HIDE DEF f
  <2> QED BY <2>1, <2>2, <2>3 DEF Bijection, Injection, Surjection, IsInjective
<1> HIDE DEF f
<1> QED BY <1>2, <1>3, FS_Bijection DEF ExistsBijection

-----------------------------------------------------------------------------
(* The steps, by what they do to the counters.                               *)

ClockOK ==
  /\ backend \in {"memory", "redis"} /\ now \in 0..MaxNow
  /\ writes \in 0..(PruneInterval - 1)

ValuesOK ==
  /\ Kept \subseteq Ips
  /\ \A ip \in Kept : values[ip] \in Entries /\ values[ip].expires <= now + Window

OrderOK ==
  /\ backend = "redis" => order = <<>>
  /\ backend = "memory" => Ordered(order, Kept, touched)

TouchedOK ==
  /\ touched \in [Ips -> SUBSET Ips]
  /\ \A ip \in Ips : IsFiniteSet(touched[ip]) /\ ip \notin touched[ip]

FailuresOK ==
  /\ alarm \subseteq Ips
  /\ seen \in [Ips -> [0..MaxNow -> 0..Burst]]
  /\ quiet \in [Ips -> [0..MaxNow -> 0..Burst]]
  /\ \A ip \in Ips, t \in 0..MaxNow :
       quiet[ip][t] <= seen[ip][t] /\ (t > now => seen[ip][t] = 0)

TInv == ClockOK /\ ValuesOK /\ OrderOK /\ TouchedOK /\ FailuresOK

\* A failure of ip is counted, on the entry it has or on a new one, and the rule is told of
\* the count or, the reply of Redis lost, of one.
Counted(ip) ==
  /\ now' = now /\ Kept' \subseteq Kept \union {ip} /\ ip \in Kept'
  /\ \A k \in Kept' \ {ip} : values'[k] = values[k]
  /\ \/ /\ ip \in Kept /\ (backend = "redis" => ~Expired(ip))
        /\ values'[ip] = [values[ip] EXCEPT !.count = @ + 1]
     \/ /\ ip \in Kept => Expired(ip)
        /\ values'[ip] = [count |-> 1, expires |-> now + Window]
  /\ \/ Conclude(ip, values'[ip].count) /\ Unmatched(ip, values'[ip].count)
     \/ backend = "redis" /\ Conclude(ip, 1) /\ quiet' = quiet

\* A counter goes when it is expired, or for MaxKeys keys used since.
Gone(k) == Expired(k) \/ (backend = "memory" /\ Cardinality(touched'[k]) >= MaxKeys)

\* A use of a key keeps the types of the keys used since.
LEMMA TouchTypes ==
  ASSUME TouchedOK, NEW ip \in Ips, Touch(ip)
  PROVE  TouchedOK'
<1>1. touched' \in [Ips -> SUBSET Ips] BY DEF TouchedOK, Touch
<1>2. ASSUME NEW k \in Ips PROVE IsFiniteSet(touched'[k]) /\ k \notin touched'[k]
  <2>1. CASE k = ip
    <3>1. touched'[k] = {} BY <2>1 DEF Touch
    <3> QED BY <3>1, FS_EmptySet
  <2>2. CASE k # ip
    <3>1. touched'[k] = touched[k] \union {ip} BY <2>2 DEF Touch
    <3>2. IsFiniteSet(touched[k]) /\ k \notin touched[k] BY DEF TouchedOK
    <3>3. IsFiniteSet(touched[k] \union {ip}) BY <3>2, FS_AddElement
    <3> QED BY <2>2, <3>1, <3>2, <3>3
  <2> QED BY <2>1, <2>2
<1> QED BY <1>1, <1>2 DEF TouchedOK

\* incr() of the in-process store counts, and evicts the least recently used.
LEMMA MemoryIncrEffect ==
  ASSUME TInv, NEW ip \in Ips, MemoryIncr(ip), Touch(ip), now' = now
  PROVE  /\ Counted(ip) /\ Ordered(order', Kept', touched')
         /\ \A k \in Kept \ Kept' : Gone(k)
<1> DEFINE o1 == Without(order, Swept)
           o2 == Without(o1, {ip})
           used == Append(o2, ip)
           e == IF Len(used) > MaxKeys THEN Len(used) - MaxKeys ELSE 0
           kept == SubSeq(used, e + 1, Len(used))
           K == (Kept \ Swept) \union {ip}
<1>1. /\ order' = kept
      /\ values' = [k \in {kept[i] : i \in DOMAIN kept} |->
                      IF k = ip THEN MemoryCount(ip) ELSE values[k]]
      /\ Conclude(ip, MemoryCount(ip).count) /\ Unmatched(ip, MemoryCount(ip).count)
      /\ backend = "memory"
  BY DEF MemoryIncr, UseOnIncr, Use
<1>2. Ordered(o1, Kept \ Swept, touched)
  BY <1>1, OrderedWithout DEF TInv, OrderOK
<1> HIDE DEF o1
<1>3. Ordered(o2, (Kept \ Swept) \ {ip}, touched) BY <1>2, OrderedWithout
<1> HIDE DEF o2
<1>4. Ordered(used, K, touched')
  <2> DEFINE L == (Kept \ Swept) \ {ip}
             g == [k \in Ips |-> IF k = ip THEN {} ELSE touched[k] \union {ip}]
  <2>1. L \subseteq Ips /\ ip \notin L /\ touched \in [Ips -> SUBSET Ips]
    BY DEF TInv, ValuesOK, TouchedOK
  <2>2. Ordered(o2, L, touched) BY <1>3
  <2>3. touched' = g BY DEF Touch
  <2>4. L \union {ip} = K OBVIOUS
  <2> HIDE DEF L, K
  <2>5. Ordered(Append(o2, ip), L \union {ip}, g) BY <2>1, <2>2, OrderedUse
  <2> HIDE DEF g
  <2> QED BY <2>3, <2>4, <2>5
<1>5. o2 \in Seq(Ips) /\ Len(used) \in Nat /\ Len(used) >= 1 /\ used[Len(used)] = ip
      /\ used \in Seq(Ips)
  BY <1>3 DEF Ordered
<1> HIDE DEF used
<1>6. e \in 0..Len(used) /\ e < Len(used) /\ (e > 0 => Len(used) - e = MaxKeys)
  BY <1>5, CountersAssumption
<1> HIDE DEF e
<1>7. /\ kept \in Seq(Ips) /\ Len(kept) = Len(used) - e
      /\ \A i \in 1..Len(kept) : kept[i] = used[e + i]
      /\ Ordered(kept, {kept[i] : i \in DOMAIN kept}, touched')
  BY <1>4, <1>6, OrderedLast
<1>8. Kept' = {kept[i] : i \in DOMAIN kept} /\ DOMAIN kept = 1..Len(kept)
  BY <1>1, <1>7 DEF Kept
<1> HIDE DEF kept
<1>9. Ordered(order', Kept', touched') BY <1>1, <1>7, <1>8
<1>10. /\ Kept' \subseteq K /\ ip \in Kept'
  <2>1. ASSUME NEW k \in Kept' PROVE k \in K
    <3>1. PICK i \in 1..Len(kept) : k = kept[i] BY <1>8
    <3>2. e + i \in 1..Len(used) /\ k = used[e + i] BY <1>5, <1>6, <1>7, <3>1
    <3> QED BY <1>4, <3>2 DEF Ordered
  <2>2. ip \in Kept'
    <3>1. Len(kept) \in 1..Len(kept) /\ e + Len(kept) = Len(used) BY <1>5, <1>6, <1>7
    <3> QED BY <1>5, <1>7, <1>8, <3>1
  <2> QED BY <2>1, <2>2
<1>11. \A k \in Kept' : values'[k] = IF k = ip THEN MemoryCount(ip) ELSE values[k]
  BY <1>1, <1>8
<1>12. Counted(ip)
  <2>1. ip \in Kept \ Swept \/ (ip \in Kept => Expired(ip)) BY DEF Swept
  <2>2. /\ ip \in Kept \ Swept => MemoryCount(ip) = [values[ip] EXCEPT !.count = @ + 1]
        /\ ip \notin Kept \ Swept => MemoryCount(ip) = [count |-> 1, expires |-> now + Window]
    BY DEF MemoryCount
  <2>3. ip \notin Kept \ Swept => (ip \in Kept => Expired(ip)) BY <2>1
  <2>4. values'[ip] = MemoryCount(ip) /\ \A k \in Kept' \ {ip} : values'[k] = values[k]
    BY <1>10, <1>11
  <2>5. Kept' \subseteq Kept \union {ip} BY <1>10
  <2> QED BY <1>1, <1>10, <2>2, <2>3, <2>4, <2>5 DEF Counted
<1>13. ASSUME NEW k \in Kept \ Kept', ~Expired(k) PROVE Cardinality(touched'[k]) >= MaxKeys
  <2>1. k \in K BY <1>13 DEF Swept
  <2>2. PICK p \in 1..Len(used) : used[p] = k BY <1>4, <2>1 DEF Ordered
  <2>3. p <= e
    <3> SUFFICES ASSUME p > e PROVE FALSE BY <1>6
    <3>1. p - e \in 1..Len(kept) /\ e + (p - e) = p BY <1>5, <1>6, <1>7
    <3> QED BY <1>7, <1>8, <2>2, <3>1
  <2>4. Kept' \subseteq touched'[k]
    <3> SUFFICES ASSUME NEW j \in Kept' PROVE j \in touched'[k] OBVIOUS
    <3>1. PICK i \in 1..Len(kept) : j = kept[i] BY <1>8
    <3>2. e + i \in 1..Len(used) /\ p < e + i /\ j = used[e + i]
      BY <1>5, <1>6, <1>7, <2>3, <3>1
    <3> QED BY <1>4, <2>2, <3>2 DEF Ordered
  <2>5. IsFiniteSet(touched'[k])
    BY TouchTypes DEF TInv, TouchedOK, ValuesOK
  <2>6. Cardinality(Kept') = Len(kept) BY <1>7, <1>8, OrderedLength
  <2>7. Len(kept) = MaxKeys BY <1>6, <1>7, <2>3
  <2>8. IsFiniteSet(Kept') /\ Cardinality(Kept') <= Cardinality(touched'[k])
    BY <2>4, <2>5, FS_Subset
  <2>9. Cardinality(touched'[k]) \in Nat BY <2>5, FS_CardinalityType
  <2> QED BY <2>6, <2>7, <2>8, <2>9, CountersAssumption
<1>14. \A k \in Kept \ Kept' : Gone(k) BY <1>1, <1>13 DEF Gone
<1> QED BY <1>9, <1>12, <1>14

\* incr() of Redis counts, and forgets nothing else.
LEMMA RedisIncrEffect ==
  ASSUME TInv, NEW ip \in Ips, RedisIncr(ip), now' = now
  PROVE  Counted(ip) /\ Kept \subseteq Kept' /\ UNCHANGED <<order, writes>>
<1>1. /\ Kept' = Kept \union {ip}
      /\ \A k \in Kept' : values'[k] = IF k = ip THEN RedisCount(ip) ELSE values[k]
  BY DEF RedisIncr, Kept
<1>2. values'[ip] = RedisCount(ip) BY <1>1
<1>3. \/ ip \in Kept /\ ~Expired(ip) /\ RedisCount(ip) = [values[ip] EXCEPT !.count = @ + 1]
      \/ (ip \in Kept => Expired(ip)) /\ RedisCount(ip) = [count |-> 1, expires |-> now + Window]
  BY DEF RedisCount
<1> QED BY <1>1, <1>2, <1>3 DEF Counted, RedisIncr

\* A failure that is counted keeps the types of the entries and of the failures.
LEMMA CountedTypes ==
  ASSUME TInv, NEW ip \in Ips, Counted(ip), seen[ip][now] < Burst
  PROVE  ValuesOK' /\ FailuresOK'
<1>1. /\ Kept \subseteq Ips /\ now \in Nat /\ now' = now /\ now <= MaxNow /\ MaxNow \in Nat
      /\ Burst \in Nat /\ Window \in Nat \ {0}
  BY CountersAssumption DEF TInv, ClockOK, ValuesOK, Counted
<1>2. ASSUME NEW k \in Kept'
      PROVE  values'[k] \in Entries /\ values'[k].expires <= now' + Window
  <2>1. CASE k # ip
    <3>1. k \in Kept /\ values'[k] = values[k] BY <2>1, <1>2 DEF Counted
    <3> QED BY <1>1, <3>1 DEF TInv, ValuesOK
  <2>2. CASE k = ip /\ ip \in Kept /\ values'[ip] = [values[ip] EXCEPT !.count = @ + 1]
    <3> DEFINE v == values[ip]
    <3>1. v \in Entries /\ v.expires <= now + Window BY <2>2 DEF TInv, ValuesOK
    <3> HIDE DEF v
    <3>2. [v EXCEPT !.count = @ + 1] \in Entries /\ [v EXCEPT !.count = @ + 1].expires = v.expires
      BY <3>1 DEF Entries
    <3> QED BY <1>1, <2>2, <3>1, <3>2 DEF v
  <2>3. CASE k = ip /\ values'[ip] = [count |-> 1, expires |-> now + Window]
    BY <1>1, <2>3 DEF Entries
  <2> QED BY <2>1, <2>2, <2>3 DEF Counted
<1>3. Kept' \subseteq Ips BY <1>1 DEF Counted
<1>4. alarm' \subseteq Ips BY DEF Counted, Conclude
<1>5. /\ seen \in [Ips -> [0..MaxNow -> 0..Burst]] /\ quiet \in [Ips -> [0..MaxNow -> 0..Burst]]
      /\ now \in 0..MaxNow
  BY DEF TInv, FailuresOK, ClockOK
<1>6. /\ seen' = [seen EXCEPT ![ip][now] = @ + 1]
      /\ quiet' = quiet \/ quiet' = [quiet EXCEPT ![ip][now] = @ + 1]
  BY DEF Counted, Conclude, Unmatched
<1>7. \A k \in Ips, t \in 0..MaxNow :
        quiet[k][t] <= seen[k][t] /\ (t > now => seen[k][t] = 0)
  BY DEF TInv, FailuresOK
<1>8. seen[ip][now] + 1 \in 0..Burst BY <1>1, <1>5
<1>9. seen' \in [Ips -> [0..MaxNow -> 0..Burst]] BY <1>5, <1>6, <1>8
<1>10. quiet[ip][now] + 1 \in 0..Burst BY <1>1, <1>5, <1>7
<1>11. quiet' \in [Ips -> [0..MaxNow -> 0..Burst]]
  <2>1. CASE quiet' = [quiet EXCEPT ![ip][now] = @ + 1] BY <1>5, <1>10, <2>1
  <2> QED BY <1>5, <1>6, <2>1
<1>12. ASSUME NEW k \in Ips, NEW t \in 0..MaxNow
       PROVE  quiet'[k][t] <= seen'[k][t] /\ (t > now => seen'[k][t] = 0)
  <2>1. seen'[k][t] = IF k = ip /\ t = now THEN seen[k][t] + 1 ELSE seen[k][t]
    BY <1>5, <1>6
  <2>2. quiet'[k][t] = quiet[k][t] \/ (k = ip /\ t = now /\ quiet'[k][t] = quiet[k][t] + 1)
    <3>1. CASE quiet' = [quiet EXCEPT ![ip][now] = @ + 1] BY <1>5, <3>1
    <3> QED BY <1>6, <3>1
  <2>3. seen[k][t] \in Nat /\ quiet[k][t] \in Nat BY <1>1, <1>5, SMTT(30)
  <2> QED BY <1>1, <1>7, <2>1, <2>2, <2>3
<1> QED BY <1>1, <1>2, <1>3, <1>4, <1>9, <1>11, <1>12 DEF ValuesOK, FailuresOK

-----------------------------------------------------------------------------
(* Types.                                                                    *)

\* The invariant says what TypeOK says.
LEMMA TInvTypes == TInv => TypeOK
<1> SUFFICES ASSUME TInv PROVE TypeOK OBVIOUS
<1>1. order \in Seq(Ips)
  <2>1. CASE backend = "redis" BY <2>1, EmptySeq DEF TInv, OrderOK
  <2>2. CASE backend = "memory" BY <2>2 DEF TInv, OrderOK, Ordered
  <2> QED BY <2>1, <2>2 DEF TInv, ClockOK
<1> QED BY <1>1 DEF TInv, ClockOK, ValuesOK, TouchedOK, FailuresOK, TypeOK

\* It holds at the start.
LEMMA TInvInit == Init => TInv
<1> SUFFICES ASSUME Init PROVE TInv OBVIOUS
<1>1. Kept = {} BY DEF Init, Kept
<1>2. ClockOK BY CountersAssumption DEF Init, StoresStart, ClockOK
<1>3. ValuesOK BY <1>1 DEF ValuesOK
<1>4. OrderOK
  <2>1. order = <<>> /\ <<>> \in Seq(Ips) /\ Len(<<>>) = 0 BY EmptySeq DEF Init
  <2> QED BY <1>1, <2>1 DEF OrderOK, Ordered
<1>5. TouchedOK BY FS_EmptySet DEF Init, TouchedOK
<1>6. FailuresOK BY CountersAssumption DEF Init, FailuresOK
<1> QED BY <1>2, <1>3, <1>4, <1>5, <1>6 DEF TInv

\* What the steps are.
StepIs ==
  \/ \E ip \in Ips : /\ Counted(ip) /\ Touch(ip) /\ seen[ip][now] < Burst
                     /\ \A k \in Kept \ Kept' : Gone(k)
  \/ \E ip \in Ips : /\ Conclude(ip, 1) /\ Touch(ip) /\ seen[ip][now] < Burst
                     /\ UNCHANGED <<now, store, quiet>>
  \/ \E ip \in Ips : LoginClears(ip)
  \/ \E ip \in Ips : ReadCounter(ip)
  \/ UNCHANGED <<now, store, seen, quiet, touched>> /\ (alarm' = {} \/ alarm' = alarm)
  \/ Tick

\* Every step is one of those StepIs describes, and the store stays the one in use.
LEMMA StepCases ==
  ASSUME TInv, [Next]_vars
  PROVE  backend' = backend /\ StepIs
<1>1. backend' = backend BY DEF Next, vars
<1>2. CASE UNCHANGED vars BY <1>2 DEF vars, history, StepIs
<1>3. CASE Tick BY <1>1, <1>3 DEF StepIs
<1>4. ASSUME NEW ip \in Ips, LoginFailed(ip) PROVE StepIs
  <2>1. Touch(ip) /\ now' = now /\ seen[ip][now] < Burst BY <1>4 DEF LoginFailed
  <2>2. CASE RedisIncr(ip) BY <2>1, <2>2, RedisIncrEffect DEF StepIs
  <2>3. CASE RedisIncrFails(ip) BY <2>1, <2>3 DEF StepIs, RedisIncrFails
  <2>4. CASE MemoryIncr(ip) BY <2>1, <2>4, MemoryIncrEffect DEF StepIs
  <2> QED BY <1>4, <2>2, <2>3, <2>4 DEF LoginFailed
<1>5. ASSUME NEW ip \in Ips, LoginSucceeded(ip) \/ Throttle(ip) PROVE StepIs
  BY <1>5 DEF LoginSucceeded, Throttle, RedisUnheard, StepIs
<1> QED BY <1>1, <1>2, <1>3, <1>4, <1>5 DEF Next, LoginStep

\* Every step keeps it.
LEMMA TInvStep == TInv /\ [Next]_vars => TInv'
<1> SUFFICES ASSUME TInv, [Next]_vars PROVE TInv' OBVIOUS
<1>1. /\ ClockOK /\ ValuesOK /\ OrderOK /\ TouchedOK /\ FailuresOK
      /\ backend' = backend
  BY StepCases DEF TInv
<1>2. /\ MaxNow \in Nat /\ Burst \in Nat /\ PruneInterval \in Nat \ {0} /\ Window \in Nat \ {0}
  BY CountersAssumption
<1>3. ASSUME NEW ip \in Ips, LoginFailed(ip) PROVE TInv'
  <2>1. Touch(ip) /\ now' = now /\ seen[ip][now] < Burst /\ TouchedOK'
    BY <1>1, <1>3, TouchTypes DEF LoginFailed
  <2>2. CASE RedisIncr(ip)
    <3>1. Counted(ip) /\ UNCHANGED <<order, writes>> /\ backend = "redis"
      BY <2>1, <2>2, RedisIncrEffect DEF RedisIncr
    <3>2. ClockOK' /\ OrderOK' BY <1>1, <2>1, <3>1 DEF ClockOK, OrderOK
    <3> QED BY <2>1, <3>1, <3>2, CountedTypes DEF TInv
  <2>3. CASE RedisIncrFails(ip)
    <3>1. UNCHANGED <<store, quiet>> /\ Conclude(ip, 1) /\ backend = "redis"
      BY <2>3 DEF RedisIncrFails
    <3>2. Kept' = Kept BY <3>1 DEF store, Kept
    <3>3. ClockOK' /\ OrderOK' /\ ValuesOK'
      BY <1>1, <2>1, <3>1, <3>2 DEF ClockOK, OrderOK, ValuesOK, store
    <3>4. seen[ip][now] + 1 \in 0..Burst BY <1>1, <1>2, <2>1 DEF FailuresOK, ClockOK
    <3>5. seen' = [seen EXCEPT ![ip][now] = @ + 1] /\ alarm' \subseteq Ips BY <3>1 DEF Conclude
    <3>6. seen' \in [Ips -> [0..MaxNow -> 0..Burst]] BY <1>1, <3>4, <3>5 DEF FailuresOK
    <3>7. ASSUME NEW k \in Ips, NEW t \in 0..MaxNow
          PROVE  quiet'[k][t] <= seen'[k][t] /\ (t > now' => seen'[k][t] = 0)
      <4>1. seen'[k][t] = IF k = ip /\ t = now THEN seen[k][t] + 1 ELSE seen[k][t]
        BY <1>1, <3>5 DEF FailuresOK
      <4>2. seen[k][t] \in Nat /\ quiet[k][t] \in Nat BY <1>1, <1>2 DEF FailuresOK
      <4>3. quiet[k][t] <= seen[k][t] /\ (t > now => seen[k][t] = 0) BY <1>1 DEF FailuresOK
      <4>4. now \in Nat BY <1>1, <1>2 DEF ClockOK
      <4> QED BY <2>1, <3>1, <4>1, <4>2, <4>3, <4>4
    <3>8. FailuresOK' BY <1>1, <3>1, <3>5, <3>6, <3>7 DEF FailuresOK
    <3> QED BY <2>1, <3>3, <3>8 DEF TInv
  <2>4. CASE MemoryIncr(ip)
    <3>1. Counted(ip) /\ Ordered(order', Kept', touched') /\ backend = "memory"
      BY <2>1, <2>4, MemoryIncrEffect DEF MemoryIncr
    <3>2. writes' \in 0..(PruneInterval - 1) BY <1>1, <1>2, <2>4 DEF MemoryIncr, ClockOK
    <3>3. ClockOK' /\ OrderOK' BY <1>1, <2>1, <3>1, <3>2 DEF ClockOK, OrderOK
    <3> QED BY <2>1, <3>1, <3>3, CountedTypes DEF TInv
  <2> QED BY <1>3, <2>2, <2>3, <2>4 DEF LoginFailed
\* Some keys are taken out, and the failures of one address are forgotten or none are.
<1>4. ASSUME NEW T, values' = Keep(Kept \ T), UNCHANGED <<now, writes>>, alarm' = {},
             \/ UNCHANGED <<seen, quiet>>
             \/ \E ip \in Ips : /\ seen' = [seen EXCEPT ![ip] = [t \in 0..MaxNow |-> 0]]
                                /\ quiet' = [quiet EXCEPT ![ip] = [t \in 0..MaxNow |-> 0]]
      PROVE  Kept' = Kept \ T /\ ClockOK' /\ ValuesOK' /\ FailuresOK'
  <2>1. Kept' = Kept \ T /\ \A k \in Kept' : values'[k] = values[k] BY <1>4 DEF Keep, Kept
  <2>2. ClockOK' /\ ValuesOK' BY <1>1, <1>4, <2>1 DEF ClockOK, ValuesOK
  <2>3. ASSUME UNCHANGED <<seen, quiet>> PROVE FailuresOK'
    BY <1>1, <1>4, <2>3 DEF FailuresOK
  <2>4. ASSUME NEW ip \in Ips, seen' = [seen EXCEPT ![ip] = [t \in 0..MaxNow |-> 0]],
               quiet' = [quiet EXCEPT ![ip] = [t \in 0..MaxNow |-> 0]]
        PROVE  FailuresOK'
    <3>1. /\ seen' \in [Ips -> [0..MaxNow -> 0..Burst]]
          /\ quiet' \in [Ips -> [0..MaxNow -> 0..Burst]]
      BY <1>1, <1>2, <2>4 DEF FailuresOK
    <3>2. ASSUME NEW k \in Ips, NEW t \in 0..MaxNow
          PROVE  quiet'[k][t] <= seen'[k][t] /\ (t > now' => seen'[k][t] = 0)
      <4>1. CASE k = ip BY <1>1, <2>4, <4>1 DEF FailuresOK
      <4>2. CASE k # ip BY <1>1, <1>4, <2>4, <4>2 DEF FailuresOK
      <4> QED BY <4>1, <4>2
    <3> QED BY <1>4, <3>1, <3>2 DEF FailuresOK
  <2> QED BY <1>4, <2>1, <2>2, <2>3, <2>4
<1>5. ASSUME NEW T PROVE backend = "memory" => Ordered(Without(order, T), Kept \ T, touched)
  BY <1>1, OrderedWithout DEF OrderOK
<1>6. ASSUME NEW T PROVE backend = "redis" => Without(order, T) = <<>>
  BY <1>1, WithoutEmpty DEF OrderOK
<1>7. ASSUME NEW ip \in Ips, LoginClears(ip) PROVE TInv'
  <2>1. Kept' = Kept \ {ip} /\ ClockOK' /\ ValuesOK' /\ FailuresOK'
    BY <1>4, <1>7 DEF LoginClears
  <2>2. OrderOK' /\ TouchedOK'
    BY <1>1, <1>5, <1>6, <1>7, <2>1 DEF LoginClears, OrderOK, TouchedOK
  <2> QED BY <2>1, <2>2 DEF TInv
<1>8. ASSUME NEW ip \in Ips, ReadCounter(ip) PROVE TInv'
  <2>1. Kept' = Kept \ DropsOnRead(ip) /\ ClockOK' /\ ValuesOK' /\ FailuresOK'
    BY <1>4, <1>8 DEF ReadCounter
  <2>2. Touch(ip) /\ ip \in Kept /\ TouchedOK' BY <1>1, <1>8, TouchTypes DEF ReadCounter
  <2>3. ASSUME backend = "redis" PROVE OrderOK'
    BY <1>1, <1>8, <2>3 DEF ReadCounter, OrderOK
  <2>4. ASSUME backend = "memory" PROVE OrderOK'
    <3> DEFINE o == Without(order, {ip})
               K == Kept \ {ip}
               g == [k \in Ips |-> IF k = ip THEN {} ELSE touched[k] \union {ip}]
    <3>1. Ordered(o, K, touched) /\ touched \in [Ips -> SUBSET Ips] /\ K \subseteq Ips
          /\ ip \in Ips \ K /\ touched' = g
      BY <1>1, <1>5, <2>2, <2>4 DEF ValuesOK, TouchedOK, Touch
    <3>2. Ordered(Append(o, ip), K \union {ip}, g)
      <4> HIDE DEF o, K, g
      <4> QED BY <3>1, OrderedUse DEF g
    <3>3. CASE DropsOnRead(ip) # {}
      <4>1. order' = o /\ Kept' = K BY <1>8, <2>1, <2>4, <3>3 DEF ReadCounter, DropsOnRead
      <4>2. ASSUME NEW i \in 1..Len(o), NEW j \in 1..Len(o), i < j
            PROVE  o[i] # o[j] /\ o[j] \in touched'[o[i]]
        <5>1. o[i] # o[j] /\ o[j] \in touched[o[i]] /\ o[i] \in K
          BY <3>1, <4>2 DEF Ordered
        <5> QED BY <3>1, <5>1
      <4>3. Ordered(o, K, touched') BY <3>1, <4>2 DEF Ordered
      <4> QED BY <1>1, <2>4, <4>1, <4>3 DEF OrderOK
    <3>4. CASE DropsOnRead(ip) = {}
      <4>1. order' = Append(o, ip) /\ Kept' = K \union {ip}
        BY <1>8, <2>1, <2>2, <2>4, <3>4 DEF ReadCounter, Use
      <4> QED BY <1>1, <2>4, <3>1, <3>2, <4>1 DEF OrderOK
    <3> QED BY <3>3, <3>4
  <2> QED BY <1>1, <2>1, <2>2, <2>3, <2>4 DEF TInv, ClockOK
<1>9. CASE Tick
  <2>1. /\ now' = now + 1 /\ now' <= MaxNow /\ UNCHANGED <<values, order, writes, seen, quiet, touched>>
        /\ alarm' = {} /\ now \in Nat
    BY <1>1, <1>2, <1>9 DEF Tick, ClockOK, store
  <2>2. Kept' = Kept BY <2>1 DEF Kept
  <2>3. ClockOK' BY <1>1, <1>2, <2>1 DEF ClockOK
  <2>4. ValuesOK'
    <3>1. ASSUME NEW k \in Kept PROVE values[k].expires <= now' + Window
      <4>1. values[k].expires \in Nat /\ values[k].expires <= now + Window
        BY <1>1, <1>2 DEF ValuesOK, Entries
      <4> QED BY <1>2, <2>1, <4>1
    <3> QED BY <1>1, <2>1, <2>2, <3>1 DEF ValuesOK
  <2>5. OrderOK' /\ TouchedOK' BY <1>1, <2>1, <2>2 DEF OrderOK, TouchedOK
  <2>6. \A k \in Ips, t \in 0..MaxNow : quiet[k][t] <= seen[k][t] /\ (t > now + 1 => seen[k][t] = 0)
    BY <1>1, <2>1 DEF FailuresOK
  <2>7. FailuresOK' BY <1>1, <2>1, <2>6 DEF FailuresOK
  <2> QED BY <2>3, <2>4, <2>5, <2>7 DEF TInv
<1>10. ASSUME UNCHANGED <<now, store, seen, quiet, touched>>, alarm' = {} \/ alarm' = alarm
       PROVE  TInv'
  <2>1. Kept' = Kept /\ UNCHANGED <<now, values, order, writes, seen, quiet, touched>>
    BY <1>10 DEF Kept, store
  <2>2. ClockOK' /\ ValuesOK' BY <1>1, <2>1 DEF ClockOK, ValuesOK
  <2>3. OrderOK' /\ TouchedOK' BY <1>1, <2>1 DEF OrderOK, TouchedOK
  <2>4. FailuresOK' BY <1>1, <1>10, <2>1 DEF FailuresOK
  <2> QED BY <2>2, <2>3, <2>4 DEF TInv
<1>11. CASE UNCHANGED vars BY <1>10, <1>11 DEF vars, history
<1> QED
  BY <1>3, <1>7, <1>8, <1>9, <1>10, <1>11
  DEF Next, LoginStep, LoginSucceeded, Throttle, RedisUnheard

\* counters.py, redis.py, brute_force.py.  The type of every variable: the counters are
\* those of known addresses, with an expiry, and the sequence of their keys is one.
THEOREM TypesHold == Spec => []TypeOK
<1>1. Spec => []TInv BY TInvInit, TInvStep, PTL DEF Spec
<1> QED BY <1>1, TInvTypes, PTL

-----------------------------------------------------------------------------
(* Counting failures.                                                        *)

\* The failures f counts in the ticks up to n.
UpTo(f, n) == {x \in (0..n) \X (1..Burst) : x[2] <= f[x[1]]}

\* Those at tick e or later, and those after tick e, of ticks d wide.
Since(f, n, e)    == {x \in UpTo(f, n) : e <= x[1] + Window}
After(f, n, e, d) == {x \in UpTo(f, n) : e < x[1] + d}

Series == [0..MaxNow -> 0..Burst]

\* They are finitely many, and so are those that satisfy a bound.
LEMMA UpToFinite ==
  ASSUME NEW f, NEW n \in Nat, NEW S \in SUBSET UpTo(f, n)
  PROVE  IsFiniteSet(S) /\ Cardinality(S) \in Nat
<1>1. Burst \in Nat BY CountersAssumption
<1>2. IsFiniteSet(0..n) /\ IsFiniteSet(1..Burst) BY <1>1, FS_Interval
<1>3. IsFiniteSet((0..n) \X (1..Burst)) BY <1>2, FS_Product
<1>4. S \subseteq (0..n) \X (1..Burst) BY DEF UpTo
<1>5. IsFiniteSet(S) BY <1>3, <1>4, FS_Subset
<1> QED BY <1>5, FS_CardinalityType

\* A set with one more element at most has at most one more.
LEMMA OneMore ==
  ASSUME NEW S, NEW T, NEW x, IsFiniteSet(S), T \subseteq S \union {x}
  PROVE  Cardinality(T) <= Cardinality(S) + 1
<1>1. IsFiniteSet(S \union {x}) /\ Cardinality(S \union {x}) <= Cardinality(S) + 1
      /\ Cardinality(S) \in Nat
  <2>1. Cardinality(S) \in Nat BY FS_CardinalityType
  <2> QED BY <2>1, FS_AddElement
<1>2. IsFiniteSet(T) /\ Cardinality(T) <= Cardinality(S \union {x}) BY <1>1, FS_Subset
<1>3. Cardinality(T) \in Nat /\ Cardinality(S \union {x}) \in Nat
  BY <1>1, <1>2, FS_CardinalityType
<1> QED BY <1>1, <1>2, <1>3

\* One more failure in the present tick.
LEMMA UpToGrows ==
  ASSUME NEW f \in Series, NEW n \in 0..MaxNow, f[n] < Burst
  PROVE  /\ <<n, f[n] + 1>> \notin UpTo(f, n)
         /\ UpTo([f EXCEPT ![n] = @ + 1], n) = UpTo(f, n) \union {<<n, f[n] + 1>>}
<1>1. MaxNow \in Nat /\ Burst \in Nat /\ n \in Nat BY CountersAssumption
<1> DEFINE g == [f EXCEPT ![n] = @ + 1]
           new == <<n, f[n] + 1>>
<1>2. f[n] \in Nat /\ f[n] + 1 \in 1..Burst BY <1>1 DEF Series
<1>3. \A t \in 0..n : f[t] \in Nat /\ g[t] = IF t = n THEN f[n] + 1 ELSE f[t]
  BY <1>1 DEF Series
<1> HIDE DEF g
<1>4. new \in (0..n) \X (1..Burst) /\ new[1] = n /\ new[2] = f[n] + 1 BY <1>1, <1>2
<1>5. new \notin UpTo(f, n) BY <1>2, <1>4 DEF UpTo
<1>6. new \in UpTo(g, n) BY <1>1, <1>2, <1>3, <1>4 DEF UpTo
<1>7. ASSUME NEW x \in (0..n) \X (1..Burst)
      PROVE  x \in UpTo(g, n) <=> x \in UpTo(f, n) \/ x = new
  <2>1. x[1] \in 0..n /\ x[2] \in 1..Burst /\ x = <<x[1], x[2]>> OBVIOUS
  <2>2. CASE x[1] # n
    <3>1. x # new BY <1>4, <2>2
    <3> QED BY <1>3, <2>1, <2>2, <3>1 DEF UpTo
  <2>3. CASE x[1] = n
    <3>1. x[2] <= f[n] + 1 <=> x[2] <= f[n] \/ x[2] = f[n] + 1 BY <1>1, <1>2, <2>1
    <3>2. x = new <=> x[2] = f[n] + 1 BY <2>1, <2>3
    <3>3. g[x[1]] = f[n] + 1 /\ f[x[1]] = f[n] BY <1>1, <1>3, <2>3
    <3> HIDE DEF new
    <3> QED BY <3>1, <3>2, <3>3 DEF UpTo
  <2> QED BY <2>2, <2>3
<1>8. UpTo(g, n) = UpTo(f, n) \union {new}
  <2>1. UpTo(g, n) \subseteq (0..n) \X (1..Burst) /\ UpTo(f, n) \subseteq (0..n) \X (1..Burst)
    BY DEF UpTo
  <2> HIDE DEF new
  <2> QED BY <1>4, <1>7, <2>1
<1> QED BY <1>5, <1>8 DEF g

\* The clock moves on to a tick without failures.
LEMMA UpToLater ==
  ASSUME NEW f \in Series, NEW n \in Nat, n < MaxNow
  PROVE  /\ UpTo(f, n) \subseteq UpTo(f, n + 1)
         /\ f[n + 1] = 0 => UpTo(f, n + 1) = UpTo(f, n)
<1>1. MaxNow \in Nat /\ Burst \in Nat BY CountersAssumption
<1>2. UpTo(f, n) \subseteq UpTo(f, n + 1) BY <1>1 DEF UpTo
<1>3. ASSUME f[n + 1] = 0, NEW x \in UpTo(f, n + 1) PROVE x \in UpTo(f, n)
  <2>1. /\ x \in (0..(n + 1)) \X (1..Burst) /\ x[1] \in 0..(n + 1) /\ x[2] \in 1..Burst
        /\ x[2] <= f[x[1]] /\ x = <<x[1], x[2]>>
    BY DEF UpTo
  <2>2. x[1] # n + 1 BY <1>1, <1>3, <2>1
  <2>3. x[1] \in 0..n BY <2>1, <2>2
  <2>4. x \in (0..n) \X (1..Burst) BY <2>1, <2>3
  <2> QED BY <2>1, <2>4 DEF UpTo
<1> QED BY <1>2, <1>3

-----------------------------------------------------------------------------
(* The failures behind a count.                                              *)

\* A live counter counts no more than the failures since it was created.
CountInv ==
  \A ip \in Kept :
    ~Expired(ip) => values[ip].count <= Cardinality(Since(seen[ip], now, values[ip].expires))

\* Created within the last Window ticks, it counts recent failures alone.
LEMMA CountsRecent ==
  ASSUME TInv, CountInv, NEW ip \in Kept, ~Expired(ip)
  PROVE  Recent(seen[ip]) \in Nat /\ values[ip].count <= Recent(seen[ip])
<1> DEFINE S == Since(seen[ip], now, values[ip].expires)
           R == After(seen[ip], now, now, Window)
<1>1. now \in Nat /\ Window \in Nat /\ values[ip].expires \in Nat /\ values[ip].count \in Nat
      /\ values[ip].expires > now
  BY CountersAssumption DEF TInv, ClockOK, ValuesOK, Entries, Expired
<1>2. Recent(seen[ip]) = Cardinality(R) BY DEF Recent, Failures, After, UpTo
<1>3. S \subseteq R
  <2> SUFFICES ASSUME NEW x \in S PROVE x \in R OBVIOUS
  <2>1. x \in UpTo(seen[ip], now) /\ values[ip].expires <= x[1] + Window BY DEF Since
  <2>2. x[1] \in Nat BY <2>1, <1>1 DEF UpTo
  <2> QED BY <1>1, <2>1, <2>2 DEF After
<1>4. R \in SUBSET UpTo(seen[ip], now) /\ S \in SUBSET UpTo(seen[ip], now) BY DEF After, Since
<1> HIDE DEF R, S
<1>5. IsFiniteSet(R) /\ Cardinality(R) \in Nat /\ Cardinality(S) \in Nat
  BY <1>1, <1>4, UpToFinite
<1>6. Cardinality(S) <= Cardinality(R) BY <1>3, <1>5, FS_Subset
<1>7. values[ip].count <= Cardinality(S) BY DEF CountInv, S
<1> QED BY <1>1, <1>2, <1>5, <1>6, <1>7

\* A counter that a step leaves as it is, while the failures grow if they change.
LEMMA CountKept ==
  ASSUME TInv, TInv', CountInv, NEW k \in Kept, k \in Kept', values'[k] = values[k],
         now <= now', UpTo(seen[k], now) \subseteq UpTo(seen'[k], now'), ~Expired(k)'
  PROVE  values'[k].count <= Cardinality(Since(seen'[k], now', values'[k].expires))
<1> DEFINE v == values[k]
           S == Since(seen[k], now, v.expires)
           R == Since(seen'[k], now', v.expires)
<1>1. now \in Nat /\ now' \in Nat /\ v.expires \in Nat /\ v.count \in Nat
  BY CountersAssumption DEF TInv, ClockOK, ValuesOK, Entries
<1>2. ~(v.expires <= now') BY DEF Expired
<1>3. ~Expired(k) BY <1>1, <1>2 DEF Expired
<1>4. v.count <= Cardinality(S) BY <1>3 DEF CountInv
<1>5. S \subseteq R BY DEF Since
<1>6. R \in SUBSET UpTo(seen'[k], now') /\ S \in SUBSET UpTo(seen[k], now) BY DEF Since
<1> HIDE DEF R, S
<1>7. IsFiniteSet(R) /\ Cardinality(R) \in Nat /\ Cardinality(S) \in Nat
  BY <1>1, <1>6, UpToFinite
<1>8. Cardinality(S) <= Cardinality(R) BY <1>5, <1>7, FS_Subset
<1>9. v.count <= Cardinality(R) BY <1>1, <1>4, <1>7, <1>8
<1> QED BY <1>9 DEF R

\* The counter a failure was counted on.
LEMMA CountedCount ==
  ASSUME TInv, CountInv, NEW ip \in Ips, Counted(ip), seen[ip][now] < Burst, ~Expired(ip)'
  PROVE  values'[ip].count <= Cardinality(Since(seen'[ip], now', values'[ip].expires))
<1> DEFINE f == seen[ip]
           g == seen'[ip]
           new == <<now, f[now] + 1>>
           e == values'[ip].expires
           S == Since(f, now, e)
           R == Since(g, now, e)
<1>1. now \in Nat /\ now' = now /\ Window \in Nat \ {0} /\ f \in Series /\ now \in 0..MaxNow
  BY CountersAssumption DEF TInv, ClockOK, FailuresOK, Counted, Series
<1>2. g = [f EXCEPT ![now] = @ + 1]
  BY DEF Counted, Conclude, TInv, FailuresOK
<1> HIDE DEF f, g
<1>3. new \notin UpTo(f, now) /\ UpTo(g, now) = UpTo(f, now) \union {new}
  BY <1>1, <1>2, UpToGrows DEF f
<1>4. new[1] = now OBVIOUS
<1> HIDE DEF new
<1>5. R \in SUBSET UpTo(g, now) /\ S \in SUBSET UpTo(f, now) BY DEF Since
<1>6. IsFiniteSet(R) /\ Cardinality(R) \in Nat /\ IsFiniteSet(S) /\ Cardinality(S) \in Nat
  BY <1>1, <1>5, UpToFinite
<1>7. ASSUME e <= now + Window PROVE R = S \union {new} /\ new \notin S
  BY <1>3, <1>4, <1>7 DEF Since
<1>8. ASSUME e <= now + Window PROVE Cardinality(R) = Cardinality(S) + 1
  <2> HIDE DEF R, S
  <2> QED BY <1>6, <1>7, <1>8, FS_AddElement
<1>9. CASE ip \in Kept /\ values'[ip] = [values[ip] EXCEPT !.count = @ + 1]
  <2> DEFINE v == values[ip]
  <2>1. v \in Entries /\ v.expires <= now + Window BY <1>9 DEF TInv, ValuesOK
  <2> HIDE DEF v
  <2>2. /\ [v EXCEPT !.count = @ + 1].count = v.count + 1
        /\ [v EXCEPT !.count = @ + 1].expires = v.expires /\ v.count \in Nat
    BY <2>1 DEF Entries
  <2>3. values'[ip].count = v.count + 1 /\ e = v.expires BY <1>9, <2>2 DEF v
  <2>4. ~Expired(ip)
    <3>1. ip \in Kept' /\ ~(values'[ip].expires <= now')
      BY DEF Expired, Counted
    <3> QED BY <1>1, <2>3, <3>1 DEF v, Expired
  <2>5. v.count <= Cardinality(S) BY <1>9, <2>3, <2>4 DEF CountInv, f, v
  <2>6. Cardinality(R) = Cardinality(S) + 1 BY <1>8, <2>1, <2>3
  <2> HIDE DEF R, S, e
  <2>7. values'[ip].count <= Cardinality(R) BY <1>6, <2>2, <2>3, <2>5, <2>6
  <2> QED BY <1>1, <2>7 DEF R, e, g
<1>10. CASE values'[ip] = [count |-> 1, expires |-> now + Window]
  <2>1. values'[ip].count = 1 /\ e = now + Window BY <1>10
  <2>2. e <= now + Window BY <1>1, <2>1
  <2>3. Cardinality(R) = Cardinality(S) + 1 BY <1>8, <2>2
  <2> HIDE DEF R, S, e
  <2>4. values'[ip].count <= Cardinality(R) BY <1>6, <2>1, <2>3
  <2> QED BY <1>1, <2>4 DEF R, e, g
<1> QED BY <1>9, <1>10 DEF Counted

\* Every step keeps the counts in their bounds.
LEMMA CountStep ==
  ASSUME TInv, TInv', CountInv, [Next]_vars
  PROVE  CountInv'
<1> DEFINE Fine(k) == values'[k].count <= Cardinality(Since(seen'[k], now', values'[k].expires))
<1>1. SUFFICES ASSUME NEW k \in Kept', ~Expired(k)' PROVE Fine(k)
  BY DEF CountInv
<1> HIDE DEF Fine
<1>2. now \in 0..MaxNow /\ MaxNow \in Nat /\ now \in Nat /\ k \in Ips
      /\ seen \in [Ips -> Series]
  <2>1. k \in Ips BY <1>1 DEF TInv, ValuesOK
  <2>2. now \in 0..MaxNow /\ MaxNow \in Nat /\ seen \in [Ips -> Series]
    BY CountersAssumption DEF TInv, ClockOK, FailuresOK, Series
  <2> QED BY <2>1, <2>2
<1>3. ASSUME k \in Kept, values'[k] = values[k], now <= now',
             UpTo(seen[k], now) \subseteq UpTo(seen'[k], now')
      PROVE  Fine(k)
  BY <1>1, <1>3, CountKept DEF Fine
<1>4. ASSUME k \in Kept, values'[k] = values[k], UNCHANGED now, seen'[k] = seen[k]
      PROVE  Fine(k)
  BY <1>2, <1>3, <1>4
<1>5. ASSUME NEW ip \in Ips, Counted(ip), seen[ip][now] < Burst PROVE Fine(k)
  <2>1. CASE k = ip BY <1>1, <1>5, <2>1, CountedCount DEF Fine
  <2>2. CASE k # ip
    <3>1. seen'[k] = seen[k] /\ values'[k] = values[k] /\ k \in Kept /\ now' = now
      BY <1>1, <1>2, <1>5, <2>2 DEF Counted, Conclude
    <3> QED BY <1>4, <3>1
  <2> QED BY <2>1, <2>2
<1>6. ASSUME NEW ip \in Ips, Conclude(ip, 1), seen[ip][now] < Burst,
             UNCHANGED <<now, store, quiet>>
      PROVE  Fine(k)
  <2>1. values'[k] = values[k] /\ k \in Kept /\ now' = now BY <1>1, <1>6 DEF store, Kept
  <2>2. CASE k # ip
    <3>1. seen'[k] = seen[k] BY <1>2, <1>6, <2>2 DEF Conclude
    <3> QED BY <1>4, <2>1, <3>1
  <2>3. CASE k = ip
    <3>1. seen'[k] = [seen[k] EXCEPT ![now] = @ + 1] BY <1>2, <1>6, <2>3 DEF Conclude
    <3> DEFINE f == seen[k]
    <3>2. f \in Series /\ f[now] < Burst BY <1>2, <1>6, <2>3
    <3> HIDE DEF f
    <3>3. UpTo(f, now) \subseteq UpTo([f EXCEPT ![now] = @ + 1], now) BY <1>2, <3>2, UpToGrows
    <3>4. UpTo(seen[k], now) \subseteq UpTo(seen'[k], now') BY <2>1, <3>1, <3>3 DEF f
    <3> QED BY <1>2, <1>3, <2>1, <3>4
  <2> QED BY <2>2, <2>3
<1>7. ASSUME NEW ip \in Ips, LoginClears(ip) PROVE Fine(k)
  <2>1. k \in Kept \ {ip} /\ values'[k] = values[k] BY <1>1, <1>7 DEF LoginClears, Keep, Kept
  <2>2. seen'[k] = seen[k] /\ now' = now BY <1>2, <1>7, <2>1 DEF LoginClears
  <2> QED BY <1>4, <2>1, <2>2
<1>8. ASSUME NEW ip \in Ips, ReadCounter(ip) PROVE Fine(k)
  <2>1. k \in Kept /\ values'[k] = values[k] BY <1>1, <1>8 DEF ReadCounter, Keep, Kept
  <2>2. seen'[k] = seen[k] /\ now' = now BY <1>8 DEF ReadCounter
  <2> QED BY <1>4, <2>1, <2>2
<1>9. ASSUME UNCHANGED <<now, store, seen, quiet, touched>> PROVE Fine(k)
  <2>1. k \in Kept /\ values'[k] = values[k] BY <1>1, <1>9 DEF Kept, store
  <2> QED BY <1>4, <1>9, <2>1
<1>10. CASE Tick
  <2>1. k \in Kept /\ values'[k] = values[k] /\ seen'[k] = seen[k] /\ now' = now + 1 /\ now < MaxNow
    BY <1>1, <1>10 DEF Tick, Kept, store
  <2>2. UpTo(seen[k], now) \subseteq UpTo(seen[k], now + 1) BY <1>2, <2>1, UpToLater
  <2> QED BY <1>2, <1>3, <2>1, <2>2
<1>11. StepIs BY StepCases
<1> QED BY <1>5, <1>6, <1>7, <1>8, <1>9, <1>10, <1>11 DEF StepIs

\* brute_force.py:68-78.  Over either store, an address is throttled only for failures
\* of the last Window ticks that no login has cleared.
THEOREM ThrottlesAreRecent == Spec => []ThrottleIsRecent
<1>1. Init => CountInv BY DEF Init, CountInv, Kept
<1>2. TInv /\ TInv' /\ CountInv /\ [Next]_vars => CountInv' BY CountStep
<1>3. TInv /\ CountInv => ThrottleIsRecent
  <2> SUFFICES ASSUME TInv, CountInv, NEW ip \in Ips, Throttled(ip)
               PROVE  Recent(seen[ip]) >= Threshold
    BY DEF ThrottleIsRecent
  <2>1. ip \in Kept /\ ~Expired(ip) /\ values[ip].count >= Threshold
    BY CountersAssumption DEF Throttled, CountOf
  <2>2. values[ip].count \in Nat BY <2>1 DEF TInv, ValuesOK, Entries
  <2> QED BY <2>1, <2>2, CountsRecent, CountersAssumption
<1> QED BY <1>1, <1>2, <1>3, TInvInit, TInvStep, PTL DEF Spec

\* Over Redis, the address of an alarm has a live counter at the threshold, or the one
\* failure that a failing Redis reports is a threshold of one.
AlarmInv ==
  backend = "redis" =>
    \A ip \in alarm :
      \/ ip \in Kept /\ ~Expired(ip) /\ values[ip].count >= Threshold
      \/ Threshold = 1 /\ seen[ip][now] >= 1

\* Every step keeps it.
LEMMA AlarmStep ==
  ASSUME TInv, AlarmInv, [Next]_vars
  PROVE  AlarmInv'
<1>1. backend' = backend BY StepCases
<1>2. CASE alarm' = {} BY <1>2 DEF AlarmInv
<1>3. CASE UNCHANGED vars
  <2>1. UNCHANGED <<backend, now, values, seen, alarm>> BY <1>3 DEF vars, store, history
  <2> QED BY <2>1 DEF AlarmInv, Expired, Kept
<1>4. ASSUME backend = "redis", NEW ip \in Ips, RedisIncr(ip), now' = now PROVE AlarmInv'
  <2>1. Counted(ip) BY <1>4, RedisIncrEffect
  <2>2. now \in Nat /\ Window \in Nat \ {0} BY CountersAssumption DEF TInv, ClockOK
  <2>3. ip \in Kept' /\ ~Expired(ip)'
    <3>1. CASE ip \in Kept /\ ~Expired(ip) /\ values'[ip] = [values[ip] EXCEPT !.count = @ + 1]
      <4> DEFINE v == values[ip]
      <4>1. v \in Entries BY <3>1 DEF TInv, ValuesOK
      <4> HIDE DEF v
      <4>2. [v EXCEPT !.count = @ + 1].expires = v.expires BY <4>1 DEF Entries
      <4>3. values'[ip].expires = values[ip].expires BY <3>1, <4>2 DEF v
      <4> QED BY <1>4, <2>1, <3>1, <4>3 DEF Expired, Counted
    <3>2. CASE values'[ip] = [count |-> 1, expires |-> now + Window]
      BY <1>4, <2>1, <2>2, <3>2 DEF Expired, Counted
    <3> QED BY <1>4, <2>1, <3>1, <3>2 DEF Counted
  <2>4. /\ \A k \in alarm' : k = ip /\ (values'[k].count >= Threshold \/ 1 >= Threshold)
        /\ seen' = [seen EXCEPT ![ip][now] = @ + 1]
    BY <2>1 DEF Counted, Conclude
  <2>5. seen'[ip][now] >= 1
    <3>1. seen'[ip][now] = seen[ip][now] + 1 /\ seen[ip][now] \in 0..Burst
      BY <2>4 DEF TInv, FailuresOK, ClockOK
    <3> QED BY <3>1, CountersAssumption
  <2> QED BY <1>4, <2>3, <2>4, <2>5, CountersAssumption DEF AlarmInv
<1>5. ASSUME backend = "redis", NEW ip \in Ips, RedisIncrFails(ip), now' = now,
             seen[ip][now] < Burst
      PROVE  AlarmInv'
  <2>1. \A k \in alarm' : k = ip /\ 1 >= Threshold BY <1>5 DEF RedisIncrFails, Conclude
  <2>2. seen'[ip][now] >= 1
    <3>1. seen'[ip][now] = seen[ip][now] + 1 /\ seen[ip][now] \in 0..Burst
      BY <1>5 DEF RedisIncrFails, Conclude, TInv, FailuresOK, ClockOK
    <3> QED BY <3>1, CountersAssumption
  <2> QED BY <1>5, <2>1, <2>2, CountersAssumption DEF AlarmInv
<1>6. CASE backend # "redis" BY <1>1, <1>6 DEF AlarmInv
<1>7. ASSUME NEW ip \in Ips, LoginFailed(ip), backend = "redis" PROVE AlarmInv'
  BY <1>4, <1>5, <1>7 DEF LoginFailed, MemoryIncr
<1> QED
  BY <1>2, <1>3, <1>6, <1>7
  DEF Next, LoginStep, LoginSucceeded, LoginClears, Throttle, ReadCounter, RedisUnheard, Tick

\* redis.py:30-32, "a fixed window is not reset on every hit".  Over Redis the rule
\* blames an address only for failures of the last Window ticks that no login has
\* cleared, even when a failing Redis counts one.
THEOREM AlarmsAreRecent == Spec => []AlarmIsRecent
<1>1. Init => CountInv /\ AlarmInv BY DEF Init, CountInv, Kept, AlarmInv
<1>2. TInv /\ TInv' /\ CountInv /\ [Next]_vars => CountInv' BY CountStep
<1>3. TInv /\ AlarmInv /\ [Next]_vars => AlarmInv' BY AlarmStep
<1>4. TInv /\ CountInv /\ AlarmInv => AlarmIsRecent
  <2> SUFFICES ASSUME TInv, CountInv, AlarmInv, backend = "redis", NEW ip \in alarm
               PROVE  Recent(seen[ip]) >= Threshold
    BY DEF AlarmIsRecent, BlamesRecent
  <2>1. CASE ip \in Kept /\ ~Expired(ip) /\ values[ip].count >= Threshold
    <3>1. values[ip].count \in Nat BY <2>1 DEF TInv, ValuesOK, Entries
    <3> QED BY <2>1, <3>1, CountsRecent, CountersAssumption
  <2>2. CASE Threshold = 1 /\ seen[ip][now] >= 1
    <3> DEFINE R == After(seen[ip], now, now, Window)
               x == <<now, 1>>
    <3>1. now \in Nat /\ Window \in Nat \ {0} /\ Burst \in Nat /\ seen[ip][now] \in 0..Burst
      BY CountersAssumption DEF TInv, ClockOK, FailuresOK
    <3>2. x \in R
      <4>1. x \in (0..now) \X (1..Burst) /\ x[1] = now /\ x[2] = 1 BY <2>2, <3>1
      <4> HIDE DEF x
      <4> QED BY <2>2, <3>1, <4>1 DEF After, UpTo
    <3>3. R \in SUBSET UpTo(seen[ip], now) BY DEF After
    <3>4. Recent(seen[ip]) = Cardinality(R) BY DEF Recent, Failures, After, UpTo
    <3> HIDE DEF R, x
    <3>5. IsFiniteSet(R) /\ Cardinality(R) \in Nat BY <3>1, <3>3, UpToFinite
    <3>6. Cardinality(R) # 0 BY <3>2, <3>5, FS_EmptySet
    <3> QED BY <2>2, <3>4, <3>5, <3>6
  <2> QED BY <2>1, <2>2 DEF AlarmInv
<1> QED BY <1>1, <1>2, <1>3, <1>4, TInvInit, TInvStep, PTL DEF Spec

-----------------------------------------------------------------------------
(* The eviction of a counter.                                                *)

\* A live counter has failures behind it: clearing them changes them.
LEMMA NoneBehindZero ==
  ASSUME TInv, CountInv, NEW ip \in Kept, ~Expired(ip)
  PROVE  seen[ip] # [t \in 0..MaxNow |-> 0]
<1> SUFFICES ASSUME seen[ip] = [t \in 0..MaxNow |-> 0] PROVE FALSE OBVIOUS
<1> DEFINE S == Since(seen[ip], now, values[ip].expires)
<1>1. values[ip].count \in Nat \ {0} /\ now \in 0..MaxNow /\ MaxNow \in Nat /\ Burst \in Nat
  BY CountersAssumption DEF TInv, ValuesOK, Entries, ClockOK
<1>2. S = {}
  <2> SUFFICES ASSUME NEW x \in S PROVE FALSE OBVIOUS
  <2>1. x[1] \in 0..now /\ x[2] \in 1..Burst /\ x[2] <= seen[ip][x[1]] BY DEF Since, UpTo
  <2>2. seen[ip][x[1]] = 0 BY <1>1, <2>1
  <2> QED BY <1>1, <2>1, <2>2
<1>3. Cardinality(S) = 0 BY <1>2, FS_EmptySet
<1>4. values[ip].count <= Cardinality(S) BY DEF CountInv
<1> HIDE DEF S
<1> QED BY <1>1, <1>3, <1>4

\* counters.py:67-69, 141-143.  A live counter is evicted only when MaxKeys other
\* counters have been used since: for any number of addresses and any cap on the keys.
THEOREM OnlyTheColdestGo == Spec => EvictsTheColdest
<1> DEFINE Coldest ==
      \A ip \in Kept :
        ip \notin DOMAIN values' /\ ~Expired(ip) /\ seen'[ip] = seen[ip]
          => Cardinality(touched'[ip]) >= MaxKeys
<1>1. Init => CountInv BY DEF Init, CountInv, Kept
<1>2. TInv /\ TInv' /\ CountInv /\ [Next]_vars => CountInv' BY CountStep
<1>3. TInv /\ CountInv /\ [Next]_vars => [Coldest]_vars
  <2> SUFFICES ASSUME TInv, CountInv, [Next]_vars,
                      NEW ip \in Kept, ip \notin Kept', ~Expired(ip), seen'[ip] = seen[ip]
               PROVE  Cardinality(touched'[ip]) >= MaxKeys
    BY DEF Kept
  <2>1. CASE \E k \in Ips : Counted(k) /\ \A j \in Kept \ Kept' : Gone(j)
    BY <2>1 DEF Gone
  <2>2. ASSUME NEW k \in Ips, LoginClears(k) PROVE FALSE
    <3>1. ip = k BY <2>2 DEF LoginClears, Keep, Kept
    <3>2. seen'[k] = [t \in 0..MaxNow |-> 0] BY <2>2 DEF LoginClears, TInv, FailuresOK
    <3> QED BY <3>1, <3>2, NoneBehindZero
  <2>3. ASSUME NEW k \in Ips, ReadCounter(k) PROVE FALSE
    BY <2>3 DEF ReadCounter, DropsOnRead, Keep, Kept
  <2>4. ASSUME UNCHANGED values PROVE FALSE BY <2>4 DEF Kept
  <2>5. StepIs BY StepCases
  <2> QED BY <2>1, <2>2, <2>3, <2>4, <2>5 DEF StepIs, Tick, store
<1> QED
  <2>1. Spec => [][Coldest]_vars
    <3> HIDE DEF Coldest
    <3> QED BY <1>1, <1>2, <1>3, TInvInit, TInvStep, PTL DEF Spec
  <2> QED BY <2>1 DEF EvictsTheColdest

-----------------------------------------------------------------------------
(* The failures that no rule matches.                                        *)

\* No counter is evicted: Redis evicts none, a dictionary with room for all neither.
NoCrowd == backend = "redis" \/ (IsFiniteSet(Ips) /\ Cardinality(Ips) <= MaxKeys)

\* How many of count failures go unmatched.
Least(count) == IF count < Threshold THEN count ELSE Threshold - 1

\* The unmatched failures f of the ticks up to n, by the address's counter v: those
\* after its creation it counted itself; those in the Window ticks before, its creation
\* included, are fewer than a threshold more.
QuietOf(f, n, v) ==
  /\ Cardinality(After(f, n, v.expires, Window)) <= Least(v.count)
  /\ Cardinality(After(f, n, v.expires, 2 * Window)) <= (Threshold - 1) + Least(v.count)

\* Without a counter, those of the last Window ticks are fewer than a threshold.
QuietAlone(f, n) == Cardinality(After(f, n, n, Window)) <= Threshold - 1

QuietInv ==
  \A ip \in Ips : IF ip \in Kept THEN QuietOf(quiet[ip], now, values[ip])
                  ELSE QuietAlone(quiet[ip], now)

\* More failures make a larger set.
LEMMA AfterGrows ==
  ASSUME NEW n \in Nat, NEW f, NEW S, NEW T, S \subseteq T, T \subseteq UpTo(f, n)
  PROVE  /\ IsFiniteSet(S) /\ IsFiniteSet(T) /\ Cardinality(S) \in Nat /\ Cardinality(T) \in Nat
         /\ Cardinality(S) <= Cardinality(T)
<1>1. IsFiniteSet(T) /\ Cardinality(T) \in Nat BY UpToFinite
<1>2. IsFiniteSet(S) /\ Cardinality(S) <= Cardinality(T) BY <1>1, FS_Subset
<1> QED BY <1>1, <1>2, FS_CardinalityType

\* An expired counter was created Window ticks ago: it counted all of them.
LEMMA QuietOnceExpired ==
  ASSUME TInv, QuietInv, NEW ip \in Ips, ip \in Kept => Expired(ip)
  PROVE  QuietAlone(quiet[ip], now)
<1>1. CASE ip \notin Kept BY <1>1 DEF QuietInv
<1>2. CASE ip \in Kept
  <2> DEFINE f == quiet[ip]
             e == values[ip].expires
             S == After(f, now, now, Window)
             T == After(f, now, e, Window)
  <2>1. now \in Nat /\ Window \in Nat /\ e \in Nat /\ values[ip].count \in Nat /\ e <= now
        /\ Threshold \in Nat \ {0}
    BY <1>2, CountersAssumption DEF TInv, ClockOK, ValuesOK, Entries, Expired
  <2>2. S \subseteq T
    <3> SUFFICES ASSUME NEW x \in S PROVE x \in T OBVIOUS
    <3>1. x \in UpTo(f, now) /\ now < x[1] + Window /\ x[1] \in Nat
      BY <2>1 DEF After, UpTo
    <3> HIDE DEF e, f
    <3> QED BY <2>1, <3>1 DEF After
  <2>3. T \subseteq UpTo(f, now) BY DEF After
  <2>4. Cardinality(T) <= Least(values[ip].count) BY <1>2 DEF QuietInv, QuietOf
  <2> HIDE DEF S, T
  <2>5. Cardinality(S) <= Cardinality(T) /\ Cardinality(S) \in Nat /\ Cardinality(T) \in Nat
    BY <2>1, <2>2, <2>3, AfterGrows
  <2>6. Least(values[ip].count) <= Threshold - 1 /\ Least(values[ip].count) \in Nat
    BY <2>1 DEF Least
  <2>7. Cardinality(S) <= Threshold - 1 BY <2>1, <2>4, <2>5, <2>6
  <2> QED BY <2>7 DEF S, QuietAlone
<1> QED BY <1>1, <1>2

\* An address whose unmatched failures a step leaves as they are.
LEMMA QuietKept ==
  ASSUME TInv, TInv', QuietInv, NEW k \in Ips, now <= now',
         UpTo(quiet'[k], now') = UpTo(quiet[k], now),
         k \in Kept' => k \in Kept /\ values'[k] = values[k],
         k \in Kept \ Kept' => Expired(k)
  PROVE  IF k \in Kept' THEN QuietOf(quiet'[k], now', values'[k])
         ELSE QuietAlone(quiet'[k], now')
<1>1. CASE k \in Kept'
  <2>1. QuietOf(quiet[k], now, values[k]) /\ values'[k] = values[k] BY <1>1 DEF QuietInv
  <2>2. \A e, d : After(quiet'[k], now', e, d) = After(quiet[k], now, e, d) BY DEF After
  <2> QED BY <1>1, <2>1, <2>2 DEF QuietOf
<1>2. CASE k \notin Kept'
  <2> DEFINE S == After(quiet'[k], now', now', Window)
             T == After(quiet[k], now, now, Window)
  <2>1. now \in Nat /\ now' \in Nat /\ Window \in Nat /\ Threshold \in Nat \ {0}
    BY CountersAssumption DEF TInv, ClockOK
  <2>2. S \subseteq T
    <3> SUFFICES ASSUME NEW x \in S PROVE x \in T OBVIOUS
    <3>1. x \in UpTo(quiet[k], now) /\ now' < x[1] + Window BY DEF After
    <3>2. x[1] \in Nat BY <2>1, <3>1 DEF UpTo
    <3> QED BY <2>1, <3>1, <3>2 DEF After
  <2>3. T \subseteq UpTo(quiet[k], now) BY DEF After
  <2>4. Cardinality(T) <= Threshold - 1
    BY <1>2, QuietOnceExpired DEF QuietAlone
  <2> HIDE DEF S, T
  <2>5. Cardinality(S) <= Cardinality(T) /\ Cardinality(S) \in Nat /\ Cardinality(T) \in Nat
    BY <2>1, <2>2, <2>3, AfterGrows
  <2>6. Cardinality(S) <= Threshold - 1 BY <2>1, <2>4, <2>5
  <2> QED BY <1>2, <2>6 DEF S, QuietAlone
<1> QED BY <1>1, <1>2

\* A failure that is counted adds one unmatched failure at most, and none when the rule
\* matches.
LEMMA QuietGrows ==
  ASSUME TInv, NEW ip \in Ips, Counted(ip), seen[ip][now] < Burst, NEW e, NEW d
  PROVE  /\ Cardinality(After(quiet[ip], now, e, d)) \in Nat
         /\ Cardinality(After(quiet'[ip], now, e, d)) \in Nat
         /\ Cardinality(After(quiet'[ip], now, e, d))
              <= Cardinality(After(quiet[ip], now, e, d))
                   + IF values'[ip].count < Threshold THEN 1 ELSE 0
<1> DEFINE f == quiet[ip]
           g == quiet'[ip]
           S == After(f, now, e, d)
           R == After(g, now, e, d)
<1>1. now \in Nat /\ now \in 0..MaxNow /\ f \in Series /\ f[now] < Burst
  <2>1. now \in 0..MaxNow /\ MaxNow \in Nat /\ Burst \in Nat /\ f \in Series
    BY CountersAssumption DEF TInv, ClockOK, FailuresOK, Series
  <2>2. f[now] <= seen[ip][now] /\ seen[ip][now] \in 0..Burst /\ f[now] \in 0..Burst
    BY <2>1 DEF TInv, FailuresOK
  <2> QED BY <2>1, <2>2
<1>2. S \in SUBSET UpTo(f, now) /\ R \in SUBSET UpTo(g, now) BY DEF After
<1>3. IsFiniteSet(S) /\ Cardinality(S) \in Nat /\ Cardinality(R) \in Nat
  BY <1>1, <1>2, UpToFinite
<1>4. ASSUME g = f PROVE Cardinality(R) = Cardinality(S) BY <1>4
<1>5. ASSUME g = [f EXCEPT ![now] = @ + 1] PROVE Cardinality(R) <= Cardinality(S) + 1
  <2> DEFINE new == <<now, f[now] + 1>>
  <2> HIDE DEF f, g
  <2>1. UpTo(g, now) = UpTo(f, now) \union {new} BY <1>1, <1>5, UpToGrows
  <2> HIDE DEF new
  <2>2. R \subseteq S \union {new} BY <2>1 DEF After
  <2> HIDE DEF S, R
  <2> QED BY <1>3, <2>2, OneMore
<1>6. g = f \/ (~(values'[ip].count >= Threshold) /\ g = [f EXCEPT ![now] = @ + 1])
  BY DEF Counted, Unmatched, TInv, FailuresOK
<1>7. values'[ip].count \in Nat /\ Threshold \in Nat
  BY CountersAssumption, CountedTypes DEF ValuesOK, Entries, Counted
<1> HIDE DEF f, g, S, R
<1>8. Cardinality(R) <= Cardinality(S) + IF values'[ip].count < Threshold THEN 1 ELSE 0
  BY <1>3, <1>4, <1>5, <1>6, <1>7
<1> QED BY <1>3, <1>8 DEF f, g, S, R

\* The address of a failure that is counted.
LEMMA QuietCounted ==
  ASSUME TInv, QuietInv, NEW ip \in Ips, Counted(ip), seen[ip][now] < Burst
  PROVE  QuietOf(quiet'[ip], now, values'[ip])
<1> DEFINE A(e, d) == Cardinality(After(quiet[ip], now, e, d))
           B(e, d) == Cardinality(After(quiet'[ip], now, e, d))
           more    == IF values'[ip].count < Threshold THEN 1 ELSE 0
<1>1. \A e, d : A(e, d) \in Nat /\ B(e, d) \in Nat /\ B(e, d) <= A(e, d) + more
  BY QuietGrows
<1>2. now \in Nat /\ Window \in Nat \ {0} /\ Threshold \in Nat \ {0}
  BY CountersAssumption DEF TInv, ClockOK
<1>3. CASE ip \in Kept /\ values'[ip] = [values[ip] EXCEPT !.count = @ + 1]
  <2> DEFINE v == values[ip]
  <2>1. v \in Entries BY <1>3 DEF TInv, ValuesOK
  <2>2. A(v.expires, Window) <= Least(v.count)
        /\ A(v.expires, 2 * Window) <= (Threshold - 1) + Least(v.count)
    BY <1>3 DEF QuietInv, QuietOf
  <2>3. values'[ip] = [v EXCEPT !.count = @ + 1] BY <1>3
  <2> HIDE DEF v
  <2>4. values'[ip].count = v.count + 1 /\ values'[ip].expires = v.expires /\ v.count \in Nat
    BY <2>1, <2>3 DEF Entries
  <2>5. Least(v.count) \in Nat /\ Least(v.count + 1) \in Nat
        /\ Least(v.count) + more <= Least(v.count + 1)
    BY <1>2, <2>4 DEF Least
  <2>6. more \in Nat OBVIOUS
  <2> HIDE DEF A, B, more
  <2>7. B(v.expires, Window) <= Least(v.count + 1)
    BY <1>1, <2>2, <2>5, <2>6
  <2>8. B(v.expires, 2 * Window) <= (Threshold - 1) + Least(v.count + 1)
    BY <1>1, <1>2, <2>2, <2>5, <2>6
  <2> QED BY <2>4, <2>7, <2>8 DEF QuietOf, B
<1>4. CASE (ip \in Kept => Expired(ip)) /\ values'[ip] = [count |-> 1, expires |-> now + Window]
  <2>1. A(now, Window) <= Threshold - 1 BY <1>4, QuietOnceExpired DEF QuietAlone
  <2>2. values'[ip].count = 1 /\ values'[ip].expires = now + Window BY <1>4
  <2>3. \A x \in UpTo(quiet'[ip], now) : x[1] \in Nat /\ x[1] <= now BY <1>2 DEF UpTo
  <2>4. After(quiet'[ip], now, now + Window, Window) = {}
    BY <1>2, <2>3 DEF After
  <2>5. After(quiet'[ip], now, now + Window, 2 * Window) = After(quiet'[ip], now, now, Window)
    BY <1>2, <2>3 DEF After
  <2>6. B(now + Window, Window) = 0 BY <2>4, FS_EmptySet
  <2>7. B(now + Window, 2 * Window) = B(now, Window) BY <2>5
  <2>8. Least(1) = more /\ more \in Nat BY <1>2, <2>2 DEF Least
  <2> HIDE DEF A, B, more
  <2>9. B(now, Window) <= (Threshold - 1) + more BY <1>1, <1>2, <2>1, <2>8
  <2> QED BY <2>2, <2>6, <2>7, <2>8, <2>9 DEF QuietOf, B
<1> QED BY <1>3, <1>4 DEF Counted

\* A login clears the failures of its address.
LEMMA QuietCleared ==
  ASSUME TInv, NEW ip \in Ips, LoginClears(ip)
  PROVE  QuietAlone(quiet'[ip], now')
<1> DEFINE S == After(quiet'[ip], now', now', Window)
<1>1. now' \in 0..MaxNow /\ MaxNow \in Nat /\ Burst \in Nat /\ Threshold \in Nat \ {0}
  BY CountersAssumption DEF TInv, ClockOK, LoginClears
<1>2. quiet'[ip] = [t \in 0..MaxNow |-> 0] BY DEF LoginClears, TInv, FailuresOK
<1>3. S = {}
  <2> SUFFICES ASSUME NEW x \in S PROVE FALSE OBVIOUS
  <2>1. x[1] \in 0..now' /\ x[2] \in 1..Burst /\ x[2] <= quiet'[ip][x[1]] BY DEF After, UpTo
  <2> QED BY <1>1, <1>2, <2>1
<1>4. Cardinality(S) = 0 BY <1>3, FS_EmptySet
<1> QED BY <1>1, <1>4 DEF QuietAlone

\* Every step keeps the bounds, where no counter is evicted.
LEMMA QuietStep ==
  ASSUME TInv, TInv', NoCrowd, QuietInv, [Next]_vars
  PROVE  QuietInv'
<1> DEFINE Fine(k) == IF k \in Kept' THEN QuietOf(quiet'[k], now', values'[k])
                      ELSE QuietAlone(quiet'[k], now')
<1> SUFFICES ASSUME NEW k \in Ips PROVE Fine(k) BY DEF QuietInv
<1>1. /\ now \in Nat /\ now \in 0..MaxNow /\ MaxNow \in Nat /\ backend' = backend /\ StepIs
      /\ quiet \in [Ips -> Series]
  <2>1. backend' = backend /\ StepIs BY StepCases
  <2>2. now \in 0..MaxNow /\ MaxNow \in Nat BY CountersAssumption DEF TInv, ClockOK
  <2>3. quiet \in [Ips -> Series] BY DEF TInv, FailuresOK, Series
  <2> QED BY <2>1, <2>2, <2>3
<1>2. ASSUME now' = now, quiet'[k] = quiet[k], k \in Kept' => k \in Kept /\ values'[k] = values[k],
             k \in Kept \ Kept' => Expired(k)
      PROVE  Fine(k)
  BY <1>1, <1>2, QuietKept
<1>3. ASSUME NEW ip \in Ips, Counted(ip), Touch(ip), seen[ip][now] < Burst,
             \A j \in Kept \ Kept' : Gone(j)
      PROVE  Fine(k)
  <2>1. CASE k = ip
    <3>1. k \in Kept' /\ now' = now BY <1>3, <2>1 DEF Counted
    <3> QED BY <1>3, <2>1, <3>1, QuietCounted
  <2>2. CASE k # ip
    <3>1. /\ now' = now /\ quiet'[k] = quiet[k]
          /\ k \in Kept' => k \in Kept /\ values'[k] = values[k]
      BY <1>1, <1>3, <2>2 DEF Counted, Unmatched
    <3>2. ASSUME k \in Kept \ Kept' PROVE Expired(k)
      <4> SUFFICES ASSUME backend = "memory", Cardinality(touched'[k]) >= MaxKeys PROVE FALSE
        BY <1>3, <3>2 DEF Gone
      <4>1. IsFiniteSet(Ips) /\ Cardinality(Ips) <= MaxKeys BY DEF NoCrowd
      <4>2. touched'[k] \subseteq Ips \ {k} BY DEF TInv, TouchedOK
      <4>3. IsFiniteSet(Ips \ {k}) /\ Cardinality(Ips \ {k}) = Cardinality(Ips) - 1
        BY <4>1, FS_RemoveElement
      <4>4. IsFiniteSet(touched'[k]) /\ Cardinality(touched'[k]) <= Cardinality(Ips \ {k})
        BY <4>2, <4>3, FS_Subset
      <4>5. Cardinality(Ips) \in Nat /\ Cardinality(touched'[k]) \in Nat
        BY <4>1, <4>4, FS_CardinalityType
      <4> QED BY <4>1, <4>3, <4>4, <4>5, CountersAssumption
    <3> QED BY <1>2, <3>1, <3>2
  <2> QED BY <2>1, <2>2
<1>4. ASSUME UNCHANGED <<now, store, quiet>> PROVE Fine(k)
  BY <1>2, <1>4 DEF store, Kept
<1>5. ASSUME NEW ip \in Ips, LoginClears(ip) PROVE Fine(k)
  <2>1. Kept' = Kept \ {ip} /\ \A j \in Kept' : values'[j] = values[j]
    BY <1>5 DEF LoginClears, Keep, Kept
  <2>2. CASE k = ip BY <1>5, <2>1, <2>2, QuietCleared
  <2>3. CASE k # ip
    <3>1. now' = now /\ quiet'[k] = quiet[k] BY <1>1, <1>5, <2>3 DEF LoginClears
    <3> QED BY <1>2, <2>1, <2>3, <3>1
  <2> QED BY <2>2, <2>3
<1>6. ASSUME NEW ip \in Ips, ReadCounter(ip) PROVE Fine(k)
  <2>1. /\ Kept' = Kept \ DropsOnRead(ip) /\ \A j \in Kept' : values'[j] = values[j]
        /\ now' = now /\ quiet' = quiet
    BY <1>6 DEF ReadCounter, Keep, Kept
  <2>2. k \in Kept \ Kept' => Expired(k) BY <2>1 DEF DropsOnRead
  <2> QED BY <1>2, <2>1, <2>2
<1>7. CASE Tick
  <2>1. /\ now' = now + 1 /\ now < MaxNow /\ quiet' = quiet /\ Kept' = Kept /\ values' = values
    BY <1>7 DEF Tick, store, Kept
  <2>2. quiet[k][now + 1] = 0
    <3>1. now + 1 \in 0..MaxNow /\ Burst \in Nat BY <1>1, <2>1, CountersAssumption
    <3>2. quiet[k][now + 1] <= seen[k][now + 1] /\ seen[k][now + 1] = 0
          /\ quiet[k][now + 1] \in 0..Burst
      BY <1>1, <3>1 DEF TInv, FailuresOK
    <3> QED BY <3>1, <3>2
  <2>3. UpTo(quiet'[k], now') = UpTo(quiet[k], now) BY <1>1, <2>1, <2>2, UpToLater
  <2>4. now <= now' BY <1>1, <2>1
  <2> QED BY <2>1, <2>3, <2>4, QuietKept
<1> QED BY <1>1, <1>3, <1>4, <1>5, <1>6, <1>7 DEF StepIs, store

\* What the bounds say of the last Window ticks.
LEMMA QuietIsFew ==
  ASSUME TInv, QuietInv
  PROVE  FewGoUnmatched
<1> SUFFICES ASSUME NEW ip \in Ips PROVE Recent(quiet[ip]) <= 2 * (Threshold - 1)
  BY DEF FewGoUnmatched
<1> DEFINE R == After(quiet[ip], now, now, Window)
<1>1. now \in Nat /\ Window \in Nat /\ Threshold \in Nat \ {0}
  BY CountersAssumption DEF TInv, ClockOK
<1>2. Recent(quiet[ip]) = Cardinality(R) BY DEF Recent, Failures, After, UpTo
<1>3. R \in SUBSET UpTo(quiet[ip], now) BY DEF After
<1>4. Cardinality(R) \in Nat BY <1>1, <1>3, UpToFinite
<1>5. CASE ip \notin Kept
  <2>1. Cardinality(R) <= Threshold - 1 BY <1>5 DEF QuietInv, QuietAlone
  <2> HIDE DEF R
  <2> QED BY <1>1, <1>2, <1>4, <2>1
<1>6. CASE ip \in Kept
  <2> DEFINE v == values[ip]
             S == After(quiet[ip], now, v.expires, 2 * Window)
  <2>1. v.count \in Nat /\ v.expires \in Nat /\ v.expires <= now + Window
    BY <1>1, <1>6, CountersAssumption DEF TInv, ValuesOK, Entries
  <2>2. Cardinality(S) <= (Threshold - 1) + Least(v.count) BY <1>6 DEF QuietInv, QuietOf
  <2> HIDE DEF v
  <2>3. R \subseteq S
    <3> SUFFICES ASSUME NEW x \in R PROVE x \in S OBVIOUS
    <3>1. x \in UpTo(quiet[ip], now) /\ now < x[1] + Window /\ x[1] \in Nat
      BY <1>1 DEF After, UpTo
    <3> QED BY <1>1, <2>1, <3>1 DEF After
  <2>4. S \subseteq UpTo(quiet[ip], now) BY DEF After
  <2> HIDE DEF R, S
  <2>5. Cardinality(R) <= Cardinality(S) /\ Cardinality(S) \in Nat
    BY <1>1, <2>3, <2>4, AfterGrows
  <2>6. Least(v.count) <= Threshold - 1 /\ Least(v.count) \in Nat BY <1>1, <2>1 DEF Least
  <2> QED BY <1>1, <1>2, <1>4, <2>2, <2>5, <2>6
<1> QED BY <1>5, <1>6

\* brute_force.py:28-41, redis.py:93-100.  However the failures straddle the windows and
\* whenever the throttle reads the counter, fewer than two thresholds of those the rule got
\* a count for in any Window ticks go unmatched, where no counter is evicted: over Redis,
\* or with room for the counters of all addresses.  Those whose count Redis lost pass.
THEOREM FewUnmatched == Spec => [](NoCrowd => FewGoUnmatched)
<1> DEFINE Inv == TInv /\ (NoCrowd => QuietInv)
<1>1. Init => Inv
  <2> SUFFICES ASSUME Init PROVE QuietInv BY TInvInit
  <2>0. Kept = {} BY DEF Init, Kept
  <2> SUFFICES ASSUME NEW ip \in Ips PROVE QuietAlone(quiet[ip], now)
    BY <2>0 DEF QuietInv
  <2> DEFINE S == After(quiet[ip], now, now, Window)
  <2>1. MaxNow \in Nat /\ Burst \in Nat /\ Threshold \in Nat \ {0} BY CountersAssumption
  <2>2. S = {}
    <3> SUFFICES ASSUME NEW x \in S PROVE FALSE OBVIOUS
    <3>1. x[1] \in 0..now /\ x[2] \in 1..Burst /\ x[2] <= quiet[ip][x[1]] BY DEF After, UpTo
    <3> QED BY <2>1, <3>1 DEF Init, StoresStart
  <2>3. Cardinality(S) = 0 BY <2>2, FS_EmptySet
  <2> QED BY <2>1, <2>3 DEF QuietAlone
<1>2. Inv /\ [Next]_vars => Inv'
  <2> SUFFICES ASSUME Inv, [Next]_vars PROVE Inv' OBVIOUS
  <2>1. TInv' BY TInvStep
  <2>2. backend' = backend BY StepCases
  <2>3. NoCrowd' => NoCrowd BY <2>2 DEF NoCrowd
  <2> QED BY <2>1, <2>3, QuietStep
<1>3. Inv => (NoCrowd => FewGoUnmatched) BY QuietIsFew
<1> HIDE DEF Inv
<1> QED BY <1>1, <1>2, <1>3, PTL DEF Spec
=============================================================================
