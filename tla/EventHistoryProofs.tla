------------------------- MODULE EventHistoryProofs -------------------------
(***************************************************************************)
(* What EventHistory keeps for all threads, keys, caps and windows, over   *)
(* either store: the types, what a rule finds of the events of its window, *)
(* and which key is evicted.                                               *)
(***************************************************************************)
EXTENDS EventHistory, SubsequenceProofs, FiniteSetTheorems

-----------------------------------------------------------------------------
(* How many elements of a sequence are in a set.                             *)

Where(s, X) == {i \in 1..Len(s) : s[i] \in X}
Count(s, X) == Cardinality(Where(s, X))

\* A set of sequences that holds the empty one and, with a sequence, every one longer by
\* an element, holds them all.
LEMMA SeqInduction ==
  ASSUME NEW S, NEW Q \in SUBSET Seq(S), <<>> \in Q,
         \A s \in Q, x \in S : Append(s, x) \in Q
  PROVE  Q = Seq(S)
<1> DEFINE N == {n \in Nat : \A s \in Seq(S) : Len(s) = n => s \in Q}
<1>1. 0 \in N
  <2> SUFFICES ASSUME NEW s \in Seq(S), Len(s) = 0 PROVE s \in Q OBVIOUS
  <2> QED BY EmptySeq
<1>2. ASSUME NEW n \in N PROVE n + 1 \in N
  <2> SUFFICES ASSUME NEW s \in Seq(S), Len(s) = n + 1 PROVE s \in Q OBVIOUS
  <2> DEFINE f == SubSeq(s, 1, n)
             x == s[n + 1]
  <2>1. f \in Seq(S) /\ Len(f) = n /\ x \in S OBVIOUS
  <2>2. s = Append(f, x)
    <3>1. Append(f, x) \in Seq(S) /\ Len(Append(f, x)) = n + 1 BY <2>1, SMTT(30)
    <3>2. \A i \in 1..n + 1 : Append(f, x)[i] = s[i] BY <2>1, SMTT(30)
    <3> QED BY <3>1, <3>2, SeqEqual
  <2>3. f \in Q BY <1>2, <2>1
  <2> HIDE DEF f, x
  <2> QED BY <2>1, <2>2, <2>3
<1>3. N = Nat
  <2> HIDE DEF N
  <2>1. N \in SUBSET Nat BY DEF N
  <2> QED BY <1>1, <1>2, <2>1, SetInduction
<1>4. ASSUME NEW s \in Seq(S) PROVE s \in Q
  <2>1. Len(s) \in N
    <3> HIDE DEF N
    <3> QED BY <1>3
  <2> QED BY <2>1
<1> QED BY <1>4

\* The places are finitely many.
LEMMA CountType ==
  ASSUME NEW S, NEW s \in Seq(S), NEW X
  PROVE  IsFiniteSet(Where(s, X)) /\ Count(s, X) \in Nat /\ Count(s, X) <= Len(s)
<1>1. IsFiniteSet(1..Len(s)) /\ Cardinality(1..Len(s)) = Len(s)
  <2>1. Len(s) \in Nat OBVIOUS
  <2>2. IsFiniteSet(1..Len(s)) /\ Cardinality(1..Len(s)) = IF 1 > Len(s) THEN 0 ELSE Len(s) - 1 + 1
    BY <2>1, FS_Interval
  <2> QED BY <2>1, <2>2
<1>2. Where(s, X) \in SUBSET (1..Len(s)) BY DEF Where
<1>3. IsFiniteSet(Where(s, X)) /\ Count(s, X) <= Len(s) BY <1>1, <1>2, FS_Subset DEF Count
<1> QED BY <1>3, FS_CardinalityType DEF Count

\* The empty sequence has none.
LEMMA CountEmpty == ASSUME NEW X PROVE Count(<<>>, X) = 0
<1>1. Where(<<>>, X) = {} BY DEF Where
<1> QED BY <1>1, FS_EmptySet DEF Count

\* One more element counts if it is in the set.
LEMMA CountAppend ==
  ASSUME NEW S, NEW s \in Seq(S), NEW x \in S, NEW X
  PROVE  Count(Append(s, x), X) = IF x \in X THEN Count(s, X) + 1 ELSE Count(s, X)
<1> DEFINE n == Len(s)
           r == Append(s, x)
<1>1. n \in Nat /\ Len(r) = n + 1 /\ r[n + 1] = x /\ \A i \in 1..n : r[i] = s[i] OBVIOUS
<1> HIDE DEF r
<1>2. IsFiniteSet(Where(s, X)) BY CountType
<1>3. CASE x \in X
  <2>1. Where(r, X) = Where(s, X) \cup {n + 1} BY <1>1, <1>3 DEF Where
  <2>2. n + 1 \notin Where(s, X) BY <1>1 DEF Where
  <2>3. Cardinality(Where(s, X) \cup {n + 1}) = Cardinality(Where(s, X)) + 1
    BY <1>2, <2>2, FS_AddElement
  <2>4. Count(r, X) = Count(s, X) + 1 BY <2>1, <2>3 DEF Count
  <2> QED BY <1>3, <2>4 DEF r
<1>4. CASE x \notin X
  <2>1. Where(r, X) = Where(s, X) BY <1>1, <1>4 DEF Where
  <2>2. Count(r, X) = Count(s, X) BY <2>1 DEF Count
  <2> QED BY <1>4, <2>2 DEF r
<1> QED BY <1>3, <1>4

\* The elements of two sequences in a row add up.
LEMMA CountConcat ==
  ASSUME NEW S, NEW s \in Seq(S), NEW t \in Seq(S), NEW X
  PROVE  Count(s \o t, X) = Count(s, X) + Count(t, X)
<1> DEFINE Adds(r) == Count(s \o r, X) = Count(s, X) + Count(r, X)
           Q == {r \in Seq(S) : Adds(r)}
<1>1. <<>> \in Q
  <2>1. s \o <<>> = s /\ <<>> \in Seq(S) OBVIOUS
  <2>2. Count(s, X) \in Nat BY CountType
  <2> QED BY <2>1, <2>2, CountEmpty
<1>2. ASSUME NEW r \in Q, NEW x \in S PROVE Append(r, x) \in Q
  <2>1. r \in Seq(S) /\ s \o r \in Seq(S) /\ Append(r, x) \in Seq(S) OBVIOUS
  <2>2. s \o Append(r, x) = Append(s \o r, x) BY <2>1
  <2>3. Count(s, X) \in Nat /\ Count(r, X) \in Nat BY <2>1, CountType
  <2>4. Count(Append(r, x), X) = IF x \in X THEN Count(r, X) + 1 ELSE Count(r, X)
    BY <2>1, CountAppend
  <2>5. Count(Append(s \o r, x), X) = IF x \in X THEN Count(s \o r, X) + 1 ELSE Count(s \o r, X)
    <3> DEFINE u == s \o r
    <3>1. u \in Seq(S) BY <2>1
    <3> HIDE DEF u
    <3>2. Count(Append(u, x), X) = IF x \in X THEN Count(u, X) + 1 ELSE Count(u, X)
      BY <3>1, CountAppend
    <3> QED BY <3>2 DEF u
  <2>6. Adds(r) OBVIOUS
  <2>7. Adds(Append(r, x)) BY <2>2, <2>3, <2>4, <2>5, <2>6
  <2> HIDE DEF Adds
  <2> QED BY <2>1, <2>7
<1>3. Q = Seq(S)
  <2> HIDE DEF Adds
  <2>1. Q \in SUBSET Seq(S) OBVIOUS
  <2> HIDE DEF Q
  <2> QED BY <1>1, <1>2, <2>1, SeqInduction
<1>4. t \in Q BY <1>3
<1> QED BY <1>4

\* What is left of a sequence counts what it did outside of the set taken out.
LEMMA CountWithout ==
  ASSUME NEW S, NEW s \in Seq(S), NEW X, NEW Y
  PROVE  Count(Without(s, Y), X) = Count(s, X \ Y)
<1> DEFINE Keeps(r) == Without(r, Y) \in Seq(S) /\ Count(Without(r, Y), X) = Count(r, X \ Y)
           Q == {r \in Seq(S) : Keeps(r)}
<1>1. <<>> \in Q
  <2>1. Without(<<>>, Y) = <<>> BY WithoutEmpty
  <2>2. Count(<<>>, X) = 0 /\ Count(<<>>, X \ Y) = 0 BY CountEmpty
  <2>3. <<>> \in Seq(S) OBVIOUS
  <2> QED BY <2>1, <2>2, <2>3
<1>2. ASSUME NEW r \in Q, NEW x \in S PROVE Append(r, x) \in Q
  <2>1. r \in Seq(S) /\ Keeps(r) /\ Append(r, x) \in Seq(S) OBVIOUS
  <2>2. Without(Append(r, x), Y) = IF x \in Y THEN Without(r, Y) ELSE Append(Without(r, Y), x)
    BY <2>1, WithoutAppend
  <2>3. Count(Append(r, x), X \ Y) = IF x \in X \ Y THEN Count(r, X \ Y) + 1 ELSE Count(r, X \ Y)
    BY <2>1, CountAppend
  <2>4. Count(Append(Without(r, Y), x), X) =
          IF x \in X THEN Count(Without(r, Y), X) + 1 ELSE Count(Without(r, Y), X)
    BY <2>1, CountAppend
  <2>5. Keeps(Append(r, x)) BY <2>1, <2>2, <2>3, <2>4
  <2> HIDE DEF Keeps
  <2> QED BY <2>1, <2>5
<1>3. Q = Seq(S)
  <2> HIDE DEF Keeps
  <2>1. Q \in SUBSET Seq(S) OBVIOUS
  <2> HIDE DEF Q
  <2> QED BY <1>1, <1>2, <2>1, SeqInduction
<1>4. s \in Q BY <1>3
<1> QED BY <1>4

\* A wider set counts no less.
LEMMA CountMonotone ==
  ASSUME NEW S, NEW s \in Seq(S), NEW X, NEW Y, \A i \in 1..Len(s) : s[i] \in X => s[i] \in Y
  PROVE  Count(s, X) <= Count(s, Y)
<1>1. Where(s, X) \in SUBSET Where(s, Y) BY DEF Where
<1> QED BY <1>1, CountType, FS_Subset DEF Count

\* Sets that agree on the elements count the same.
LEMMA CountSame ==
  ASSUME NEW S, NEW s \in Seq(S), NEW X, NEW Y, \A i \in 1..Len(s) : s[i] \in X <=> s[i] \in Y
  PROVE  Count(s, X) = Count(s, Y)
<1>1. Where(s, X) = Where(s, Y) BY DEF Where
<1> QED BY <1>1 DEF Count

\* Two sets apart count what their union does.
LEMMA CountSplit ==
  ASSUME NEW S, NEW s \in Seq(S), NEW X, NEW Y, NEW Z,
         \A i \in 1..Len(s) : /\ s[i] \in X <=> s[i] \in Y \/ s[i] \in Z
                             /\ ~(s[i] \in Y /\ s[i] \in Z)
  PROVE  Count(s, X) = Count(s, Y) + Count(s, Z)
<1> DEFINE A == Where(s, Y)
           B == Where(s, Z)
<1>1. IsFiniteSet(A) /\ IsFiniteSet(B) /\ Cardinality(A) \in Nat /\ Cardinality(B) \in Nat
  BY CountType DEF Count
<1>2. Where(s, X) = A \cup B /\ A \cap B = {} BY DEF Where
<1>3. Cardinality(A \cup B) = Cardinality(A) + Cardinality(B)
  <2> HIDE DEF A, B
  <2>1. Cardinality(A \cup B) = Cardinality(A) + Cardinality(B) - Cardinality(A \cap B)
    BY <1>1, FS_Union
  <2>2. Cardinality(A \cap B) = 0
    <3>1. A \cap B = {} BY <1>2
    <3> QED BY <3>1, FS_EmptySet
  <2> QED BY <1>1, <2>1, <2>2
<1> QED BY <1>2, <1>3 DEF Count

\* Every element counts among all, and a value counts if it occurs.
LEMMA CountAll ==
  ASSUME NEW S, NEW s \in Seq(S)
  PROVE  Count(s, S) = Len(s)
<1>1. Where(s, S) = 1..Len(s) BY DEF Where
<1>2. Cardinality(1..Len(s)) = Len(s)
  <2>1. Len(s) \in Nat OBVIOUS
  <2>2. Cardinality(1..Len(s)) = IF 1 > Len(s) THEN 0 ELSE Len(s) - 1 + 1 BY <2>1, FS_Interval, SMTT(30)
  <2> QED BY <2>1, <2>2
<1> QED BY <1>1, <1>2 DEF Count

\* An element occurs or is not counted.
LEMMA CountMember ==
  ASSUME NEW S, NEW s \in Seq(S), NEW x
  PROVE  Count(s, {x}) # 0 <=> x \in Range(s)
<1>1. Range(s) = {s[i] : i \in 1..Len(s)} BY DEF Range
<1>2. x \in Range(s) <=> Where(s, {x}) # {} BY <1>1 DEF Where
<1>3. Count(s, {x}) = 0 <=> Where(s, {x}) = {} BY CountType, FS_EmptySet DEF Count
<1> QED BY <1>2, <1>3

\* A sequence of one element.
LEMMA CountOne ==
  ASSUME NEW S, NEW x \in S, NEW X
  PROVE  Count(<<x>>, X) = IF x \in X THEN 1 ELSE 0
<1>1. <<>> \in Seq(S) /\ Append(<<>>, x) = <<x>> OBVIOUS
<1>2. Count(Append(<<>>, x), X) = IF x \in X THEN Count(<<>>, X) + 1 ELSE Count(<<>>, X)
  BY <1>1, CountAppend
<1> QED BY <1>1, <1>2, CountEmpty

-----------------------------------------------------------------------------
(* The end of a sequence, and a row added to a sorted set.                   *)

\* The newest n elements are the last of the sequence, in its order.
LEMMA NewestIs ==
  ASSUME NEW S, NEW r \in Seq(S), NEW n \in Nat
  PROVE  LET e == Newest(n, r) IN
         /\ e \in Seq(S) /\ Len(e) = IF Len(r) > n THEN n ELSE Len(r)
         /\ \A i \in 1..Len(e) : e[i] = r[Len(r) - Len(e) + i]
<1>1. CASE Len(r) > n
  <2> DEFINE a == Len(r) - n + 1
             e == SubSeq(r, a, Len(r))
  <2>1. a \in 1..Len(r) + 1 /\ Len(r) \in Nat /\ a + n = Len(r) + 1 BY <1>1
  <2> HIDE DEF a
  <2>2. e \in Seq(S) /\ Len(e) = n /\ \A i \in 1..n : e[i] = r[a + i - 1]
    <3>1. \A i \in a..Len(r) : r[i] \in S BY <2>1
    <3>2. e \in Seq(S) BY <2>1, <3>1, SubSeqProperties
    <3>3. Len(e) = n BY <2>1, SubSeqProperties
    <3>4. \A i \in 1..n : e[i] = r[a + i - 1] BY <2>1, <3>3, SubSeqProperties
    <3> QED BY <3>2, <3>3, <3>4
  <2>3. \A i \in 1..n : a + i - 1 = Len(r) - n + i BY <2>1
  <2>4. Newest(n, r) = e BY <1>1 DEF Newest, a
  <2> HIDE DEF e
  <2> QED BY <1>1, <2>2, <2>3, <2>4
<1>2. CASE ~(Len(r) > n) BY <1>2 DEF Newest
<1> QED BY <1>1, <1>2

\* Before them stands the rest.
LEMMA NewestRest ==
  ASSUME NEW S, NEW r \in Seq(S), NEW n \in Nat
  PROVE  \E p \in Seq(S) : /\ r = p \o Newest(n, r) /\ Len(p) = Len(r) - Len(Newest(n, r))
                           /\ \A i \in 1..Len(p) : p[i] = r[i]
<1> DEFINE e == Newest(n, r)
           d == Len(r) - Len(e)
           p == SubSeq(r, 1, d)
<1>1. /\ e \in Seq(S) /\ Len(e) \in Nat /\ Len(r) \in Nat /\ Len(e) <= Len(r)
      /\ \A i \in 1..Len(e) : e[i] = r[d + i]
  BY NewestIs
<1> HIDE DEF e
<1>2. d \in 0..Len(r) BY <1>1
<1>3. p \in Seq(S) /\ Len(p) = d /\ \A i \in 1..d : p[i] = r[i] BY <1>2
<1> HIDE DEF p
<1>4. r = p \o e
  <2> DEFINE c == p \o e
  <2>1. /\ c \in Seq(S) /\ Len(c) = Len(p) + Len(e)
        /\ \A i \in 1..Len(p) : c[i] = p[i]
        /\ \A i \in 1..Len(e) : c[Len(p) + i] = e[i]
    BY <1>1, <1>3, ConcatAt
  <2> HIDE DEF c
  <2>2. Len(c) = Len(r) BY <1>1, <1>3, <2>1
  <2>3. ASSUME NEW i \in 1..Len(r) PROVE c[i] = r[i]
    <3>1. CASE i <= d BY <1>1, <1>3, <2>1, <3>1
    <3>2. CASE i > d
      <4>1. i - d \in 1..Len(e) /\ d + (i - d) = i BY <1>1, <3>2
      <4>2. c[d + (i - d)] = e[i - d] BY <1>3, <2>1, <4>1
      <4> QED BY <1>1, <4>1, <4>2
    <3> QED BY <1>1, <1>2, <3>1, <3>2
  <2>4. c = r BY <2>1, <2>2, <2>3, SeqEqual
  <2> QED BY <2>4 DEF c
<1> QED BY <1>3, <1>4 DEF e

\* The end of a sequence counts no more than the whole.
LEMMA NewestBound ==
  ASSUME NEW S, NEW r \in Seq(S), NEW n \in Nat, NEW X
  PROVE  Count(Newest(n, r), X) <= Count(r, X)
<1> DEFINE e == Newest(n, r)
<1>1. e \in Seq(S) BY NewestIs
<1>2. PICK p \in Seq(S) : r = p \o e BY NewestRest
<1> HIDE DEF e
<1>3. Count(p \o e, X) = Count(p, X) + Count(e, X) BY <1>1, <1>2, CountConcat
<1>4. Count(p, X) \in Nat /\ Count(e, X) \in Nat BY <1>1, <1>2, CountType
<1>5. Count(e, X) <= Count(r, X) BY <1>2, <1>3, <1>4
<1> QED BY <1>5 DEF e

Sorted(s) == \A i, j \in 1..Len(s) : i < j => s[i] <= s[j]

\* Where the elements from t on are no more than n, the last n elements of a sorted
\* sequence hold each t.
LEMMA NewestKeeps ==
  ASSUME NEW S \in SUBSET Nat, NEW r \in Seq(S), NEW n \in Nat, Sorted(r), NEW t \in Nat, NEW X,
         \A x \in S : x >= t => x \in X,
         Count(r, X) <= n
  PROVE  Count(Newest(n, r), {t}) = Count(r, {t})
<1> DEFINE e == Newest(n, r)
<1>1. e \in Seq(S) /\ Len(e) = (IF Len(r) > n THEN n ELSE Len(r)) /\ Len(r) \in Nat BY NewestIs
<1>2. PICK p \in Seq(S) : /\ r = p \o e /\ Len(p) = Len(r) - Len(e)
                         /\ \A i \in 1..Len(p) : p[i] = r[i]
  BY NewestRest
<1> HIDE DEF e
<1>3. Where(p, {t}) = {}
  <2> SUFFICES ASSUME NEW i \in 1..Len(p), p[i] = t PROVE FALSE BY DEF Where
  <2>1. i \in Nat /\ i >= 1 /\ r[i] = t /\ i <= Len(r) - n BY <1>1, <1>2
  <2>2. i..Len(r) \in SUBSET Where(r, X)
    <3> SUFFICES ASSUME NEW j \in i..Len(r) PROVE j \in 1..Len(r) /\ r[j] \in X BY DEF Where
    <3>0. j \in 1..Len(r) BY <1>1, <2>1
    <3>1. r[j] \in S /\ r[j] \in Nat BY <3>0, ElementOfSeq
    <3>2. r[j] >= t
      <4>1. CASE i = j BY <2>1, <4>1
      <4>2. CASE i # j
        <5>1. i < j /\ i \in 1..Len(r) BY <1>1, <2>1, <3>0, <4>2
        <5> QED BY <2>1, <3>0, <5>1 DEF Sorted
      <4> QED BY <4>1, <4>2
    <3> QED BY <3>0, <3>1, <3>2
  <2>3. Cardinality(i..Len(r)) = Len(r) - i + 1
    <3>1. Cardinality(i..Len(r)) = IF i > Len(r) THEN 0 ELSE Len(r) - i + 1
      BY <1>1, <2>1, FS_Interval
    <3> QED BY <1>1, <2>1, <3>1
  <2>4. Cardinality(i..Len(r)) <= Count(r, X) BY <2>2, CountType, FS_Subset DEF Count
  <2>5. Count(r, X) \in Nat BY CountType
  <2> QED BY <1>1, <2>1, <2>3, <2>4, <2>5
<1>4. Count(p, {t}) = 0 BY <1>3, FS_EmptySet DEF Count
<1>5. Count(p \o e, {t}) = Count(p, {t}) + Count(e, {t}) BY <1>1, <1>2, CountConcat
<1>6. Count(e, {t}) \in Nat BY <1>1, CountType
<1>7. Count(e, {t}) = Count(r, {t}) BY <1>2, <1>4, <1>5, <1>6
<1> QED BY <1>7 DEF e

\* They are sorted as the sequence is.
LEMMA SortedNewest ==
  ASSUME NEW S, NEW r \in Seq(S), NEW n \in Nat, Sorted(r)
  PROVE  Sorted(Newest(n, r))
<1> DEFINE e == Newest(n, r)
           d == Len(r) - Len(e)
<1>1. /\ Len(e) \in Nat /\ Len(r) \in Nat /\ Len(e) <= Len(r)
      /\ \A i \in 1..Len(e) : e[i] = r[d + i]
  BY NewestIs
<1> HIDE DEF e
<1>2. ASSUME NEW i \in 1..Len(e), NEW j \in 1..Len(e), i < j PROVE e[i] <= e[j]
  <2>1. d + i \in 1..Len(r) /\ d + j \in 1..Len(r) /\ d + i < d + j BY <1>1, <1>2
  <2>2. r[d + i] <= r[d + j] BY <2>1 DEF Sorted
  <2> QED BY <1>1, <2>2
<1> QED BY <1>2 DEF Sorted, e

\* Taking elements out leaves it sorted.
LEMMA SortedWithout ==
  ASSUME NEW S, NEW r \in Seq(S), NEW T, Sorted(r)
  PROVE  Sorted(Without(r, T))
<1> DEFINE u == Without(r, T)
<1>1. \E e : Places(e, u, r, T) BY WithoutPlaces
<1> HIDE DEF u
<1>2. PICK e : Places(e, u, r, T) BY <1>1
<1>3. ASSUME NEW i \in 1..Len(u), NEW j \in 1..Len(u), i < j PROVE u[i] <= u[j]
  <2>1. e[i] \in 1..Len(r) /\ e[j] \in 1..Len(r) /\ e[i] < e[j] /\ u[i] = r[e[i]] /\ u[j] = r[e[j]]
    BY <1>2, <1>3 DEF Places
  <2> QED BY <2>1 DEF Sorted
<1>4. Sorted(u) BY <1>3 DEF Sorted
<1> QED BY <1>4 DEF u

\* So does a sorted sequence of greater elements behind it.
LEMMA SortedConcat ==
  ASSUME NEW S, NEW a \in Seq(S), NEW b \in Seq(S), Sorted(a), Sorted(b),
         \A i \in 1..Len(a), j \in 1..Len(b) : a[i] <= b[j]
  PROVE  Sorted(a \o b)
<1> DEFINE c == a \o b
           n == Len(a)
<1>1. /\ Len(c) = n + Len(b) /\ n \in Nat /\ Len(b) \in Nat
      /\ \A i \in 1..n : c[i] = a[i]
      /\ \A i \in 1..Len(b) : c[n + i] = b[i]
  BY ConcatAt
<1> HIDE DEF c, n
<1>2. ASSUME NEW i \in 1..Len(c)
      PROVE  \/ /\ i \in 1..n /\ c[i] = a[i]
             \/ /\ i > n /\ i - n \in 1..Len(b) /\ c[i] = b[i - n]
  <2>1. CASE i <= n
    <3>1. i \in 1..n BY <1>1, <2>1
    <3> QED BY <1>1, <3>1
  <2>2. CASE i > n
    <3>1. i - n \in 1..Len(b) /\ n + (i - n) = i BY <1>1, <2>2
    <3>2. c[n + (i - n)] = b[i - n] BY <1>1, <3>1
    <3> QED BY <2>2, <3>1, <3>2
  <2> QED BY <1>1, <2>1, <2>2
<1>3. ASSUME NEW i \in 1..Len(c), NEW j \in 1..Len(c), i < j PROVE c[i] <= c[j]
  <2>1. CASE j \in 1..n /\ c[j] = a[j]
    <3>1. i \in 1..n BY <1>1, <1>3, <2>1
    <3> QED BY <1>1, <1>3, <2>1, <3>1 DEF Sorted, n
  <2>2. CASE j > n /\ j - n \in 1..Len(b) /\ c[j] = b[j - n]
    <3>1. CASE i \in 1..n /\ c[i] = a[i] BY <2>2, <3>1 DEF n
    <3>2. CASE i > n /\ i - n \in 1..Len(b) /\ c[i] = b[i - n]
      <4>1. i - n < j - n BY <1>1, <1>3
      <4>2. b[i - n] <= b[j - n] BY <2>2, <3>2, <4>1 DEF Sorted
      <4> QED BY <2>2, <3>2, <4>2
    <3> QED BY <1>2, <3>1, <3>2
  <2> QED BY <1>2, <2>1, <2>2
<1> QED BY <1>3 DEF Sorted, c

\* What is left without some elements is not one of them.
LEMMA WithoutElements ==
  ASSUME NEW S, NEW r \in Seq(S), NEW T
  PROVE  LET u == Without(r, T) IN
         u \in Seq(S) /\ \A j \in 1..Len(u) : u[j] \in S /\ u[j] \notin T
<1> DEFINE u == Without(r, T)
<1>1. u \in Seq(S) /\ \E e : Places(e, u, r, T) BY WithoutPlaces
<1> HIDE DEF u
<1>2. PICK e : Places(e, u, r, T) BY <1>1
<1>3. \A j \in 1..Len(u) : u[j] \notin T BY <1>2 DEF Places
<1>4. \A j \in 1..Len(u) : u[j] \in S BY <1>1, ElementOfSeq
<1> QED BY <1>1, <1>3, <1>4 DEF u

\* A sorted set with a row added holds the row and stays sorted.
LEMMA RankedIs ==
  ASSUME HistoryEnds \in Nat, NEW r \in Seq(0..HistoryEnds), NEW at \in 0..HistoryEnds
  PROVE  /\ Ranked(r, at) \in Seq(0..HistoryEnds) /\ Len(Ranked(r, at)) = Len(r) + 1
         /\ \A X : Count(Ranked(r, at), X) = Count(r, X) + (IF at \in X THEN 1 ELSE 0)
         /\ Sorted(r) => Sorted(Ranked(r, at))
<1> DEFINE S == 0..HistoryEnds
           a == Without(r, (at + 1)..HistoryEnds)
           b == Without(r, 0..at)
           c == Append(a, at)
<1>1. a \in Seq(S) /\ \A i \in 1..Len(a) : a[i] \in S /\ a[i] \notin (at + 1)..HistoryEnds
  BY WithoutElements
<1>2. b \in Seq(S) /\ \A i \in 1..Len(b) : b[i] \in S /\ b[i] \notin 0..at
  BY WithoutElements
<1>3. Ranked(r, at) = c \o b
  <2>1. a \o <<at>> = Append(a, at)
    <3>0. at \in S OBVIOUS
    <3> HIDE DEF a, S
    <3> QED BY <1>1, <3>0
  <2> QED BY <2>1 DEF Ranked
<1>4. /\ c \in Seq(S) /\ Len(a) \in Nat /\ Len(c) = Len(a) + 1 /\ c[Len(a) + 1] = at
      /\ \A i \in 1..Len(a) : c[i] = a[i]
  <2> HIDE DEF a
  <2> QED BY <1>1
<1>5. c \o b \in Seq(S)
  <2> HIDE DEF b, c, S
  <2> QED BY <1>2, <1>4, ConcatAt
<1>6. ASSUME NEW X
      PROVE  Count(c \o b, X) = Count(r, X) + (IF at \in X THEN 1 ELSE 0)
  <2> DEFINE Y == X \ ((at + 1)..HistoryEnds)
             Z == X \ (0..at)
  <2>1. Count(a, X) = Count(r, Y) BY CountWithout
  <2>2. Count(b, X) = Count(r, Z) BY CountWithout
  <2>3. Count(r, X) = Count(r, Y) + Count(r, Z)
    <3>1. \A i \in 1..Len(r) : r[i] \in 0..HistoryEnds BY ElementOfSeq
    <3>2. \A i \in 1..Len(r) : /\ r[i] \in X <=> r[i] \in Y \/ r[i] \in Z
                               /\ ~(r[i] \in Y /\ r[i] \in Z)
      BY <3>1
    <3> HIDE DEF Y, Z
    <3> QED BY <3>2, CountSplit
  <2>4. at \in S OBVIOUS
  <2> HIDE DEF a, b, S, Y, Z
  <2>5. Count(c, X) = IF at \in X THEN Count(a, X) + 1 ELSE Count(a, X) BY <1>1, <2>4, CountAppend
  <2> HIDE DEF c
  <2>6. Count(c \o b, X) = Count(c, X) + Count(b, X) BY <1>2, <1>4, CountConcat
  <2>7. Count(a, X) \in Nat /\ Count(b, X) \in Nat BY <1>1, <1>2, CountType
  <2> QED BY <2>1, <2>2, <2>3, <2>5, <2>6, <2>7
<1>7. Len(c \o b) = Len(r) + 1
  <2> HIDE DEF b, c
  <2>1. Count(c \o b, S) = Len(c \o b) /\ Count(r, S) = Len(r) BY <1>5, CountAll
  <2>2. Count(c \o b, S) = Count(r, S) + 1 BY <1>6
  <2> QED BY <2>1, <2>2
<1>8. ASSUME Sorted(r) PROVE Sorted(c \o b)
  <2>1. Sorted(a) /\ Sorted(b) BY <1>8, SortedWithout
  <2>2. \A i \in 1..Len(a) : a[i] <= at /\ a[i] \in Nat BY <1>1
  <2>3. \A i \in 1..Len(b) : at <= b[i] /\ b[i] \in Nat BY <1>2
  <2> HIDE DEF a, b, c, S
  <2>4. \A i \in 1..Len(c) : c[i] <= at /\ c[i] \in Nat
    <3> SUFFICES ASSUME NEW i \in 1..Len(c) PROVE c[i] <= at /\ c[i] \in Nat OBVIOUS
    <3>1. CASE i \in 1..Len(a) BY <1>4, <2>2, <3>1
    <3>2. CASE i \notin 1..Len(a)
      <4>1. i = Len(a) + 1 BY <1>4, <3>2
      <4> QED BY <1>4, <4>1
    <3> QED BY <3>1, <3>2
  <2>5. Sorted(c)
    <3> SUFFICES ASSUME NEW i \in 1..Len(c), NEW j \in 1..Len(c), i < j PROVE c[i] <= c[j]
      BY DEF Sorted
    <3>1. CASE j \in 1..Len(a)
      <4>1. i \in 1..Len(a) BY <1>4, <3>1
      <4>2. a[i] <= a[j] BY <2>1, <3>1, <4>1 DEF Sorted
      <4> QED BY <1>4, <3>1, <4>1, <4>2
    <3>2. CASE j \notin 1..Len(a)
      <4>1. j = Len(a) + 1 BY <1>4, <3>2
      <4> QED BY <1>4, <2>4, <4>1
    <3> QED BY <3>1, <3>2
  <2>6. \A i \in 1..Len(c), j \in 1..Len(b) : c[i] <= b[j] BY <2>3, <2>4
  <2> QED BY <1>2, <1>4, <2>1, <2>5, <2>6, SortedConcat
<1> HIDE DEF a, b, c
<1> QED BY <1>3, <1>5, <1>6, <1>7, <1>8

-----------------------------------------------------------------------------
(* A key of Redis: its rows r, all that was logged l, its expiry e, the time n. *)

Times == 0..HistoryEnds

\* The rows of time t may be gone: as many as the cap stand behind the first of them, the
\* window has moved past them, or the key's life is over.
LetGo(l, n, t) ==
  \/ Count(l, t..HistoryEnds) > MaxEvents
  \/ \E u \in Range(l) : t + StoreWindow <= u
  \/ t + StoreWindow + Slack <= n

\* Both are sorted, the rows are of what was logged, and those of a time not let go are
\* all there.
Sound(r, l, e, n) ==
  /\ r \in Seq(Times) /\ l \in Seq(Times) /\ Sorted(r) /\ Sorted(l)
  /\ \A t \in Times : /\ Count(r, t..HistoryEnds) <= Count(l, t..HistoryEnds)
                      /\ Count(r, {t}) = Count(l, {t}) \/ LetGo(l, n, t)
  /\ \A u \in Range(l) : u <= n /\ u + StoreWindow + Slack <= e

\* The script adds a row.
LEMMA RecordedSound ==
  ASSUME HistoryAssumption, NEW r, NEW l, NEW e, NEW n \in Nat, NEW at \in Times, at <= n,
         Sound(r, l, e, n)
  PROVE  Sound(Recorded(r, at), Ranked(l, at), n + StoreWindow + Slack, n)
<1> DEFINE old  == Before(at, StoreWindow)
           kept == Without(r, old)
           grown == Ranked(kept, at)
           new  == Newest(MaxEvents, grown)
           log  == Ranked(l, at)
<1>0. /\ HistoryEnds \in Nat /\ MaxEvents \in Nat /\ StoreWindow \in Nat /\ Slack \in Nat
      /\ at \in Nat /\ r \in Seq(Times) /\ l \in Seq(Times) /\ Sorted(r) /\ Sorted(l)
  BY DEF HistoryAssumption, Times, Sound
<1>1. kept \in Seq(Times) /\ Sorted(kept) BY <1>0, WithoutElements, SortedWithout
<1>2. \A X : Count(kept, X) = Count(r, X \ old) BY <1>0, CountWithout
<1>3. Recorded(r, at) = new BY DEF Recorded
<1> HIDE DEF kept
<1>4. /\ grown \in Seq(Times) /\ Sorted(grown)
      /\ \A X : Count(grown, X) = Count(kept, X) + (IF at \in X THEN 1 ELSE 0)
  BY <1>0, <1>1, RankedIs DEF Times
<1>5. /\ log \in Seq(Times) /\ Sorted(log)
      /\ \A X : Count(log, X) = Count(l, X) + (IF at \in X THEN 1 ELSE 0)
  BY <1>0, RankedIs DEF Times
<1> HIDE DEF grown, log
<1>6. new \in Seq(Times) /\ Sorted(new) BY <1>0, <1>4, NewestIs, SortedNewest
<1>7. \A X : /\ Count(r, X) \in Nat /\ Count(l, X) \in Nat /\ Count(kept, X) \in Nat
             /\ Count(grown, X) \in Nat /\ Count(log, X) \in Nat /\ Count(new, X) \in Nat
  BY <1>0, <1>1, <1>4, <1>5, <1>6, CountType
<1>8. ASSUME NEW u PROVE u \in Range(log) <=> u \in Range(l) \/ u = at
  <2>1. Count(log, {u}) = Count(l, {u}) + (IF at \in {u} THEN 1 ELSE 0) BY <1>5
  <2>2. Count(log, {u}) # 0 <=> u \in Range(log) BY <1>5, CountMember
  <2>3. Count(l, {u}) # 0 <=> u \in Range(l) BY <1>0, CountMember
  <2>4. Count(l, {u}) \in Nat BY <1>7
  <2>5. at \in {u} <=> u = at OBVIOUS
  <2> QED BY <2>1, <2>2, <2>3, <2>4, <2>5
<1>9. \A X : Count(new, X) <= Count(grown, X) BY <1>0, <1>4, NewestBound
<1>10. \A X : Count(kept, X) <= Count(r, X)
  <2> SUFFICES ASSUME NEW X PROVE Count(kept, X) <= Count(r, X) OBVIOUS
  <2>1. Count(r, X \ old) <= Count(r, X) BY <1>0, CountMonotone
  <2> QED BY <1>2, <2>1
<1> HIDE DEF new, old
<1>11. ASSUME NEW t \in Times
       PROVE  /\ Count(new, t..HistoryEnds) <= Count(log, t..HistoryEnds)
              /\ Count(new, {t}) = Count(log, {t}) \/ LetGo(log, n, t)
  <2> DEFINE X == t..HistoryEnds
             one == IF at \in X THEN 1 ELSE 0
  <2>1. Count(r, X) <= Count(l, X) BY DEF Sound
  <2>2. Count(grown, X) = Count(kept, X) + one /\ Count(log, X) = Count(l, X) + one BY <1>4, <1>5
  <2>3. one \in Nat OBVIOUS
  <2> HIDE DEF one
  <2>4. Count(grown, X) <= Count(log, X) BY <1>7, <1>10, <2>1, <2>2, <2>3
  <2>5. Count(new, X) <= Count(log, X) BY <1>7, <1>9, <2>4
  <2>6. CASE t + StoreWindow <= at
    <3>1. LetGo(log, n, t) BY <1>8, <2>6 DEF LetGo
    <3> QED BY <2>5, <3>1
  <2>7. CASE LetGo(l, n, t)
    <3>1. Count(l, X) <= Count(log, X) BY <1>7, <2>2, <2>3
    <3>2. LetGo(log, n, t)
      <4>1. CASE Count(l, X) > MaxEvents
        <5>1. Count(log, X) > MaxEvents BY <1>0, <1>7, <3>1, <4>1
        <5> QED BY <5>1 DEF LetGo
      <4>2. CASE \E u \in Range(l) : t + StoreWindow <= u BY <1>8, <4>2 DEF LetGo
      <4>3. CASE t + StoreWindow + Slack <= n BY <4>3 DEF LetGo
      <4> QED BY <2>7, <4>1, <4>2, <4>3 DEF LetGo
    <3> QED BY <2>5, <3>2
  <2>8. CASE Count(log, X) > MaxEvents
    <3>1. LetGo(log, n, t) BY <2>8 DEF LetGo
    <3> QED BY <2>5, <3>1
  <2>9. CASE ~(t + StoreWindow <= at) /\ ~LetGo(l, n, t) /\ ~(Count(log, X) > MaxEvents)
    <3>1. Count(r, {t}) = Count(l, {t}) BY <2>9 DEF Sound
    <3>2. Count(kept, {t}) = Count(r, {t})
      <4>1. \A i \in 1..Len(r) : r[i] \in {t} \ old <=> r[i] \in {t} BY <2>9 DEF old, Before
      <4> DEFINE Y == {t} \ old
      <4>2. Count(kept, {t}) = Count(r, Y) BY <1>2
      <4>3. \A i \in 1..Len(r) : r[i] \in Y <=> r[i] \in {t} BY <4>1
      <4> HIDE DEF Y
      <4>4. Count(r, Y) = Count(r, {t}) BY <1>0, <4>3, CountSame
      <4> QED BY <4>2, <4>4
    <3>3. Count(grown, {t}) = Count(log, {t}) BY <1>4, <1>5, <3>1, <3>2
    <3>4. Count(grown, X) <= MaxEvents BY <1>0, <1>7, <2>4, <2>9
    <3>5. Count(new, {t}) = Count(grown, {t})
      <4>1. Times \in SUBSET Nat /\ t \in Nat /\ \A x \in Times : x >= t => x \in X
        BY <1>0 DEF Times
      <4> HIDE DEF X
      <4> QED BY <1>0, <1>4, <3>4, <4>1, NewestKeeps DEF new
    <3> QED BY <2>5, <3>3, <3>5
  <2> QED BY <2>6, <2>7, <2>8, <2>9
<1>12. \A u \in Range(log) : u <= n /\ u + StoreWindow + Slack <= n + StoreWindow + Slack
  <2>1. \A u \in Range(l) : u <= n /\ u \in Nat
    <3>1. \A u \in Range(l) : u \in Times BY <1>0 DEF Range
    <3> QED BY <1>0, <3>1 DEF Sound, Times
  <2> QED BY <1>0, <1>8, <2>1
<1> QED BY <1>3, <1>5, <1>6, <1>11, <1>12 DEF Sound, log

\* Time passes.
LEMMA LaterSound ==
  ASSUME HistoryAssumption, NEW r, NEW l, NEW e, NEW n \in Nat, Sound(r, l, e, n)
  PROVE  Sound(r, l, e, n + 1)
<1>1. StoreWindow \in Nat /\ Slack \in Nat BY DEF HistoryAssumption
<1>2. \A t \in Times : LetGo(l, n, t) => LetGo(l, n + 1, t)
  BY <1>1 DEF LetGo, Times
<1>3. \A u \in Range(l) : u \in Nat
  <2>1. l \in Seq(Times) BY DEF Sound
  <2>2. \A u \in Range(l) : u \in Times BY <2>1 DEF Range
  <2> QED BY <2>2 DEF Times
<1> QED BY <1>2, <1>3 DEF Sound

\* The key expires.
LEMMA ExpiredSound ==
  ASSUME HistoryAssumption, NEW r, NEW l, NEW e \in Nat, NEW n \in Nat, Sound(r, l, e, n),
         e <= n + 1
  PROVE  Sound(<<>>, l, e, n + 1)
<1>1. StoreWindow \in Nat /\ Slack \in Nat /\ l \in Seq(Times)
  BY DEF HistoryAssumption, Sound
<1>2. Sound(r, l, e, n + 1) BY LaterSound
<1>3. \A X : Count(<<>>, X) = 0 /\ Count(l, X) \in Nat BY <1>1, CountEmpty, CountType
<1>4. ASSUME NEW t \in Times PROVE Count(<<>>, {t}) = Count(l, {t}) \/ LetGo(l, n + 1, t)
  <2>1. CASE t \in Range(l)
    <3>1. t + StoreWindow + Slack <= e BY <2>1 DEF Sound
    <3>2. t + StoreWindow + Slack <= n + 1 BY <1>1, <3>1 DEF Times
    <3> QED BY <3>2 DEF LetGo
  <2>2. CASE t \notin Range(l)
    <3>1. Count(l, {t}) = 0 BY <1>1, <2>2, CountMember
    <3> QED BY <1>3, <3>1
  <2> QED BY <2>1, <2>2
<1>5. <<>> \in Seq(Times) /\ Sorted(<<>>) BY DEF Sorted
<1>6. \A t \in Times : Count(<<>>, t..HistoryEnds) <= Count(l, t..HistoryEnds) BY <1>3
<1> QED BY <1>2, <1>4, <1>5, <1>6 DEF Sound

-----------------------------------------------------------------------------
(* A key of the dictionary: its rows r, all that was logged l, and how many   *)
(* of them v went with the key.                                               *)

\* The rows are the last of what was logged since, up to the cap.
Latest(r, l, v) ==
  /\ r \in Seq(Times) /\ l \in Seq(Times) /\ v \in 0..Len(l)
  /\ Len(r) = IF Len(l) - v < MaxEvents THEN Len(l) - v ELSE MaxEvents
  /\ \A j \in 1..Len(r) : r[j] = l[Len(l) - Len(r) + j]

\* A row is appended.
LEMMA AppendLatest ==
  ASSUME HistoryAssumption, NEW r, NEW l, NEW v, NEW at \in Times, Latest(r, l, v)
  PROVE  Latest(Newest(MaxEvents, Append(r, at)), Append(l, at), v)
<1> DEFINE grown == Append(r, at)
           log   == Append(l, at)
           new   == Newest(MaxEvents, grown)
<1>1. /\ MaxEvents \in Nat \ {0} /\ r \in Seq(Times) /\ l \in Seq(Times)
      /\ Len(r) \in Nat /\ Len(l) \in Nat /\ v \in 0..Len(l)
  BY DEF HistoryAssumption, Latest
<1>2. /\ grown \in Seq(Times) /\ Len(grown) = Len(r) + 1 /\ grown[Len(r) + 1] = at
      /\ \A j \in 1..Len(r) : grown[j] = r[j]
  BY <1>1, AppendProperties
<1>3. /\ log \in Seq(Times) /\ Len(log) = Len(l) + 1 /\ log[Len(l) + 1] = at
      /\ \A j \in 1..Len(l) : log[j] = l[j]
  BY <1>1, AppendProperties
<1> HIDE DEF grown, log
<1>4. /\ new \in Seq(Times) /\ Len(new) = (IF Len(grown) > MaxEvents THEN MaxEvents ELSE Len(grown))
      /\ \A i \in 1..Len(new) : new[i] = grown[Len(grown) - Len(new) + i]
  BY <1>1, <1>2, NewestIs
<1> HIDE DEF new
<1>5. Len(new) = IF Len(log) - v < MaxEvents THEN Len(log) - v ELSE MaxEvents
  BY <1>1, <1>2, <1>3, <1>4 DEF Latest
<1>6. \A j \in 1..Len(grown) : grown[j] = log[Len(log) - Len(grown) + j]
  <2> SUFFICES ASSUME NEW j \in 1..Len(grown) PROVE grown[j] = log[Len(log) - Len(grown) + j]
    OBVIOUS
  <2>1. Len(log) - Len(grown) + j = Len(l) - Len(r) + j BY <1>1, <1>2, <1>3
  <2>2. CASE j \in 1..Len(r)
    <3>1. Len(l) - Len(r) + j \in 1..Len(l) BY <1>1, <2>2 DEF Latest
    <3>2. grown[j] = l[Len(l) - Len(r) + j] BY <1>2, <2>2 DEF Latest
    <3> QED BY <1>3, <2>1, <3>1, <3>2
  <2>3. CASE j \notin 1..Len(r)
    <3>1. j = Len(r) + 1 BY <1>1, <1>2, <2>3
    <3>2. Len(l) - Len(r) + j = Len(l) + 1 BY <1>1, <3>1
    <3> QED BY <1>2, <1>3, <2>1, <3>1, <3>2
  <2> QED BY <2>2, <2>3
<1>7. \A j \in 1..Len(new) : new[j] = log[Len(log) - Len(new) + j]
  <2> SUFFICES ASSUME NEW j \in 1..Len(new) PROVE new[j] = log[Len(log) - Len(new) + j] OBVIOUS
  <2> DEFINE i == Len(grown) - Len(new) + j
  <2>1. i \in 1..Len(grown) /\ Len(log) - Len(grown) + i = Len(log) - Len(new) + j
    BY <1>1, <1>2, <1>3, <1>4
  <2>2. new[j] = grown[i] BY <1>4
  <2> HIDE DEF i
  <2> QED BY <1>6, <2>1, <2>2
<1>8. v \in 0..Len(log) BY <1>1, <1>3
<1>9. Latest(new, log, v) BY <1>3, <1>4, <1>5, <1>7, <1>8 DEF Latest
<1> QED BY <1>9 DEF new, grown, log

\* The key goes with all its rows.
LEMMA GoneLatest ==
  ASSUME HistoryAssumption, NEW l \in Seq(Times)
  PROVE  Latest(<<>>, l, Len(l))
<1>1. Len(l) \in Nat /\ MaxEvents \in Nat \ {0} /\ <<>> \in Seq(Times) /\ Len(<<>>) = 0
  BY DEF HistoryAssumption
<1> QED BY <1>1 DEF Latest

-----------------------------------------------------------------------------
(* What a query finds.                                                       *)

Found(r, a) == Newest(RuleLimit, Without(r, Before(a, RuleWindow)))

\* In Redis the rows of one time are found all together.
LEMMA FoundInRedis ==
  ASSUME HistoryAssumption, NEW r, NEW l, NEW e, NEW n \in Nat, Sound(r, l, e, n),
         NEW a \in Nat, NEW t \in Times, t + RuleWindow > a, ~LetGo(l, n, t),
         Count(l, t..HistoryEnds) <= RuleLimit
  PROVE  Count(Found(r, a), {t}) = Count(l, {t})
<1> DEFINE old  == Before(a, RuleWindow)
           kept == Without(r, old)
           X    == t..HistoryEnds
           one  == {t} \ old
<1>0. RuleLimit \in Nat /\ RuleWindow \in Nat /\ HistoryEnds \in Nat BY DEF HistoryAssumption
<1>1. r \in Seq(Times) /\ l \in Seq(Times) /\ Sorted(r) BY DEF Sound
<1>2. kept \in Seq(Times) /\ Sorted(kept) BY <1>1, WithoutElements, SortedWithout
<1>3. \A Y : Count(kept, Y) = Count(r, Y \ old) BY <1>1, CountWithout
<1>4. Count(kept, X) <= Count(r, X)
  <2> DEFINE Z == X \ old
  <2>1. Count(kept, X) = Count(r, Z) BY <1>3
  <2>2. \A i \in 1..Len(r) : r[i] \in Z => r[i] \in X OBVIOUS
  <2> HIDE DEF Z, X
  <2>3. Count(r, Z) <= Count(r, X) BY <1>1, <2>2, CountMonotone
  <2> QED BY <2>1, <2>3
<1>5. Count(kept, {t}) = Count(r, {t})
  <2>1. Count(kept, {t}) = Count(r, one) BY <1>3
  <2>2. \A i \in 1..Len(r) : r[i] \in one <=> r[i] \in {t} BY <1>0 DEF Before, Times
  <2> HIDE DEF one
  <2>3. Count(r, one) = Count(r, {t}) BY <1>1, <2>2, CountSame
  <2> QED BY <2>1, <2>3
<1>6. Count(r, {t}) = Count(l, {t}) /\ Count(r, X) <= Count(l, X) BY DEF Sound
<1>7. Count(kept, X) <= RuleLimit
  <2>1. Count(kept, X) \in Nat /\ Count(r, X) \in Nat /\ Count(l, X) \in Nat
    BY <1>1, <1>2, CountType
  <2> QED BY <1>0, <1>4, <1>6, <2>1
<1>8. Count(Newest(RuleLimit, kept), {t}) = Count(kept, {t})
  <2>1. Times \in SUBSET Nat /\ t \in Nat /\ \A x \in Times : x >= t => x \in X
    BY <1>0 DEF Times
  <2> HIDE DEF X, kept
  <2> QED BY <1>0, <1>2, <1>7, <2>1, NewestKeeps
<1> QED BY <1>5, <1>6, <1>8 DEF Found

\* The end of a sequence counts at least what its last part does.
LEMMA EndCounts ==
  ASSUME NEW S, NEW p \in Seq(S), NEW q \in Seq(S), NEW n \in Nat, Len(q) <= n, NEW X
  PROVE  Count(q, X) <= Count(Newest(n, p \o q), X)
<1> DEFINE c == p \o q
           e == Newest(n, c)
<1>1. /\ c \in Seq(S) /\ Len(c) = Len(p) + Len(q) /\ Len(p) \in Nat /\ Len(q) \in Nat
      /\ \A i \in 1..Len(p) : c[i] = p[i]
      /\ Count(c, X) = Count(p, X) + Count(q, X)
  BY ConcatAt, CountConcat
<1> HIDE DEF c
<1>2. e \in Seq(S) /\ Len(e) = IF Len(c) > n THEN n ELSE Len(c) BY <1>1, NewestIs
<1>3. PICK d \in Seq(S) : /\ c = d \o e /\ Len(d) = Len(c) - Len(e)
                         /\ \A i \in 1..Len(d) : d[i] = c[i]
  BY <1>1, NewestRest
<1> HIDE DEF e
<1>4. Count(d \o e, X) = Count(d, X) + Count(e, X) BY <1>2, <1>3, CountConcat
<1>5. Len(d) <= Len(p) /\ Len(d) \in Nat BY <1>1, <1>2, <1>3
<1>6. Where(d, X) \in SUBSET Where(p, X) BY <1>1, <1>3, <1>5 DEF Where
<1>7. Count(d, X) <= Count(p, X) BY <1>6, CountType, FS_Subset DEF Count
<1>8. Count(d, X) \in Nat /\ Count(e, X) \in Nat /\ Count(p, X) \in Nat /\ Count(q, X) \in Nat
  BY <1>2, <1>3, CountType
<1>9. Count(q, X) <= Count(e, X) BY <1>1, <1>3, <1>4, <1>7, <1>8
<1> QED BY <1>9 DEF e, c

\* In the dictionary the last rows are found, each by itself.
LEMMA FoundInMemory ==
  ASSUME HistoryAssumption, NEW r, NEW l, NEW v, Latest(r, l, v),
         NEW a \in Nat, NEW t \in Times, t + RuleWindow > a,
         NEW D \in SUBSET (1..Len(l)),
         \A i \in D : l[i] = t /\ i > v /\ Len(l) - i < MaxEvents /\ Len(l) - i < RuleLimit
  PROVE  Cardinality(D) <= Count(Found(r, a), {t})
<1> DEFINE old == Before(a, RuleWindow)
           q   == Newest(RuleLimit, r)
           A   == Without(q, old)
           one == {t} \ old
<1>0. /\ RuleLimit \in Nat /\ RuleWindow \in Nat /\ HistoryEnds \in Nat /\ MaxEvents \in Nat
      /\ r \in Seq(Times) /\ l \in Seq(Times) /\ Len(l) \in Nat /\ Len(r) \in Nat /\ v \in 0..Len(l)
  BY DEF HistoryAssumption, Latest
<1>1. /\ q \in Seq(Times) /\ Len(q) \in Nat /\ Len(q) = (IF Len(r) > RuleLimit THEN RuleLimit ELSE Len(r))
      /\ \A j \in 1..Len(q) : q[j] = r[Len(r) - Len(q) + j]
  BY <1>0, NewestIs
<1>2. PICK p \in Seq(Times) : r = p \o q BY <1>0, NewestRest, SMTT(30)
<1> HIDE DEF q
<1>3. A \in Seq(Times) /\ Without(p, old) \in Seq(Times) BY <1>1, <1>2, WithoutElements
<1>4. Without(r, old) = Without(p, old) \o A
  <2> HIDE DEF old
  <2>1. Without(p \o q, old) = Without(p, old) \o Without(q, old) BY <1>1, <1>2, WithoutConcat
  <2> QED BY <1>2, <2>1
<1>5. \A Y : Count(A, Y) = Count(q, Y \ old) BY <1>1, CountWithout
<1>6. Len(A) <= RuleLimit
  <2> DEFINE Z == Times \ old
  <2>1. Count(A, Times) = Count(q, Z) BY <1>5
  <2> HIDE DEF Z, A
  <2>2. Count(A, Times) = Len(A) /\ Count(q, Z) <= Len(q) BY <1>1, <1>3, CountAll, CountType
  <2>3. Len(A) \in Nat BY <1>3
  <2> QED BY <1>0, <1>1, <2>1, <2>2, <2>3
<1>7. Count(A, {t}) = Count(q, {t})
  <2>1. Count(A, {t}) = Count(q, one) BY <1>5
  <2>2. \A j \in 1..Len(q) : q[j] \in one <=> q[j] \in {t} BY <1>0 DEF Before, Times
  <2> HIDE DEF one
  <2>3. Count(q, one) = Count(q, {t}) BY <1>1, <2>2, CountSame
  <2> QED BY <2>1, <2>3
<1>8. Count(A, {t}) <= Count(Found(r, a), {t})
  <2> DEFINE P == Without(p, old)
  <2>1. Found(r, a) = Newest(RuleLimit, P \o A) BY <1>4 DEF Found
  <2> HIDE DEF A, P
  <2>2. Count(A, {t}) <= Count(Newest(RuleLimit, P \o A), {t})
    BY <1>0, <1>3, <1>6, EndCounts DEF P
  <2> QED BY <2>1, <2>2
<1>9. Cardinality(D) <= Count(q, {t})
  <2> DEFINE d == Len(l) - Len(q)
             W == Where(q, {t})
             f == [i \in D |-> i - d]
  <2>1. ASSUME NEW i \in D PROVE i - d \in W
    <3>1. i \in 1..Len(l) /\ l[i] = t /\ i > v /\ Len(l) - i < MaxEvents /\ Len(l) - i < RuleLimit
      OBVIOUS
    <3>2. Len(l) - i < Len(r) BY <1>0, <3>1 DEF Latest
    <3>3. i - d \in 1..Len(q) BY <1>0, <1>1, <3>1, <3>2
    <3>4. q[i - d] = r[Len(r) - Len(q) + (i - d)] BY <1>1, <3>3
    <3>5. Len(r) - Len(q) + (i - d) \in 1..Len(r) BY <1>0, <1>1, <3>3
    <3>6. r[Len(r) - Len(q) + (i - d)] = l[Len(l) - Len(r) + (Len(r) - Len(q) + (i - d))]
      BY <3>5 DEF Latest
    <3>7. Len(l) - Len(r) + (Len(r) - Len(q) + (i - d)) = i
      <4>1. Len(l) \in Int /\ Len(r) \in Int /\ Len(q) \in Int /\ i \in Int BY <1>0, <1>1, <3>1
      <4> QED BY <4>1
    <3>8. q[i - d] = t BY <3>1, <3>4, <3>6, <3>7
    <3> HIDE DEF d
    <3> QED BY <3>3, <3>8 DEF Where
  <2>2. f \in [D -> W] BY <2>1
  <2>3. \A i, j \in D : f[i] = f[j] => i = j
    <3>1. \A i \in D : i \in Nat OBVIOUS
    <3>2. d \in Int BY <1>0, <1>1
    <3> HIDE DEF d
    <3> QED BY <3>1, <3>2
  <2>4. IsFiniteSet(W) BY <1>1, CountType
  <2> HIDE DEF f, W
  <2>5. f \in Injection(D, W) BY <2>2, <2>3 DEF Injection, IsInjective
  <2>6. Cardinality(D) <= Cardinality(W) BY <2>4, <2>5, FS_Injection
  <2> QED BY <2>6 DEF Count, W
<1>10. Cardinality(D) \in Nat
  <2>1. IsFiniteSet(1..Len(l)) BY <1>0, FS_Interval
  <2> QED BY <2>1, FS_Subset, FS_CardinalityType
<1>11. Count(q, {t}) \in Nat /\ Count(Found(r, a), {t}) \in Nat
  <2>1. Without(r, old) \in Seq(Times) BY <1>0, WithoutElements
  <2> HIDE DEF old
  <2>2. Newest(RuleLimit, Without(r, old)) \in Seq(Times) BY <1>0, <2>1, NewestIs
  <2> QED BY <1>1, <2>2, CountType DEF Found, old
<1> QED BY <1>7, <1>8, <1>9, <1>10, <1>11

-----------------------------------------------------------------------------
(* The types, and the order of the keys.                                     *)

ClockOK ==
  /\ backend \in {"memory", "redis"} /\ now \in Times
  /\ task \in [Workers -> Tasks] /\ \A w \in Workers : task[w].at <= now
KeysOK ==
  /\ rows \in [Keys -> Seq(Times)] /\ logged \in [Keys -> Seq(Times)]
  /\ expires \in [Keys -> Nat] /\ evicted \in [Keys -> Nat] /\ younger \in [Keys -> SUBSET Keys]
  /\ \A k \in Keys : Len(rows[k]) <= MaxEvents /\ evicted[k] <= Len(logged[k])
CapOK == \A k \in Keys : Len(logged[k]) + Cardinality(Pending(k)) <= EventCap

\* u holds different keys, each before those inserted after it, whom y names.
Queued(u, y) ==
  /\ u \in Seq(Keys)
  /\ \A i, j \in 1..Len(u) : i < j => u[i] # u[j] /\ u[j] \in y[u[i]]
OrderOK == Queued(inserted, younger) /\ Len(inserted) <= HistoryMaxKeys

TInv == ClockOK /\ KeysOK /\ CapOK /\ OrderOK

\* The keys the dictionary drops when those of new are inserted.
Dropped(new) == Range(inserted \o new) \ Range(KeptKeys(inserted \o new))

\* What an append to the dictionary does, new being the order of the new keys.
Inserts(w, new) ==
  /\ inserted' = KeptKeys(inserted \o new)
  /\ rows' = [k \in Keys |->
       IF k \in Dropped(new) THEN <<>>
       ELSE IF k \in task[w].keys THEN Newest(MaxEvents, Append(rows[k], task[w].at)) ELSE rows[k]]
  /\ logged' = [k \in Keys |-> IF k \in task[w].keys THEN Append(logged[k], task[w].at)
                               ELSE logged[k]]
  /\ evicted' = [k \in Keys |-> IF k \in Dropped(new) THEN Len(logged'[k]) ELSE evicted[k]]
  /\ younger' = [k \in Keys |->
       IF k \in Range(new) THEN {new[i] : i \in {j \in DOMAIN new :
                                        \E h \in DOMAIN new : h < j /\ new[h] = k}}
       ELSE younger[k] \union Range(new)]

\* An append to the dictionary inserts the new keys, each once, in some order.
LEMMA MemoryEffect ==
  ASSUME HistoryAssumption, TInv, NEW w \in Workers, AppendMemory(w)
  PROVE  \E new \in Seq(Keys) :
            /\ Inserts(w, new)
            /\ \A i, j \in 1..Len(new) : i # j => new[i] # new[j]
            /\ \A i \in 1..Len(new) : new[i] \notin Range(inserted)
<1> DEFINE S == task[w].keys \ Range(inserted)
           n == Cardinality(S)
<1>1. PICK new \in SetToSeqs(S) : Inserts(w, new)
  BY ZenonT(60) DEF AppendMemory, Inserts, Dropped
<1>2. S \in SUBSET Keys
  <2>1. task[w] \in Tasks BY DEF TInv, ClockOK
  <2> QED BY <2>1 DEF Tasks
<1>3. n \in Nat
  <2>1. IsFiniteSet(Keys) BY DEF HistoryAssumption
  <2> HIDE DEF S
  <2> QED BY <1>2, <2>1, FS_Subset, FS_CardinalityType
<1>4. /\ new \in [1..n -> S] /\ \A i, j \in 1..n : i # j => new[i] # new[j]
  BY <1>1 DEF SetToSeqs
<1>5. \A i \in 1..n : new[i] \notin Range(inserted) BY <1>4
<1> HIDE DEF S, n
<1>6. new \in Seq(Keys) /\ Len(new) = n
  <2>1. new \in [1..n -> Keys] BY <1>2, <1>4
  <2> QED BY <1>3, <2>1
<1> QED BY <1>1, <1>4, <1>5, <1>6

\* The keys as they are inserted.
LEMMA InsertedQueued ==
  ASSUME TInv, NEW w \in Workers, NEW new \in Seq(Keys), Inserts(w, new),
         \A i, j \in 1..Len(new) : i # j => new[i] # new[j],
         \A i \in 1..Len(new) : new[i] \notin Range(inserted)
  PROVE  Queued(inserted \o new, younger')
<1> DEFINE u == inserted \o new
           n == Len(inserted)
<1>1. /\ inserted \in Seq(Keys) /\ n \in Nat /\ Len(new) \in Nat
      /\ \A i, j \in 1..n : i < j => inserted[i] # inserted[j] /\ inserted[j] \in younger[inserted[i]]
  BY DEF TInv, OrderOK, Queued
<1>2. /\ u \in Seq(Keys) /\ Len(u) = n + Len(new)
      /\ \A i \in 1..n : u[i] = inserted[i]
      /\ \A i \in 1..Len(new) : u[n + i] = new[i]
  BY <1>1, ConcatAt
<1> HIDE DEF u
<1>3. /\ \A i \in 1..n : inserted[i] \in Keys /\ inserted[i] \in Range(inserted)
      /\ \A i \in 1..Len(new) : new[i] \in Keys /\ new[i] \in Range(new)
  BY <1>1 DEF Range
<1>4. \A i \in 1..n : inserted[i] \notin Range(new)
  <2>1. Range(new) = {new[j] : j \in 1..Len(new)} BY DEF Range
  <2> QED BY <1>3, <2>1
<1>5. ASSUME NEW i \in 1..Len(u), NEW j \in 1..Len(u), i < j
      PROVE  u[i] # u[j] /\ u[j] \in younger'[u[i]]
  <2>1. CASE i \in 1..n
    <3>1. younger'[u[i]] = younger[inserted[i]] \union Range(new)
      BY <1>2, <1>3, <1>4, <2>1 DEF Inserts
    <3>2. CASE j \in 1..n BY <1>1, <1>2, <1>5, <2>1, <3>1, <3>2
    <3>3. CASE j \notin 1..n
      <4>1. j - n \in 1..Len(new) /\ n + (j - n) = j BY <1>1, <1>2, <3>3
      <4>2. u[n + (j - n)] = new[j - n] BY <1>2, <4>1
      <4>3. u[j] = new[j - n] BY <4>1, <4>2
      <4> QED BY <1>2, <1>3, <2>1, <3>1, <4>1, <4>3
    <3> QED BY <3>2, <3>3
  <2>2. CASE i \notin 1..n
    <3> DEFINE h == i - n
               m == j - n
    <3>1. h \in 1..Len(new) /\ m \in 1..Len(new) /\ h < m /\ n + h = i /\ n + m = j
      BY <1>1, <1>2, <1>5, <2>2
    <3> HIDE DEF h, m
    <3>2. u[i] = new[h] /\ u[j] = new[m] BY <1>2, <3>1
    <3>3. younger'[new[h]] = {new[g] : g \in {q \in DOMAIN new :
                                 \E f \in DOMAIN new : f < q /\ new[f] = new[h]}}
      BY <1>3, <3>1 DEF Inserts
    <3>4. DOMAIN new = 1..Len(new) OBVIOUS
    <3>5. new[m] \in younger'[new[h]] BY <3>1, <3>3, <3>4
    <3> QED BY <3>1, <3>2, <3>5
  <2> QED BY <2>1, <2>2
<1>6. Queued(u, younger') BY <1>2, <1>5 DEF Queued
<1> QED BY <1>6 DEF u

\* The last of them stay queued.
LEMMA KeptQueued ==
  ASSUME HistoryAssumption, NEW u, NEW y, Queued(u, y)
  PROVE  Queued(KeptKeys(u), y) /\ Len(KeptKeys(u)) <= HistoryMaxKeys
<1> DEFINE e == KeptKeys(u)
           d == Len(u) - Len(e)
<1>1. HistoryMaxKeys \in Nat /\ u \in Seq(Keys) /\ Len(u) \in Nat BY DEF HistoryAssumption, Queued
<1>2. /\ e \in Seq(Keys) /\ Len(e) = (IF Len(u) > HistoryMaxKeys THEN HistoryMaxKeys ELSE Len(u))
      /\ \A i \in 1..Len(e) : e[i] = u[d + i]
  BY <1>1, NewestIs DEF KeptKeys
<1> HIDE DEF e
<1>3. ASSUME NEW i \in 1..Len(e), NEW j \in 1..Len(e), i < j
      PROVE  e[i] # e[j] /\ e[j] \in y[e[i]]
  <2>1. d + i \in 1..Len(u) /\ d + j \in 1..Len(u) /\ d + i < d + j
    <3>1. HistoryMaxKeys \in Nat /\ Len(u) \in Nat /\ Len(e) \in Nat /\ Len(e) <= Len(u)
      BY <1>1, <1>2
    <3>2. d \in Nat /\ d + Len(e) = Len(u) BY <3>1
    <3>3. i \in Nat /\ j \in Nat /\ i >= 1 /\ j <= Len(e) BY <3>1
    <3> HIDE DEF d
    <3> QED BY <1>3, <3>1, <3>2, <3>3
  <2>2. u[d + i] # u[d + j] /\ u[d + j] \in y[u[d + i]] BY <2>1 DEF Queued
  <2> QED BY <1>2, <2>2
<1> QED BY <1>1, <1>2, <1>3 DEF Queued, e

\* A key that goes has as many inserted after it as are kept.
LEMMA DroppedBehind ==
  ASSUME HistoryAssumption, NEW u, NEW y \in [Keys -> SUBSET Keys], Queued(u, y),
         NEW k \in Range(u) \ Range(KeptKeys(u))
  PROVE  Cardinality(y[k]) >= HistoryMaxKeys
<1> DEFINE e == KeptKeys(u)
           L == Len(u)
<1>1. HistoryMaxKeys \in Nat /\ u \in Seq(Keys) /\ L \in Nat BY DEF HistoryAssumption, Queued
<1>2. /\ e \in Seq(Keys) /\ Len(e) = (IF L > HistoryMaxKeys THEN HistoryMaxKeys ELSE L)
      /\ \A i \in 1..Len(e) : e[i] = u[L - Len(e) + i]
  BY <1>1, NewestIs DEF KeptKeys
<1>3. k \in Range(u) /\ k \notin Range(e) OBVIOUS
<1> HIDE DEF e
<1>4. PICK i \in 1..L : u[i] = k BY <1>1, <1>3 DEF Range
<1>5. i <= L - HistoryMaxKeys
  <2> SUFFICES ASSUME ~(i <= L - HistoryMaxKeys) PROVE FALSE OBVIOUS
  <2> DEFINE j == i - (L - Len(e))
  <2>1. j \in 1..Len(e) /\ L - Len(e) + j = i BY <1>1, <1>2, <1>4, SMTT(30)
  <2>2. e[j] = k BY <1>2, <1>4, <2>1
  <2> HIDE DEF j
  <2>3. e[j] \in Range(e) BY <1>2, <2>1 DEF Range
  <2> QED BY <1>3, <2>2, <2>3
<1> DEFINE D == (i + 1)..L
           f == [j \in D |-> u[j]]
<1>6. f \in [D -> y[k]] /\ \A a, b \in D : f[a] = f[b] => a = b
  <2>1. ASSUME NEW j \in D PROVE u[j] \in y[k] BY <1>1, <1>4 DEF Queued
  <2>2. ASSUME NEW a \in D, NEW b \in D, u[a] = u[b] PROVE a = b
    <3>1. a \in 1..L /\ b \in 1..L BY <1>1
    <3> QED BY <2>2, <3>1 DEF Queued
  <2> HIDE DEF D
  <2> QED BY <2>1, <2>2
<1>7. IsFiniteSet(y[k]) /\ Cardinality(y[k]) \in Nat
  <2>1. k \in Keys BY <1>1, <1>4, ElementOfSeq
  <2>2. y[k] \in SUBSET Keys /\ IsFiniteSet(Keys) BY <2>1 DEF HistoryAssumption
  <2> QED BY <2>2, FS_Subset, FS_CardinalityType
<1>8. Cardinality(D) = L - i
  <2>1. i + 1 \in Int /\ L \in Int BY <1>1
  <2>2. Cardinality(D) = IF i + 1 > L THEN 0 ELSE L - (i + 1) + 1 BY <2>1, FS_Interval
  <2> QED BY <1>1, <2>2
<1>9. Cardinality(D) <= Cardinality(y[k])
  <2> HIDE DEF D, f
  <2>1. f \in Injection(D, y[k]) BY <1>6 DEF Injection, IsInjective
  <2> QED BY <1>7, <2>1, FS_Injection
<1> HIDE DEF D
<1> QED BY <1>1, <1>4, <1>5, <1>7, <1>8, <1>9

\* The script leaves no more rows than the cap.
LEMMA RecordedIs ==
  ASSUME HistoryAssumption, NEW r \in Seq(Times), NEW at \in Times
  PROVE  Recorded(r, at) \in Seq(Times) /\ Len(Recorded(r, at)) <= MaxEvents
<1> DEFINE kept == Without(r, Before(at, StoreWindow))
           grown == Ranked(kept, at)
<1>1. HistoryEnds \in Nat /\ MaxEvents \in Nat BY DEF HistoryAssumption
<1>2. kept \in Seq(Times) BY WithoutElements
<1> HIDE DEF kept
<1>3. grown \in Seq(Times) BY <1>1, <1>2, RankedIs DEF Times
<1> HIDE DEF grown
<1>4. Newest(MaxEvents, grown) \in Seq(Times) /\ Len(Newest(MaxEvents, grown)) <= MaxEvents
  <2>1. Len(grown) \in Nat BY <1>3
  <2> QED BY <1>1, <1>3, <2>1, NewestIs
<1> QED BY <1>4 DEF Recorded, kept, grown

\* The workers with a key to come, when a worker's event becomes another.
LEMMA PendingStep ==
  ASSUME HistoryAssumption, TInv, NEW w \in Workers, NEW q \in Tasks,
         task' = [task EXCEPT ![w] = q], NEW k \in Keys
  PROVE  /\ Cardinality(Pending(k)) \in Nat /\ Cardinality(Pending(k)') \in Nat
         /\ k \in q.keys => Cardinality(Pending(k)') <= Cardinality(Pending(k)) + 1
         /\ k \in q.keys /\ k \in task[w].keys => Cardinality(Pending(k)') = Cardinality(Pending(k))
         /\ k \notin q.keys => Cardinality(Pending(k)') <= Cardinality(Pending(k))
         /\ k \notin q.keys /\ k \in task[w].keys =>
              Cardinality(Pending(k)') + 1 = Cardinality(Pending(k))
<1> DEFINE P == Pending(k)
           R == Pending(k)'
<1>1. \A v \in Workers : task'[v] = IF v = w THEN q ELSE task[v] BY DEF TInv, ClockOK
<1>2. P \in SUBSET Workers /\ IsFiniteSet(Workers) BY DEF Pending, HistoryAssumption
<1>3. IsFiniteSet(P) /\ Cardinality(P) \in Nat BY <1>2, FS_Subset, FS_CardinalityType
<1>4. w \in P <=> k \in task[w].keys BY DEF Pending
<1>5. R = IF k \in q.keys THEN P \cup {w} ELSE P \ {w}
  BY <1>1 DEF Pending
<1> HIDE DEF P, R
<1>6. /\ IsFiniteSet(P \cup {w})
      /\ Cardinality(P \cup {w}) = IF w \in P THEN Cardinality(P) ELSE Cardinality(P) + 1
  BY <1>3, FS_AddElement
<1>7. /\ IsFiniteSet(P \ {w})
      /\ Cardinality(P \ {w}) = IF w \in P THEN Cardinality(P) - 1 ELSE Cardinality(P)
  BY <1>3, FS_RemoveElement
<1>8. Cardinality(P \ {w}) \in Nat BY <1>7, FS_CardinalityType
<1>9. CASE k \in q.keys
  <2>1. R = P \cup {w} BY <1>5, <1>9
  <2>2. Cardinality(R) = IF w \in P THEN Cardinality(P) ELSE Cardinality(P) + 1 BY <1>6, <2>1
  <2> QED BY <1>3, <1>4, <1>9, <2>2 DEF P, R
<1>10. CASE k \notin q.keys
  <2>1. R = P \ {w} BY <1>5, <1>10
  <2>2. Cardinality(R) = (IF w \in P THEN Cardinality(P) - 1 ELSE Cardinality(P))
        /\ Cardinality(R) \in Nat
    BY <1>7, <1>8, <2>1
  <2> QED BY <1>3, <1>4, <1>10, <2>2 DEF P, R
<1> QED BY <1>9, <1>10

\* The bound on a key is kept where its log grows by no more than what was pending.
LEMMA CapStep ==
  ASSUME HistoryAssumption, TInv, NEW w \in Workers, NEW q \in Tasks,
         task' = [task EXCEPT ![w] = q],
         \A k \in Keys : logged'[k] \in Seq(Times),
         \A k \in Keys :
            \/ /\ logged'[k] = logged[k]
               /\ k \in q.keys => k \in task[w].keys
            \/ /\ logged'[k] = logged[k]
               /\ Len(logged[k]) + Cardinality(Pending(k)) < EventCap
            \/ /\ Len(logged'[k]) = Len(logged[k]) + 1
               /\ k \notin q.keys /\ k \in task[w].keys
  PROVE  CapOK'
<1> SUFFICES ASSUME NEW k \in Keys
             PROVE  Len(logged'[k]) + Cardinality(Pending(k)') <= EventCap
  BY DEF CapOK
<1>1. Len(logged[k]) \in Nat /\ Len(logged'[k]) \in Nat /\ EventCap \in Nat
  BY DEF TInv, KeysOK, HistoryAssumption
<1>2. Len(logged[k]) + Cardinality(Pending(k)) <= EventCap BY DEF TInv, CapOK
<1> DEFINE m == Cardinality(Pending(k))
           n == Cardinality(Pending(k)')
<1>3. /\ m \in Nat /\ n \in Nat
      /\ k \in q.keys => n <= m + 1
      /\ k \in q.keys /\ k \in task[w].keys => n = m
      /\ k \notin q.keys => n <= m
      /\ k \notin q.keys /\ k \in task[w].keys => n + 1 = m
  BY PendingStep
<1>4. Len(logged[k]) + m <= EventCap BY <1>2
<1>5. \/ /\ logged'[k] = logged[k]
         /\ k \in q.keys => k \in task[w].keys
      \/ /\ logged'[k] = logged[k]
         /\ Len(logged[k]) + m < EventCap
      \/ /\ Len(logged'[k]) = Len(logged[k]) + 1
         /\ k \notin q.keys /\ k \in task[w].keys
  <2> HIDE DEF m, n
  <2>1. m = Cardinality(Pending(k)) BY DEF m
  <2> QED BY Zenon, <2>1
<1> HIDE DEF m, n
<1>6. Len(logged'[k]) + n <= EventCap BY <1>1, <1>3, <1>4, <1>5
<1> QED BY <1>6 DEF n

\* The steps.
LEMMA StepCases ==
  ASSUME [HistoryNext]_historyVars
  PROVE  /\ backend' = backend
         /\ \/ \E w \in Workers :
                 \/ \E keys \in SUBSET Keys : Start(w, keys)
                 \/ AppendNothing(w) \/ AppendMemory(w)
                 \/ \E k \in Keys : AppendRedis(w, k)
            \/ HistoryTick
            \/ UNCHANGED historyVars
BY DEF HistoryNext, EngineStep, historyVars

\* What an append to Redis does.
LEMMA RedisEffect ==
  ASSUME HistoryAssumption, TInv, NEW w \in Workers, NEW k \in Keys, AppendRedis(w, k)
  PROVE  \/ /\ rows' = [rows EXCEPT ![k] = Recorded(rows[k], task[w].at)]
            /\ expires' = [expires EXCEPT ![k] = now + StoreWindow + Slack]
            /\ logged' = [logged EXCEPT ![k] = Ranked(logged[k], task[w].at)]
         \/ UNCHANGED <<rows, expires, logged>>
BY DEF AppendRedis, Life, TInv, KeysOK

\* A worker's event becomes another of the same time or of now.
LEMMA ClockStep ==
  ASSUME HistoryAssumption, TInv, NEW w \in Workers, NEW q \in Tasks,
         task' = [task EXCEPT ![w] = q], q.at <= now, backend' = backend, now' = now
  PROVE  ClockOK'
<1>1. \A v \in Workers : task'[v] = IF v = w THEN q ELSE task[v] BY DEF TInv, ClockOK
<1>2. task' \in [Workers -> Tasks] BY DEF TInv, ClockOK
<1>3. \A v \in Workers : task'[v].at <= now' BY <1>1 DEF TInv, ClockOK
<1> QED BY <1>2, <1>3 DEF TInv, ClockOK

\* Every step keeps the types.
LEMMA TypesStep ==
  ASSUME HistoryAssumption, TInv, [HistoryNext]_historyVars
  PROVE  TInv'
<1>0. /\ backend' = backend /\ HistoryEnds \in Nat /\ MaxEvents \in Nat \ {0} /\ StoreWindow \in Nat
      /\ Slack \in Nat /\ now \in Nat
  BY StepCases DEF HistoryAssumption, TInv, ClockOK, Times
<1>1. Idle \in Tasks /\ Idle.at = 0 /\ Idle.at <= now /\ Idle.keys = {}
  BY <1>0 DEF Idle, Tasks
<1>2. ASSUME NEW w \in Workers PROVE task[w] \in Tasks /\ task[w].at \in Times /\ task[w].at <= now
                                      /\ task[w].keys \in SUBSET Keys
  <2>1. task[w] \in Tasks /\ task[w].at <= now BY DEF TInv, ClockOK
  <2> QED BY <2>1 DEF Tasks, Times
<1>3. ASSUME NEW w \in Workers, NEW keys \in SUBSET Keys, Start(w, keys) PROVE TInv'
  <2> DEFINE q == [pc |-> "evaluate", at |-> now, keys |-> keys]
  <2>1. q \in Tasks /\ q.at = now /\ q.at <= now /\ q.keys = keys BY DEF TInv, ClockOK, Tasks, Times
  <2>2. task' = [task EXCEPT ![w] = q] /\ now' = now /\ UNCHANGED <<historyStore, historyLogs>>
    BY <1>3 DEF Start
  <2>3. \A k \in q.keys : Len(logged[k]) + Cardinality(Pending(k)) < EventCap
    BY <1>3, <2>1 DEF Start
  <2> HIDE DEF q
  <2>4. ClockOK' BY <1>0, <2>1, <2>2, ClockStep
  <2>5. KeysOK' /\ OrderOK' BY <2>2 DEF TInv, KeysOK, OrderOK, historyStore, historyLogs
  <2>6. CapOK'
    <3>1. \A k \in Keys : logged'[k] = logged[k] /\ logged'[k] \in Seq(Times)
      BY <2>2 DEF historyLogs, TInv, KeysOK
    <3> QED BY <2>1, <2>2, <2>3, <3>1, CapStep
  <2> QED BY <2>4, <2>5, <2>6 DEF TInv
<1>4. ASSUME NEW w \in Workers, AppendNothing(w) PROVE TInv'
  <2>1. task' = [task EXCEPT ![w] = Idle] /\ now' = now /\ UNCHANGED <<historyStore, historyLogs>>
    BY <1>4 DEF AppendNothing
  <2>2. ClockOK' BY <1>0, <1>1, <2>1, ClockStep
  <2>3. KeysOK' /\ OrderOK' BY <2>1 DEF TInv, KeysOK, OrderOK, historyStore, historyLogs
  <2>4. CapOK'
    <3>1. \A k \in Keys : logged'[k] = logged[k] /\ logged'[k] \in Seq(Times)
      BY <2>1 DEF historyLogs, TInv, KeysOK
    <3> QED BY <1>1, <2>1, <3>1, CapStep
  <2> QED BY <2>2, <2>3, <2>4 DEF TInv
<1>5. ASSUME NEW w \in Workers, AppendMemory(w) PROVE TInv'
  <2> DEFINE at == task[w].at
  <2>1. task' = [task EXCEPT ![w] = Idle] /\ now' = now /\ expires' = expires
    BY <1>5 DEF AppendMemory
  <2>2. PICK new \in Seq(Keys) :
          /\ Inserts(w, new)
          /\ \A i, j \in 1..Len(new) : i # j => new[i] # new[j]
          /\ \A i \in 1..Len(new) : new[i] \notin Range(inserted)
    BY <1>5, MemoryEffect
  <2>3. ASSUME NEW k \in Keys
        PROVE  /\ rows[k] \in Seq(Times) /\ logged[k] \in Seq(Times)
               /\ Append(logged[k], at) \in Seq(Times)
               /\ Len(Append(logged[k], at)) = Len(logged[k]) + 1
               /\ Newest(MaxEvents, Append(rows[k], at)) \in Seq(Times)
               /\ Len(Newest(MaxEvents, Append(rows[k], at))) <= MaxEvents
    <3>1. rows[k] \in Seq(Times) /\ logged[k] \in Seq(Times) /\ at \in Times
      BY <1>2 DEF TInv, KeysOK
    <3> DEFINE r == Append(rows[k], at)
    <3>2. r \in Seq(Times) /\ Len(r) \in Nat BY <3>1
    <3> HIDE DEF at, r
    <3>3. Newest(MaxEvents, r) \in Seq(Times) /\ Len(Newest(MaxEvents, r)) <= MaxEvents
      <4>1. MaxEvents \in Nat BY <1>0
      <4> DEFINE s == Newest(MaxEvents, r)
      <4>2. s \in Seq(Times) /\ Len(s) = IF Len(r) > MaxEvents THEN MaxEvents ELSE Len(r)
        BY <3>2, <4>1, NewestIs
      <4> HIDE DEF s
      <4>3. Len(s) <= MaxEvents BY <3>2, <4>1, <4>2
      <4> QED BY <4>2, <4>3 DEF s
    <3> QED BY <3>1, <3>3, AppendProperties DEF r
  <2>4. ClockOK' BY <1>0, <1>1, <2>1, ClockStep
  <2>5. ASSUME NEW k \in Keys
        PROVE  /\ logged'[k] = (IF k \in task[w].keys THEN Append(logged[k], at) ELSE logged[k])
               /\ logged'[k] \in Seq(Times) /\ Len(logged'[k]) >= Len(logged[k])
               /\ rows'[k] \in Seq(Times) /\ Len(rows'[k]) <= MaxEvents
               /\ evicted'[k] \in Nat /\ evicted'[k] <= Len(logged'[k])
               /\ younger'[k] \in SUBSET Keys
    <3>1. logged'[k] = IF k \in task[w].keys THEN Append(logged[k], at) ELSE logged[k]
      BY <2>2 DEF Inserts
    <3>2. logged'[k] \in Seq(Times) /\ Len(logged'[k]) >= Len(logged[k]) /\ Len(logged'[k]) \in Nat
          /\ Len(logged[k]) \in Nat
      BY <2>3, <3>1
    <3>3. rows'[k] \in Seq(Times) /\ Len(rows'[k]) <= MaxEvents
      <4>1. \/ rows'[k] = <<>> \/ rows'[k] = rows[k]
            \/ rows'[k] = Newest(MaxEvents, Append(rows[k], at))
        BY <2>2 DEF Inserts
      <4>2. Len(rows[k]) <= MaxEvents BY DEF TInv, KeysOK
      <4>3. <<>> \in Seq(Times) /\ Len(<<>>) <= MaxEvents BY <1>0
      <4> QED BY <2>3, <4>1, <4>2, <4>3
    <3>4. evicted'[k] \in Nat /\ evicted'[k] <= Len(logged'[k])
      <4>1. evicted'[k] \in {Len(logged'[k]), evicted[k]} BY <2>2 DEF Inserts
      <4>2. evicted[k] \in Nat /\ evicted[k] <= Len(logged[k]) BY DEF TInv, KeysOK
      <4> QED BY <3>2, <4>1, <4>2
    <3>5. younger'[k] \in SUBSET Keys
      <4>1. Range(new) \in SUBSET Keys BY <2>2, ElementOfSeq DEF Range
      <4>2. \A i \in DOMAIN new : new[i] \in Keys BY <2>2, ElementOfSeq
      <4>3. younger[k] \in SUBSET Keys BY DEF TInv, KeysOK
      <4> QED BY <2>2, <4>1, <4>2, <4>3 DEF Inserts
    <3> QED BY <3>1, <3>2, <3>3, <3>4, <3>5
  <2>6. KeysOK'
    <3>1. rows' \in [Keys -> Seq(Times)] /\ logged' \in [Keys -> Seq(Times)]
      BY <2>2, <2>5 DEF Inserts
    <3>2. evicted' \in [Keys -> Nat] BY <2>2, <2>5 DEF Inserts
    <3>3. younger' \in [Keys -> SUBSET Keys] BY <2>2, <2>5 DEF Inserts
    <3>4. expires' \in [Keys -> Nat] BY <2>1 DEF TInv, KeysOK
    <3> QED BY <2>5, <3>1, <3>2, <3>3, <3>4 DEF KeysOK
  <2>7. CapOK'
    <3>1. \A k \in Keys :
            \/ logged'[k] = logged[k] /\ k \notin Idle.keys
            \/ /\ Len(logged'[k]) = Len(logged[k]) + 1
               /\ k \notin Idle.keys /\ k \in task[w].keys
      BY <1>1, <2>3, <2>5
    <3>2. \A k \in Keys : logged'[k] \in Seq(Times) BY <2>5
    <3> QED BY <1>1, <2>1, <3>1, <3>2, CapStep
  <2>8. OrderOK'
    <3>1. Queued(inserted \o new, younger') BY <2>2, InsertedQueued
    <3>2. Queued(KeptKeys(inserted \o new), younger') /\ Len(KeptKeys(inserted \o new)) <= HistoryMaxKeys
      BY <3>1, KeptQueued
    <3>3. inserted' = KeptKeys(inserted \o new) BY <2>2 DEF Inserts
    <3> QED BY <3>2, <3>3 DEF OrderOK
  <2> QED BY <2>4, <2>6, <2>7, <2>8 DEF TInv
<1>6. ASSUME NEW w \in Workers, NEW k \in Keys, AppendRedis(w, k) PROVE TInv'
  <2> DEFINE q == IF task[w].keys = {k} THEN Idle
                  ELSE [task[w] EXCEPT !.pc = "append", !.keys = task[w].keys \ {k}]
             at == task[w].at
  <2>1. /\ task' = [task EXCEPT ![w] = q] /\ UNCHANGED <<now, inserted, evicted, younger>>
        /\ k \in task[w].keys
    BY <1>6 DEF AppendRedis
  <2>2. q \in Tasks /\ q.at <= now /\ k \notin q.keys /\ q.keys \subseteq task[w].keys
    <3>1. CASE task[w].keys = {k} BY <1>0, <1>1, <3>1
    <3>2. CASE task[w].keys # {k}
      <4> DEFINE c == task[w]
                 d == [c EXCEPT !.pc = "append", !.keys = c.keys \ {k}]
      <4>1. c \in Tasks /\ c.at <= now BY <1>2
      <4> HIDE DEF c
      <4>2. d \in Tasks /\ d.at = c.at /\ d.keys = c.keys \ {k} BY <4>1 DEF Tasks
      <4> QED BY <3>2, <4>1, <4>2 DEF c
    <3> QED BY <3>1, <3>2
  <2> HIDE DEF q
  <2>3. ClockOK' BY <1>0, <2>1, <2>2, ClockStep
  <2>4. OrderOK' BY <2>1 DEF TInv, OrderOK
  <2>5. at \in Times /\ rows[k] \in Seq(Times) /\ logged[k] \in Seq(Times)
    BY <1>2 DEF TInv, KeysOK
  <2>6. /\ Recorded(rows[k], at) \in Seq(Times) /\ Len(Recorded(rows[k], at)) <= MaxEvents
        /\ Ranked(logged[k], at) \in Seq(Times) /\ Len(Ranked(logged[k], at)) = Len(logged[k]) + 1
    <3> HIDE DEF at
    <3> QED BY <1>0, <2>5, RecordedIs, RankedIs DEF Times
  <2>7. KeysOK' /\ CapOK'
    <3>1. CASE /\ rows' = [rows EXCEPT ![k] = Recorded(rows[k], at)]
               /\ expires' = [expires EXCEPT ![k] = now + StoreWindow + Slack]
               /\ logged' = [logged EXCEPT ![k] = Ranked(logged[k], at)]
      <4> DEFINE R == Recorded(rows[k], at)
                 G == Ranked(logged[k], at)
      <4>1. /\ \A h \in Keys : logged'[h] = IF h = k THEN G ELSE logged[h]
            /\ \A h \in Keys : rows'[h] = IF h = k THEN R ELSE rows[h]
        BY <3>1 DEF TInv, KeysOK
      <4>2. now + StoreWindow + Slack \in Nat BY <1>0
      <4>3. R \in Seq(Times) /\ Len(R) <= MaxEvents /\ G \in Seq(Times) /\ Len(G) = Len(logged[k]) + 1
        BY <2>6
      <4>4. /\ rows' = [rows EXCEPT ![k] = R] /\ logged' = [logged EXCEPT ![k] = G]
            /\ expires' = [expires EXCEPT ![k] = now + StoreWindow + Slack]
        BY <3>1
      <4> HIDE DEF R, G
      <4>5. /\ rows' \in [Keys -> Seq(Times)] /\ logged' \in [Keys -> Seq(Times)]
            /\ expires' \in [Keys -> Nat]
        BY <4>2, <4>3, <4>4 DEF TInv, KeysOK
      <4>6. \A h \in Keys : Len(rows'[h]) <= MaxEvents BY <4>1, <4>3 DEF TInv, KeysOK
      <4>7. \A h \in Keys : evicted[h] <= Len(logged'[h])
        <5> SUFFICES ASSUME NEW h \in Keys PROVE evicted[h] <= Len(logged'[h]) OBVIOUS
        <5>1. evicted[h] \in Nat /\ evicted[h] <= Len(logged[h]) /\ Len(logged[h]) \in Nat
          BY DEF TInv, KeysOK
        <5> QED BY <4>1, <4>3, <5>1
      <4>8. evicted' = evicted /\ younger' = younger BY <2>1
      <4>9. KeysOK'
        BY <4>5, <4>6, <4>7, <4>8 DEF TInv, KeysOK
      <4>10. \A h \in Keys :
               \/ /\ logged'[h] = logged[h]
                  /\ h \in q.keys => h \in task[w].keys
               \/ /\ Len(logged'[h]) = Len(logged[h]) + 1
                  /\ h \notin q.keys /\ h \in task[w].keys
        BY <2>1, <2>2, <4>1, <4>3
      <4>11. \A h \in Keys : logged'[h] \in Seq(Times) BY <4>5
      <4>12. CapOK' BY <2>1, <2>2, <4>10, <4>11, CapStep
      <4> QED BY <4>9, <4>12
    <3>2. CASE UNCHANGED <<rows, expires, logged>>
      <4>1. KeysOK' BY <2>1, <3>2 DEF TInv, KeysOK
      <4>2. \A h \in Keys : logged'[h] = logged[h] /\ (h \in q.keys => h \in task[w].keys)
                           /\ logged'[h] \in Seq(Times)
        BY <2>2, <3>2 DEF TInv, KeysOK
      <4>3. CapOK' BY <2>1, <2>2, <4>2, CapStep
      <4> QED BY <4>1, <4>3
    <3> QED BY <1>6, <3>1, <3>2, RedisEffect
  <2> QED BY <2>3, <2>4, <2>7 DEF TInv
<1>7. ASSUME HistoryTick PROVE TInv'
  <2>1. now < HistoryEnds /\ now' = now + 1 /\ UNCHANGED <<inserted, expires, task, historyLogs>> BY <1>7 DEF HistoryTick
  <2>2. \A k \in Keys : rows'[k] \in {<<>>, rows[k]} BY <1>7 DEF HistoryTick
  <2>3. rows' \in [Keys -> Seq(Times)]
    <3>1. <<>> \in Seq(Times) /\ \A k \in Keys : rows[k] \in Seq(Times) BY DEF TInv, KeysOK
    <3>2. \A k \in Keys : rows'[k] \in Seq(Times) BY <2>2, <3>1
    <3> QED BY <1>7, <3>2 DEF HistoryTick
  <2>4. \A k \in Keys : Len(rows'[k]) <= MaxEvents BY <1>0, <2>2 DEF TInv, KeysOK
  <2>5. KeysOK' /\ OrderOK' BY <2>1, <2>3, <2>4 DEF TInv, KeysOK, OrderOK, historyLogs
  <2>6. ClockOK'
    <3>1. now' \in Times BY <1>0, <2>1 DEF Times
    <3>2. \A w \in Workers : task[w].at <= now + 1
      <4>1. \A w \in Workers : task[w].at \in Nat /\ task[w].at <= now BY <1>0, <1>2 DEF Times
      <4> QED BY <1>0, <4>1
    <3> QED BY <1>0, <2>1, <3>1, <3>2 DEF TInv, ClockOK
  <2>7. CapOK' BY <2>1 DEF TInv, CapOK, Pending, historyLogs
  <2> QED BY <2>5, <2>6, <2>7 DEF TInv
<1>8. ASSUME UNCHANGED historyVars PROVE TInv'
  <2>1. ClockOK' BY <1>8 DEF TInv, ClockOK, historyVars
  <2>2. KeysOK' BY <1>8 DEF TInv, KeysOK, historyVars, historyStore, historyLogs
  <2>3. OrderOK' BY <1>8 DEF TInv, OrderOK, historyVars, historyStore, historyLogs
  <2>4. CapOK' BY <1>8 DEF TInv, CapOK, Pending, historyVars, historyStore, historyLogs
  <2> QED BY <2>1, <2>2, <2>3, <2>4 DEF TInv
<1> QED BY <1>3, <1>4, <1>5, <1>6, <1>7, <1>8, StepCases

-----------------------------------------------------------------------------
(* The rows.                                                                 *)

RowsOK ==
  /\ backend = "redis" => \A k \in Keys : Sound(rows[k], logged[k], expires[k], now)
  /\ backend = "memory" => \A k \in Keys : Latest(rows[k], logged[k], evicted[k])

\* The invariant.
HInv == TInv /\ RowsOK

\* The times and the keys of a worker's event.
LEMMA TaskIs ==
  ASSUME HistoryAssumption, TInv, NEW w \in Workers
  PROVE  task[w].at \in Times /\ task[w].at \in Nat /\ task[w].at <= now /\ now \in Nat
         /\ task[w].keys \in SUBSET Keys
<1>1. task[w] \in Tasks /\ task[w].at <= now /\ now \in Times BY DEF TInv, ClockOK
<1>2. task[w].at \in Times /\ task[w].keys \in SUBSET Keys BY <1>1 DEF Tasks, Times
<1> QED BY <1>1, <1>2 DEF Times

\* An append to the dictionary keeps the last rows of each key.
LEMMA MemoryRows ==
  ASSUME HistoryAssumption, TInv, RowsOK, NEW w \in Workers, AppendMemory(w), backend' = backend
  PROVE  RowsOK'
<1>1. backend = "memory" BY DEF AppendMemory
<1>2. PICK new \in Seq(Keys) : Inserts(w, new) BY MemoryEffect
<1> SUFFICES ASSUME NEW k \in Keys PROVE Latest(rows'[k], logged'[k], evicted'[k])
  BY <1>1 DEF RowsOK
<1> DEFINE at   == task[w].at
           r    == rows[k]
           l    == logged[k]
           v    == evicted[k]
           log  == IF k \in task[w].keys THEN Append(l, at) ELSE l
           full == IF k \in task[w].keys THEN Newest(MaxEvents, Append(r, at)) ELSE r
<1>3. Latest(r, l, v) /\ at \in Times BY <1>1, TaskIs DEF RowsOK
<1>4. logged'[k] = log BY <1>2 DEF Inserts
<1>5. rows'[k] = IF k \in Dropped(new) THEN <<>> ELSE full BY <1>2 DEF Inserts
<1>6. evicted'[k] = IF k \in Dropped(new) THEN Len(logged'[k]) ELSE v BY <1>2 DEF Inserts
<1>7. Latest(full, log, v)
  <2>1. CASE k \in task[w].keys
    <3> HIDE DEF r, l, v, at
    <3>1. Latest(Newest(MaxEvents, Append(r, at)), Append(l, at), v) BY <1>3, AppendLatest
    <3> QED BY <2>1, <3>1
  <2>2. CASE k \notin task[w].keys BY <1>3, <2>2
  <2> QED BY <2>1, <2>2
<1>8. log \in Seq(Times) BY <1>7 DEF Latest
<1> HIDE DEF full, log
<1>9. CASE k \in Dropped(new)
  <2>1. Latest(<<>>, log, Len(log)) BY <1>8, GoneLatest
  <2> QED BY <1>4, <1>5, <1>6, <1>9, <2>1
<1>10. CASE k \notin Dropped(new) BY <1>4, <1>5, <1>6, <1>7, <1>10
<1> QED BY <1>9, <1>10

\* An append to Redis keeps the rows of its key, and leaves the others alone.
LEMMA RedisRows ==
  ASSUME HistoryAssumption, TInv, RowsOK, NEW w \in Workers, NEW k \in Keys, AppendRedis(w, k),
         backend' = backend
  PROVE  RowsOK'
<1>1. backend = "redis" /\ now' = now BY DEF AppendRedis
<1> SUFFICES ASSUME NEW h \in Keys PROVE Sound(rows'[h], logged'[h], expires'[h], now)
  BY <1>1 DEF RowsOK
<1>2. Sound(rows[h], logged[h], expires[h], now) BY <1>1 DEF RowsOK
<1>3. CASE /\ rows' = [rows EXCEPT ![k] = Recorded(rows[k], task[w].at)]
           /\ expires' = [expires EXCEPT ![k] = now + StoreWindow + Slack]
           /\ logged' = [logged EXCEPT ![k] = Ranked(logged[k], task[w].at)]
  <2>1. CASE h = k
    <3> DEFINE at == task[w].at
               r  == rows[k]
               l  == logged[k]
               e  == expires[k]
    <3>1. /\ rows'[k] = Recorded(r, at) /\ logged'[k] = Ranked(l, at)
          /\ expires'[k] = now + StoreWindow + Slack
      BY <1>3 DEF TInv, KeysOK
    <3>2. at \in Times /\ at <= now /\ now \in Nat /\ Sound(r, l, e, now)
      BY <1>2, <2>1, TaskIs
    <3> HIDE DEF at, r, l, e
    <3>3. Sound(Recorded(r, at), Ranked(l, at), now + StoreWindow + Slack, now)
      BY <3>2, RecordedSound
    <3> QED BY <2>1, <3>1, <3>3
  <2>2. CASE h # k
    <3>1. rows'[h] = rows[h] /\ logged'[h] = logged[h] /\ expires'[h] = expires[h]
      BY <1>3, <2>2 DEF TInv, KeysOK
    <3> QED BY <1>2, <3>1
  <2> QED BY <2>1, <2>2
<1>4. CASE UNCHANGED <<rows, expires, logged>> BY <1>2, <1>4
<1> QED BY <1>3, <1>4, RedisEffect

\* Time passes, and the keys whose life is over go.
LEMMA TickRows ==
  ASSUME HistoryAssumption, TInv, RowsOK, HistoryTick, backend' = backend
  PROVE  RowsOK'
<1>1. /\ now' = now + 1 /\ logged' = logged /\ expires' = expires /\ evicted' = evicted
      /\ \A k \in Keys : rows'[k] = IF backend = "redis" /\ expires[k] <= now + 1 THEN <<>>
                                    ELSE rows[k]
  BY DEF HistoryTick, historyLogs
<1>2. ASSUME NEW k \in Keys, backend = "redis"
      PROVE  Sound(rows'[k], logged[k], expires[k], now + 1)
  <2> DEFINE r == rows[k]
             l == logged[k]
             e == expires[k]
  <2>1. Sound(r, l, e, now) /\ e \in Nat /\ now \in Nat
    BY <1>2 DEF RowsOK, TInv, KeysOK, ClockOK, Times
  <2>2. rows'[k] = IF e <= now + 1 THEN <<>> ELSE r BY <1>1, <1>2
  <2> HIDE DEF r, l, e
  <2>3. CASE e <= now + 1
    <3>1. Sound(<<>>, l, e, now + 1) BY <2>1, <2>3, ExpiredSound
    <3> QED BY <2>2, <2>3, <3>1 DEF l, e
  <2>4. CASE ~(e <= now + 1)
    <3>1. Sound(r, l, e, now + 1) BY <2>1, LaterSound
    <3> QED BY <2>2, <2>4, <3>1 DEF l, e
  <2> QED BY <2>3, <2>4
<1>3. ASSUME NEW k \in Keys, backend = "memory"
      PROVE  Latest(rows'[k], logged[k], evicted[k])
  BY <1>1, <1>3 DEF RowsOK
<1> QED BY <1>1, <1>2, <1>3 DEF RowsOK

\* The invariant is inductive.
LEMMA HInvStep ==
  ASSUME HistoryAssumption, HInv, [HistoryNext]_historyVars
  PROVE  HInv'
<1>1. TInv /\ RowsOK /\ TInv' BY TypesStep DEF HInv
<1>2. backend' = backend BY StepCases
<1>3. ASSUME UNCHANGED <<now, historyStore, historyLogs>> PROVE RowsOK'
  BY <1>1, <1>2, <1>3 DEF RowsOK, historyStore, historyLogs
<1>4. ASSUME NEW w \in Workers, NEW keys \in SUBSET Keys, Start(w, keys) PROVE RowsOK'
  BY <1>3, <1>4 DEF Start
<1>5. ASSUME NEW w \in Workers, AppendNothing(w) PROVE RowsOK'
  BY <1>3, <1>5 DEF AppendNothing
<1>6. ASSUME NEW w \in Workers, AppendMemory(w) PROVE RowsOK'
  BY <1>1, <1>2, <1>6, MemoryRows
<1>7. ASSUME NEW w \in Workers, NEW k \in Keys, AppendRedis(w, k) PROVE RowsOK'
  BY <1>1, <1>2, <1>7, RedisRows
<1>8. ASSUME HistoryTick PROVE RowsOK'
  BY <1>1, <1>2, <1>8, TickRows
<1>9. ASSUME UNCHANGED historyVars PROVE RowsOK'
  BY <1>3, <1>9 DEF historyVars
<1>10. RowsOK' BY <1>4, <1>5, <1>6, <1>7, <1>8, <1>9, StepCases
<1> QED BY <1>1, <1>10 DEF HInv

\* It holds of no rows at time 0.
LEMMA HInvInit ==
  ASSUME HistoryAssumption, HistoryInit
  PROVE  HInv
<1>1. /\ HistoryEnds \in Nat /\ MaxEvents \in Nat \ {0} /\ HistoryMaxKeys \in Nat \ {0} /\ EventCap \in Nat
      /\ StoreWindow \in Nat /\ Slack \in Nat
  BY DEF HistoryAssumption
<1>2. <<>> \in Seq(Times) /\ <<>> \in Seq(Keys) /\ Len(<<>>) = 0 OBVIOUS
<1>3. ClockOK
  <2>1. Idle \in Tasks /\ Idle.at = 0 BY <1>1 DEF Idle, Tasks
  <2> QED BY <1>1, <2>1 DEF HistoryInit, StoresStart, ClockOK, Times
<1>4. KeysOK BY <1>1, <1>2 DEF HistoryInit, KeysOK
<1>5. OrderOK BY <1>1, <1>2 DEF HistoryInit, OrderOK, Queued
<1>6. CapOK
  <2> SUFFICES ASSUME NEW k \in Keys PROVE Len(logged[k]) + Cardinality(Pending(k)) <= EventCap
    BY DEF CapOK
  <2>1. logged[k] = <<>> BY DEF HistoryInit
  <2>2. Pending(k) = {} BY DEF HistoryInit, Pending, Idle
  <2> QED BY <1>1, <1>2, <2>1, <2>2, FS_EmptySet
<1>7. RowsOK
  <2> SUFFICES ASSUME NEW k \in Keys
               PROVE  Sound(rows[k], logged[k], expires[k], now) /\ Latest(rows[k], logged[k], evicted[k])
    BY DEF RowsOK
  <2>1. rows[k] = <<>> /\ logged[k] = <<>> /\ expires[k] = 0 /\ evicted[k] = 0 /\ now = 0
    BY DEF HistoryInit, StoresStart
  <2>2. Latest(<<>>, <<>>, 0) BY <1>1, <1>2 DEF Latest
  <2>3. \A X : Count(<<>>, X) = 0 BY CountEmpty
  <2>4. Sorted(<<>>) BY <1>2 DEF Sorted
  <2>5. Range(<<>>) = {} BY DEF Range
  <2>6. Sound(<<>>, <<>>, 0, 0) BY <1>2, <2>3, <2>4, <2>5 DEF Sound
  <2> QED BY <2>1, <2>2, <2>6
<1> QED BY <1>3, <1>4, <1>5, <1>6, <1>7 DEF HInv, TInv

\* It holds of every behaviour.
LEMMA Invariance == ASSUME HistoryAssumption PROVE HistorySpec => []HInv
<1>1. HistoryInit => HInv BY HInvInit
<1>2. HInv /\ [HistoryNext]_historyVars => HInv' BY HInvStep
<1> QED BY <1>1, <1>2, PTL DEF HistorySpec

-----------------------------------------------------------------------------
(* The theorems.                                                             *)

\* Every variable keeps its type: whatever the threads append, and whatever they drop, no
\* key holds more rows than the cap, and the dictionary no more keys than it may, each of
\* them once (history.py:60-95).
THEOREM TypesHold == ASSUME HistoryAssumption PROVE HistorySpec => []HistoryTypeOK
<1>1. ASSUME HInv PROVE HistoryTypeOK
  <2>1. TInv BY <1>1 DEF HInv
  <2>2. backend \in {"memory", "redis"} /\ now \in 0..HistoryEnds /\ task \in [Workers -> Tasks]
    BY <2>1 DEF TInv, ClockOK, Times
  <2>3. /\ \A k \in Keys : rows[k] \in Seq(0..HistoryEnds) /\ Len(rows[k]) <= MaxEvents
        /\ \A k \in Keys : logged[k] \in Seq(0..HistoryEnds)
        /\ expires \in [Keys -> Nat] /\ younger \in [Keys -> SUBSET Keys]
    BY <2>1 DEF TInv, KeysOK, Times
  <2>4. inserted \in Seq(Keys) /\ IsInjective(inserted) /\ Len(inserted) <= HistoryMaxKeys
    <3>1. /\ inserted \in Seq(Keys) /\ Len(inserted) <= HistoryMaxKeys
          /\ \A i, j \in 1..Len(inserted) : i < j => inserted[i] # inserted[j]
      BY <2>1 DEF TInv, OrderOK, Queued
    <3>2. \A i, j \in 1..Len(inserted) : inserted[i] = inserted[j] => i = j
      <4> SUFFICES ASSUME NEW i \in 1..Len(inserted), NEW j \in 1..Len(inserted), i # j
                   PROVE  inserted[i] # inserted[j]
        OBVIOUS
      <4>1. CASE i < j BY <3>1, <4>1
      <4>2. CASE ~(i < j)
        <5>1. j < i BY <3>1, <4>2
        <5> QED BY <3>1, <5>1
      <4> QED BY <4>1, <4>2
    <3>3. DOMAIN inserted = 1..Len(inserted) BY <3>1
    <3> QED BY <3>1, <3>2, <3>3 DEF IsInjective
  <2>5. evicted \in [Keys -> 0..EventCap]
    <3>1. \A k \in Keys : evicted[k] \in 0..EventCap
      <4> SUFFICES ASSUME NEW k \in Keys PROVE evicted[k] \in 0..EventCap OBVIOUS
      <4>1. evicted[k] \in Nat /\ evicted[k] <= Len(logged[k]) /\ Len(logged[k]) \in Nat
        BY <2>1 DEF TInv, KeysOK
      <4>2. Len(logged[k]) + Cardinality(Pending(k)) <= EventCap BY <2>1 DEF TInv, CapOK
      <4>3. Cardinality(Pending(k)) \in Nat
        <5>1. Pending(k) \in SUBSET Workers BY DEF Pending
        <5> QED BY <5>1, FS_Subset, FS_CardinalityType DEF HistoryAssumption
      <4> QED BY <4>1, <4>2, <4>3 DEF HistoryAssumption
    <3> QED BY <2>1, <3>1 DEF TInv, KeysOK
  <2> QED BY <2>2, <2>3, <2>4, <2>5 DEF HistoryTypeOK
<1> QED BY <1>1, Invariance, PTL

\* What one query finds, in any state of the invariant.
LEMMA QueryFinds ==
  ASSUME HistoryAssumption, HInv, NEW w \in Workers, NEW k \in Keys, NEW t \in Times,
         t + RuleWindow > task[w].at
  PROVE  Cardinality(Due(w, k, t)) <= Count(Found(rows[k], task[w].at), {t})
<1> DEFINE l == logged[k]
           r == rows[k]
           a == task[w].at
           D == Due(w, k, t)
           later(i) == {j \in DOMAIN l \ {i} : j > i \/ (backend = "redis" /\ l[j] = l[i])}
<1>1. /\ RuleLimit \in Nat /\ MaxEvents \in Nat /\ RuleWindow \in Nat /\ StoreWindow \in Nat
      /\ RuleWindow <= StoreWindow /\ Slack \in Nat /\ HistoryEnds \in Nat /\ t \in Nat
  BY DEF HistoryAssumption, Times
<1>2. a \in Nat /\ now \in Nat BY TaskIs DEF HInv
<1>3. l \in Seq(Times) /\ Len(l) \in Nat /\ DOMAIN l = 1..Len(l) BY DEF HInv, TInv, KeysOK
<1>4. \A i \in D : /\ i \in 1..Len(l) /\ l[i] = t /\ i > evicted[k]
                   /\ ~(Cardinality(later(i)) >= MaxEvents) /\ ~(Cardinality(later(i)) >= RuleLimit)
                   /\ ~Overtaken(w, k, t)
  BY <1>3 DEF Due, Crowded
<1>5. ASSUME NEW i \in 1..Len(l)
      PROVE  IsFiniteSet(later(i)) /\ Cardinality(later(i)) \in Nat
  <2>1. IsFiniteSet(1..Len(l)) BY <1>3, FS_Interval
  <2>2. later(i) \in SUBSET (1..Len(l)) BY <1>3
  <2> HIDE DEF later
  <2> QED BY <2>1, <2>2, FS_Subset, FS_CardinalityType
<1>6. CASE backend = "memory"
  <2>1. Latest(r, l, evicted[k]) BY <1>6 DEF HInv, RowsOK
  <2>2. ASSUME NEW i \in D PROVE Len(l) - i < MaxEvents /\ Len(l) - i < RuleLimit
    <3>0. i \in 1..Len(l) BY <1>4
    <3>1. i \in 1..Len(l) /\ i \in Nat /\ i <= Len(l)
      <4> HIDE DEF l, D
      <4> QED BY <1>3, <3>0
    <3>2. later(i) = (i + 1)..Len(l) BY <1>3, <1>6, <3>1
    <3>3. Cardinality(later(i)) = Len(l) - i
      <4>1. i + 1 \in Int /\ Len(l) \in Int BY <1>3, <3>1
      <4>2. Cardinality((i + 1)..Len(l)) = IF i + 1 > Len(l) THEN 0 ELSE Len(l) - (i + 1) + 1
        BY <4>1, FS_Interval
      <4>3. (IF i + 1 > Len(l) THEN 0 ELSE Len(l) - (i + 1) + 1) = Len(l) - i
        <5> DEFINE m == Len(l)
        <5>1. m \in Nat /\ i \in Nat /\ i <= m BY <1>3, <3>1
        <5> HIDE DEF m, D
        <5>2. CASE i + 1 > m
          <6>1. i = m BY <5>1, <5>2
          <6> QED BY <5>1, <5>2, <6>1 DEF m
        <5>3. CASE ~(i + 1 > m)
          <6>1. m - (i + 1) + 1 = m - i BY <5>1
          <6> QED BY <5>3, <6>1 DEF m
        <5> QED BY <5>2, <5>3
      <4> QED BY <3>2, <4>2, <4>3
    <3> DEFINE n == Cardinality(later(i))
    <3>4. ~(n >= MaxEvents) /\ ~(n >= RuleLimit) BY <1>4
    <3>5. n = Len(l) - i BY <3>3
    <3> HIDE DEF n
    <3> QED BY <1>1, <1>3, <3>1, <3>4, <3>5
  <2>3. D \in SUBSET (1..Len(l)) BY <1>4
  <2>4. \A i \in D : l[i] = t /\ i > evicted[k] BY <1>4
  <2> DEFINE v == evicted[k]
  <2>5. Latest(r, l, v) BY <2>1
  <2>6. \A i \in D : l[i] = t /\ i > v BY <2>4
  <2>7. t + RuleWindow > a OBVIOUS
  <2> HIDE DEF l, r, v, D, a
  <2>8. Cardinality(D) <= Count(Found(r, a), {t})
    BY <1>2, <2>2, <2>3, <2>5, <2>6, <2>7, FoundInMemory
  <2> QED BY <2>8 DEF D, r, a
<1>7. CASE backend = "redis" /\ D # {}
  <2> DEFINE X == t..HistoryEnds
             e == expires[k]
  <2>1. PICK i \in D : TRUE BY <1>7
  <2>2. Sound(r, l, e, now) /\ Sorted(l) BY <1>7 DEF HInv, RowsOK, Sound
  <2>3. i \in 1..Len(l) /\ l[i] = t /\ ~Overtaken(w, k, t) BY <1>4, <2>1
  <2>4. ~(Cardinality(later(i)) >= MaxEvents) /\ ~(Cardinality(later(i)) >= RuleLimit)
    BY <1>4, <2>1
  <2>5. Where(l, X) \subseteq later(i) \cup {i}
    <3> SUFFICES ASSUME NEW j \in 1..Len(l), l[j] \in X, j # i PROVE j \in later(i)
      BY DEF Where
    <3>1. CASE j > i BY <1>3, <3>1
    <3>2. CASE ~(j > i)
      <4>1. j < i BY <1>3, <2>3, <3>2
      <4>2. l[j] <= t BY <2>2, <2>3, <4>1 DEF Sorted
      <4>3. l[j] = t BY <1>1, <4>2
      <4> QED BY <1>3, <1>7, <2>3, <4>3
    <3> QED BY <3>1, <3>2
  <2>6. Count(l, X) <= Cardinality(later(i)) + 1 /\ Count(l, X) \in Nat /\ Cardinality(later(i)) \in Nat
    <3> DEFINE L == later(i)
               W == Where(l, X)
    <3>1. IsFiniteSet(L) /\ Cardinality(L) \in Nat BY <1>5, <2>3
    <3>2. W \subseteq L \cup {i} BY <2>5
    <3>3. Count(l, X) = Cardinality(W) /\ Count(l, X) \in Nat BY <1>3, CountType DEF Count
    <3> HIDE DEF L, W
    <3>4. /\ IsFiniteSet(L \cup {i})
          /\ Cardinality(L \cup {i}) = IF i \in L THEN Cardinality(L) ELSE Cardinality(L) + 1
      BY <3>1, FS_AddElement
    <3>5. Cardinality(W) <= Cardinality(L \cup {i}) BY <3>2, <3>4, FS_Subset
    <3> QED BY <3>1, <3>3, <3>4, <3>5 DEF L
  <2> DEFINE m == Cardinality(later(i))
             c == Count(l, X)
  <2>7. c <= MaxEvents /\ c <= RuleLimit
    <3>1. ~(m >= MaxEvents) /\ ~(m >= RuleLimit) /\ c <= m + 1 /\ c \in Nat /\ m \in Nat
      BY <2>4, <2>6
    <3> HIDE DEF m, c
    <3> QED BY <1>1, <3>1
  <2>8. ~LetGo(l, now, t)
    <3>1. ~(c > MaxEvents)
      <4>1. c \in Nat BY <2>6
      <4> HIDE DEF c
      <4> QED BY <1>1, <2>7, <4>1
    <3>2. ASSUME NEW u \in Range(l), t + StoreWindow <= u PROVE FALSE
      <4>1. u \in Times BY <1>3, <3>2 DEF Range
      <4>2. a < u BY <1>1, <1>2, <3>2, <4>1 DEF Times
      <4> QED BY <1>7, <2>3, <3>2, <4>2 DEF Overtaken
    <3>3. ASSUME t + StoreWindow + Slack <= now PROVE FALSE
      <4>1. a + Slack < now BY <1>1, <1>2, <3>3
      <4> QED BY <1>7, <2>3, <3>3, <4>1 DEF Overtaken
    <3> QED BY <3>1, <3>2, <3>3 DEF LetGo
  <2>9. D \in SUBSET Where(l, {t}) BY <1>4 DEF Where
  <2>10. Cardinality(D) <= Count(l, {t})
    <3>1. IsFiniteSet(Where(l, {t})) BY <1>3, CountType
    <3> HIDE DEF D
    <3> QED BY <2>9, <3>1, FS_Subset DEF Count
  <2>11. t + RuleWindow > a OBVIOUS
  <2>12. Count(l, X) <= RuleLimit BY <2>7
  <2> HIDE DEF l, r, a, D, e
  <2>13. Count(Found(r, a), {t}) = Count(l, {t})
    BY <1>2, <2>2, <2>8, <2>11, <2>12, FoundInRedis
  <2> QED BY <2>10, <2>13 DEF D, r, a
<1>8. CASE D = {}
  <2>1. Cardinality(D) = 0 BY <1>8, FS_EmptySet
  <2>2. Count(Found(r, a), {t}) \in Nat
    <3> DEFINE kept == Without(r, Before(a, RuleWindow))
    <3>1. r \in Seq(Times) BY DEF HInv, TInv, KeysOK
    <3>2. kept \in Seq(Times) BY <3>1, WithoutElements
    <3> HIDE DEF kept
    <3>3. Newest(RuleLimit, kept) \in Seq(Times) BY <1>1, <3>2, NewestIs
    <3> QED BY <3>3, CountType DEF Found, kept
  <2> QED BY <2>1, <2>2
<1>9. backend \in {"memory", "redis"} BY DEF HInv, TInv, ClockOK
<1> QED BY <1>6, <1>7, <1>8, <1>9

\* base.py:120-158.  Whatever order the threads append in, and however many there are, a
\* rule finds every row of its window, those of one instant each for itself, unless as many
\* rows as a query may return stand behind it, its key was evicted, or the rule's clock lags
\* behind the store's window.
THEOREM SeenUnlessCrowdedOutHolds ==
  ASSUME HistoryAssumption PROVE HistorySpec => []SeenUnlessCrowdedOut
<1>1. ASSUME HInv PROVE SeenUnlessCrowdedOut
  <2> SUFFICES ASSUME NEW w \in Workers, task[w].pc = "evaluate", NEW k \in task[w].keys,
                      NEW at \in 0..HistoryEnds, at + RuleWindow > task[w].at
               PROVE  Cardinality({i \in DOMAIN Answer(w, k) : Answer(w, k)[i] = at})
                        >= Cardinality(Due(w, k, at))
    BY DEF SeenUnlessCrowdedOut
  <2> DEFINE s == Found(rows[k], task[w].at)
  <2>1. k \in Keys BY <1>1, TaskIs DEF HInv
  <2>2. Cardinality(Due(w, k, at)) <= Count(s, {at}) BY <1>1, <2>1, QueryFinds DEF Times
  <2>3. s \in Seq(Times)
    <3> DEFINE r    == rows[k]
               kept == Without(r, Before(task[w].at, RuleWindow))
    <3>1. r \in Seq(Times) BY <1>1, <2>1 DEF HInv, TInv, KeysOK
    <3>2. kept \in Seq(Times)
      <4> HIDE DEF r
      <4> QED BY <3>1, WithoutElements
    <3> HIDE DEF kept
    <3>3. Newest(RuleLimit, kept) \in Seq(Times) BY <3>2, NewestIs DEF HistoryAssumption
    <3> QED BY <3>3 DEF Found, kept
  <2>4. Answer(w, k) = s BY DEF Answer, Found
  <2> DEFINE F == {i \in DOMAIN s : s[i] = at}
             n == Cardinality(Due(w, k, at))
  <2>5. F = Where(s, {at})
    <3> HIDE DEF s
    <3>1. DOMAIN s = 1..Len(s) BY <2>3
    <3> QED BY <3>1 DEF Where
  <2>6. Count(s, {at}) = Cardinality(F) BY <2>5 DEF Count
  <2>7. n \in Nat /\ Cardinality(F) \in Nat
    <3>1. Cardinality(F) \in Nat BY <2>3, <2>6, CountType
    <3>2. Len(logged[k]) \in Nat /\ DOMAIN logged[k] = 1..Len(logged[k])
      BY <1>1, <2>1 DEF HInv, TInv, KeysOK
    <3>3. IsFiniteSet(DOMAIN logged[k]) BY <3>2, FS_Interval
    <3>4. Due(w, k, at) \in SUBSET DOMAIN logged[k] BY DEF Due
    <3> QED BY <3>1, <3>3, <3>4, FS_Subset, FS_CardinalityType
  <2>8. Cardinality(F) >= n
    <3>1. n <= Cardinality(F) BY <2>2, <2>6
    <3> HIDE DEF n, F
    <3> QED BY <2>7, <3>1
  <2> QED BY <2>4, <2>8
<1> QED BY <1>1, Invariance, PTL

\* history.py:88-91.  A key is evicted only for keys inserted after it, HistoryMaxKeys of them,
\* however the threads insert.
THEOREM EvictsTheFirstInsertedHolds ==
  ASSUME HistoryAssumption PROVE HistorySpec => EvictsTheFirstInserted
<1>1. ASSUME HInv, [HistoryNext]_historyVars
      PROVE  [\A k \in Keys : evicted'[k] # evicted[k]
                                => Cardinality(younger'[k]) >= HistoryMaxKeys]_historyVars
  <2> SUFFICES ASSUME NEW k \in Keys, evicted'[k] # evicted[k]
               PROVE  Cardinality(younger'[k]) >= HistoryMaxKeys
    OBVIOUS
  <2>1. TInv /\ TInv' BY <1>1, TypesStep DEF HInv
  <2>2. ASSUME UNCHANGED historyVars PROVE FALSE BY <2>2 DEF historyVars, historyLogs
  <2>3. ASSUME UNCHANGED evicted PROVE FALSE BY <2>3
  <2>4. PICK w \in Workers : AppendMemory(w)
    BY <1>1, <2>2, <2>3, StepCases DEF Start, AppendNothing, AppendRedis, HistoryTick, historyLogs
  <2>5. PICK new \in Seq(Keys) :
          /\ Inserts(w, new)
          /\ \A i, j \in 1..Len(new) : i # j => new[i] # new[j]
          /\ \A i \in 1..Len(new) : new[i] \notin Range(inserted)
    BY <2>1, <2>4, MemoryEffect
  <2> DEFINE u == inserted \o new
  <2>6. Queued(u, younger') BY <2>1, <2>5, InsertedQueued
  <2>7. k \in Dropped(new) BY <2>5 DEF Inserts
  <2>8. k \in Range(u) \ Range(KeptKeys(u)) BY <2>7 DEF Dropped
  <2>9. younger' \in [Keys -> SUBSET Keys] BY <2>1 DEF TInv, KeysOK
  <2> HIDE DEF u
  <2> QED BY <2>6, <2>8, <2>9, DroppedBehind
<1> QED BY <1>1, Invariance, PTL DEF HistorySpec, EvictsTheFirstInserted
=============================================================================
