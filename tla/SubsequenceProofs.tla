-------------------------- MODULE SubsequenceProofs --------------------------
(***************************************************************************)
(* What Without returns, for every sequence and every set: by induction    *)
(* over its recursive function, in the form of a set of numbers that holds *)
(* zero and every successor.                                               *)
(***************************************************************************)
EXTENDS Subsequence, SequenceTheorems, WellFoundedInduction, TLAPS

-----------------------------------------------------------------------------
(* Induction over a set of numbers.                                          *)

\* A nonempty set of natural numbers has a least one.
LEMMA LeastNumber ==
  ASSUME NEW T \in SUBSET Nat, T # {}
  PROVE  \E m \in T : \A k \in T : m <= k
<1> DEFINE R == {ss \in Nat \X Nat : ss[1] < ss[2]}
<1>1. IsWellFoundedOn(R, Nat)
  BY NatLessThanWellFounded DEF OpToRel
<1>2. PICK m \in T : \A k \in T : <<k, m>> \notin R
  <2> HIDE DEF R
  <2> QED BY <1>1, WFMin
<1>3. ASSUME NEW k \in T PROVE m <= k
  <2>1. <<k, m>> \notin R BY <1>2
  <2> QED BY <2>1
<1> QED BY <1>3

\* A set of numbers with zero and the successor of each of them is all of Nat.
LEMMA SetInduction ==
  ASSUME NEW T \in SUBSET Nat, 0 \in T, \A n \in T : n + 1 \in T
  PROVE  T = Nat
<1> SUFFICES ASSUME T # Nat PROVE FALSE OBVIOUS
<1>1. PICK m \in Nat \ T : \A k \in Nat \ T : m <= k BY LeastNumber
<1>2. m # 0 /\ m - 1 \in Nat /\ ~(m <= m - 1) OBVIOUS
<1>3. m - 1 \in T BY <1>1, <1>2
<1>4. (m - 1) + 1 \in T BY <1>3
<1> QED BY <1>1, <1>4

-----------------------------------------------------------------------------
(* The recursive function behind Without.                                    *)

\* g is the function kept of Without(s, T), up to n.
Unrolled(g, s, T, n) ==
  g = [i \in 0..n |-> IF i = 0 THEN <<>>
                      ELSE IF s[i] \in T THEN g[i - 1] ELSE Append(g[i - 1], s[i])]

\* There is such a function, so the recursive definition of Without denotes one.
LEMMA UnrolledExists ==
  ASSUME NEW s, NEW T, NEW n \in Nat
  PROVE  \E g : Unrolled(g, s, T, n)
<1> DEFINE N == {k \in Nat : \E g : Unrolled(g, s, T, k)}
<1>1. 0 \in N
  <2>1. Unrolled([i \in 0..0 |-> <<>>], s, T, 0) BY DEF Unrolled
  <2> QED BY <2>1
<1>2. ASSUME NEW k \in N PROVE k + 1 \in N
  <2>1. PICK g : Unrolled(g, s, T, k) OBVIOUS
  <2> DEFINE h == [i \in 0..(k + 1) |-> IF i <= k THEN g[i]
                     ELSE IF s[i] \in T THEN g[k] ELSE Append(g[k], s[i])]
  <2>2. ASSUME NEW i \in 0..(k + 1)
        PROVE  h[i] = IF i = 0 THEN <<>>
                      ELSE IF s[i] \in T THEN h[i - 1] ELSE Append(h[i - 1], s[i])
    <3>1. CASE i <= k
      <4>1. i \in 0..k /\ (i # 0 => i - 1 \in 0..(k+1) /\ i - 1 <= k) BY <3>1
      <4>2. h[i] = g[i] /\ (i # 0 => h[i - 1] = g[i - 1]) BY <4>1
      <4>3. g[i] = IF i = 0 THEN <<>>
                   ELSE IF s[i] \in T THEN g[i - 1] ELSE Append(g[i - 1], s[i])
        BY <4>1, <2>1 DEF Unrolled
      <4> QED BY <4>2, <4>3
    <3>2. CASE ~(i <= k)
      <4>1. i = k + 1 /\ i # 0 /\ i - 1 = k /\ k \in 0..(k + 1) BY <3>2
      <4> QED BY <4>1
    <3> QED BY <3>1, <3>2
  <2>3. h = [i \in 0..(k + 1) |-> IF i = 0 THEN <<>>
                      ELSE IF s[i] \in T THEN h[i - 1] ELSE Append(h[i - 1], s[i])]
    <3> DEFINE b == [i \in 0..(k + 1) |-> IF i = 0 THEN <<>>
                      ELSE IF s[i] \in T THEN h[i - 1] ELSE Append(h[i - 1], s[i])]
    <3>1. \A i \in 0..(k + 1) : h[i] = b[i] BY <2>2
    <3>2. DOMAIN h = 0..(k + 1) /\ DOMAIN b = 0..(k + 1) /\ h = [i \in DOMAIN h |-> h[i]] /\ b = [i \in DOMAIN b |-> b[i]] OBVIOUS
    <3> HIDE DEF h, b
    <3>3. h = b BY <3>1, <3>2
    <3> QED BY <3>3 DEF b
  <2>4. Unrolled(h, s, T, k + 1) BY <2>3 DEF Unrolled
  <2> QED BY <2>4
<1>3. N = Nat
  <2> HIDE DEF N
  <2>1. N \in SUBSET Nat BY DEF N
  <2> QED BY <1>1, <1>2, <2>1, SetInduction
<1> QED BY <1>3

\* Without is the last value of its recursive function.
LEMMA WithoutIsLast ==
  ASSUME NEW s, NEW T, Len(s) \in Nat
  PROVE  \E g : Unrolled(g, s, T, Len(s)) /\ Without(s, T) = g[Len(s)]
<1> DEFINE f == CHOOSE g : Unrolled(g, s, T, Len(s))
<1>1. Unrolled(f, s, T, Len(s)) BY UnrolledExists
<1>2. Without(s, T) = f[Len(s)] BY DEF Without, Unrolled
<1> QED BY <1>1, <1>2

\* The recursion, read off one value at a time.
LEMMA UnrolledStep ==
  ASSUME NEW g, NEW s, NEW T, NEW n \in Nat, Unrolled(g, s, T, n)
  PROVE  /\ g[0] = <<>>
         /\ \A i \in 1..n : g[i] = IF s[i] \in T THEN g[i - 1] ELSE Append(g[i - 1], s[i])
<1>1. g[0] = <<>>
  <2>1. 0 \in 0..n OBVIOUS
  <2> QED BY <2>1 DEF Unrolled
<1>2. ASSUME NEW i \in 1..n
      PROVE  g[i] = IF s[i] \in T THEN g[i - 1] ELSE Append(g[i - 1], s[i])
  <2>1. i \in 0..n /\ i # 0 OBVIOUS
  <2> QED BY <2>1 DEF Unrolled
<1> QED BY <1>1, <1>2

\* Two sequences with the same first n elements have the same prefixes.
LEMMA UnrolledAgree ==
  ASSUME NEW g, NEW h, NEW s, NEW r, NEW T, NEW n \in Nat, NEW m \in Nat, n <= m,
         Unrolled(g, s, T, n), Unrolled(h, r, T, m), \A i \in 1..n : s[i] = r[i]
  PROVE  g[n] = h[n]
<1> DEFINE N == {k \in Nat : k <= n => g[k] = h[k]}
<1>1. 0 \in N BY UnrolledStep
<1>2. ASSUME NEW k \in N PROVE k + 1 \in N
  <2> SUFFICES ASSUME k + 1 <= n PROVE g[k + 1] = h[k + 1] OBVIOUS
  <2>1. k + 1 \in 1..n /\ k + 1 \in 1..m /\ (k + 1) - 1 = k OBVIOUS
  <2>2. g[k] = h[k] OBVIOUS
  <2>3. g[k + 1] = IF s[k + 1] \in T THEN g[k] ELSE Append(g[k], s[k + 1])
    BY <2>1, UnrolledStep
  <2>4. h[k + 1] = IF r[k + 1] \in T THEN h[k] ELSE Append(h[k], r[k + 1])
    BY <2>1, UnrolledStep
  <2> QED BY <2>1, <2>2, <2>3, <2>4
<1>3. N = Nat
  <2> HIDE DEF N
  <2>1. N \in SUBSET Nat BY DEF N
  <2> QED BY <1>1, <1>2, <2>1, SetInduction
<1> QED BY <1>3

-----------------------------------------------------------------------------
(* What Without keeps.                                                       *)

\* Taking T out of a longer sequence.
LEMMA WithoutAppend ==
  ASSUME NEW S, NEW s \in Seq(S), NEW x \in S, NEW T
  PROVE  Without(Append(s, x), T) = IF x \in T THEN Without(s, T)
                                    ELSE Append(Without(s, T), x)
<1> DEFINE r == Append(s, x)
           n == Len(s)
<1>1. n \in Nat /\ r \in Seq(S) /\ Len(r) = n + 1 /\ r[n + 1] = x
      /\ \A i \in 1..n : s[i] = r[i]
  OBVIOUS
<1>2. PICK g : Unrolled(g, s, T, n) /\ Without(s, T) = g[n] BY <1>1, WithoutIsLast
<1>3. PICK h : Unrolled(h, r, T, n + 1) /\ Without(r, T) = h[n + 1]
  <2>1. Len(r) \in Nat BY <1>1
  <2> HIDE DEF r
  <2>2. \E h : Unrolled(h, r, T, Len(r)) /\ Without(r, T) = h[Len(r)] BY <2>1, WithoutIsLast
  <2> QED BY <2>2, <1>1
<1> HIDE DEF r, n
<1>4. g[n] = h[n]
  <2>1. n + 1 \in Nat /\ n <= n + 1 BY <1>1
  <2> QED BY <2>1, <1>1, <1>2, <1>3, UnrolledAgree
<1>5. h[n + 1] = IF r[n + 1] \in T THEN h[n] ELSE Append(h[n], r[n + 1])
  <2>1. n + 1 \in 1..(n + 1) /\ (n + 1) - 1 = n /\ n + 1 \in Nat BY <1>1
  <2> QED BY <2>1, <1>3, UnrolledStep
<1>6. Without(r, T) = IF x \in T THEN Without(s, T) ELSE Append(Without(s, T), x)
  BY <1>1, <1>2, <1>3, <1>4, <1>5
<1> QED BY <1>6 DEF r

\* How the elements of w stand in s, of which T was taken out: e[j] is where the j-th is.
Places(e, w, s, T) ==
  /\ e \in [1..Len(w) -> 1..Len(s)]
  /\ \A i, j \in 1..Len(w) : i < j => e[i] < e[j]
  /\ \A j \in 1..Len(w) : w[j] = s[e[j]] /\ s[e[j]] \notin T
  /\ \A i \in 1..Len(s) : s[i] \notin T => \E j \in 1..Len(w) : e[j] = i

\* What is left of a sequence is in its order, and all that is not in T is left.
LEMMA WithoutPlaces ==
  ASSUME NEW S, NEW s \in Seq(S), NEW T
  PROVE  /\ Without(s, T) \in Seq(S)
         /\ \E e : Places(e, Without(s, T), s, T)
<1> DEFINE N == {k \in Nat : \A r \in Seq(S) : Len(r) = k =>
                   Without(r, T) \in Seq(S) /\ \E e : Places(e, Without(r, T), r, T)}
<1>1. 0 \in N
  <2> SUFFICES ASSUME NEW r \in Seq(S), Len(r) = 0
               PROVE  Without(r, T) \in Seq(S) /\ \E e : Places(e, Without(r, T), r, T)
    OBVIOUS
  <2>1. PICK g : Unrolled(g, r, T, 0) /\ Without(r, T) = g[0] BY WithoutIsLast
  <2>2. Without(r, T) = <<>> BY <2>1, UnrolledStep
  <2>3. Places([j \in {} |-> 0], <<>>, r, T) BY DEF Places
  <2> QED BY <2>2, <2>3
<1>2. ASSUME NEW k \in N PROVE k + 1 \in N
  <2> SUFFICES ASSUME NEW r \in Seq(S), Len(r) = k + 1
               PROVE  Without(r, T) \in Seq(S) /\ \E e : Places(e, Without(r, T), r, T)
    OBVIOUS
  <2> DEFINE q == SubSeq(r, 1, k)
             x == r[k + 1]
             v == Without(q, T)
             w == Without(r, T)
  <2>1. q \in Seq(S) /\ Len(q) = k /\ x \in S /\ r = Append(q, x)
        /\ \A i \in 1..k : q[i] = r[i]
    OBVIOUS
  <2>2. v \in Seq(S) /\ (\E e : Places(e, v, q, T)) /\ k \in Nat BY <2>1
  <2>3. PICK e : Places(e, v, q, T) BY <2>2
  <2>4. w = IF x \in T THEN v ELSE Append(v, x)
    <3> HIDE DEF q, x
    <3>1. Without(Append(q, x), T) = IF x \in T THEN Without(q, T) ELSE Append(Without(q, T), x)
      BY <2>1, WithoutAppend
    <3> QED BY <2>1, <3>1
  <2> HIDE DEF q, x, v, w, N
  <2>5. CASE x \in T
    <3>1. w = v BY <2>4, <2>5
    <3>2. e \in [1..Len(v) -> 1..Len(r)] BY <2>1, <2>2, <2>3 DEF Places
    <3>3. \A j \in 1..Len(v) : v[j] = r[e[j]] /\ r[e[j]] \notin T BY <2>1, <2>2, <2>3 DEF Places
    <3>4. ASSUME NEW i \in 1..Len(r), r[i] \notin T PROVE \E j \in 1..Len(v) : e[j] = i
      <4>1. i \in 1..Len(q) /\ q[i] \notin T BY <3>4, <2>1, <2>2, <2>5 DEF x
      <4> QED BY <4>1, <2>3 DEF Places
    <3>5. Places(e, v, r, T) BY <2>3, <3>2, <3>3, <3>4 DEF Places
    <3> QED BY <3>1, <3>5, <2>2 DEF w
  <2>6. CASE x \notin T
    <3>1. w = Append(v, x) BY <2>4, <2>6
    <3> DEFINE d == [j \in 1..(Len(v) + 1) |-> IF j <= Len(v) THEN e[j] ELSE k + 1]
    <3>2. Len(w) = Len(v) + 1 /\ w \in Seq(S) /\ Len(v) \in Nat /\ w[Len(v) + 1] = x
          /\ \A j \in 1..Len(v) : w[j] = v[j]
      BY <3>1, <2>1, <2>2
    <3>3. d \in [1..Len(w) -> 1..Len(r)] BY <3>2, <2>1, <2>3 DEF Places
    <3>4. ASSUME NEW i \in 1..Len(w), NEW j \in 1..Len(w), i < j PROVE d[i] < d[j]
      <4>1. i \in 1..Len(v) /\ d[i] = e[i] /\ e[i] \in 1..k
        <5>1. i \in 1..Len(v) /\ i <= Len(v) BY <3>4, <3>2
        <5>2. d[i] = e[i] BY <5>1, <3>2
        <5> QED BY <5>1, <5>2, <2>1, <2>3 DEF Places
      <4>2. CASE j \in 1..Len(v) BY <4>2, <4>1, <3>4, <3>2, <2>3 DEF Places
      <4>3. CASE j \notin 1..Len(v)
        <5>1. j = Len(v) + 1 /\ d[j] = k + 1 BY <4>3, <3>2
        <5> QED BY <5>1, <4>1, <2>2
      <4> QED BY <4>2, <4>3
    <3>5. ASSUME NEW j \in 1..Len(w) PROVE w[j] = r[d[j]] /\ r[d[j]] \notin T
      <4>1. CASE j \in 1..Len(v)
        <5>0. d[j] = e[j] BY <4>1, <3>2
        <5>1. d[j] = e[j] /\ e[j] \in 1..k BY <5>0, <4>1, <2>1, <2>3 DEF Places
        <5>2. w[j] = v[j] /\ v[j] = q[e[j]] /\ q[e[j]] \notin T BY <4>1, <3>2, <2>3 DEF Places
        <5> QED BY <5>1, <5>2, <2>1
      <4>2. CASE j \notin 1..Len(v)
        <5>1. j = Len(v) + 1 /\ d[j] = k + 1 BY <4>2, <3>2
        <5> QED BY <5>1, <3>2, <2>6 DEF x
      <4> QED BY <4>1, <4>2
    <3>6. ASSUME NEW i \in 1..Len(r), r[i] \notin T PROVE \E j \in 1..Len(w) : d[j] = i
      <4>1. CASE i = k + 1
        <5>1. d[Len(v) + 1] = i /\ Len(v) + 1 \in 1..Len(w) BY <4>1, <3>2
        <5> QED BY <5>1
      <4>2. CASE i # k + 1
        <5>1. i \in 1..Len(q) /\ q[i] \notin T BY <4>2, <3>6, <2>1
        <5>2. PICK j \in 1..Len(v) : e[j] = i BY <5>1, <2>3 DEF Places
        <5>3. d[j] = i /\ j \in 1..Len(w) BY <5>2, <3>2
        <5> QED BY <5>3
      <4> QED BY <4>1, <4>2
    <3> HIDE DEF d
    <3>7. Places(d, w, r, T) BY <3>3, <3>4, <3>5, <3>6 DEF Places
    <3> QED BY <3>7, <3>2 DEF w
  <2> QED BY <2>5, <2>6
<1>3. N = Nat
  <2> HIDE DEF N
  <2>1. N \in SUBSET Nat BY DEF N
  <2> QED BY <1>1, <1>2, <2>1, SetInduction
<1>4. Len(s) \in N BY <1>3
<1> QED BY <1>4

\* It is no longer than before.
LEMMA WithoutShorter ==
  ASSUME NEW S, NEW s \in Seq(S), NEW T
  PROVE  Len(Without(s, T)) <= Len(s)
<1> DEFINE w == Without(s, T)
           n == Len(w)
<1>1. PICK e : Places(e, w, s, T) BY WithoutPlaces
<1>2. w \in Seq(S) BY WithoutPlaces
<1> HIDE DEF w
<1>3. n \in Nat /\ Len(s) \in Nat BY <1>2
<1> HIDE DEF n
<1>4. /\ \A j \in 1..n : e[j] \in 1..Len(s)
      /\ \A i, j \in 1..n : i < j => e[i] < e[j]
  BY <1>1 DEF Places, n
<1> DEFINE N == {k \in Nat : k + 1 <= n => k + 1 <= e[k + 1]}
<1>5. 0 \in N
  <2>1. 1 <= n => e[1] \in 1..Len(s) BY <1>3, <1>4
  <2> QED BY <1>3, <2>1
<1>6. ASSUME NEW k \in N PROVE k + 1 \in N
  <2> SUFFICES ASSUME (k + 1) + 1 <= n PROVE (k + 1) + 1 <= e[(k + 1) + 1] OBVIOUS
  <2>1. k + 1 \in 1..n /\ (k + 1) + 1 \in 1..n /\ k + 1 < (k + 1) + 1 BY <1>3
  <2>2. e[k + 1] \in Nat /\ e[(k + 1) + 1] \in Nat /\ e[k + 1] < e[(k + 1) + 1]
    BY <1>3, <1>4, <2>1
  <2>3. k + 1 <= e[k + 1] BY <1>3, <2>1
  <2> QED BY <2>2, <2>3
<1>7. N = Nat
  <2> HIDE DEF N
  <2>1. N \in SUBSET Nat BY DEF N
  <2> QED BY <1>5, <1>6, <2>1, SetInduction
<1>8. CASE n = 0 BY <1>3, <1>8 DEF n, w
<1>9. CASE n # 0
  <2>0. n - 1 \in Nat /\ (n - 1) + 1 = n /\ n \in 1..n BY <1>3, <1>9
  <2>1. n - 1 \in N BY <1>7, <2>0
  <2>2. n <= e[n] BY <1>3, <2>0, <2>1
  <2>3. e[n] \in 1..Len(s) BY <1>4, <2>0
  <2> QED BY <1>3, <2>2, <2>3 DEF n, w
<1> QED BY <1>8, <1>9

\* Nothing is left of nothing.
LEMMA WithoutEmpty ==
  ASSUME NEW T
  PROVE  Without(<<>>, T) = <<>>
<1>1. PICK g : Unrolled(g, <<>>, T, 0) /\ Without(<<>>, T) = g[0] BY WithoutIsLast
<1> QED BY <1>1, UnrolledStep

\* Taking T out of a sequence, its head first.
LEMMA WithoutHead ==
  ASSUME NEW S, NEW s \in Seq(S), s # <<>>, NEW T
  PROVE  Without(s, T) = IF Head(s) \in T THEN Without(Tail(s), T)
                         ELSE <<Head(s)>> \o Without(Tail(s), T)
<1> DEFINE Whole(r) == Without(r, T) = IF Head(r) \in T THEN Without(Tail(r), T)
                                       ELSE <<Head(r)>> \o Without(Tail(r), T)
           N == {k \in Nat : \A r \in Seq(S) : Len(r) = k + 1 => Whole(r)}
<1>1. 0 \in N
  <2> SUFFICES ASSUME NEW r \in Seq(S), Len(r) = 0 + 1 PROVE Whole(r) OBVIOUS
  <2> DEFINE a == Head(r)
  <2>1. a \in S /\ Tail(r) = <<>> /\ r = <<a>>
    <3>0. Len(<<>>) = 0 OBVIOUS
    <3>1. r # <<>> /\ r[1] \in S
      <4>1. r # <<>> BY <3>0
      <4>2. 1 \in 1..Len(r) OBVIOUS
      <4>3. r[1] \in S BY <4>2, ElementOfSeq
      <4> QED BY <4>1, <4>3
    <3>2. Head(r) = r[1] BY <3>1
    <3>3. Tail(r) \in Seq(S) /\ Len(Tail(r)) = 0 BY <3>1
    <3>4. Tail(r) = <<>> BY <3>3, EmptySeq
    <3>5. r = <<r[1]>> BY <3>1
    <3> QED BY <3>1, <3>2, <3>4, <3>5
  <2> HIDE DEF a
  <2>2. <<a>> = Append(<<>>, a) /\ <<a>> \o <<>> = <<a>> /\ <<>> \in Seq(S) BY <2>1
  <2>3. Without(Append(<<>>, a), T) = IF a \in T THEN Without(<<>>, T)
                                      ELSE Append(Without(<<>>, T), a)
    <3> HIDE <2>2
    <3>1. <<>> \in Seq(S) BY <2>1
    <3> QED BY <2>1, <3>1, WithoutAppend, ZenonT(30)
  <2>4. Without(r, T) = IF a \in T THEN Without(Tail(r), T) ELSE <<a>> \o Without(Tail(r), T)
    BY <2>1, <2>2, <2>3, WithoutEmpty
  <2> QED BY <2>4 DEF a
<1>2. ASSUME NEW k \in N PROVE k + 1 \in N
  <2> SUFFICES ASSUME NEW r \in Seq(S), Len(r) = (k + 1) + 1 PROVE Whole(r) OBVIOUS
  <2>0. k \in Nat OBVIOUS
  <2> DEFINE q == SubSeq(r, 1, k + 1)
             x == r[k + 2]
  <2>1. /\ q \in Seq(S) /\ Len(q) = k + 1 /\ x \in S /\ r = Append(q, x)
        /\ Head(q) = Head(r) /\ Tail(q) \in Seq(S) /\ Tail(r) = Append(Tail(q), x)
    <3>1. q \in Seq(S) /\ Len(q) = k + 1 /\ x \in S /\ r = Append(q, x) BY <2>0
    <3>2. Head(q) = Head(r) /\ Tail(q) \in Seq(S) /\ Tail(r) = Append(Tail(q), x)
      <4> HIDE DEF q, x
      <4> QED BY <3>1, <2>0
    <3> QED BY <3>1, <3>2
  <2>2. Whole(q) BY <2>1
  <2> HIDE DEF q, x
  <2>3. Without(r, T) = IF x \in T THEN Without(q, T) ELSE Append(Without(q, T), x)
    BY <2>1, WithoutAppend
  <2>4. Without(Tail(r), T) = IF x \in T THEN Without(Tail(q), T)
                              ELSE Append(Without(Tail(q), T), x)
    <3> DEFINE t == Tail(q)
    <3>1. t \in Seq(S) /\ x \in S BY <2>1
    <3> HIDE DEF t
    <3>2. Without(Append(t, x), T) = IF x \in T THEN Without(t, T)
                                     ELSE Append(Without(t, T), x)
      BY <3>1, WithoutAppend
    <3> QED BY <2>1, <3>2 DEF t
  <2>5. Without(Tail(q), T) \in Seq(S) BY <2>1, WithoutPlaces
  <2>6. Append(<<Head(q)>> \o Without(Tail(q), T), x)
          = <<Head(q)>> \o Append(Without(Tail(q), T), x)
    <3> DEFINE u == Without(Tail(q), T)
    <3>1. u \in Seq(S) /\ x \in S /\ Head(q) \in S BY <2>0, <2>1, <2>5
    <3> HIDE DEF u
    <3>2. Append(<<Head(q)>> \o u, x) = <<Head(q)>> \o Append(u, x) BY <3>1
    <3> QED BY <3>2 DEF u
  <2> QED BY <2>1, <2>2, <2>3, <2>4, <2>6
<1>3. N = Nat
  <2> HIDE DEF N
  <2>1. N \in SUBSET Nat BY DEF N
  <2> QED BY <1>1, <1>2, <2>1, SetInduction
<1>4. Len(s) \in Nat /\ Len(s) # 0 /\ Len(s) - 1 \in Nat /\ (Len(s) - 1) + 1 = Len(s)
  OBVIOUS
<1>5. Len(s) - 1 \in N BY <1>3, <1>4
<1> QED BY <1>4, <1>5

\* A sequence without elements of T is left as it is.
LEMMA WithoutNone ==
  ASSUME NEW S, NEW s \in Seq(S), NEW T, \A i \in 1..Len(s) : s[i] \notin T
  PROVE  Without(s, T) = s
<1> DEFINE Free(r) == \A i \in 1..Len(r) : r[i] \notin T
           N == {k \in Nat : \A r \in Seq(S) : Len(r) = k /\ Free(r) => Without(r, T) = r}
<1>1. 0 \in N
  <2> SUFFICES ASSUME NEW r \in Seq(S), Len(r) = 0 PROVE Without(r, T) = r OBVIOUS
  <2>1. r = <<>> BY EmptySeq
  <2> QED BY <2>1, WithoutEmpty
<1>2. ASSUME NEW k \in N PROVE k + 1 \in N
  <2> SUFFICES ASSUME NEW r \in Seq(S), Len(r) = k + 1, Free(r) PROVE Without(r, T) = r OBVIOUS
  <2>0. k \in Nat OBVIOUS
  <2> DEFINE q == SubSeq(r, 1, k)
             x == r[k + 1]
  <2>1. q \in Seq(S) /\ Len(q) = k /\ x \in S /\ x \notin T /\ r = Append(q, x)
        /\ \A i \in 1..k : q[i] = r[i]
    BY <2>0
  <2>2. Free(q) BY <2>0, <2>1
  <2>3. Without(q, T) = q BY <2>1, <2>2
  <2> HIDE DEF q, x
  <2>4. Without(Append(q, x), T) = Append(q, x) BY <2>1, <2>3, WithoutAppend
  <2> QED BY <2>1, <2>4
<1>3. N = Nat
  <2> HIDE DEF N
  <2>1. N \in SUBSET Nat BY DEF N
  <2> QED BY <1>1, <1>2, <2>1, SetInduction
<1>4. Len(s) \in N BY <1>3
<1> QED BY <1>4

\* Where the elements of two sequences are in their concatenation.
LEMMA ConcatAt ==
  ASSUME NEW S, NEW s \in Seq(S), NEW t \in Seq(S)
  PROVE  /\ s \o t \in Seq(S) /\ Len(s \o t) = Len(s) + Len(t)
         /\ \A i \in 1..Len(s) : (s \o t)[i] = s[i]
         /\ \A i \in 1..Len(t) : (s \o t)[Len(s) + i] = t[i]
<1>1. Len(s) \in Nat /\ Len(t) \in Nat OBVIOUS
<1>2. /\ s \o t \in Seq(S) /\ Len(s \o t) = Len(s) + Len(t)
      /\ \A i \in 1..Len(s) + Len(t) : (s \o t)[i] = IF i <= Len(s) THEN s[i] ELSE t[i - Len(s)]
  BY ConcatProperties
<1>3. ASSUME NEW i \in 1..Len(s) PROVE (s \o t)[i] = s[i]
  <2>1. i \in 1..Len(s) + Len(t) /\ i <= Len(s) BY <1>1
  <2> QED BY <1>2, <2>1
<1>4. ASSUME NEW i \in 1..Len(t) PROVE (s \o t)[Len(s) + i] = t[i]
  <2>1. /\ Len(s) + i \in 1..Len(s) + Len(t) /\ ~(Len(s) + i <= Len(s))
        /\ (Len(s) + i) - Len(s) = i
    BY <1>1
  <2> QED BY <1>2, <2>1
<1> QED BY <1>2, <1>3, <1>4

\* Taking T out of one sequence after the other.
LEMMA WithoutConcat ==
  ASSUME NEW S, NEW s \in Seq(S), NEW t \in Seq(S), NEW T
  PROVE  Without(s \o t, T) = Without(s, T) \o Without(t, T)
<1> DEFINE Joins(r) == Without(s \o r, T) = Without(s, T) \o Without(r, T)
           N == {k \in Nat : \A r \in Seq(S) : Len(r) = k => Joins(r)}
<1>0. Without(s, T) \in Seq(S) BY WithoutPlaces
<1>1. 0 \in N
  <2> SUFFICES ASSUME NEW r \in Seq(S), Len(r) = 0 PROVE Joins(r) OBVIOUS
  <2>1. r = <<>> BY EmptySeq
  <2>2. s \o r = s /\ Without(s, T) \o <<>> = Without(s, T) BY <1>0, <2>1
  <2> QED BY <2>1, <2>2, WithoutEmpty
<1>2. ASSUME NEW k \in N PROVE k + 1 \in N
  <2> SUFFICES ASSUME NEW r \in Seq(S), Len(r) = k + 1 PROVE Joins(r) OBVIOUS
  <2>0. k \in Nat OBVIOUS
  <2> DEFINE q == SubSeq(r, 1, k)
             x == r[k + 1]
  <2>1. q \in Seq(S) /\ Len(q) = k /\ x \in S /\ r = Append(q, x) BY <2>0
  <2>2. Joins(q) BY <2>1
  <2> HIDE DEF q, x
  <2>3. s \o q \in Seq(S) /\ s \o r = Append(s \o q, x) BY <2>1
  <2>4. Without(r, T) = IF x \in T THEN Without(q, T) ELSE Append(Without(q, T), x)
    BY <2>1, WithoutAppend
  <2>5. Without(s \o r, T) = IF x \in T THEN Without(s \o q, T)
                             ELSE Append(Without(s \o q, T), x)
    <3> DEFINE u == s \o q
    <3>1. u \in Seq(S) /\ s \o r = Append(u, x) BY <2>3
    <3> HIDE DEF u
    <3>2. Without(Append(u, x), T) = IF x \in T THEN Without(u, T) ELSE Append(Without(u, T), x)
      BY <2>1, <3>1, WithoutAppend
    <3> QED BY <3>1, <3>2 DEF u
  <2>6. Without(q, T) \in Seq(S) BY <2>1, WithoutPlaces
  <2>7. Append(Without(s, T) \o Without(q, T), x) = Without(s, T) \o Append(Without(q, T), x)
    <3> DEFINE u == Without(s, T)
               v == Without(q, T)
               y == <<x>>
    <3>1. u \in Seq(S) /\ v \in Seq(S) /\ x \in S /\ y \in Seq(S) BY <1>0, <2>1, <2>6
    <3> HIDE DEF u, v
    <3>2. Append(v, x) = v \o y BY <3>1
    <3>3. Append(u \o v, x) = (u \o v) \o y BY <3>1
    <3> HIDE DEF y
    <3>4. (u \o v) \o y = u \o (v \o y) BY <3>1, ConcatAssociative, SMTT(60)
    <3> QED BY <3>2, <3>3, <3>4 DEF u, v
  <2> QED BY <2>2, <2>4, <2>5, <2>7
<1>3. N = Nat
  <2> HIDE DEF N
  <2>1. N \in SUBSET Nat BY DEF N
  <2> QED BY <1>1, <1>2, <2>1, SetInduction
<1>4. Len(t) \in N BY <1>3
<1> QED BY <1>4
=============================================================================
