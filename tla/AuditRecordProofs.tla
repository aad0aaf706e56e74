-------------------------- MODULE AuditRecordProofs --------------------------
(* No secret gets into a line of the log, and nothing else is lost on the    *)
(* way, whatever the names, limits, events, bodies and additions are.        *)
EXTENDS AuditRecord, SubsequenceProofs, TLAPS

-----------------------------------------------------------------------------
(* The levels of a tree.                                                     *)

Deeper(s) == UNION {Members(u) : u \in s}

\* g is the function behind Level(v), up to n.
Levelled(g, v, n) == g = [d \in 0..n |-> IF d = 0 THEN {v} ELSE Deeper(g[d - 1])]

LEMMA LevelledExists ==
  ASSUME NEW v, NEW n \in Nat
  PROVE  \E g : Levelled(g, v, n)
<1> DEFINE N == {k \in Nat : \E g : Levelled(g, v, k)}
<1>1. 0 \in N
  <2>1. Levelled([d \in 0..0 |-> {v}], v, 0) BY DEF Levelled
  <2> QED BY <2>1
<1>2. ASSUME NEW k \in N PROVE k + 1 \in N
  <2>1. PICK g : Levelled(g, v, k) OBVIOUS
  <2> DEFINE h == [d \in 0..(k + 1) |-> IF d <= k THEN g[d] ELSE Deeper(g[k])]
             b == [d \in 0..(k + 1) |-> IF d = 0 THEN {v} ELSE Deeper(h[d - 1])]
  <2>2. ASSUME NEW d \in 0..(k + 1) PROVE h[d] = b[d]
    <3>1. CASE d <= k
      <4>1. d \in 0..k /\ (d # 0 => d - 1 \in 0..(k + 1) /\ d - 1 <= k) BY <3>1
      <4>2. h[d] = g[d] /\ (d # 0 => h[d - 1] = g[d - 1]) BY <4>1
      <4>3. g[d] = IF d = 0 THEN {v} ELSE Deeper(g[d - 1]) BY <4>1, <2>1 DEF Levelled
      <4> QED BY <4>2, <4>3
    <3>2. CASE ~(d <= k)
      <4>1. d = k + 1 /\ d # 0 /\ d - 1 = k /\ k \in 0..(k + 1) BY <3>2
      <4> QED BY <4>1
    <3> QED BY <3>1, <3>2
  <2>3. h = b
    <3>1. DOMAIN h = 0..(k + 1) /\ DOMAIN b = 0..(k + 1)
          /\ h = [d \in DOMAIN h |-> h[d]] /\ b = [d \in DOMAIN b |-> b[d]]
      OBVIOUS
    <3>2. \A d \in 0..(k + 1) : h[d] = b[d] BY <2>2
    <3> HIDE DEF h, b
    <3> QED BY <3>1, <3>2
  <2>4. Levelled(h, v, k + 1) BY <2>3 DEF Levelled
  <2> QED BY <2>4
<1>3. N = Nat
  <2> HIDE DEF N
  <2>1. N \in SUBSET Nat BY DEF N
  <2> QED BY <1>1, <1>2, <2>1, SetInduction
<1> QED BY <1>3

\* A level holds the members of the one above it.
LEMMA LevelIs ==
  ASSUME NEW v
  PROVE  /\ Level(v)[0] = {v}
         /\ \A d \in 0..Height : d # Height => Level(v)[d + 1] = Deeper(Level(v)[d])
<1>0. Height \in Nat BY LimitsAssumption
<1> DEFINE f == CHOOSE g : Levelled(g, v, Height)
<1>1. Levelled(f, v, Height) BY <1>0, LevelledExists
<1>2. Level(v) = f BY DEF Level, Levelled, Deeper
<1>3. f[0] = {v}
  <2>1. 0 \in 0..Height BY <1>0
  <2> HIDE DEF f
  <2> QED BY <2>1, <1>1 DEF Levelled
<1>4. ASSUME NEW d \in 0..Height, d # Height PROVE f[d + 1] = Deeper(f[d])
  <2>1. d + 1 \in 0..Height /\ d + 1 # 0 /\ (d + 1) - 1 = d BY <1>0, <1>4
  <2> HIDE DEF f
  <2> QED BY <2>1, <1>1 DEF Levelled
<1> QED BY <1>2, <1>3, <1>4

\* The symbols of sources and those that the code brings in.
Symbols ==
  STRING \union {"REDACTED", "TRUNCATED", "_truncated", "event_type", "schema_version",
                 "request.body", "request.body.parse_status", "too_large", "invalid_json",
                 "unsupported_shape", "malformed"}

\* Nodes with members in S.
NodesOver(S) ==
  [kind : Kinds, text : Seq(Symbols), kids : Seq([key : Seq(Symbols), value : S])]

Below(L, d) == IF d = Height THEN {} ELSE L[d + 1]

\* The members of the nodes of a layer are in the layer below it; the last has none.
Within(L) == UNION {L[d] : d \in 0..Height}

Layered(L) == \A d \in 0..Height : L[d] \subseteq NodesOver(Below(L, d))

IsTree(v) == Layered(Level(v))

\* A node is determined by what its members are.
LEMMA NodeOver ==
  ASSUME NEW S, NEW T, NEW u \in NodesOver(T), \A i \in DOMAIN u.kids : u.kids[i].value \in S
  PROVE  u \in NodesOver(S)
<1> DEFINE n == Len(u.kids)
           E == [key : Seq(Symbols), value : S]
<1>1. u.kids \in Seq([key : Seq(Symbols), value : T]) BY DEF NodesOver
<1>2. n \in Nat /\ DOMAIN u.kids = 1..n /\ u.kids = [i \in 1..n |-> u.kids[i]] BY <1>1
<1>3. ASSUME NEW i \in 1..n PROVE u.kids[i] \in E
  <2>1. u.kids[i] \in [key : Seq(Symbols), value : T] BY <1>1, <1>2, ElementOfSeq
  <2>2. u.kids[i].value \in S BY <1>2
  <2>3. u.kids[i] = [key |-> u.kids[i].key, value |-> u.kids[i].value] BY <2>1
  <2> QED BY <2>1, <2>2, <2>3
<1>4. u.kids \in [1..n -> E] BY <1>2, <1>3
<1>5. u.kids \in Seq(E)
  <2> HIDE DEF E
  <2> QED BY <1>2, <1>4
<1> QED BY <1>5 DEF NodesOver

\* What is known of a node and its members.
LEMMA NodeIs ==
  ASSUME NEW S, NEW u \in NodesOver(S)
  PROVE  /\ u.kind \in Kinds /\ u.text \in Seq(Symbols) /\ Len(u.kids) \in Nat
         /\ DOMAIN u.kids = 1..Len(u.kids)
         /\ u = [kind |-> u.kind, text |-> u.text, kids |-> u.kids]
         /\ \A i \in DOMAIN u.kids : /\ u.kids[i].value \in S /\ u.kids[i].key \in Seq(Symbols)
                                     /\ u.kids[i] = Entry(u.kids[i].key, u.kids[i].value)
<1> DEFINE E == [key : Seq(Symbols), value : S]
<1>1. u.kids \in Seq(E) /\ u.kind \in Kinds /\ u.text \in Seq(Symbols)
      /\ u = [kind |-> u.kind, text |-> u.text, kids |-> u.kids]
  BY DEF NodesOver
<1>2. DOMAIN u.kids = 1..Len(u.kids) /\ Len(u.kids) \in Nat
  <2> HIDE DEF E
  <2> QED BY <1>1
<1>3. ASSUME NEW i \in DOMAIN u.kids
      PROVE  /\ u.kids[i].value \in S /\ u.kids[i].key \in Seq(Symbols)
             /\ u.kids[i] = Entry(u.kids[i].key, u.kids[i].value)
  <2>1. u.kids[i] \in E
    <3> HIDE DEF E
    <3> QED BY <1>1, <1>2, ElementOfSeq
  <2> QED BY <2>1 DEF Entry
<1> QED BY <1>1, <1>2, <1>3

\* The tree of a value of the first layer lies within the layers.
LEMMA LevelWithin ==
  ASSUME NEW L, Layered(L), NEW v \in L[0], NEW d \in 0..Height
  PROVE  Level(v)[d] \subseteq L[d]
<1>0. Height \in Nat BY LimitsAssumption
<1> DEFINE N == {k \in Nat : k <= Height => Level(v)[k] \subseteq L[k]}
<1>1. 0 \in N BY LevelIs
<1>2. ASSUME NEW k \in N PROVE k + 1 \in N
  <2> SUFFICES ASSUME k + 1 <= Height PROVE Level(v)[k + 1] \subseteq L[k + 1] OBVIOUS
  <2>1. k \in 0..Height /\ k # Height BY <1>0
  <2>2. Level(v)[k] \subseteq L[k] BY <2>1
  <2>3. L[k] \subseteq NodesOver(L[k + 1]) BY <2>1 DEF Layered, Below
  <2>4. \A u \in Level(v)[k] : Members(u) \subseteq L[k + 1] BY <2>2, <2>3, NodeIs DEF Members
  <2>5. Level(v)[k + 1] = Deeper(Level(v)[k]) BY <2>1, LevelIs
  <2> QED BY <2>4, <2>5 DEF Deeper
<1>3. N = Nat
  <2> HIDE DEF N
  <2>1. N \in SUBSET Nat BY DEF N
  <2> QED BY <1>1, <1>2, <2>1, SetInduction
<1>4. d \in Nat /\ d <= Height BY <1>0
<1> QED BY <1>3, <1>4

\* Such a value is a tree.
LEMMA TreeWithin ==
  ASSUME NEW L, Layered(L), NEW v \in L[0]
  PROVE  IsTree(v)
<1>0. Height \in Nat BY LimitsAssumption
<1>1. ASSUME NEW d \in 0..Height, NEW u \in Level(v)[d] PROVE u \in NodesOver(Below(Level(v), d))
  <2>1. u \in NodesOver(Below(L, d)) BY LevelWithin DEF Layered
  <2>2. ASSUME NEW i \in DOMAIN u.kids PROVE u.kids[i].value \in Below(Level(v), d)
    <3>1. u.kids[i].value \in Below(L, d) BY <2>1, NodeIs
    <3>2. d # Height BY <3>1 DEF Below
    <3>3. Level(v)[d + 1] = Deeper(Level(v)[d]) BY <3>2, LevelIs
    <3>4. u.kids[i].value \in Level(v)[d + 1] BY <3>3 DEF Deeper, Members
    <3> QED BY <3>2, <3>4 DEF Below
  <2> QED BY <2>1, <2>2, NodeOver
<1> QED BY <1>1 DEF IsTree, Layered

\* The layers from the d-th on.
Shift(L, d) == [k \in 0..Height |-> IF d + k <= Height THEN L[d + k] ELSE {}]

LEMMA ShiftLayered ==
  ASSUME NEW L, Layered(L), NEW d \in 0..Height
  PROVE  Layered(Shift(L, d)) /\ Shift(L, d)[0] = L[d]
<1>0. Height \in Nat /\ d \in Nat /\ d <= Height BY LimitsAssumption
<1>1. Shift(L, d)[0] = L[d]
  <2>1. 0 \in 0..Height /\ d + 0 = d BY <1>0
  <2> QED BY <1>0, <2>1 DEF Shift
<1>2. ASSUME NEW k \in 0..Height, NEW u \in Shift(L, d)[k]
      PROVE  u \in NodesOver(Below(Shift(L, d), k))
  <2>1. d + k <= Height /\ u \in L[d + k] BY DEF Shift
  <2>2. d + k \in 0..Height /\ k \in Nat BY <1>0, <2>1
  <2>3. u \in NodesOver(Below(L, d + k)) BY <2>1, <2>2 DEF Layered
  <2>4. ASSUME NEW i \in DOMAIN u.kids PROVE u.kids[i].value \in Below(Shift(L, d), k)
    <3>1. u.kids[i].value \in Below(L, d + k) BY <2>3, NodeIs
    <3>2. d + k # Height /\ u.kids[i].value \in L[d + k + 1] BY <3>1 DEF Below
    <3>3. k # Height /\ k + 1 \in 0..Height /\ d + (k + 1) <= Height /\ d + (k + 1) = d + k + 1
      BY <1>0, <2>1, <2>2, <3>2
    <3> QED BY <3>2, <3>3 DEF Below, Shift
  <2> QED BY <2>3, <2>4, NodeOver
<1> QED BY <1>1, <1>2 DEF Layered

\* Every node of a layer is a tree.
LEMMA LayerTrees ==
  ASSUME NEW L, Layered(L), NEW d \in 0..Height, NEW u \in L[d]
  PROVE  IsTree(u)
BY ShiftLayered, TreeWithin

\* The nodes of a tree are trees, and so are its members, which are nodes of it.
LEMMA NodeTrees ==
  ASSUME NEW v, IsTree(v)
  PROVE  /\ v \in Nodes(v)
         /\ \A u \in Nodes(v) : IsTree(u) /\ u \in NodesOver(Nodes(v))
<1>0. Height \in Nat /\ 0 \in 0..Height BY LimitsAssumption
<1>1. v \in Nodes(v) BY <1>0, LevelIs DEF Nodes
<1>2. ASSUME NEW u \in Nodes(v) PROVE IsTree(u) /\ u \in NodesOver(Nodes(v))
  <2>1. PICK d \in 0..Height : u \in Level(v)[d] BY DEF Nodes
  <2>2. IsTree(u) BY <2>1, LayerTrees DEF IsTree
  <2>3. u \in NodesOver(Below(Level(v), d)) BY <2>1 DEF IsTree, Layered
  <2>4. d # Height => d + 1 \in 0..Height BY <1>0
  <2>5. Below(Level(v), d) \subseteq Nodes(v) BY <2>4 DEF Below, Nodes
  <2>6. \A i \in DOMAIN u.kids : u.kids[i].value \in Nodes(v) BY <2>3, <2>5, NodeIs
  <2> QED BY <2>2, <2>3, <2>6, NodeOver
<1> QED BY <1>1, <1>2

\* The nodes of the first layer's values are in the layers.
LEMMA NodesWithin ==
  ASSUME NEW L, Layered(L), NEW v \in L[0], NEW u \in Nodes(v)
  PROVE  \E d \in 0..Height : u \in L[d]
BY LevelWithin DEF Nodes

-----------------------------------------------------------------------------
(* The recursion of Scrub.                                                   *)

Scrubs(g, N) == g = [u \in N |-> ScrubStep(u, g)]

\* A step depends on the members only.
LEMMA ScrubStepAgrees ==
  ASSUME NEW u, NEW g, NEW h, \A i \in DOMAIN u.kids : g[u.kids[i].value] = h[u.kids[i].value]
  PROVE  ScrubStep(u, g) = ScrubStep(u, h)
<1>1. [i \in DOMAIN u.kids |->
           IF u.kind = "map" /\ IsSensitiveKey(u.kids[i].key) THEN Redaction
           ELSE g[u.kids[i].value]]
      = [i \in DOMAIN u.kids |->
           IF u.kind = "map" /\ IsSensitiveKey(u.kids[i].key) THEN Redaction
           ELSE h[u.kids[i].value]]
  OBVIOUS
<1> QED BY <1>1 DEF ScrubStep

\* The nodes of the last k layers and the one before them.
Last(L, k) == UNION {L[d] : d \in (Height - k)..Height}

\* The members of those nodes are in the last k layers.
LEMMA LastBelow ==
  ASSUME NEW L, Layered(L), NEW k \in Nat, k + 1 <= Height,
         NEW u \in Last(L, k + 1), NEW i \in DOMAIN u.kids
  PROVE  u.kids[i].value \in Last(L, k)
<1>0. Height \in Nat BY LimitsAssumption
<1>1. PICK d \in (Height - (k + 1))..Height : u \in L[d] BY DEF Last
<1>2. d \in 0..Height BY <1>0
<1>3. u.kids[i].value \in Below(L, d) BY <1>1, <1>2, NodeIs DEF Layered
<1>4. d # Height /\ u.kids[i].value \in L[d + 1] BY <1>3 DEF Below
<1>5. d + 1 \in (Height - k)..Height BY <1>0, <1>4
<1> QED BY <1>4, <1>5 DEF Last

\* There is such a function on the nodes of layers.
LEMMA ScrubsExists ==
  ASSUME NEW L, Layered(L)
  PROVE  \E g : Scrubs(g, Within(L))
<1>0. Height \in Nat BY LimitsAssumption
<1> DEFINE N == {k \in Nat : k <= Height => \E g : Scrubs(g, Last(L, k))}
<1>1. 0 \in N
  <2> DEFINE g == [u \in Last(L, 0) |-> ScrubStep(u, <<>>)]
  <2>1. ASSUME NEW u \in Last(L, 0) PROVE ScrubStep(u, <<>>) = ScrubStep(u, g)
    <3>1. (Height - 0)..Height = {Height} /\ Height \in 0..Height BY <1>0
    <3>2. u \in L[Height] BY <3>1 DEF Last
    <3>3. u \in NodesOver({}) BY <3>1, <3>2 DEF Layered, Below
    <3>4. DOMAIN u.kids = {} BY <3>3, NodeIs
    <3> HIDE DEF g
    <3> QED BY <3>4, ScrubStepAgrees
  <2>2. g = [u \in Last(L, 0) |-> ScrubStep(u, g)] BY <2>1
  <2> HIDE DEF g
  <2>3. Scrubs(g, Last(L, 0)) BY <2>2 DEF Scrubs
  <2> QED BY <2>3
<1>2. ASSUME NEW k \in N PROVE k + 1 \in N
  <2> SUFFICES ASSUME k + 1 <= Height PROVE \E h : Scrubs(h, Last(L, k + 1)) OBVIOUS
  <2>1. PICK g : Scrubs(g, Last(L, k)) BY <1>0
  <2> DEFINE h == [u \in Last(L, k + 1) |-> ScrubStep(u, g)]
  <2>2. Last(L, k) \subseteq Last(L, k + 1)
    <3>1. (Height - k)..Height \subseteq (Height - (k + 1))..Height BY <1>0
    <3> QED BY <3>1 DEF Last
  <2>3. ASSUME NEW u \in Last(L, k) PROVE g[u] = h[u]
    BY <2>1, <2>2 DEF Scrubs
  <2>4. ASSUME NEW u \in Last(L, k + 1) PROVE ScrubStep(u, g) = ScrubStep(u, h)
    <3>1. \A i \in DOMAIN u.kids : u.kids[i].value \in Last(L, k) BY LastBelow
    <3> HIDE DEF h
    <3>2. \A i \in DOMAIN u.kids : g[u.kids[i].value] = h[u.kids[i].value] BY <3>1, <2>3
    <3> QED BY <3>2, ScrubStepAgrees
  <2>5. h = [u \in Last(L, k + 1) |-> ScrubStep(u, h)] BY <2>4
  <2> HIDE DEF h
  <2>6. Scrubs(h, Last(L, k + 1)) BY <2>5 DEF Scrubs
  <2> QED BY <2>6
<1>3. N = Nat
  <2> HIDE DEF N
  <2>1. N \in SUBSET Nat BY DEF N
  <2> QED BY <1>1, <1>2, <2>1, SetInduction
<1>4. Height \in N BY <1>0, <1>3
<1>5. \E g : Scrubs(g, Last(L, Height)) BY <1>0, <1>4
<1>6. Height - Height = 0 BY <1>0
<1> QED BY <1>5, <1>6 DEF Last, Within

\* Two of them agree where both are defined.
LEMMA ScrubsAgree ==
  ASSUME NEW L, NEW M, Layered(L), NEW g, NEW h,
         Scrubs(g, Within(L)), Scrubs(h, M),
         \A u \in M : \A i \in DOMAIN u.kids : u.kids[i].value \in M
  PROVE  \A d \in 0..Height : \A u \in L[d] \intersect M : g[u] = h[u]
<1>0. Height \in Nat BY LimitsAssumption
<1> DEFINE N == {k \in Nat : k <= Height => \A u \in L[Height - k] \intersect M : g[u] = h[u]}
<1>a. ASSUME NEW d \in 0..Height, NEW u \in L[d] \intersect M
      PROVE  g[u] = ScrubStep(u, g) /\ h[u] = ScrubStep(u, h)
  BY DEF Scrubs, Within
<1>1. 0 \in N
  <2> SUFFICES ASSUME NEW u \in L[Height] \intersect M PROVE g[u] = h[u] BY <1>0
  <2>1. Height \in 0..Height BY <1>0
  <2>2. u \in NodesOver({}) BY <2>1 DEF Layered, Below
  <2>3. DOMAIN u.kids = {} BY <2>2, NodeIs
  <2> QED BY <2>1, <2>3, <1>a, ScrubStepAgrees
<1>2. ASSUME NEW k \in N PROVE k + 1 \in N
  <2> SUFFICES ASSUME k + 1 <= Height, NEW u \in L[Height - (k + 1)] \intersect M
               PROVE  g[u] = h[u]
    OBVIOUS
  <2> DEFINE d == Height - (k + 1)
  <2>1. d \in 0..Height /\ d # Height /\ d + 1 = Height - k BY <1>0
  <2> HIDE DEF d
  <2>2. u \in L[d] BY DEF d
  <2>3. u \in NodesOver(L[d + 1]) BY <2>1, <2>2 DEF Layered, Below
  <2>4. \A i \in DOMAIN u.kids : u.kids[i].value \in L[Height - k] \intersect M
    BY <2>1, <2>3, NodeIs
  <2>5. \A w \in L[Height - k] \intersect M : g[w] = h[w] BY <1>0
  <2>6. \A i \in DOMAIN u.kids : g[u.kids[i].value] = h[u.kids[i].value] BY <2>4, <2>5
  <2> QED BY <2>1, <2>2, <2>6, <1>a, ScrubStepAgrees
<1>3. N = Nat
  <2> HIDE DEF N
  <2>1. N \in SUBSET Nat BY DEF N
  <2> QED BY <1>1, <1>2, <2>1, SetInduction
<1>4. ASSUME NEW d \in 0..Height, NEW u \in L[d] \intersect M PROVE g[u] = h[u]
  <2>1. Height - d \in N /\ Height - d <= Height /\ Height - (Height - d) = d BY <1>0, <1>3
  <2> QED BY <2>1
<1> QED BY <1>4

LEMMA ScrubBy ==
  ASSUME NEW w
  PROVE  Scrub(w) = (CHOOSE g : Scrubs(g, Nodes(w)))[w]
<1>1. Scrub(w) = (CHOOSE g : Scrubs(g, Nodes(w)))[w] BY DEF Scrub, Scrubs
<1> QED BY <1>1

\* Scrub scrubs a container's members.
LEMMA ScrubIs ==
  ASSUME NEW v, IsTree(v)
  PROVE  Scrub(v) = CASE v.kind = "set" -> Error
                      [] v.kind \in {"bytes", "loop"} -> Redaction
                      [] v.kind = "text" /\ IsSensitiveValue(v.text) -> Redaction
                      [] v.kind \in Containers ->
                           Rebuilt(v, [i \in DOMAIN v.kids |->
                             IF v.kind = "map" /\ IsSensitiveKey(v.kids[i].key) THEN Redaction
                             ELSE Scrub(v.kids[i].value)])
                      [] OTHER -> v
<1> DEFINE f(w) == CHOOSE g : Scrubs(g, Nodes(w))
<1>1. ASSUME NEW w, IsTree(w) PROVE Scrubs(f(w), Nodes(w)) /\ Scrub(w) = f(w)[w]
  <2>1. \E g : Scrubs(g, Nodes(w)) BY <1>1, ScrubsExists DEF IsTree, Nodes, Within
  <2>2. Scrubs(f(w), Nodes(w)) BY <2>1
  <2>3. Scrub(w) = f(w)[w] BY ScrubBy
  <2> QED BY <2>2, <2>3
<1>2. v \in Nodes(v) /\ v \in NodesOver(Nodes(v)) BY NodeTrees
<1> DEFINE g == f(v)
<1>3. Scrubs(g, Nodes(v)) /\ Scrub(v) = g[v] BY <1>1
<1> HIDE DEF g
<1>4. Scrub(v) = ScrubStep(v, g) BY <1>2, <1>3 DEF Scrubs
<1>5. ASSUME NEW i \in DOMAIN v.kids PROVE g[v.kids[i].value] = Scrub(v.kids[i].value)
  <2> DEFINE m == v.kids[i].value
             h == f(m)
  <2>1. m \in Nodes(v) /\ IsTree(m) BY <1>2, NodeIs, NodeTrees
  <2>2. Scrubs(h, Nodes(m)) /\ Scrub(m) = h[m] BY <1>1, <2>1
  <2> HIDE DEF m, h
  <2>3. m \in Nodes(m) /\ \A u \in Nodes(m) : u \in NodesOver(Nodes(m)) BY <2>1, NodeTrees
  <2>4. \A u \in Nodes(m) : \A j \in DOMAIN u.kids : u.kids[j].value \in Nodes(m)
    BY <2>3, NodeIs
  <2>5. PICK d \in 0..Height : m \in Level(v)[d] BY <2>1 DEF Nodes
  <2>6. g[m] = h[m]
    <3> DEFINE L == Level(v)
               M == Nodes(m)
    <3>1. Layered(L) BY DEF IsTree
    <3>2. Scrubs(g, Within(L)) BY <1>3 DEF Nodes, Within
    <3>3. Scrubs(h, M) /\ (\A u \in M : \A j \in DOMAIN u.kids : u.kids[j].value \in M)
          /\ m \in M /\ m \in L[d]
      BY <2>2, <2>3, <2>4, <2>5
    <3> HIDE DEF L, M
    <3>4. \A k \in 0..Height : \A u \in L[k] \intersect M : g[u] = h[u]
      BY <3>1, <3>2, <3>3, ScrubsAgree
    <3> QED BY <3>3, <3>4
  <2> QED BY <2>2, <2>6 DEF m
<1>6. [i \in DOMAIN v.kids |->
         IF v.kind = "map" /\ IsSensitiveKey(v.kids[i].key) THEN Redaction
         ELSE g[v.kids[i].value]]
      = [i \in DOMAIN v.kids |->
         IF v.kind = "map" /\ IsSensitiveKey(v.kids[i].key) THEN Redaction
         ELSE Scrub(v.kids[i].value)]
  BY <1>5
<1> QED BY <1>4, <1>6 DEF ScrubStep

-----------------------------------------------------------------------------
(* The recursion of Project.                                                 *)

\* g is the function behind Project on the nodes N, up to n levels left.
Projects(g, N, n) ==
  g = [left \in 0..n |-> [u \in N |-> ProjectStep(u, left, g[left - 1])]]

LEMMA ProjectsExists ==
  ASSUME NEW N, NEW n \in Nat
  PROVE  \E g : Projects(g, N, n)
<1> DEFINE Step(left, p) == [u \in N |-> ProjectStep(u, left, p)]
           K == {k \in Nat : \E g : g = [left \in 0..k |-> Step(left, g[left - 1])]}
<1>1. 0 \in K
  <2> DEFINE g == [left \in 0..0 |-> Step(0, <<>>)]
  <2>1. ASSUME NEW u \in N, NEW p PROVE ProjectStep(u, 0, p) = ProjectStep(u, 0, <<>>)
    BY DEF ProjectStep
  <2>2. \A p : Step(0, p) = Step(0, <<>>) BY <2>1
  <2> HIDE DEF Step
  <2>3. g = [left \in 0..0 |-> Step(left, g[left - 1])] BY <2>2
  <2> QED BY <2>3
<1>2. ASSUME NEW k \in K PROVE k + 1 \in K
  <2> HIDE DEF Step
  <2>1. PICK g : g = [left \in 0..k |-> Step(left, g[left - 1])] OBVIOUS
  <2> DEFINE h == [left \in 0..(k + 1) |-> IF left <= k THEN g[left] ELSE Step(left, g[k])]
             b == [left \in 0..(k + 1) |-> Step(left, h[left - 1])]
  <2>0. ASSUME NEW p, NEW q PROVE Step(0, p) = Step(0, q)
    BY DEF Step, ProjectStep
  <2>2. ASSUME NEW d \in 0..(k + 1) PROVE h[d] = b[d]
    <3>1. CASE d = 0
      <4>1. 0 \in 0..k /\ 0 <= k OBVIOUS
      <4>2. h[0] = g[0] /\ g[0] = Step(0, g[0 - 1]) BY <4>1, <2>1
      <4> HIDE DEF h
      <4> QED BY <4>2, <2>0, <3>1
    <3>2. CASE d # 0 /\ d <= k
      <4>1. d \in 0..k /\ d - 1 \in 0..(k + 1) /\ d - 1 <= k BY <3>2
      <4>2. h[d] = g[d] /\ h[d - 1] = g[d - 1] BY <4>1
      <4>3. g[d] = Step(d, g[d - 1]) BY <4>1, <2>1
      <4> HIDE DEF h
      <4> QED BY <4>2, <4>3
    <3>3. CASE ~(d <= k)
      <4>1. d = k + 1 /\ d # 0 /\ d - 1 = k /\ k \in 0..(k + 1) /\ k <= k BY <3>3
      <4>2. h[d] = Step(d, g[k]) /\ h[d - 1] = g[k] BY <4>1
      <4> HIDE DEF h
      <4> QED BY <4>2
    <3> QED BY <3>1, <3>2, <3>3
  <2>3. h = b
    <3>1. DOMAIN h = 0..(k + 1) /\ DOMAIN b = 0..(k + 1)
          /\ h = [d \in DOMAIN h |-> h[d]] /\ b = [d \in DOMAIN b |-> b[d]]
      OBVIOUS
    <3>2. \A d \in 0..(k + 1) : h[d] = b[d] BY <2>2
    <3> HIDE DEF h, b
    <3> QED BY <3>1, <3>2
  <2>4. \E f : f = [left \in 0..(k + 1) |-> Step(left, f[left - 1])]
    <3>1. h = [left \in 0..(k + 1) |-> Step(left, h[left - 1])] BY <2>3
    <3> HIDE DEF h
    <3> QED BY <3>1
  <2> QED BY <2>4
<1>3. K = Nat
  <2> HIDE DEF K
  <2>1. K \in SUBSET Nat BY DEF K
  <2> QED BY <1>1, <1>2, <2>1, SetInduction
<1>4. \E g : g = [left \in 0..n |-> Step(left, g[left - 1])] BY <1>3
<1> QED BY <1>4 DEF Projects

\* A step depends on the first members only.
LEMMA ProjectStepAgrees ==
  ASSUME NEW u, NEW left, NEW g, NEW h,
         left # 0 /\ u.kind \in Containers =>
           \A i \in First(MaxEntries, u) : g[u.kids[i].value] = h[u.kids[i].value]
  PROVE  ProjectStep(u, left, g) = ProjectStep(u, left, h)
<1>1. left # 0 /\ u.kind \in Containers =>
        [i \in First(MaxEntries, u) |-> g[u.kids[i].value]]
          = [i \in First(MaxEntries, u) |-> h[u.kids[i].value]]
  OBVIOUS
<1> QED BY <1>1 DEF ProjectStep

\* The first members are members.
LEMMA FirstIs ==
  ASSUME NEW S, NEW v \in NodesOver(S), NEW n \in Nat
  PROVE  /\ First(n, v) \subseteq DOMAIN v.kids
         /\ \E m \in Nat : First(n, v) = 1..m /\ m <= Len(v.kids) /\ m <= n
                           /\ (IF Len(v.kids) <= n THEN m = Len(v.kids) ELSE m = n)
<1>1. Len(v.kids) \in Nat /\ DOMAIN v.kids = 1..Len(v.kids) BY NodeIs
<1> DEFINE m == IF Len(v.kids) <= n THEN Len(v.kids) ELSE n
<1>2. m \in Nat /\ m <= Len(v.kids) /\ m <= n
      /\ (IF Len(v.kids) <= n THEN m = Len(v.kids) ELSE m = n)
  BY <1>1
<1>3. First(n, v) = 1..m BY DEF First
<1> QED BY <1>1, <1>2, <1>3

\* Two of them agree where both are defined.
LEMMA ProjectsAgree ==
  ASSUME NEW N, NEW M, NEW n \in Nat, NEW g, NEW h, Projects(g, N, n), Projects(h, M, n),
         \A u \in N : u \in NodesOver(N), \A u \in M : u \in NodesOver(M)
  PROVE  \A left \in 0..n : \A u \in N \intersect M : g[left][u] = h[left][u]
<1> DEFINE K == {k \in Nat : k <= n => \A u \in N \intersect M : g[k][u] = h[k][u]}
<1>a. ASSUME NEW k \in 0..n, NEW u \in N \intersect M
      PROVE  /\ g[k][u] = ProjectStep(u, k, g[k - 1])
             /\ h[k][u] = ProjectStep(u, k, h[k - 1])
  <2>1. g[k] = [w \in N |-> ProjectStep(w, k, g[k - 1])] BY DEF Projects
  <2>2. h[k] = [w \in M |-> ProjectStep(w, k, h[k - 1])] BY DEF Projects
  <2> QED BY <2>1, <2>2
<1>1. 0 \in K
  <2>1. ASSUME NEW u \in N \intersect M PROVE g[0][u] = h[0][u]
    <3>1. 0 \in 0..n OBVIOUS
    <3>2. ProjectStep(u, 0, g[0 - 1]) = ProjectStep(u, 0, h[0 - 1]) BY DEF ProjectStep
    <3> QED BY <3>1, <3>2, <1>a
  <2> QED BY <2>1
<1>2. ASSUME NEW k \in K PROVE k + 1 \in K
  <2> SUFFICES ASSUME k + 1 <= n, NEW u \in N \intersect M PROVE g[k + 1][u] = h[k + 1][u]
    OBVIOUS
  <2>1. k + 1 \in 0..n /\ (k + 1) - 1 = k /\ k <= n OBVIOUS
  <2>2. MaxEntries \in Nat BY LimitsAssumption
  <2>3. u \in NodesOver(N) /\ u \in NodesOver(M) OBVIOUS
  <2>4. \A i \in First(MaxEntries, u) : u.kids[i].value \in N \intersect M
    BY <2>2, <2>3, FirstIs, NodeIs
  <2>5. \A i \in First(MaxEntries, u) : g[k][u.kids[i].value] = h[k][u.kids[i].value]
    BY <2>1, <2>4
  <2>6. ProjectStep(u, k + 1, g[k]) = ProjectStep(u, k + 1, h[k]) BY <2>5, ProjectStepAgrees
  <2> QED BY <2>1, <2>6, <1>a
<1>3. K = Nat
  <2> HIDE DEF K
  <2>1. K \in SUBSET Nat BY DEF K
  <2> QED BY <1>1, <1>2, <2>1, SetInduction
<1> QED BY <1>3

LEMMA ProjectBy ==
  ASSUME NEW w, NEW depth
  PROVE  Project(w, depth) = (CHOOSE g : Projects(g, Nodes(w), MaxDepth))[MaxDepth - depth][w]
BY DEF Project, Projects

\* Project projects the first members of a container, one level deeper.
LEMMA ProjectIs ==
  ASSUME NEW v, IsTree(v), NEW depth \in 0..MaxDepth
  PROVE  Project(v, depth) =
           CASE depth = MaxDepth -> Truncation
             [] depth # MaxDepth /\ v.kind = "atom" -> v
             [] depth # MaxDepth /\ v.kind \in {"text", "enum"} -> Text(Limited(v.text))
             [] depth # MaxDepth /\ v.kind = "object" -> Text(v.text)
             [] depth # MaxDepth /\ v.kind = "bytes" -> BytesProjection(v)
             [] depth # MaxDepth /\ v.kind \in Containers ->
                  Shortened(v, [i \in First(MaxEntries, v) |->
                                  Project(v.kids[i].value, depth + 1)])
             [] OTHER -> Error
<1>0. MaxDepth \in Nat /\ MaxEntries \in Nat BY LimitsAssumption
<1> DEFINE f(w) == CHOOSE g : Projects(g, Nodes(w), MaxDepth)
           left == MaxDepth - depth
<1>1. ASSUME NEW w, NEW d
      PROVE  Projects(f(w), Nodes(w), MaxDepth) /\ Project(w, d) = f(w)[MaxDepth - d][w]
  BY <1>0, ProjectsExists, ProjectBy
<1>2. v \in Nodes(v) /\ v \in NodesOver(Nodes(v)) /\ \A u \in Nodes(v) : u \in NodesOver(Nodes(v))
  BY NodeTrees
<1> DEFINE g == f(v)
<1>3. Projects(g, Nodes(v), MaxDepth) /\ Project(v, depth) = g[left][v] BY <1>1
<1> HIDE DEF g
<1>4. left \in 0..MaxDepth /\ (left = 0 <=> depth = MaxDepth) BY <1>0
<1>5. Project(v, depth) = ProjectStep(v, left, g[left - 1])
  <2>1. g[left] = [w \in Nodes(v) |-> ProjectStep(w, left, g[left - 1])]
    <3> HIDE DEF left
    <3> QED BY <1>3, <1>4 DEF Projects
  <2> HIDE DEF left
  <2> QED BY <1>2, <1>3, <2>1
<1>6. ASSUME depth # MaxDepth, NEW i \in First(MaxEntries, v)
      PROVE  g[left - 1][v.kids[i].value] = Project(v.kids[i].value, depth + 1)
  <2> DEFINE m == v.kids[i].value
             h == f(m)
  <2>1. i \in DOMAIN v.kids BY <1>0, <1>2, FirstIs
  <2>2. m \in Nodes(v) BY <1>2, <2>1, NodeIs
  <2>3. IsTree(m) BY <2>2, NodeTrees
  <2>4. Projects(h, Nodes(m), MaxDepth) /\ Project(m, depth + 1) = h[MaxDepth - (depth + 1)][m]
    BY <1>1
  <2>5. MaxDepth - (depth + 1) = left - 1 /\ left - 1 \in 0..MaxDepth BY <1>0, <1>4, <1>6
  <2> HIDE DEF m, h, left
  <2>6. m \in Nodes(m) /\ \A u \in Nodes(m) : u \in NodesOver(Nodes(m)) BY <2>3, NodeTrees
  <2>7. \A l \in 0..MaxDepth : \A u \in Nodes(v) \intersect Nodes(m) : g[l][u] = h[l][u]
    BY <1>0, <1>2, <1>3, <2>4, <2>6, ProjectsAgree
  <2>8. g[left - 1][m] = h[left - 1][m] BY <2>2, <2>5, <2>6, <2>7
  <2> QED BY <2>4, <2>5, <2>8 DEF m
<1>7. depth # MaxDepth =>
        [i \in First(MaxEntries, v) |-> g[left - 1][v.kids[i].value]]
          = [i \in First(MaxEntries, v) |-> Project(v.kids[i].value, depth + 1)]
  BY <1>6
<1> HIDE DEF left
<1> QED BY <1>4, <1>5, <1>7 DEF ProjectStep

-----------------------------------------------------------------------------
(* What a container becomes.                                                 *)

\* A node, whatever its members are.
Shaped(u) ==
  /\ u.kind \in Kinds /\ u.text \in Seq(Symbols) /\ Len(u.kids) \in Nat
  /\ DOMAIN u.kids = 1..Len(u.kids)
  /\ u = [kind |-> u.kind, text |-> u.text, kids |-> u.kids]
  /\ \A i \in DOMAIN u.kids : u.kids[i].key \in Seq(Symbols)

LEMMA ShapedNode ==
  ASSUME NEW S, NEW u \in NodesOver(S)
  PROVE  Shaped(u)
BY NodeIs DEF Shaped

\* A function on the first m numbers.
Listing(f, m) == f = [i \in 1..m |-> f[i]]

\* r is v with these first members.
Holds(r, v, m, members) ==
  /\ r.kind = v.kind /\ r.text = v.text
  /\ r = [kind |-> r.kind, text |-> r.text, kids |-> r.kids]
  /\ \A i \in 1..m : members[i] # Error /\ r.kids[i] = Entry(v.kids[i].key, members[i])

\* A container with other members, none of which is an error.
LEMMA RebuiltKids ==
  ASSUME NEW v, Shaped(v), NEW m \in Nat, m <= Len(v.kids),
         NEW members, DOMAIN members = 1..m, NEW r, r = Rebuilt(v, members), r # Error
  PROVE  Holds(r, v, m, members) /\ Listing(r.kids, m) /\ Len(r.kids) = m
<1>1. /\ \A i \in 1..m : members[i] # Error
      /\ r = [v EXCEPT !.kids = [i \in DOMAIN members |-> Entry(v.kids[i].key, members[i])]]
  BY DEF Rebuilt
<1> DEFINE kids == [i \in 1..m |-> Entry(v.kids[i].key, members[i])]
<1>3. Len(kids) = m
  <2> DEFINE E == {kids[i] : i \in 1..m}
  <2>1. kids = [i \in 1..m |-> kids[i]] /\ \A i \in 1..m : kids[i] \in E OBVIOUS
  <2> HIDE DEF kids, E
  <2>2. kids \in [1..m -> E] BY <2>1
  <2> QED BY <2>2
<1>4. r = [v EXCEPT !.kids = kids] BY <1>1
<1>5. v = [kind |-> v.kind, text |-> v.text, kids |-> v.kids] BY DEF Shaped
<1> HIDE DEF kids
<1>6. r = [kind |-> v.kind, text |-> v.text, kids |-> kids] BY <1>4, <1>5
<1>7. \A i \in 1..m : kids[i] = Entry(v.kids[i].key, members[i]) BY DEF kids
<1>8. r.kids = kids /\ r.kind = v.kind /\ r.text = v.text /\ DOMAIN r = {"kind", "text", "kids"}
  BY <1>6
<1>9. r = [kind |-> r.kind, text |-> r.text, kids |-> r.kids] BY <1>6, <1>8
<1>10. Holds(r, v, m, members) BY <1>1, <1>7, <1>8, <1>9 DEF Holds
<1>11. Listing(kids, m) BY DEF Listing, kids
<1> QED BY <1>3, <1>8, <1>10, <1>11

\* A record with these fields is a node over the set of its members.
LEMMA IsNode ==
  ASSUME NEW T, NEW r, NEW n \in Nat, r.kind \in Kinds, r.text \in Seq(Symbols),
         r = [kind |-> r.kind, text |-> r.text, kids |-> r.kids],
         Listing(r.kids, n),
         \A i \in 1..n : \E key \in Seq(Symbols), v \in T : r.kids[i] = Entry(key, v)
  PROVE  r \in NodesOver(T) /\ Len(r.kids) = n
<1> DEFINE E == [key : Seq(Symbols), value : T]
           kids == r.kids
<1>1. ASSUME NEW i \in 1..n PROVE kids[i] \in E
  <2>1. PICK key \in Seq(Symbols), v \in T : kids[i] = Entry(key, v) OBVIOUS
  <2>2. Entry(key, v) \in E BY DEF Entry
  <2> HIDE DEF kids, E
  <2> QED BY <2>1, <2>2
<1>2. kids = [i \in 1..n |-> kids[i]] BY DEF Listing
<1> HIDE DEF E, kids
<1>a. kids \in [1..n -> E] BY <1>1, <1>2
<1>3. kids \in Seq(E) /\ Len(kids) = n BY <1>a
<1>4. r = [kind |-> r.kind, text |-> r.text, kids |-> kids] BY DEF kids
<1>5. r \in [kind : Kinds, text : Seq(Symbols), kids : Seq(E)] BY <1>3, <1>4
<1> QED BY <1>3, <1>5 DEF E, NodesOver, kids

LEMMA RebuiltIn ==
  ASSUME NEW T, NEW v, Shaped(v), NEW m \in Nat, m <= Len(v.kids),
         NEW members, DOMAIN members = 1..m, \A i \in 1..m : members[i] # Error => members[i] \in T,
         Rebuilt(v, members) # Error
  PROVE  Rebuilt(v, members) \in NodesOver(T)
<1> DEFINE r == Rebuilt(v, members)
<1>1. Holds(r, v, m, members) /\ Listing(r.kids, m)
  <2> HIDE DEF r
  <2>1. r = Rebuilt(v, members) /\ r # Error BY DEF r
  <2> QED BY <2>1, RebuiltKids
<1> HIDE DEF r
<1>2. r.kind \in Kinds /\ r.text \in Seq(Symbols)
      /\ r = [kind |-> r.kind, text |-> r.text, kids |-> r.kids]
  BY <1>1 DEF Shaped, Holds
<1>3. ASSUME NEW i \in 1..m
      PROVE  \E key \in Seq(Symbols), w \in T : r.kids[i] = Entry(key, w)
  <2>1. i \in DOMAIN v.kids BY DEF Shaped
  <2>2. v.kids[i].key \in Seq(Symbols) BY <2>1 DEF Shaped
  <2>3. members[i] \in T /\ r.kids[i] = Entry(v.kids[i].key, members[i]) BY <1>1 DEF Holds
  <2> QED BY <2>2, <2>3
<1>4. r \in NodesOver(T) BY <1>1, <1>2, <1>3, IsNode
<1> QED BY <1>4 DEF r

\* The entry that says so when some were left out.
Mark(v) == Entry(IF v.kind = "map" THEN TruncatedKey ELSE <<>>, Truncation)

\* A container with its first members projected, and a mark if it had more.
LEMMA ShortenedKids ==
  ASSUME NEW v, Shaped(v), NEW m \in Nat, m <= Len(v.kids),
         NEW members, Listing(members, m),
         NEW r, r = Shortened(v, members), r # Error
  PROVE  /\ Holds(r, v, m, members)
         /\ m = Len(v.kids) => Listing(r.kids, m) /\ Len(r.kids) = m
         /\ m # Len(v.kids) =>
              /\ Listing(r.kids, m + 1) /\ Len(r.kids) = m + 1
              /\ r.kids[m + 1] = Mark(v)
<1> DEFINE kept == Rebuilt(v, members)
           mark == Mark(v)
<1>1. kept # Error BY DEF Shortened
<1>2. Len(members) = m /\ DOMAIN members = 1..m
  <2>a. members = [i \in 1..m |-> members[i]] BY DEF Listing
  <2> DEFINE E == {members[i] : i \in 1..m}
  <2>1. \A i \in 1..m : members[i] \in E OBVIOUS
  <2> HIDE DEF E
  <2>2. members \in [1..m -> E] BY <2>1, <2>a
  <2> QED BY <2>2
<1>a. Shortened(v, members)
        = IF kept = Error \/ Len(v.kids) = Len(members) THEN kept
          ELSE [kept EXCEPT !.kids = Append(@, mark)]
  BY DEF Shortened, Mark
<1> HIDE DEF mark
<1>3. Holds(kept, v, m, members) /\ Listing(kept.kids, m) /\ Len(kept.kids) = m
  <2> HIDE DEF kept
  <2>1. kept = Rebuilt(v, members) BY DEF kept
  <2> QED BY <1>1, <1>2, <2>1, RebuiltKids
<1> HIDE DEF kept
<1>4. CASE m = Len(v.kids)
  <2>1. r = kept BY <1>1, <1>2, <1>4, <1>a
  <2> QED BY <1>3, <1>4, <2>1
<1>5. CASE m # Len(v.kids)
  <2>1. r = [kept EXCEPT !.kids = Append(@, mark)] BY <1>1, <1>2, <1>5, <1>a
  <2> DEFINE first == kept.kids
             kids == Append(first, mark)
  <2>2. r = [kind |-> kept.kind, text |-> kept.text, kids |-> kids]
    BY <1>3, <2>1 DEF Holds
  <2>3. /\ kids = [i \in 1..(m + 1) |-> kids[i]] /\ kids[m + 1] = mark /\ Len(kids) = m + 1
        /\ \A i \in 1..m : kids[i] = first[i]
    <3> DEFINE E == {first[i] : i \in 1..m} \union {mark}
    <3>a. first = [i \in 1..m |-> first[i]] BY <1>3 DEF Listing
    <3> HIDE DEF first
    <3>1. (\A i \in 1..m : first[i] \in E) /\ mark \in E OBVIOUS
    <3> HIDE DEF E
    <3>b. first \in [1..m -> E] BY <3>a, <3>1
    <3>2. first \in Seq(E) /\ Len(first) = m BY <3>b
    <3>3. kids \in Seq(E) /\ Len(kids) = m + 1 /\ kids[m + 1] = mark
          /\ \A i \in 1..m : kids[i] = first[i]
      BY <3>1, <3>2
    <3> HIDE DEF kids
    <3> QED BY <3>3
  <2> HIDE DEF kids
  <2>4. r.kids = kids /\ r.kind = kept.kind /\ r.text = kept.text BY <2>2
  <2>5. \A i \in 1..m : members[i] # Error /\ r.kids[i] = Entry(v.kids[i].key, members[i])
    BY <1>3, <2>3, <2>4 DEF Holds
  <2>6. r = [kind |-> r.kind, text |-> r.text, kids |-> r.kids] BY <2>2, <2>4
  <2>7. Listing(r.kids, m + 1) BY <2>3, <2>4 DEF Listing
  <2>8. r.kids[m + 1] = mark BY <2>3, <2>4
  <2>9. r.kind = v.kind /\ r.text = v.text BY <1>3, <2>4 DEF Holds
  <2>10. Holds(r, v, m, members) BY <2>5, <2>6, <2>9 DEF Holds
  <2>11. Len(r.kids) = m + 1 BY <2>3, <2>4
  <2> QED BY <1>5, <2>7, <2>8, <2>10, <2>11 DEF mark
<1> QED BY <1>4, <1>5

\* The key of that mark.
LEMMA MarkKey ==
  ASSUME NEW v
  PROVE  Mark(v).key \in Seq(Symbols) /\ Mark(v).value = Truncation
         /\ Mark(v) = Entry(Mark(v).key, Truncation)
<1> DEFINE key == IF v.kind = "map" THEN TruncatedKey ELSE <<>>
<1>1. <<>> \in Seq(Symbols) OBVIOUS
<1>2. "_truncated" \in Symbols BY DEF Symbols
<1>3. <<"_truncated">> \in Seq(Symbols) BY <1>2
<1>4. CASE v.kind = "map" BY <1>3, <1>4 DEF TruncatedKey, Mark, Entry
<1>5. CASE v.kind # "map" BY <1>1, <1>5 DEF Mark, Entry
<1> QED BY <1>4, <1>5

LEMMA ShortenedIn ==
  ASSUME NEW T, NEW v, Shaped(v), NEW m \in Nat, m <= Len(v.kids),
         NEW members, Listing(members, m),
         \A i \in 1..m : members[i] # Error => members[i] \in T,
         m # Len(v.kids) => Truncation \in T,
         Shortened(v, members) # Error
  PROVE  Shortened(v, members) \in NodesOver(T)
<1> DEFINE r == Shortened(v, members)
<1>1. /\ Holds(r, v, m, members)
      /\ m = Len(v.kids) => Listing(r.kids, m)
      /\ m # Len(v.kids) => Listing(r.kids, m + 1) /\ r.kids[m + 1] = Mark(v)
  <2> HIDE DEF r
  <2>1. r = Shortened(v, members) /\ r # Error BY DEF r
  <2> QED BY <2>1, ShortenedKids
<1> HIDE DEF r
<1>2. r.kind \in Kinds /\ r.text \in Seq(Symbols)
      /\ r = [kind |-> r.kind, text |-> r.text, kids |-> r.kids]
  BY <1>1 DEF Shaped, Holds
<1>3. ASSUME NEW i \in 1..m
      PROVE  \E k \in Seq(Symbols), w \in T : r.kids[i] = Entry(k, w)
  <2>1. i \in DOMAIN v.kids BY DEF Shaped
  <2>2. v.kids[i].key \in Seq(Symbols) BY <2>1 DEF Shaped
  <2>3. members[i] \in T /\ r.kids[i] = Entry(v.kids[i].key, members[i]) BY <1>1 DEF Holds
  <2> QED BY <2>2, <2>3
<1>5. r \in NodesOver(T)
  <2>1. CASE m = Len(v.kids) BY <1>1, <1>2, <1>3, <2>1, IsNode
  <2>2. CASE m # Len(v.kids)
    <3> DEFINE n == m + 1
    <3>1. n \in Nat /\ Listing(r.kids, n) BY <1>1, <2>2
    <3>2. ASSUME NEW i \in 1..n
          PROVE  \E k \in Seq(Symbols), w \in T : r.kids[i] = Entry(k, w)
      <4>1. CASE i = m + 1 BY <1>1, MarkKey, <2>2, <4>1
      <4>2. CASE i # m + 1
        <5>1. i \in 1..m BY <4>2
        <5> QED BY <1>3, <5>1
      <4> QED BY <4>1, <4>2
    <3> HIDE DEF n
    <3> QED BY <1>1, <1>2, <3>1, <3>2, IsNode
  <2> QED BY <2>1, <2>2
<1> QED BY <1>5 DEF r

-----------------------------------------------------------------------------
(* Nodes on the way: of data, scrubbed, and projected.                       *)

Free(t) == \A i \in DOMAIN t : t[i] \notin {"s", "b"}

NoBytes(t) == \A i \in DOMAIN t : t[i] # "b"

\* How much is known of the texts of nodes: nothing (0); that the patterns find each secret
\* (1), in a member of an Enum that is cut too (2); and that only texts have one (3).
Ranks == 0..3

LEMMA RankIs ==
  0 \in Ranks /\ 1 \in Ranks /\ 2 \in Ranks /\ 3 \in Ranks
BY DEF Ranks

\* A projected value is one in which the patterns find each secret, or not even that.
Again(rank) == IF rank \in {2, 3} THEN 3 ELSE 0

DataNode(rank, u) ==
  /\ Shaped(u) /\ u.kind # "error"
  /\ u.kind \notin Containers => u.kids = <<>>
  /\ u.kind # "bytes" => \/ Free(u.text)
                         \/ /\ u.kind \in {"text", "object", "enum"} /\ NoBytes(u.text)
                            /\ rank # 0 => IsSensitiveValue(u.text)
  /\ rank \in {2, 3} /\ u.kind = "enum" => Free(u.text) \/ Len(u.text) <= MaxLength
  /\ rank = 3 /\ u.kind \in {"object", "enum"} => Free(u.text)

ScrubbedNode(rank, u) ==
  /\ DataNode(rank, u) /\ u.kind \notin {"bytes", "loop", "set"}
  /\ rank # 0 /\ u.kind = "text" => Free(u.text)
  /\ \A i \in DOMAIN u.kids :
       u.kind = "map" /\ IsSensitiveKey(u.kids[i].key) => u.kids[i].value = Redaction

\* Of rank 3, a node that holds no secret.
JsonNode(rank, u) ==
  /\ DataNode(Again(rank), u) /\ u.kind \in JsonKinds
  /\ rank = 3 => Free(u.text)
  /\ \A i \in DOMAIN u.kids :
       u.kind = "map" /\ IsSensitiveKey(u.kids[i].key) =>
         u.kids[i].value \in {Redaction, Truncation}

Fit(class, rank, u) ==
  CASE class = "data" -> DataNode(rank, u)
    [] class = "scrubbed" -> ScrubbedNode(rank, u)
    [] OTHER -> JsonNode(rank, u)

Layers(class, rank, L) ==
  Layered(L) /\ \A d \in 0..Height : \A u \in L[d] : Fit(class, rank, u)

\* Texts.
LEMMA TextLeaf ==
  ASSUME NEW t \in Seq(Symbols), NEW S
  PROVE  /\ Text(t) \in NodesOver(S) /\ Shaped(Text(t)) /\ Text(t) # Error
         /\ Text(t).kind = "text" /\ Text(t).text = t /\ Text(t).kids = <<>>
         /\ DOMAIN Text(t).kids = {}
<1> DEFINE v == Text(t)
<1>1. v.kind = "text" /\ v.text = t /\ v.kids = <<>>
      /\ v = [kind |-> v.kind, text |-> v.text, kids |-> v.kids]
  BY DEF Text, Node
<1>2. v.kids \in Seq([key : Seq(Symbols), value : S]) /\ Len(v.kids) = 0 /\ DOMAIN v.kids = {}
  BY <1>1
<1>3. v.kind \in Kinds BY <1>1 DEF Kinds, JsonKinds
<1>a. v # Error BY <1>1 DEF Error, Node
<1> HIDE DEF v
<1>4. v \in NodesOver(S)
  <2> DEFINE E == [key : Seq(Symbols), value : S]
  <2>1. v.kids \in Seq(E) BY <1>2
  <2> HIDE DEF E
  <2>2. v \in [kind : Kinds, text : Seq(Symbols), kids : Seq(E)] BY <1>1, <1>3, <2>1
  <2> QED BY <2>2 DEF E, NodesOver
<1>5. Shaped(v) BY <1>4, ShapedNode
<1> QED BY <1>1, <1>2, <1>4, <1>5, <1>a DEF v

LEMMA TextNode ==
  ASSUME NEW t \in Seq(Symbols), Free(t), NEW S
  PROVE  /\ Text(t) \in NodesOver(S) /\ DataNode(3, Text(t))
         /\ ScrubbedNode(3, Text(t)) /\ JsonNode(3, Text(t)) /\ Text(t) # Error
<1> DEFINE v == Text(t)
<1>1. /\ v \in NodesOver(S) /\ Shaped(v) /\ v # Error
      /\ v.kind = "text" /\ v.text = t /\ v.kids = <<>> /\ DOMAIN v.kids = {}
  BY TextLeaf
<1> HIDE DEF v
<1>2. DataNode(3, v) BY <1>1 DEF DataNode
<1>3. ScrubbedNode(3, v) BY <1>1, <1>2 DEF ScrubbedNode
<1>4. JsonNode(3, v) BY <1>1, <1>2 DEF JsonNode, JsonKinds, Again
<1> QED BY <1>1, <1>2, <1>3, <1>4 DEF v

LEMMA OneSymbol ==
  ASSUME NEW x \in Symbols \ {"s", "b"}
  PROVE  <<x>> \in Seq(Symbols) /\ Free(<<x>>)
BY DEF Free

LEMMA Marks ==
  ASSUME NEW S
  PROVE  /\ Redaction \in NodesOver(S) /\ DataNode(3, Redaction)
         /\ ScrubbedNode(3, Redaction) /\ JsonNode(3, Redaction) /\ Redaction # Error
         /\ Truncation \in NodesOver(S) /\ DataNode(3, Truncation)
         /\ ScrubbedNode(3, Truncation) /\ JsonNode(3, Truncation) /\ Truncation # Error
<1>1. "REDACTED" \in Symbols \ {"s", "b"} /\ "TRUNCATED" \in Symbols \ {"s", "b"} BY DEF Symbols
<1>2. <<"REDACTED">> \in Seq(Symbols) /\ Free(<<"REDACTED">>) BY <1>1, OneSymbol
<1>3. <<"TRUNCATED">> \in Seq(Symbols) /\ Free(<<"TRUNCATED">>) BY <1>1, OneSymbol
<1>4. /\ Redaction \in NodesOver(S) /\ DataNode(3, Redaction)
      /\ ScrubbedNode(3, Redaction) /\ JsonNode(3, Redaction) /\ Redaction # Error
  BY <1>2, TextNode DEF Redaction
<1>5. /\ Truncation \in NodesOver(S) /\ DataNode(3, Truncation)
      /\ ScrubbedNode(3, Truncation) /\ JsonNode(3, Truncation) /\ Truncation # Error
  BY <1>3, TextNode DEF Truncation
<1> QED BY <1>4, <1>5

\* The classes get narrower.
LEMMA Narrower ==
  ASSUME NEW rank \in Ranks, NEW u
  PROVE  /\ DataNode(3, u) => DataNode(rank, u)
         /\ DataNode(rank, u) => DataNode(0, u)
         /\ ScrubbedNode(3, u) => ScrubbedNode(rank, u)
         /\ JsonNode(3, u) => JsonNode(rank, u)
         /\ JsonNode(rank, u) => DataNode(Again(rank), u)
BY DEF DataNode, ScrubbedNode, JsonNode, Again, Ranks, NoBytes, Free

\* What a node becomes when it is scrubbed: nothing is left to hide in it.
LEMMA ScrubbedFit ==
  ASSUME NEW rank \in Ranks, NEW T, NEW u, IsTree(u), DataNode(rank, u), Scrub(u) # Error,
         u.kids # <<>> => Redaction \in T,
         \A i \in DOMAIN u.kids : Scrub(u.kids[i].value) # Error => Scrub(u.kids[i].value) \in T
  PROVE  Scrub(u) \in NodesOver(T) /\ ScrubbedNode(rank, Scrub(u))
<1> DEFINE members == [i \in DOMAIN u.kids |->
              IF u.kind = "map" /\ IsSensitiveKey(u.kids[i].key) THEN Redaction
              ELSE Scrub(u.kids[i].value)]
           n == Len(u.kids)
           r == Scrub(u)
<1>1. Scrub(u) =
        CASE u.kind = "set" -> Error
          [] u.kind \in {"bytes", "loop"} -> Redaction
          [] u.kind = "text" /\ IsSensitiveValue(u.text) -> Redaction
          [] u.kind \in Containers -> Rebuilt(u, members)
          [] OTHER -> u
  BY ScrubIs
<1>0. Shaped(u) BY DEF DataNode
<1>a. n \in Nat /\ DOMAIN u.kids = 1..n BY <1>0 DEF Shaped
<1>b. Redaction \in NodesOver(T) /\ ScrubbedNode(rank, Redaction) BY Marks, Narrower
<1>2. CASE u.kind \in {"bytes", "loop"}
  <2>1. r = Redaction BY <1>1, <1>2 DEF Containers
  <2> QED BY <2>1, <1>b
<1>3. CASE u.kind = "text" /\ IsSensitiveValue(u.text)
  <2>1. r = Redaction BY <1>1, <1>3 DEF Containers
  <2> QED BY <2>1, <1>b
<1>4. CASE u.kind \in Containers
  <2>1. r = Rebuilt(u, members) BY <1>1, <1>4 DEF Containers
  <2>2. DOMAIN members = 1..n BY <1>a
  <2>3. ASSUME NEW i \in 1..n, members[i] # Error PROVE members[i] \in T
    <3>1. u.kids # <<>> BY <1>a
    <3> QED BY <1>a, <2>3, <3>1
  <2>4. \A i \in 1..n : u.kind = "map" /\ IsSensitiveKey(u.kids[i].key) => members[i] = Redaction
    BY <1>a
  <2> HIDE DEF members
  <2>5. r \in NodesOver(T) BY <1>0, <1>a, <2>1, <2>2, <2>3, RebuiltIn
  <2>6. Holds(r, u, n, members) /\ Len(r.kids) = n
    <3> HIDE DEF r
    <3>1. r # Error BY DEF r
    <3> QED BY <1>0, <1>a, <2>1, <2>2, <3>1, RebuiltKids
  <2> HIDE DEF r
  <2>7. r.kind = u.kind /\ r.text = u.text
        /\ \A i \in 1..n : r.kids[i] = Entry(u.kids[i].key, members[i])
    BY <2>6 DEF Holds
  <2>8. Shaped(r) BY <2>5, ShapedNode
  <2>9. DataNode(rank, r) BY <1>4, <2>7, <2>8 DEF DataNode, Containers
  <2>10. DOMAIN r.kids = 1..n BY <2>6, <2>8 DEF Shaped
  <2>11. ASSUME NEW i \in DOMAIN r.kids, r.kind = "map", IsSensitiveKey(r.kids[i].key)
         PROVE  r.kids[i].value = Redaction
    <3>1. i \in 1..n BY <2>10
    <3>a. r.kids[i] = Entry(u.kids[i].key, members[i]) BY <3>1, <2>7
    <3>2. r.kids[i].key = u.kids[i].key /\ r.kids[i].value = members[i] BY <3>a DEF Entry
    <3> QED BY <2>4, <2>7, <2>11, <3>1, <3>2
  <2>12. ScrubbedNode(rank, r) BY <1>4, <2>7, <2>9, <2>11 DEF ScrubbedNode, Containers
  <2> QED BY <2>5, <2>12 DEF r
<1>5. CASE u.kind \notin Containers /\ u.kind \notin {"set", "bytes", "loop"}
           /\ ~(u.kind = "text" /\ IsSensitiveValue(u.text))
  <2>1. Scrub(u) = u BY <1>1, <1>5
  <2>2. u.kids = <<>> BY <1>5 DEF DataNode
  <2>3. DOMAIN u.kids = {} BY <2>2
  <2>4. u \in NodesOver(T)
    <3>1. IsTree(u) => u \in NodesOver(Nodes(u)) BY NodeTrees
    <3> QED BY <2>3, <3>1, NodeOver
  <2>5. ScrubbedNode(rank, u) BY <1>5, <2>3 DEF ScrubbedNode, DataNode
  <2> QED BY <2>1, <2>4, <2>5
<1>6. u.kind # "set" BY <1>1 DEF Containers
<1> QED BY <1>2, <1>3, <1>4, <1>5, <1>6 DEF Containers

\* Layers of data, scrubbed.
ScrubbedLayers(L) ==
  [d \in 0..Height |->
     ({Scrub(u) : u \in L[d]} \union {r \in {Redaction} : L[d] # {}}) \ {Error}]

LEMMA ScrubLayers ==
  ASSUME NEW rank \in Ranks, NEW L, Layers("data", rank, L)
  PROVE  Layers("scrubbed", rank, ScrubbedLayers(L))
<1> DEFINE M == ScrubbedLayers(L)
<1>0. Height \in Nat BY LimitsAssumption
<1>1. ASSUME NEW d \in 0..Height, NEW w
      PROVE  w \in M[d] <=> w # Error /\ \E u \in L[d] : w = Scrub(u) \/ w = Redaction
  <2>1. M[d] = ({Scrub(u) : u \in L[d]} \union {r \in {Redaction} : L[d] # {}}) \ {Error}
    BY DEF ScrubbedLayers
  <2>2. Redaction # Error BY Marks
  <2> HIDE DEF M
  <2> QED BY <2>1, <2>2
<1> HIDE DEF M
<1>2. ASSUME NEW d \in 0..Height, NEW w \in M[d]
      PROVE  w \in NodesOver(Below(M, d)) /\ ScrubbedNode(rank, w)
  <2>1. PICK u \in L[d] : w = Scrub(u) \/ w = Redaction BY <1>1
  <2>2. w # Error BY <1>1
  <2>3. IsTree(u) /\ u \in NodesOver(Below(L, d)) BY LayerTrees DEF Layers, Layered
  <2>4. DataNode(rank, u) BY DEF Layers, Fit
  <2> DEFINE T == Below(M, d)
  <2>5. ASSUME NEW i \in DOMAIN u.kids
        PROVE  Redaction \in T /\ (Scrub(u.kids[i].value) # Error => Scrub(u.kids[i].value) \in T)
    <3>1. u.kids[i].value \in Below(L, d) BY <2>3, NodeIs
    <3>2. d # Height /\ d + 1 \in 0..Height /\ u.kids[i].value \in L[d + 1]
      BY <1>0, <3>1 DEF Below
    <3>3. Redaction # Error BY Marks
    <3> QED BY <1>1, <3>2, <3>3 DEF Below
  <2>6. u.kids # <<>> => \E i \in DOMAIN u.kids : TRUE
    <3>1. Len(u.kids) \in Nat /\ DOMAIN u.kids = 1..Len(u.kids) BY <2>4 DEF DataNode, Shaped
    <3>2. CASE Len(u.kids) = 0
      <4>1. u.kids \in Seq([key : Seq(Symbols), value : Below(L, d)]) BY <2>3 DEF NodesOver
      <4> QED BY <3>2, <4>1
    <3>3. CASE Len(u.kids) # 0
      <4>1. 1 \in DOMAIN u.kids BY <3>1, <3>3
      <4> QED BY <4>1
    <3> QED BY <3>2, <3>3
  <2> HIDE DEF T
  <2>7. CASE w = Scrub(u)
    <3>1. Scrub(u) \in NodesOver(T) /\ ScrubbedNode(rank, Scrub(u))
      BY <2>2, <2>3, <2>4, <2>5, <2>6, <2>7, ScrubbedFit
    <3> QED BY <2>7, <3>1 DEF T
  <2>8. CASE w = Redaction
    <3>1. Redaction \in NodesOver(T) /\ ScrubbedNode(rank, Redaction) BY Marks, Narrower
    <3> QED BY <2>8, <3>1 DEF T
  <2> QED BY <2>1, <2>7, <2>8
<1>3. Layered(M) BY <1>2 DEF Layered
<1>4. \A d \in 0..Height : \A w \in M[d] : Fit("scrubbed", rank, w) BY <1>2 DEF Fit
<1> QED BY <1>3, <1>4 DEF Layers, M

LEMMA LimitedIs ==
  ASSUME NEW t \in Seq(Symbols)
  PROVE  /\ Limited(t) \in Seq(Symbols)
         /\ Len(t) <= MaxLength => Limited(t) = t
         /\ Free(t) => Free(Limited(t))
         /\ NoBytes(t) => NoBytes(Limited(t))
<1>0. MaxLength \in Nat BY LimitsAssumption
<1>1. CASE Len(t) <= MaxLength BY <1>1 DEF Limited
<1>2. CASE ~(Len(t) <= MaxLength)
  <2> DEFINE cut == SubSeq(t, 1, MaxLength)
             r == Append(cut, "TRUNCATED")
  <2>1. Limited(t) = r BY <1>2 DEF Limited
  <2>2. cut \in Seq(Symbols) /\ Len(cut) = MaxLength
        /\ \A i \in 1..MaxLength : cut[i] = t[i] /\ i \in DOMAIN t
    BY <1>0, <1>2
  <2>3. "TRUNCATED" \in Symbols \ {"s", "b"} BY DEF Symbols
  <2> HIDE DEF cut
  <2>4. r \in Seq(Symbols) /\ Len(r) = MaxLength + 1 /\ r[MaxLength + 1] = "TRUNCATED"
        /\ \A i \in 1..MaxLength : r[i] = cut[i]
    BY <1>0, <2>2, <2>3
  <2> HIDE DEF r
  <2>5. DOMAIN r = 1..(MaxLength + 1) BY <2>4
  <2>6. ASSUME Free(t), NEW i \in DOMAIN r PROVE r[i] \notin {"s", "b"}
    <3>1. CASE i = MaxLength + 1 BY <2>3, <2>4, <3>1
    <3>2. CASE i # MaxLength + 1
      <4>1. i \in 1..MaxLength BY <1>0, <2>5, <3>2
      <4> QED BY <2>2, <2>4, <2>6, <4>1 DEF Free
    <3> QED BY <3>1, <3>2
  <2>7. Free(t) => Free(r) BY <2>6 DEF Free
  <2>8. ASSUME NoBytes(t), NEW i \in DOMAIN r PROVE r[i] # "b"
    <3>1. CASE i = MaxLength + 1 BY <2>3, <2>4, <3>1
    <3>2. CASE i # MaxLength + 1
      <4>1. i \in 1..MaxLength BY <1>0, <2>5, <3>2
      <4> QED BY <2>2, <2>4, <2>8, <4>1 DEF NoBytes
    <3> QED BY <3>1, <3>2
  <2>9. NoBytes(t) => NoBytes(r) BY <2>8 DEF NoBytes
  <2> QED BY <1>2, <2>1, <2>4, <2>7, <2>9
<1> QED BY <1>1, <1>2

\* What a container becomes when its members are projected.
LEMMA ShortenedFit ==
  ASSUME NEW rank \in Ranks, NEW T, NEW u, ScrubbedNode(rank, u), u.kind \in Containers,
         NEW m \in Nat, m <= Len(u.kids), NEW members, Listing(members, m),
         \A i \in 1..m : members[i] # Error => members[i] \in T,
         \A i \in 1..m : u.kids[i].value = Redaction => members[i] \in {Redaction, Truncation},
         m # Len(u.kids) => Truncation \in T,
         Shortened(u, members) # Error
  PROVE  Shortened(u, members) \in NodesOver(T) /\ JsonNode(rank, Shortened(u, members))
<1> DEFINE r == Shortened(u, members)
<1>0. DataNode(rank, u) /\ Shaped(u) BY DEF ScrubbedNode, DataNode
<1>1. r \in NodesOver(T) BY <1>0, ShortenedIn
<1>2. /\ Holds(r, u, m, members)
      /\ m = Len(u.kids) => Len(r.kids) = m
      /\ m # Len(u.kids) => Len(r.kids) = m + 1 /\ r.kids[m + 1] = Mark(u)
  <2> HIDE DEF r
  <2>1. r = Shortened(u, members) /\ r # Error BY DEF r
  <2> QED BY <1>0, <2>1, ShortenedKids
<1> HIDE DEF r
<1>3. Shaped(r) BY <1>1, ShapedNode
<1>4. r.kind = u.kind /\ r.text = u.text BY <1>2 DEF Holds
<1>5. DataNode(Again(rank), r) /\ Free(r.text) /\ r.kind \in JsonKinds
  BY <1>0, <1>3, <1>4 DEF DataNode, Containers, JsonKinds
<1>6. ASSUME NEW i \in DOMAIN r.kids, r.kind = "map", IsSensitiveKey(r.kids[i].key)
      PROVE  r.kids[i].value \in {Redaction, Truncation}
  <2>1. CASE i \in 1..m
    <3>1. r.kids[i] = Entry(u.kids[i].key, members[i]) BY <1>2, <2>1 DEF Holds
    <3>2. r.kids[i].key = u.kids[i].key /\ r.kids[i].value = members[i] BY <3>1 DEF Entry
    <3>3. i \in DOMAIN u.kids BY <1>0, <2>1 DEF Shaped
    <3>4. u.kids[i].value = Redaction BY <1>4, <1>6, <3>2, <3>3 DEF ScrubbedNode
    <3> QED BY <2>1, <3>2, <3>4
  <2>2. CASE i \notin 1..m
    <3>1. DOMAIN r.kids = 1..Len(r.kids) BY <1>3 DEF Shaped
    <3>2. m # Len(u.kids) /\ i = m + 1 BY <1>2, <2>2, <3>1
    <3>3. r.kids[i] = Mark(u) BY <1>2, <3>2
    <3> QED BY <3>3, MarkKey
  <2> QED BY <2>1, <2>2
<1>7. JsonNode(rank, r) BY <1>5, <1>6 DEF JsonNode
<1> QED BY <1>1, <1>7 DEF r

\* A redaction is projected to itself, or cut.
LEMMA MarksProjected ==
  ASSUME NEW depth \in 0..MaxDepth
  PROVE  Project(Redaction, depth) = IF depth = MaxDepth THEN Truncation ELSE Redaction
<1>1. Redaction \in NodesOver({}) /\ DOMAIN Redaction.kids = {}
      /\ Redaction.kind = "text" /\ Redaction.text = <<"REDACTED">>
  <2>1. "REDACTED" \in Symbols BY DEF Symbols
  <2>2. <<"REDACTED">> \in Seq(Symbols) BY <2>1
  <2> QED BY <2>2, TextLeaf DEF Redaction
<1> DEFINE L == [d \in 0..Height |-> IF d = 0 THEN {Redaction} ELSE {}]
<1>2. Height \in Nat /\ MaxLength \in Nat \ {0} BY LimitsAssumption
<1>3. Layered(L) /\ Redaction \in L[0]
  <2>1. \A d \in 0..Height : \A u \in L[d] : u = Redaction BY <1>2
  <2>2. \A d \in 0..Height : Redaction \in NodesOver(Below(L, d)) BY Marks
  <2> QED BY <1>2, <2>1, <2>2 DEF Layered
<1> HIDE DEF L
<1>4. IsTree(Redaction) BY <1>3, TreeWithin
<1>5. Limited(<<"REDACTED">>) = <<"REDACTED">>
  <2>1. "REDACTED" \in Symbols BY DEF Symbols
  <2> DEFINE t == <<"REDACTED">>
  <2>2. t \in Seq(Symbols) /\ Len(t) = 1 BY <2>1
  <2> HIDE DEF t
  <2>a. Len(t) <= MaxLength BY <1>2, <2>2
  <2>3. Limited(t) = t BY <2>2, <2>a, LimitedIs
  <2> QED BY <2>3 DEF t
<1>6. CASE depth = MaxDepth BY <1>4, <1>6, ProjectIs
<1>7. CASE depth # MaxDepth
  <2>1. Project(Redaction, depth) = Text(Limited(<<"REDACTED">>))
    BY <1>1, <1>4, <1>7, ProjectIs DEF Containers
  <2> QED BY <1>5, <1>7, <2>1 DEF Redaction
<1> QED BY <1>6, <1>7

\* A text that is projected: without a secret, or one that scrubbing is still to find.
LEMMA TextJson ==
  ASSUME NEW rank \in Ranks, NEW T, NEW t \in Seq(Symbols),
         \/ Free(t)
         \/ rank # 3 /\ NoBytes(t) /\ (rank = 2 => IsSensitiveValue(t))
  PROVE  Text(t) \in NodesOver(T) /\ JsonNode(rank, Text(t))
<1> DEFINE v == Text(t)
<1>1. /\ v \in NodesOver(T) /\ Shaped(v)
      /\ v.kind = "text" /\ v.text = t /\ v.kids = <<>> /\ DOMAIN v.kids = {}
  BY TextLeaf
<1> HIDE DEF v
<1>2. DataNode(Again(rank), v) BY <1>1 DEF DataNode, Again, Ranks
<1>3. JsonNode(rank, v) BY <1>1, <1>2 DEF JsonNode, JsonKinds
<1> QED BY <1>1, <1>3 DEF v

\* What a scrubbed node becomes when it is projected.
LEMMA ProjectedFit ==
  ASSUME NEW rank \in Ranks, NEW T, NEW u, IsTree(u), ScrubbedNode(rank, u),
         NEW depth \in 0..MaxDepth, Project(u, depth) # Error,
         u.kids # <<>> => Truncation \in T,
         depth # MaxDepth => \A i \in DOMAIN u.kids :
           Project(u.kids[i].value, depth + 1) # Error => Project(u.kids[i].value, depth + 1) \in T
  PROVE  Project(u, depth) \in NodesOver(T) /\ JsonNode(rank, Project(u, depth))
<1> DEFINE members == [i \in First(MaxEntries, u) |-> Project(u.kids[i].value, depth + 1)]
           r == Project(u, depth)
<1>1. r = CASE depth = MaxDepth -> Truncation
            [] depth # MaxDepth /\ u.kind = "atom" -> u
            [] depth # MaxDepth /\ u.kind \in {"text", "enum"} -> Text(Limited(u.text))
            [] depth # MaxDepth /\ u.kind = "object" -> Text(u.text)
            [] depth # MaxDepth /\ u.kind = "bytes" -> BytesProjection(u)
            [] depth # MaxDepth /\ u.kind \in Containers -> Shortened(u, members)
            [] OTHER -> Error
  BY ProjectIs
<1>0. DataNode(rank, u) /\ Shaped(u) /\ u.kind # "bytes" BY DEF ScrubbedNode, DataNode
<1>t. u.text \in Seq(Symbols) BY <1>0 DEF Shaped
<1>n. MaxDepth \in Nat /\ MaxEntries \in Nat BY LimitsAssumption
<1>2. CASE depth = MaxDepth
  <2>1. r = Truncation BY <1>1, <1>2
  <2>2. Truncation \in NodesOver(T) /\ JsonNode(rank, Truncation) BY Marks, Narrower
  <2> QED BY <2>1, <2>2
<1>3. CASE depth # MaxDepth /\ u.kind = "atom"
  <2>1. r = u BY <1>1, <1>3 DEF Containers
  <2>2. u.kids = <<>> BY <1>0, <1>3 DEF DataNode, Containers
  <2>3. DOMAIN u.kids = {} BY <2>2
  <2>4. u \in NodesOver(T)
    <3>1. u \in NodesOver(Nodes(u)) BY NodeTrees
    <3> QED BY <2>3, <3>1, NodeOver
  <2>5. DataNode(Again(rank), u) BY <1>0, <1>3 DEF DataNode
  <2>6. Free(u.text) BY <1>0, <1>3 DEF DataNode
  <2>7. JsonNode(rank, u) BY <1>3, <2>3, <2>5, <2>6 DEF JsonNode, JsonKinds
  <2> QED BY <2>1, <2>4, <2>7
<1>4. CASE depth # MaxDepth /\ u.kind \in {"text", "enum"}
  <2> DEFINE t == Limited(u.text)
  <2>1. r = Text(t) BY <1>1, <1>4 DEF Containers
  <2>2. /\ t \in Seq(Symbols) /\ (Free(u.text) => Free(t)) /\ (NoBytes(u.text) => NoBytes(t))
        /\ Len(u.text) <= MaxLength => t = u.text
    BY <1>t, LimitedIs
  <2>3. Free(t) \/ (rank # 3 /\ NoBytes(t) /\ (rank = 2 => IsSensitiveValue(t)))
    <3>1. CASE Free(u.text) BY <2>2, <3>1
    <3>2. CASE ~Free(u.text)
      <4>1. NoBytes(u.text) /\ (rank # 0 => IsSensitiveValue(u.text)) BY <1>0, <3>2 DEF DataNode
      <4>2. CASE u.kind = "text"
        <5>1. rank = 0 BY <3>2, <4>2 DEF ScrubbedNode
        <5> QED BY <2>2, <4>1, <5>1
      <4>3. CASE u.kind = "enum"
        <5>1. rank # 3 /\ (rank = 2 => Len(u.text) <= MaxLength) BY <1>0, <3>2, <4>3 DEF DataNode
        <5> QED BY <2>2, <4>1, <5>1
      <4> QED BY <1>4, <4>2, <4>3
    <3> QED BY <3>1, <3>2
  <2> HIDE DEF t
  <2>4. Text(t) \in NodesOver(T) /\ JsonNode(rank, Text(t)) BY <2>2, <2>3, TextJson
  <2> QED BY <2>1, <2>4
<1>5. CASE depth # MaxDepth /\ u.kind = "object"
  <2> DEFINE t == u.text
  <2>1. r = Text(t) BY <1>1, <1>5 DEF Containers
  <2>2. t \in Seq(Symbols) BY <1>t
  <2>3. Free(t) \/ (rank # 3 /\ NoBytes(t) /\ (rank = 2 => IsSensitiveValue(t)))
    BY <1>0, <1>5 DEF DataNode
  <2> HIDE DEF t
  <2>4. Text(t) \in NodesOver(T) /\ JsonNode(rank, Text(t)) BY <2>2, <2>3, TextJson
  <2> QED BY <2>1, <2>4
<1>6. CASE depth # MaxDepth /\ u.kind \in Containers
  <2>1. r = Shortened(u, members) BY <1>1, <1>6 DEF Containers
  <2>2. u \in NodesOver(Nodes(u)) BY NodeTrees
  <2>3. PICK m \in Nat : First(MaxEntries, u) = 1..m /\ m <= Len(u.kids) /\ m <= MaxEntries
                         /\ (Len(u.kids) <= MaxEntries => m = Len(u.kids))
    BY <1>n, <2>2, FirstIs
  <2>4. Listing(members, m) BY <2>3 DEF Listing
  <2>5. Len(u.kids) \in Nat /\ DOMAIN u.kids = 1..Len(u.kids) BY <1>0 DEF Shaped
  <2>6. ASSUME NEW i \in 1..m
        PROVE  /\ members[i] # Error => members[i] \in T
               /\ u.kids[i].value = Redaction => members[i] \in {Redaction, Truncation}
    <3>1. i \in DOMAIN u.kids /\ depth + 1 \in 0..MaxDepth
      BY <1>n, <1>6, <2>3, <2>5
    <3>2. members[i] = Project(u.kids[i].value, depth + 1) BY <2>3
    <3>3. u.kids[i].value = Redaction =>
            Project(u.kids[i].value, depth + 1) \in {Redaction, Truncation}
      BY <3>1, MarksProjected
    <3> QED BY <1>6, <3>1, <3>2, <3>3
  <2>7. m # Len(u.kids) => Truncation \in T
    <3>1. m # Len(u.kids) => u.kids # <<>> BY <2>3, <2>5
    <3> QED BY <3>1
  <2> HIDE DEF members
  <2>a. Shortened(u, members) # Error BY <2>1
  <2>8. Shortened(u, members) \in NodesOver(T) /\ JsonNode(rank, Shortened(u, members))
    BY <1>6, <2>3, <2>4, <2>6, <2>7, <2>a, ShortenedFit
  <2> QED BY <2>1, <2>8
<1>7. depth = MaxDepth \/ u.kind \in Containers \union {"atom", "text", "enum", "object"}
  BY <1>0, <1>1 DEF Containers
<1> QED BY <1>2, <1>3, <1>4, <1>5, <1>6, <1>7

\* Scrubbed layers, projected.
ProjectedLayers(L) ==
  [d \in 0..Height |->
     ({Project(u, k) : u \in L[d], k \in 0..MaxDepth} \union {r \in {Truncation} : L[d] # {}})
       \ {Error}]

LEMMA ProjectedIn ==
  ASSUME NEW L, NEW d \in 0..Height
  PROVE  /\ \A u \in L[d] : \A k \in 0..MaxDepth :
              Project(u, k) # Error => Project(u, k) \in ProjectedLayers(L)[d]
         /\ L[d] # {} => Truncation \in ProjectedLayers(L)[d]
         /\ \A w \in ProjectedLayers(L)[d] :
              w # Error /\ \E u \in L[d] : w = Truncation \/ \E k \in 0..MaxDepth : w = Project(u, k)
<1>1. ProjectedLayers(L)[d]
        = ({Project(u, k) : u \in L[d], k \in 0..MaxDepth} \union {r \in {Truncation} : L[d] # {}})
            \ {Error}
  BY DEF ProjectedLayers
<1>2. Truncation # Error BY Marks
<1> QED BY <1>1, <1>2

LEMMA ProjectLayers ==
  ASSUME NEW rank \in Ranks, NEW L, Layers("scrubbed", rank, L)
  PROVE  Layers("json", rank, ProjectedLayers(L))
<1> DEFINE M == ProjectedLayers(L)
<1>0. Height \in Nat /\ MaxDepth \in Nat BY LimitsAssumption
<1>1. ASSUME NEW d \in 0..Height
      PROVE  /\ \A u \in L[d] : \A k \in 0..MaxDepth : Project(u, k) # Error => Project(u, k) \in M[d]
             /\ L[d] # {} => Truncation \in M[d]
             /\ \A w \in M[d] :
                  w # Error
                  /\ \E u \in L[d] : w = Truncation \/ \E k \in 0..MaxDepth : w = Project(u, k)
  BY ProjectedIn
<1> HIDE DEF M
<1>2. ASSUME NEW d \in 0..Height, NEW w \in M[d]
      PROVE  w \in NodesOver(Below(M, d)) /\ JsonNode(rank, w)
  <2> DEFINE T == Below(M, d)
  <2>1. PICK u \in L[d] : w = Truncation \/ \E k \in 0..MaxDepth : w = Project(u, k) BY <1>1
  <2>2. w # Error BY <1>1
  <2>3. IsTree(u) /\ u \in NodesOver(Below(L, d)) BY LayerTrees DEF Layers, Layered
  <2>4. ScrubbedNode(rank, u) BY DEF Layers, Fit
  <2>5. ASSUME NEW i \in DOMAIN u.kids
        PROVE  Truncation \in T /\ \A k \in 0..MaxDepth :
                 Project(u.kids[i].value, k) # Error => Project(u.kids[i].value, k) \in T
    <3>1. u.kids[i].value \in Below(L, d) BY <2>3, NodeIs
    <3>2. d # Height /\ d + 1 \in 0..Height /\ u.kids[i].value \in L[d + 1]
      BY <1>0, <3>1 DEF Below
    <3> QED BY <1>1, <3>2 DEF Below
  <2>6. u.kids # <<>> => \E i \in DOMAIN u.kids : TRUE
    <3>1. Len(u.kids) \in Nat /\ DOMAIN u.kids = 1..Len(u.kids)
      BY <2>4 DEF ScrubbedNode, DataNode, Shaped
    <3>2. CASE Len(u.kids) = 0
      <4>1. u.kids \in Seq([key : Seq(Symbols), value : Below(L, d)]) BY <2>3 DEF NodesOver
      <4> QED BY <3>2, <4>1
    <3>3. CASE Len(u.kids) # 0
      <4>1. 1 \in DOMAIN u.kids BY <3>1, <3>3
      <4> QED BY <4>1
    <3> QED BY <3>2, <3>3
  <2>7. CASE w = Truncation
    <3>1. Truncation \in NodesOver(T) /\ JsonNode(rank, Truncation) BY Marks, Narrower
    <3> QED BY <2>7, <3>1
  <2>8. CASE \E k \in 0..MaxDepth : w = Project(u, k)
    <3>1. PICK k \in 0..MaxDepth : w = Project(u, k) BY <2>8
    <3>2. k # MaxDepth => k + 1 \in 0..MaxDepth BY <1>0
    <3> HIDE DEF T
    <3>3. Project(u, k) \in NodesOver(T) /\ JsonNode(rank, Project(u, k))
      BY <2>2, <2>3, <2>4, <2>5, <2>6, <3>1, <3>2, ProjectedFit
    <3> QED BY <3>1, <3>3 DEF T
  <2> QED BY <2>1, <2>7, <2>8
<1>3. Layered(M) BY <1>2 DEF Layered
<1>4. \A d \in 0..Height : \A w \in M[d] : Fit("json", rank, w) BY <1>2 DEF Fit
<1> QED BY <1>3, <1>4 DEF Layers, M

-----------------------------------------------------------------------------
(* Trees all of whose nodes are of a class.                                  *)

Tree(class, rank, v) == Layers(class, rank, Level(v))

LEMMA TreeIn ==
  ASSUME NEW class, NEW rank, NEW L, Layers(class, rank, L), NEW v \in L[0]
  PROVE  Tree(class, rank, v)
<1>1. Layered(L) BY DEF Layers
<1>2. Layered(Level(v)) BY <1>1, TreeWithin DEF IsTree
<1>3. \A d \in 0..Height : Level(v)[d] \subseteq L[d] BY <1>1, LevelWithin
<1> QED BY <1>2, <1>3 DEF Tree, Layers

\* The nodes of such a tree, and the trees below them.
LEMMA TreeNodes ==
  ASSUME NEW class, NEW rank, NEW v, Tree(class, rank, v)
  PROVE  /\ IsTree(v) /\ v \in Nodes(v) /\ Fit(class, rank, v)
         /\ \A u \in Nodes(v) : Fit(class, rank, u) /\ Tree(class, rank, u)
<1>1. IsTree(v) BY DEF Tree, Layers, IsTree
<1>2. ASSUME NEW u \in Nodes(v) PROVE Fit(class, rank, u) /\ Tree(class, rank, u)
  <2>1. PICK d \in 0..Height : u \in Level(v)[d] BY DEF Nodes
  <2>2. Layered(Level(v)) /\ Fit(class, rank, u) BY <2>1 DEF Tree, Layers
  <2> DEFINE M == Shift(Level(v), d)
  <2>3. Layered(M) /\ M[0] = Level(v)[d] BY <2>2, ShiftLayered
  <2>4. \A k \in 0..Height : \A w \in M[k] : Fit(class, rank, w)
    <3>1. ASSUME NEW k \in 0..Height, NEW w \in M[k] PROVE Fit(class, rank, w)
      <4>1. d + k <= Height /\ w \in Level(v)[d + k] BY DEF Shift
      <4>2. d + k \in 0..Height BY <4>1
      <4> QED BY <4>1, <4>2 DEF Tree, Layers
    <3> QED BY <3>1
  <2>5. Layers(class, rank, M)
    <3> HIDE DEF M
    <3> QED BY <2>3, <2>4 DEF Layers
  <2> HIDE DEF M
  <2> QED BY <2>1, <2>2, <2>3, <2>5, TreeIn
<1> QED BY <1>1, <1>2, NodeTrees

\* So are its members.
LEMMA TreeMembers ==
  ASSUME NEW class, NEW rank, NEW v, Tree(class, rank, v), NEW i \in DOMAIN v.kids
  PROVE  /\ Tree(class, rank, v.kids[i].value) /\ v.kids[i].value \in Level(v)[1]
         /\ v.kids[i].key \in Seq(Symbols)
<1>0. Height \in Nat BY LimitsAssumption
<1>1. IsTree(v) /\ v \in Nodes(v) BY TreeNodes
<1>2. v \in NodesOver(Nodes(v)) BY <1>1, NodeTrees
<1>3. v.kids[i].value \in Nodes(v) /\ v.kids[i].key \in Seq(Symbols) BY <1>2, NodeIs
<1>4. 0 \in 0..Height /\ Height # 0 BY <1>0, LimitsAssumption
<1>5. Level(v)[0] = {v} /\ Level(v)[0 + 1] = Deeper(Level(v)[0]) BY <1>4, LevelIs
<1>6. v.kids[i].value \in Level(v)[1] BY <1>5 DEF Deeper, Members
<1> QED BY <1>3, <1>6, TreeNodes

\* Layers with another root.
Retop(L, w) == [d \in 0..Height |-> IF d = 0 THEN {w} ELSE L[d]]

LEMMA RetopLayers ==
  ASSUME NEW class, NEW rank, NEW L, Layers(class, rank, L),
         NEW w \in NodesOver(L[1]), Fit(class, rank, w)
  PROVE  Layers(class, rank, Retop(L, w)) /\ w \in Retop(L, w)[0] /\ Tree(class, rank, w)
<1>0. Height \in Nat \ {0} BY LimitsAssumption
<1> DEFINE M == Retop(L, w)
<1>1. M[0] = {w} /\ \A d \in 0..Height : d # 0 => M[d] = L[d] BY <1>0 DEF Retop
<1> HIDE DEF M
<1>2. ASSUME NEW d \in 0..Height, NEW u \in M[d]
      PROVE  u \in NodesOver(Below(M, d)) /\ Fit(class, rank, u)
  <2>1. CASE d = 0
    <3>1. u = w /\ Below(M, d) = L[1] BY <1>0, <1>1, <2>1 DEF Below
    <3> QED BY <3>1
  <2>2. CASE d # 0
    <3>1. u \in L[d] BY <1>1, <2>2
    <3>2. u \in NodesOver(Below(L, d)) /\ Fit(class, rank, u) BY <3>1 DEF Layers, Layered
    <3>3. Below(M, d) = Below(L, d)
      <4>1. d # Height => d + 1 \in 0..Height /\ d + 1 # 0 BY <1>0
      <4> QED BY <1>1, <4>1 DEF Below
    <3> QED BY <3>2, <3>3
  <2> QED BY <2>1, <2>2
<1>3. Layered(M) BY <1>2 DEF Layered
<1>4. \A d \in 0..Height : \A u \in M[d] : Fit(class, rank, u) BY <1>2
<1>5. Layers(class, rank, M) BY <1>3, <1>4 DEF Layers
<1>6. w \in M[0] BY <1>1
<1>7. Tree(class, rank, w) BY <1>5, <1>6, TreeIn
<1> QED BY <1>5, <1>6, <1>7 DEF M

\* Two layerings side by side.
Joined(L, M) == [d \in 0..Height |-> L[d] \union M[d]]

LEMMA JoinedLayers ==
  ASSUME NEW class, NEW rank, NEW L, Layers(class, rank, L), NEW M, Layers(class, rank, M)
  PROVE  Layers(class, rank, Joined(L, M))
<1>0. Height \in Nat BY LimitsAssumption
<1> DEFINE J == Joined(L, M)
<1>1. \A d \in 0..Height : J[d] = L[d] \union M[d] BY DEF Joined
<1> HIDE DEF J
<1>2. ASSUME NEW d \in 0..Height, NEW u \in J[d]
      PROVE  u \in NodesOver(Below(J, d)) /\ Fit(class, rank, u)
  <2>1. Below(L, d) \subseteq Below(J, d) /\ Below(M, d) \subseteq Below(J, d)
    <3>1. d # Height => d + 1 \in 0..Height BY <1>0
    <3> QED BY <1>1, <3>1 DEF Below
  <2>2. CASE u \in L[d]
    <3>1. u \in NodesOver(Below(L, d)) /\ Fit(class, rank, u) BY <2>2 DEF Layers, Layered
    <3>2. \A i \in DOMAIN u.kids : u.kids[i].value \in Below(J, d) BY <2>1, <3>1, NodeIs
    <3> QED BY <3>1, <3>2, NodeOver
  <2>3. CASE u \in M[d]
    <3>1. u \in NodesOver(Below(M, d)) /\ Fit(class, rank, u) BY <2>3 DEF Layers, Layered
    <3>2. \A i \in DOMAIN u.kids : u.kids[i].value \in Below(J, d) BY <2>1, <3>1, NodeIs
    <3> QED BY <3>1, <3>2, NodeOver
  <2> QED BY <1>1, <2>2, <2>3
<1>3. Layered(J) BY <1>2 DEF Layered
<1> QED BY <1>2, <1>3 DEF Layers, J

\* Layers one level further down.
Pushed(L) == [d \in 0..Height |-> IF d = 0 THEN {} ELSE L[d - 1]]

LEMMA PushedLayers ==
  ASSUME NEW class, NEW rank, NEW L, Layers(class, rank, L), L[Height] = {}
  PROVE  Layers(class, rank, Pushed(L)) /\ Pushed(L)[1] = L[0]
<1>0. Height \in Nat \ {0} BY LimitsAssumption
<1> DEFINE M == Pushed(L)
<1>1. M[0] = {} /\ \A d \in 0..Height : d # 0 => M[d] = L[d - 1] BY <1>0 DEF Pushed
<1>a. M[1] = L[0]
  <2>1. 1 \in 0..Height /\ 1 # 0 /\ 1 - 1 = 0 BY <1>0
  <2> HIDE DEF M
  <2> QED BY <1>1, <2>1
<1> HIDE DEF M
<1>2. ASSUME NEW d \in 0..Height, NEW u \in M[d]
      PROVE  u \in NodesOver(Below(M, d)) /\ Fit(class, rank, u)
  <2>1. d # 0 /\ u \in L[d - 1] /\ d - 1 \in 0..Height /\ d - 1 # Height /\ (d - 1) + 1 = d
    BY <1>0, <1>1
  <2>2. u \in NodesOver(Below(L, d - 1)) /\ Fit(class, rank, u) BY <2>1 DEF Layers, Layered
  <2>3. Below(L, d - 1) = L[d] BY <2>1 DEF Below
  <2>4. CASE d = Height
    <3>1. Below(M, d) = {} BY <2>4 DEF Below
    <3> QED BY <2>2, <2>3, <2>4, <3>1
  <2>5. CASE d # Height
    <3>1. d + 1 \in 0..Height /\ d + 1 # 0 /\ (d + 1) - 1 = d BY <1>0, <2>5
    <3>2. Below(M, d) = L[d] BY <1>1, <2>5, <3>1 DEF Below
    <3> QED BY <2>2, <2>3, <3>2
  <2> QED BY <2>4, <2>5
<1>3. Layered(M) BY <1>2 DEF Layered
<1>4. Layers(class, rank, M) BY <1>2, <1>3 DEF Layers
<1> QED BY <1>4, <1>a DEF M

\* Leaves as members of a root.
Leaves(S) == [d \in 0..Height |-> IF d = 1 THEN S ELSE {}]

LEMMA LeavesLayers ==
  ASSUME NEW class, NEW rank, NEW S, S \subseteq NodesOver({}), \A u \in S : Fit(class, rank, u)
  PROVE  Layers(class, rank, Leaves(S)) /\ Leaves(S)[1] = S
<1>0. Height \in Nat \ {0} BY LimitsAssumption
<1> DEFINE L == Leaves(S)
<1>1. L[1] = S /\ \A d \in 0..Height : \A u \in L[d] : u \in S BY <1>0 DEF Leaves
<1> HIDE DEF L
<1>2. ASSUME NEW d \in 0..Height, NEW u \in L[d]
      PROVE  u \in NodesOver(Below(L, d)) /\ Fit(class, rank, u)
  <2>1. u \in NodesOver({}) BY <1>1
  <2>2. \A i \in DOMAIN u.kids : u.kids[i].value \in Below(L, d) BY <2>1, NodeIs
  <2> QED BY <1>1, <2>1, <2>2, NodeOver
<1>3. Layered(L) BY <1>2 DEF Layered
<1> QED BY <1>1, <1>2, <1>3 DEF Layers, L

\* What is JSON is data that scrubbing can be applied to again.
LEMMA JsonIsData ==
  ASSUME NEW rank \in Ranks, NEW L, Layers("json", rank, L)
  PROVE  Layers("data", Again(rank), L)
<1>1. \A u : Fit("json", rank, u) => Fit("data", Again(rank), u) BY Narrower DEF Fit
<1> QED BY <1>1 DEF Layers

-----------------------------------------------------------------------------
(* What the gate lets through.                                               *)

LEMMA ScrubTree ==
  ASSUME NEW rank \in Ranks, NEW v, Tree("data", rank, v), Scrub(v) # Error
  PROVE  Tree("scrubbed", rank, Scrub(v)) /\ Scrub(v) \in ScrubbedLayers(Level(v))[0]
<1>0. 0 \in 0..Height BY LimitsAssumption
<1>1. Layers("scrubbed", rank, ScrubbedLayers(Level(v))) BY ScrubLayers DEF Tree
<1>2. v \in Level(v)[0] BY LevelIs
<1>3. Scrub(v) \in ScrubbedLayers(Level(v))[0] BY <1>0, <1>2 DEF ScrubbedLayers
<1> QED BY <1>1, <1>3, TreeIn

LEMMA ProjectTree ==
  ASSUME NEW rank \in Ranks, NEW v, Tree("scrubbed", rank, v), NEW depth \in 0..MaxDepth,
         Project(v, depth) # Error
  PROVE  Tree("json", rank, Project(v, depth))
<1>0. 0 \in 0..Height BY LimitsAssumption
<1>1. Layers("json", rank, ProjectedLayers(Level(v))) BY ProjectLayers DEF Tree
<1>2. v \in Level(v)[0] BY LevelIs
<1>3. Project(v, depth) \in ProjectedLayers(Level(v))[0] BY <1>0, <1>2, ProjectedIn
<1> QED BY <1>1, <1>3, TreeIn

\* The members of a scrubbed map.
LEMMA ScrubbedMap ==
  ASSUME NEW rank \in Ranks, NEW v, Tree("data", rank, v), v.kind = "map", Scrub(v) # Error
  PROVE  /\ Scrub(v).kind = "map" /\ Len(Scrub(v).kids) = Len(v.kids)
         /\ \A i \in 1..Len(v.kids) : Scrub(v).kids[i]
              = Entry(v.kids[i].key, IF IsSensitiveKey(v.kids[i].key) THEN Redaction
                                     ELSE Scrub(v.kids[i].value))
<1> DEFINE members == [i \in DOMAIN v.kids |->
              IF v.kind = "map" /\ IsSensitiveKey(v.kids[i].key) THEN Redaction
              ELSE Scrub(v.kids[i].value)]
           n == Len(v.kids)
           r == Scrub(v)
<1>1. IsTree(v) /\ DataNode(rank, v) BY TreeNodes DEF Fit
<1>2. Shaped(v) BY <1>1 DEF DataNode
<1>3. n \in Nat /\ DOMAIN v.kids = 1..n BY <1>2 DEF Shaped
<1>4. r = Rebuilt(v, members) BY <1>1, ScrubIs DEF Containers
<1>5. DOMAIN members = 1..n /\ \A i \in 1..n : members[i] =
        IF IsSensitiveKey(v.kids[i].key) THEN Redaction ELSE Scrub(v.kids[i].value)
  BY <1>3
<1> HIDE DEF members
<1>6. Holds(r, v, n, members) /\ Len(r.kids) = n
  <2> HIDE DEF r
  <2>1. r # Error BY DEF r
  <2> QED BY <1>2, <1>3, <1>4, <1>5, <2>1, RebuiltKids
<1> HIDE DEF r
<1>7. r.kind = "map" /\ \A i \in 1..n : r.kids[i] = Entry(v.kids[i].key, members[i])
  BY <1>6 DEF Holds
<1> QED BY <1>5, <1>6, <1>7 DEF r

\* What becomes of a member on its way through the gate.
Passed(key, v) == IF IsSensitiveKey(key) THEN Project(Redaction, 1) ELSE Project(Scrub(v), 1)

\* r holds the first members of v that passed, and a mark if that are not all.
Gated(r, v) ==
  \E m \in 0..Len(v.kids) :
    /\ Len(v.kids) <= MaxAttributes => m = Len(v.kids)
    /\ \A i \in 1..m : r.kids[i] = Entry(v.kids[i].key, Passed(v.kids[i].key, v.kids[i].value))
    /\ m = Len(v.kids) => Len(r.kids) = m
    /\ m # Len(v.kids) => Len(r.kids) = m + 1 /\ r.kids[m + 1] = Entry(TruncatedKey, Truncation)

LEMMA GateIs ==
  ASSUME NEW rank \in Ranks, NEW v, Tree("data", rank, v), v.kind = "map", Gate(v) # Error
  PROVE  /\ Tree("json", rank, Gate(v)) /\ Gate(v).kind = "map" /\ Gated(Gate(v), v)
         /\ \A i \in 1..Len(v.kids) : i <= MaxAttributes =>
              Passed(v.kids[i].key, v.kids[i].value) # Error
<1> DEFINE s == Scrub(v)
           r == Gate(v)
<1>0. MaxDepth \in Nat \ {0} /\ MaxAttributes \in Nat \ {0} /\ Height \in Nat \ {0}
  BY LimitsAssumption
<1>1. s # Error /\ r = ProjectAttributes(s) BY DEF Gate
<1>2. Tree("scrubbed", rank, s) BY <1>1, ScrubTree
<1>3. /\ s.kind = "map" /\ Len(s.kids) = Len(v.kids)
      /\ \A i \in 1..Len(v.kids) : s.kids[i]
              = Entry(v.kids[i].key, IF IsSensitiveKey(v.kids[i].key) THEN Redaction
                                     ELSE Scrub(v.kids[i].value))
  BY <1>1, ScrubbedMap
<1> HIDE DEF s
<1> DEFINE members == [i \in First(MaxAttributes, s) |-> Project(s.kids[i].value, 1)]
<1>4. r = Shortened(s, members) BY <1>1 DEF ProjectAttributes
<1>5. IsTree(s) /\ s \in Nodes(s) /\ ScrubbedNode(rank, s) BY <1>2, TreeNodes DEF Fit
<1>6. s \in NodesOver(Nodes(s)) /\ Shaped(s) BY <1>5, NodeTrees DEF ScrubbedNode, DataNode
<1>7. PICK m \in Nat : First(MaxAttributes, s) = 1..m /\ m <= Len(s.kids) /\ m <= MaxAttributes
                       /\ (IF Len(s.kids) <= MaxAttributes THEN m = Len(s.kids)
                           ELSE m = MaxAttributes)
  BY <1>0, <1>6, FirstIs
<1>a. Len(s.kids) \in Nat /\ DOMAIN s.kids = 1..Len(s.kids) BY <1>6 DEF Shaped
<1>8. Listing(members, m) /\ \A i \in 1..m : members[i] = Project(s.kids[i].value, 1)
  BY <1>7 DEF Listing
<1> HIDE DEF members
<1> DEFINE L == ProjectedLayers(Level(s))
<1>9. Layers("json", rank, L) BY <1>2, ProjectLayers DEF Tree
<1>10. 1 \in 0..Height /\ 1 \in 0..MaxDepth BY <1>0
<1>11. ASSUME NEW i \in 1..m
       PROVE  /\ members[i] # Error => members[i] \in L[1]
              /\ s.kids[i].value = Redaction => members[i] \in {Redaction, Truncation}
              /\ Level(s)[1] # {}
  <2>1. i \in DOMAIN s.kids BY <1>7, <1>a
  <2>2. s.kids[i].value \in Level(s)[1] BY <1>2, <2>1, TreeMembers
  <2>3. Project(s.kids[i].value, 1) # Error => Project(s.kids[i].value, 1) \in L[1]
    BY <1>10, <2>2, ProjectedIn
  <2>4. s.kids[i].value = Redaction => Project(s.kids[i].value, 1) \in {Redaction, Truncation}
    BY <1>10, MarksProjected
  <2> QED BY <1>8, <2>2, <2>3, <2>4
<1>12. m # Len(s.kids) => Truncation \in L[1]
  <2> SUFFICES ASSUME m # Len(s.kids) PROVE Truncation \in L[1] OBVIOUS
  <2>1. 1 \in 1..m BY <1>0, <1>7, <1>a
  <2>2. Level(s)[1] # {} BY <1>11, <2>1
  <2> QED BY <1>10, <2>2, ProjectedIn
<1> HIDE DEF L
<1>13. r # Error /\ s.kind \in Containers BY <1>3 DEF Containers
<1> HIDE DEF r
<1>14. r \in NodesOver(L[1]) /\ JsonNode(rank, r)
  <2>1. Shortened(s, members) # Error BY <1>4, <1>13
  <2>2. Shortened(s, members) \in NodesOver(L[1]) /\ JsonNode(rank, Shortened(s, members))
    BY <1>5, <1>7, <1>8, <1>11, <1>12, <1>13, <2>1, ShortenedFit
  <2> QED BY <1>4, <2>2
<1>15. Tree("json", rank, r)
  <2>1. Fit("json", rank, r) BY <1>14 DEF Fit
  <2> QED BY <1>9, <1>14, <2>1, RetopLayers
<1>16. /\ Holds(r, s, m, members)
       /\ m = Len(s.kids) => Len(r.kids) = m
       /\ m # Len(s.kids) => Len(r.kids) = m + 1 /\ r.kids[m + 1] = Mark(s)
  BY <1>4, <1>6, <1>7, <1>8, <1>13, ShortenedKids
<1>17. ASSUME NEW i \in 1..m
       PROVE  /\ r.kids[i] = Entry(v.kids[i].key, Passed(v.kids[i].key, v.kids[i].value))
              /\ Passed(v.kids[i].key, v.kids[i].value) # Error
  <2>1. i \in 1..Len(v.kids) BY <1>3, <1>7, <1>a
  <2>2. s.kids[i] = Entry(v.kids[i].key, IF IsSensitiveKey(v.kids[i].key) THEN Redaction
                                         ELSE Scrub(v.kids[i].value))
    BY <1>3, <2>1
  <2>3. s.kids[i].key = v.kids[i].key
        /\ s.kids[i].value = IF IsSensitiveKey(v.kids[i].key) THEN Redaction
                             ELSE Scrub(v.kids[i].value)
    BY <2>2 DEF Entry
  <2>4. r.kids[i] = Entry(s.kids[i].key, members[i]) /\ members[i] # Error BY <1>16 DEF Holds
  <2>5. members[i] = Passed(v.kids[i].key, v.kids[i].value) BY <1>8, <2>3 DEF Passed
  <2> QED BY <2>3, <2>4, <2>5
<1>18. Mark(s) = Entry(TruncatedKey, Truncation) BY <1>3 DEF Mark
<1>19. Gated(r, v)
  <2>1. m \in 0..Len(v.kids) /\ (Len(v.kids) <= MaxAttributes => m = Len(v.kids))
    BY <1>3, <1>7, <1>a
  <2> QED BY <1>3, <1>16, <1>17, <1>18, <2>1 DEF Gated
<1>20. ASSUME NEW i \in 1..Len(v.kids), i <= MaxAttributes
       PROVE  Passed(v.kids[i].key, v.kids[i].value) # Error
  <2>1. i \in 1..m
    <3>1. First(MaxAttributes, s) = 1..(IF Len(s.kids) <= MaxAttributes THEN Len(s.kids)
                                        ELSE MaxAttributes)
      BY DEF First
    <3>2. i \in 1..(IF Len(s.kids) <= MaxAttributes THEN Len(s.kids) ELSE MaxAttributes)
      BY <1>3, <1>a, <1>20
    <3> QED BY <1>7, <3>1, <3>2
  <2> QED BY <1>17, <2>1
<1>21. r.kind = "map" BY <1>3, <1>16 DEF Holds
<1> QED BY <1>15, <1>19, <1>20, <1>21 DEF r

\* Nothing that passes fails.
LEMMA GateWorks ==
  ASSUME NEW rank \in Ranks, NEW v, Tree("data", rank, v), v.kind = "map",
         \A i \in 1..Len(v.kids) :
           IsSensitiveKey(v.kids[i].key)
           \/ (Scrub(v.kids[i].value) # Error /\ Project(Scrub(v.kids[i].value), 1) # Error)
  PROVE  Gate(v) # Error
<1> DEFINE members == [i \in DOMAIN v.kids |->
              IF v.kind = "map" /\ IsSensitiveKey(v.kids[i].key) THEN Redaction
              ELSE Scrub(v.kids[i].value)]
           n == Len(v.kids)
           s == Scrub(v)
<1>0. MaxDepth \in Nat \ {0} /\ MaxAttributes \in Nat \ {0} BY LimitsAssumption
<1>1. IsTree(v) /\ DataNode(rank, v) BY TreeNodes DEF Fit
<1>2. Shaped(v) BY <1>1 DEF DataNode
<1>3. n \in Nat /\ DOMAIN v.kids = 1..n BY <1>2 DEF Shaped
<1>4. s = Rebuilt(v, members) BY <1>1, ScrubIs DEF Containers
<1>m. Redaction # Error /\ Truncation # Error BY Marks
<1>5. \A i \in DOMAIN members : members[i] # Error BY <1>3, <1>m
<1>6. Rebuilt(v, members).kind = "map"
  <2> DEFINE kids == [i \in DOMAIN members |-> Entry(v.kids[i].key, members[i])]
  <2>1. Rebuilt(v, members) = [v EXCEPT !.kids = kids] BY <1>5 DEF Rebuilt
  <2>2. v = [kind |-> v.kind, text |-> v.text, kids |-> v.kids] BY <1>2 DEF Shaped
  <2> HIDE DEF kids, members
  <2>3. [v EXCEPT !.kids = kids].kind = v.kind BY <2>2
  <2> QED BY <2>1, <2>3
<1>7. s # Error BY <1>4, <1>6 DEF Error, Node
<1>8. /\ s.kind = "map" /\ Len(s.kids) = Len(v.kids)
      /\ \A i \in 1..Len(v.kids) : s.kids[i]
              = Entry(v.kids[i].key, IF IsSensitiveKey(v.kids[i].key) THEN Redaction
                                     ELSE Scrub(v.kids[i].value))
  BY <1>7, ScrubbedMap
<1>9. Tree("scrubbed", rank, s) BY <1>7, ScrubTree
<1> HIDE DEF s, members
<1>10. IsTree(s) /\ s \in Nodes(s) /\ ScrubbedNode(rank, s) BY <1>9, TreeNodes DEF Fit
<1>11. s \in NodesOver(Nodes(s)) /\ Shaped(s) BY <1>10, NodeTrees DEF ScrubbedNode, DataNode
<1>12. First(MaxAttributes, s) \subseteq DOMAIN s.kids BY <1>0, <1>11, FirstIs
<1>13. DOMAIN s.kids = 1..n BY <1>8, <1>11 DEF Shaped
<1> DEFINE parts == [i \in First(MaxAttributes, s) |-> Project(s.kids[i].value, 1)]
<1>14. ASSUME NEW i \in First(MaxAttributes, s) PROVE Project(s.kids[i].value, 1) # Error
  <2>1. i \in 1..n BY <1>12, <1>13
  <2>2. s.kids[i] = Entry(v.kids[i].key, IF IsSensitiveKey(v.kids[i].key) THEN Redaction
                                         ELSE Scrub(v.kids[i].value))
    BY <1>8, <2>1
  <2>3. s.kids[i].value = IF IsSensitiveKey(v.kids[i].key) THEN Redaction
                          ELSE Scrub(v.kids[i].value)
    BY <2>2 DEF Entry
  <2>4. 1 \in 0..MaxDepth BY <1>0
  <2>5. Project(Redaction, 1) # Error BY <2>4, <1>m, MarksProjected
  <2> QED BY <2>1, <2>3, <2>5
<1> DEFINE kept == Rebuilt(s, parts)
<1>15. kept.kind = "map"
  <2> DEFINE kids == [i \in DOMAIN parts |-> Entry(s.kids[i].key, parts[i])]
  <2>1. kept = [s EXCEPT !.kids = kids] BY <1>14 DEF Rebuilt
  <2>2. s = [kind |-> s.kind, text |-> s.text, kids |-> s.kids] BY <1>11 DEF Shaped
  <2> HIDE DEF kids, parts
  <2>3. [s EXCEPT !.kids = kids].kind = s.kind BY <2>2
  <2> QED BY <1>8, <2>1, <2>3
<1> DEFINE r == Shortened(s, parts)
<1>16. r.kind = "map"
  <2> DEFINE mark == Entry(IF s.kind = "map" THEN TruncatedKey ELSE <<>>, Truncation)
  <2>1. r = IF kept = Error \/ Len(s.kids) = Len(parts) THEN kept
            ELSE [kept EXCEPT !.kids = Append(@, mark)]
    BY DEF Shortened
  <2> HIDE DEF kept, mark, parts
  <2>2. [kept EXCEPT !.kids = Append(@, mark)].kind = kept.kind OBVIOUS
  <2> HIDE DEF r
  <2> QED BY <1>15, <2>1, <2>2
<1>17. r # Error
  <2> HIDE DEF r
  <2> QED BY <1>16 DEF Error, Node
<1>18. Gate(v) = r BY <1>7 DEF Gate, ProjectAttributes, s
<1> HIDE DEF r
<1> QED BY <1>17, <1>18

-----------------------------------------------------------------------------
(* Maps made of entries.                                                     *)

Entries(S) == [key : Seq(Symbols), value : S]

LEMMA KidsIn ==
  ASSUME NEW class, NEW rank, NEW v, Tree(class, rank, v)
  PROVE  v.kids \in Seq(Entries(Level(v)[1]))
<1>1. Height \in Nat \ {0} /\ 0 \in 0..Height BY LimitsAssumption
<1>2. v \in Level(v)[0] /\ Layered(Level(v)) BY LevelIs DEF Tree, Layers
<1>3. v \in NodesOver(Below(Level(v), 0)) BY <1>1, <1>2 DEF Layered
<1>4. Below(Level(v), 0) = Level(v)[1] BY <1>1 DEF Below
<1> QED BY <1>3, <1>4 DEF NodesOver, Entries

LEMMA MapOfTree ==
  ASSUME NEW rank \in Ranks, NEW L, Layers("data", rank, L),
         NEW kids, kids \in Seq(Entries(L[1]))
  PROVE  /\ Tree("data", rank, MapOf(kids)) /\ MapOf(kids).kind = "map" /\ MapOf(kids).kids = kids
         /\ Layers("data", rank, Retop(L, MapOf(kids)))
         /\ MapOf(kids) \in Retop(L, MapOf(kids))[0]
<1> DEFINE w == MapOf(kids)
<1>1. w.kind = "map" /\ w.text = <<>> /\ w.kids = kids
      /\ w = [kind |-> "map", text |-> <<>>, kids |-> kids]
  BY DEF MapOf, Node
<1> HIDE DEF w
<1>2. w \in NodesOver(L[1])
  <2>1. "map" \in Kinds /\ <<>> \in Seq(Symbols) BY DEF Kinds, JsonKinds
  <2>2. w \in [kind : Kinds, text : Seq(Symbols), kids : Seq(Entries(L[1]))]
    BY <1>1, <2>1
  <2> QED BY <2>2 DEF NodesOver, Entries
<1>3. Shaped(w) BY <1>2, ShapedNode
<1>4. Free(w.text) BY <1>1 DEF Free
<1>5. DataNode(rank, w) BY <1>1, <1>3, <1>4 DEF DataNode, Containers
<1>6. Fit("data", rank, w) BY <1>5 DEF Fit
<1>7. Layers("data", rank, Retop(L, w)) /\ w \in Retop(L, w)[0] /\ Tree("data", rank, w)
  BY <1>2, <1>6, RetopLayers
<1> QED BY <1>1, <1>7 DEF w

\* Entries taken out of a map.
LEMMA ExcludingIs ==
  ASSUME NEW E, NEW v, v.kids \in Seq(E), NEW keys
  PROVE  /\ Excluding(v, keys).kids \in Seq(E) /\ Excluding(v, keys).kind = "map"
         /\ Len(Excluding(v, keys).kids) <= Len(v.kids)
         /\ \A i \in DOMAIN Excluding(v, keys).kids :
              /\ Excluding(v, keys).kids[i].key \notin keys
              /\ \E j \in DOMAIN v.kids : Excluding(v, keys).kids[i] = v.kids[j]
         /\ \A j \in DOMAIN v.kids : v.kids[j].key \notin keys =>
              \E i \in DOMAIN Excluding(v, keys).kids : Excluding(v, keys).kids[i] = v.kids[j]
<1> DEFINE T == {e \in {v.kids[i] : i \in DOMAIN v.kids} : e.key \in keys}
           s == v.kids
           w == Without(s, T)
<1>1. Excluding(v, keys).kids = w /\ Excluding(v, keys).kind = "map"
  BY DEF Excluding, MapOf, Node
<1>2. s \in Seq(E) /\ Len(s) \in Nat /\ DOMAIN s = 1..Len(s) OBVIOUS
<1>3. ASSUME NEW j \in 1..Len(s) PROVE s[j] \in T <=> s[j].key \in keys BY <1>2
<1> HIDE DEF T, s
<1>4. w \in Seq(E) /\ Len(w) <= Len(s) BY <1>2, WithoutPlaces, WithoutShorter
<1>5. PICK e : Places(e, w, s, T) BY <1>2, WithoutPlaces
<1> HIDE DEF w
<1>6. DOMAIN w = 1..Len(w) BY <1>4
<1>7. ASSUME NEW i \in DOMAIN w
      PROVE  w[i].key \notin keys /\ \E j \in DOMAIN s : w[i] = s[j]
  <2>1. e[i] \in 1..Len(s) /\ w[i] = s[e[i]] /\ s[e[i]] \notin T BY <1>5, <1>6 DEF Places
  <2>2. s[e[i]].key \notin keys BY <1>3, <2>1
  <2> QED BY <1>2, <2>1, <2>2
<1>8. ASSUME NEW j \in DOMAIN s, s[j].key \notin keys PROVE \E i \in DOMAIN w : w[i] = s[j]
  <2>1. j \in 1..Len(s) /\ s[j] \notin T BY <1>2, <1>3, <1>8
  <2>2. PICK i \in 1..Len(w) : e[i] = j BY <1>5, <2>1 DEF Places
  <2>3. w[i] = s[j] BY <1>5, <2>2 DEF Places
  <2> QED BY <1>6, <2>3
<1> QED BY <1>1, <1>4, <1>7, <1>8 DEF s

\* The same of a tree.
LEMMA ExcludedEntries ==
  ASSUME NEW v, IsTree(v), NEW keys, NEW w, w = Excluding(v, keys)
  PROVE  /\ Len(w.kids) \in Nat /\ Len(w.kids) <= Len(v.kids) /\ DOMAIN w.kids = 1..Len(w.kids)
         /\ w.kind = "map"
         /\ \A i \in DOMAIN w.kids : /\ w.kids[i].key \notin keys
                                     /\ \E j \in DOMAIN v.kids : w.kids[i] = v.kids[j]
         /\ \A j \in DOMAIN v.kids : v.kids[j].key \notin keys =>
              \E i \in DOMAIN w.kids : w.kids[i] = v.kids[j]
<1> DEFINE E == [key : Seq(Symbols), value : Nodes(v)]
<1>1. v \in NodesOver(Nodes(v)) BY NodeTrees
<1>2. v.kids \in Seq(E) BY <1>1 DEF NodesOver
<1> HIDE DEF E
<1>3. /\ Excluding(v, keys).kids \in Seq(E) /\ Excluding(v, keys).kind = "map"
      /\ Len(Excluding(v, keys).kids) <= Len(v.kids)
      /\ \A i \in DOMAIN Excluding(v, keys).kids :
              /\ Excluding(v, keys).kids[i].key \notin keys
              /\ \E j \in DOMAIN v.kids : Excluding(v, keys).kids[i] = v.kids[j]
      /\ \A j \in DOMAIN v.kids : v.kids[j].key \notin keys =>
              \E i \in DOMAIN Excluding(v, keys).kids : Excluding(v, keys).kids[i] = v.kids[j]
  BY <1>2, ExcludingIs
<1>4. Len(w.kids) \in Nat /\ DOMAIN w.kids = 1..Len(w.kids) BY <1>3
<1> QED BY <1>3, <1>4

\* They leave a tree of data.
LEMMA ExcludingTree ==
  ASSUME NEW rank \in Ranks, NEW v, Tree("data", rank, v), NEW keys
  PROVE  /\ Tree("data", rank, Excluding(v, keys)) /\ Excluding(v, keys).kind = "map"
         /\ Layers("data", rank, Retop(Level(v), Excluding(v, keys)))
         /\ Excluding(v, keys) \in Retop(Level(v), Excluding(v, keys))[0]
<1> DEFINE kids == Excluding(v, keys).kids
           L == Level(v)
<1>1. v.kids \in Seq(Entries(L[1])) /\ Layers("data", rank, L) BY KidsIn DEF Tree
<1> HIDE DEF L
<1>2. kids \in Seq(Entries(L[1])) BY <1>1, ExcludingIs
<1>3. Excluding(v, keys) = MapOf(kids) BY DEF Excluding, MapOf, Node
<1> HIDE DEF kids
<1>4. /\ Tree("data", rank, MapOf(kids)) /\ MapOf(kids).kind = "map"
      /\ Layers("data", rank, Retop(L, MapOf(kids))) /\ MapOf(kids) \in Retop(L, MapOf(kids))[0]
  BY <1>1, <1>2, MapOfTree
<1> QED BY <1>3, <1>4 DEF L

\* Of a node of data, whether its secret is found by who knows its texts so well.
Found(rank, u) ==
  /\ rank \in {2, 3} /\ u.kind = "enum" => ~IsSensitiveValue(u.text) \/ Len(u.text) <= MaxLength
  /\ rank = 3 /\ u.kind \in {"object", "enum"} => ~IsSensitiveValue(u.text)

LEMMA DataNodeIs ==
  ASSUME NEW levels, NEW v, IsData(v, levels), NEW rank \in Ranks,
         NEW d \in 0..Height, NEW u \in Level(v)[d], Found(rank, u)
  PROVE  /\ u \in NodesOver(Nodes(v)) /\ DataNode(rank, u)
         /\ u.kids # <<>> => u.kind \in Containers /\ d < levels
<1> DEFINE R == [kind : Kinds \ {"error"}, text : Seq(STRING),
                 kids : Seq([key : Seq(STRING), value : Nodes(v)])]
<1>1. /\ u \in R
      /\ u.kids # <<>> => u.kind \in Containers /\ d < levels
      /\ u.kind # "bytes" => \A i \in DOMAIN u.text : u.text[i] # "b"
      /\ u.kind # "bytes" /\ (\E i \in DOMAIN u.text : u.text[i] = "s") =>
           u.kind \in {"text", "object", "enum"} /\ IsSensitiveValue(u.text)
  BY DEF IsData
<1> HIDE DEF R
<1>2. u \in NodesOver(Nodes(v)) /\ u.kind # "error"
  <2>1. STRING \subseteq Symbols BY DEF Symbols
  <2>2. \A t \in Seq(STRING) : t \in Seq(Symbols)
    <3> DEFINE A == STRING
    <3>1. A \subseteq Symbols BY <2>1
    <3> HIDE DEF A
    <3>2. \A t \in Seq(A) : t \in Seq(Symbols) BY <3>1
    <3> QED BY <3>2 DEF A
  <2> DEFINE E == [key : Seq(STRING), value : Nodes(v)]
             F == [key : Seq(Symbols), value : Nodes(v)]
  <2>3. \A e \in E : e \in F BY <2>2
  <2>4. u.kids \in Seq(E) /\ u.kind \in Kinds \ {"error"} /\ u.text \in Seq(STRING)
        /\ u = [kind |-> u.kind, text |-> u.text, kids |-> u.kids]
    BY <1>1 DEF R
  <2> HIDE DEF E, F
  <2>5. u.kids \in Seq(F) BY <2>3, <2>4
  <2>6. u \in [kind : Kinds, text : Seq(Symbols), kids : Seq(F)] BY <2>2, <2>4, <2>5
  <2> QED BY <2>4, <2>6 DEF NodesOver, F
<1>3. Shaped(u) BY <1>2, ShapedNode
<1>4. u.kind # "bytes" =>
        \/ Free(u.text)
        \/ u.kind \in {"text", "object", "enum"} /\ NoBytes(u.text) /\ IsSensitiveValue(u.text)
  BY <1>1 DEF Free, NoBytes
<1>5. u.kind \in {"object", "enum"} /\ ~IsSensitiveValue(u.text) => Free(u.text) BY <1>4
<1>6. u.kind \notin Containers => u.kids = <<>> BY <1>1
<1>7. DataNode(rank, u) BY <1>2, <1>3, <1>4, <1>5, <1>6 DEF DataNode, Found
<1> QED BY <1>1, <1>2, <1>7

\* What records are made of is data.
LEMMA DataIs ==
  ASSUME NEW levels \in {Height, Height - 1}, NEW v, IsData(v, levels), NEW rank \in Ranks,
         \A u \in Nodes(v) : Found(rank, u)
  PROVE  Tree("data", rank, v) /\ (levels = Height - 1 => Level(v)[Height] = {})
<1>0. Height \in Nat \ {0} BY LimitsAssumption
<1>1. ASSUME NEW d \in 0..Height, NEW u \in Level(v)[d]
      PROVE  /\ u \in NodesOver(Nodes(v)) /\ DataNode(rank, u)
             /\ u.kids # <<>> => u.kind \in Containers /\ d < levels
  <2>1. u \in Nodes(v) BY DEF Nodes
  <2>2. Found(rank, u) BY <2>1
  <2> QED BY <2>2, DataNodeIs
<1>2. ASSUME NEW d \in 0..Height, NEW u \in Level(v)[d]
      PROVE  u \in NodesOver(Below(Level(v), d)) /\ DataNode(rank, u)
  <2>1. ASSUME NEW i \in DOMAIN u.kids PROVE u.kids[i].value \in Below(Level(v), d)
    <3>1. u.kids # <<>> OBVIOUS
    <3>2. d < levels BY <1>1, <3>1
    <3>3. d # Height BY <1>0, <3>2
    <3>4. Level(v)[d + 1] = Deeper(Level(v)[d]) BY <3>3, LevelIs
    <3>5. u.kids[i].value \in Level(v)[d + 1] BY <3>4 DEF Deeper, Members
    <3> QED BY <3>3, <3>5 DEF Below
  <2>2. u \in NodesOver(Below(Level(v), d)) BY <1>1, <2>1, NodeOver
  <2> QED BY <1>1, <2>2
<1>3. Layered(Level(v)) BY <1>2 DEF Layered
<1>4. \A d \in 0..Height : \A u \in Level(v)[d] : Fit("data", rank, u) BY <1>2 DEF Fit
<1>5. Tree("data", rank, v) BY <1>3, <1>4 DEF Layers, Tree
<1>6. ASSUME levels = Height - 1 PROVE Level(v)[Height] = {}
  <2>1. Height - 1 \in 0..Height /\ Height - 1 # Height /\ (Height - 1) + 1 = Height BY <1>0
  <2>2. Level(v)[Height] = Deeper(Level(v)[Height - 1]) BY <2>1, LevelIs
  <2>3. ASSUME NEW u \in Level(v)[Height - 1] PROVE Members(u) = {}
    <3>1. u.kids # <<>> => Height - 1 < Height - 1 BY <1>1, <1>6, <2>1
    <3>2. u.kids = <<>> BY <1>0, <3>1
    <3> QED BY <3>2 DEF Members
  <2> QED BY <2>2, <2>3 DEF Deeper
<1> QED BY <1>5, <1>6

\* Attributes are.
LEMMA AttributesAre ==
  ASSUME NEW v, IsData(v, Height)
  PROVE  Tree("data", 1, v)
<1>1. \A u \in Nodes(v) : Found(1, u) BY DEF Found
<1> QED BY <1>1, DataIs DEF Ranks

\* So is one of them, and how well its texts are known.
LEMMA AttributeIs ==
  ASSUME NEW v, IsData(v, Height), NEW rank \in Ranks, NEW i \in DOMAIN v.kids,
         \A u \in Nodes(v.kids[i].value) : Found(rank, u)
  PROVE  Tree("data", rank, v.kids[i].value)
<1> DEFINE x == v.kids[i].value
<1>1. Tree("data", 1, v) BY AttributesAre
<1>2. Tree("data", 1, x) /\ x \in Level(v)[1] BY <1>1, TreeMembers
<1>3. 1 \in 0..Height BY LimitsAssumption
<1> HIDE DEF x
<1>4. Layered(Level(v)) /\ Layered(Level(x)) BY <1>1, <1>2 DEF Tree, Layers
<1>5. ASSUME NEW d \in 0..Height, NEW u \in Level(x)[d] PROVE Fit("data", rank, u)
  <2>1. u \in Nodes(x) BY DEF Nodes
  <2>2. Found(rank, u) BY <2>1 DEF x
  <2> DEFINE M == Shift(Level(v), 1)
  <2>3. Layered(M) /\ M[0] = Level(v)[1] BY <1>3, <1>4, ShiftLayered
  <2>4. PICK k \in 0..Height : u \in M[k]
    <3> HIDE DEF M
    <3> QED BY <1>2, <2>1, <2>3, NodesWithin
  <2>5. 1 + k <= Height /\ u \in Level(v)[1 + k] BY <2>4 DEF Shift
  <2>6. 1 + k \in 0..Height BY <2>5
  <2> QED BY <2>2, <2>5, <2>6, DataNodeIs DEF Fit
<1> QED BY <1>4, <1>5 DEF Tree, Layers, x

\* What is canonical has its secrets in texts.
LEMMA CanonicalIs ==
  ASSUME NEW rank \in Ranks \ {0}, NEW v, Tree("data", rank, v), IsCanonical(v)
  PROVE  Tree("data", 3, v)
<1>1. ASSUME NEW d \in 0..Height, NEW u \in Level(v)[d] PROVE Fit("data", 3, u)
  <2>1. u \in Nodes(v) BY DEF Nodes
  <2>2. u.kind \in JsonKinds BY <2>1 DEF IsCanonical
  <2>3. DataNode(rank, u) BY DEF Tree, Layers, Fit
  <2>4. DataNode(3, u) BY <2>2, <2>3 DEF DataNode, JsonKinds
  <2> QED BY <2>4 DEF Fit
<1> QED BY <1>1 DEF Tree, Layers

-----------------------------------------------------------------------------
(* The request body and the event it goes into.                              *)

LEMMA ErrorProjected ==
  ASSUME NEW depth \in 0..MaxDepth
  PROVE  Project(Error, depth) = IF depth = MaxDepth THEN Truncation ELSE Error
<1>0. Height \in Nat BY LimitsAssumption
<1>1. Error.kind = "error" /\ Error.text = <<>> /\ Error.kids = <<>>
      /\ Error = [kind |-> "error", text |-> <<>>, kids |-> <<>>]
  BY DEF Error, Node
<1>2. ASSUME NEW S PROVE Error \in NodesOver(S)
  <2> DEFINE E == [key : Seq(Symbols), value : S]
  <2>1. <<>> \in Seq(E) /\ <<>> \in Seq(Symbols) /\ "error" \in Kinds BY DEF Kinds
  <2> HIDE DEF E
  <2>2. Error \in [kind : Kinds, text : Seq(Symbols), kids : Seq(E)] BY <1>1, <2>1
  <2> QED BY <2>2 DEF NodesOver, E
<1> DEFINE L == [d \in 0..Height |-> IF d = 0 THEN {Error} ELSE {}]
<1>3. Layered(L) /\ Error \in L[0]
  <2>1. \A d \in 0..Height : \A u \in L[d] : u = Error BY <1>0
  <2>2. \A d \in 0..Height : Error \in NodesOver(Below(L, d)) BY <1>2
  <2> QED BY <1>0, <2>1, <2>2 DEF Layered
<1> HIDE DEF L
<1>4. IsTree(Error) BY <1>3, TreeWithin
<1>5. CASE depth = MaxDepth BY <1>4, <1>5, ProjectIs
<1>6. CASE depth # MaxDepth BY <1>1, <1>4, <1>6, ProjectIs DEF Containers
<1> QED BY <1>5, <1>6

\* Scrubbing and projecting a map bring in no name but that of the mark.
LEMMA KeysPassed ==
  ASSUME NEW rank \in Ranks, NEW v, Tree("data", rank, v), v.kind = "map",
         NEW depth \in 0..MaxDepth, Project(Scrub(v), depth) # Error
  PROVE  /\ Keys(Project(Scrub(v), depth)) \subseteq Keys(v) \union {TruncatedKey}
         /\ depth # MaxDepth => Project(Scrub(v), depth).kind = "map"
<1> DEFINE s == Scrub(v)
           r == Project(s, depth)
<1>0. MaxEntries \in Nat BY LimitsAssumption
<1>1. CASE depth # MaxDepth
  <2>1. s # Error BY <1>1, ErrorProjected
  <2>2. Tree("scrubbed", rank, s) BY <2>1, ScrubTree
  <2>3. /\ s.kind = "map" /\ Len(s.kids) = Len(v.kids)
        /\ \A i \in 1..Len(v.kids) : s.kids[i]
              = Entry(v.kids[i].key, IF IsSensitiveKey(v.kids[i].key) THEN Redaction
                                     ELSE Scrub(v.kids[i].value))
    BY <2>1, ScrubbedMap
  <2> HIDE DEF s
  <2>4. IsTree(s) /\ ScrubbedNode(rank, s) BY <2>2, TreeNodes DEF Fit
  <2>5. s \in NodesOver(Nodes(s)) /\ Shaped(s) BY <2>4, NodeTrees DEF ScrubbedNode, DataNode
  <2> DEFINE members == [i \in First(MaxEntries, s) |-> Project(s.kids[i].value, depth + 1)]
  <2>6. r = Shortened(s, members) BY <1>1, <2>3, <2>4, ProjectIs DEF Containers
  <2>7. PICK m \in Nat : First(MaxEntries, s) = 1..m /\ m <= Len(s.kids)
    BY <1>0, <2>5, FirstIs
  <2>8. Listing(members, m) BY <2>7 DEF Listing
  <2> HIDE DEF members
  <2>9. r # Error BY DEF s
  <2> HIDE DEF r
  <2>10. /\ Holds(r, s, m, members)
         /\ m = Len(s.kids) => Len(r.kids) = m
         /\ m # Len(s.kids) => Len(r.kids) = m + 1 /\ r.kids[m + 1] = Mark(s)
    BY <2>5, <2>6, <2>7, <2>8, <2>9, ShortenedKids
  <2>11. Shaped(r)
    <3>1. Tree("json", rank, r) BY <2>2, <2>9, ProjectTree DEF r
    <3>2. Fit("json", rank, r) BY <3>1, TreeNodes
    <3> QED BY <3>2 DEF Fit, JsonNode, DataNode
  <2>12. Len(s.kids) \in Nat /\ DOMAIN v.kids = 1..Len(s.kids)
         /\ DOMAIN r.kids = 1..Len(r.kids)
    <3>1. DataNode(rank, v) BY TreeNodes DEF Fit
    <3> QED BY <2>3, <2>5, <2>11, <3>1 DEF Shaped, DataNode
  <2>13. ASSUME NEW i \in DOMAIN r.kids
         PROVE  r.kids[i].key = TruncatedKey \/ \E j \in DOMAIN v.kids : r.kids[i].key = v.kids[j].key
    <3>1. CASE i \in 1..m
      <4>1. r.kids[i] = Entry(s.kids[i].key, members[i]) BY <2>10, <3>1 DEF Holds
      <4>2. i \in 1..Len(v.kids) /\ i \in DOMAIN v.kids BY <2>3, <2>7, <2>12, <3>1
      <4>3. s.kids[i] = Entry(v.kids[i].key, IF IsSensitiveKey(v.kids[i].key) THEN Redaction
                                             ELSE Scrub(v.kids[i].value))
        BY <2>3, <4>2
      <4>4. r.kids[i].key = s.kids[i].key BY <4>1 DEF Entry
      <4>5. s.kids[i].key = v.kids[i].key BY <4>3 DEF Entry
      <4> QED BY <4>2, <4>4, <4>5
    <3>2. CASE i \notin 1..m
      <4>1. r.kids[i] = Mark(s) BY <2>7, <2>10, <2>12, <3>2
      <4>2. Mark(s).key = TruncatedKey BY <2>3 DEF Mark, Entry
      <4> QED BY <4>1, <4>2
    <3> QED BY <3>1, <3>2
  <2>14. Keys(r) \subseteq Keys(v) \union {TruncatedKey} BY <2>13 DEF Keys
  <2>15. r.kind = "map" BY <2>3, <2>10 DEF Holds
  <2> QED BY <2>14, <2>15 DEF r, s
<1>2. CASE depth = MaxDepth
  <2>1. s # Error \/ s = Error OBVIOUS
  <2>2. CASE s # Error
    <3>1. Tree("scrubbed", rank, s) BY <2>2, ScrubTree
    <3>2. IsTree(s) BY <3>1, TreeNodes
    <3> HIDE DEF s
    <3>3. r = Truncation BY <1>2, <3>2, ProjectIs
    <3>4. DOMAIN Truncation.kids = {} BY DEF Truncation, Text, Node
    <3>5. Keys(Truncation) = {} BY <3>4 DEF Keys
    <3> QED BY <1>2, <3>3, <3>5 DEF s
  <2>3. CASE s = Error
    <3>1. r = Truncation BY <1>2, <2>3, ErrorProjected
    <3>4. DOMAIN Truncation.kids = {} BY DEF Truncation, Text, Node
    <3>5. Keys(Truncation) = {} BY <3>4 DEF Keys
    <3> QED BY <1>2, <3>1, <3>5
  <2> QED BY <2>2, <2>3
<1> QED BY <1>1, <1>2

\* What capture adds to an event.
ParseFailures == {"too_large", "invalid_json", "unsupported_shape"}

Allowed(r) == Excluding(r.data, Keys(r.data) \ BodyFields)

LEMMA StatusIs ==
  ASSUME NEW r
  PROVE  /\ BodyStatus(r) \in ParseFailures \union {"not_json", "skipped", "empty", "captured"}
         /\ BodyStatus(r) = "captured" => r.data # Error /\ r.data.kind = "map"
BY DEF BodyStatus, ParseFailures

LEMMA CapturedIs ==
  ASSUME NEW r
  PROVE  /\ ~r.wanted => CapturedBody(r) = NoBody
         /\ \/ CapturedBody(r) = NoBody
            \/ \E status \in ParseFailures : CapturedBody(r) = ParseStatus(status)
            \/ /\ r.data # Error /\ r.data.kind = "map"
               /\ CapturedBody(r) = MapOf(<<Entry(BodyKey, Project(Scrub(Allowed(r)), 0))>>)
<1> DEFINE status == BodyStatus(r)
           body == Allowed(r)
           c == CapturedBody(r)
<1> DEFINE whole == MapOf(<<Entry(BodyKey, Project(Scrub(body), 0))>>)
           part == CASE status \in {"empty", "not_json", "skipped"} -> NoBody
                     [] status = "captured" /\ body.kids = <<>> -> NoBody
                     [] status = "captured" /\ body.kids # <<>> -> whole
                     [] OTHER -> ParseStatus(status)
<1>1. c = CASE ~r.wanted \/ BodyFields = {} -> NoBody
            [] r.wanted /\ BodyFields # {} /\ r.declared = "large" -> ParseStatus("too_large")
            [] OTHER -> part
  BY DEF CapturedBody, Allowed
<1>2. /\ status \in ParseFailures \union {"not_json", "skipped", "empty", "captured"}
      /\ status = "captured" => r.data # Error /\ r.data.kind = "map"
  BY StatusIs
<1>3. "too_large" \in ParseFailures BY DEF ParseFailures
<1>4. part = NoBody \/ (status = "captured" /\ part = whole)
      \/ (status \in ParseFailures /\ part = ParseStatus(status))
  <2> HIDE DEF whole, status
  <2> QED BY <1>2
<1>5. c = NoBody \/ c = ParseStatus("too_large") \/ c = part
  <2> HIDE DEF part, c
  <2> QED BY <1>1
<1>6. ~r.wanted => c = NoBody
  <2> HIDE DEF part, c
  <2> QED BY <1>1
<1> HIDE DEF part, c, whole, status
<1> QED BY <1>2, <1>3, <1>4, <1>5, <1>6 DEF c, whole

\* The entries that capture adds: at most one, with a value that cannot be projected, or
\* a member of layers of data; of a body, only names of the allowlist are left.
LEMMA BodyEntries ==
  ASSUME NEW r, r.data = Error \/ (IsData(r.data, Height - 1) /\ IsCanonical(r.data)),
         NEW kids, kids = CapturedBody(r).kids
  PROVE  /\ kids = <<>> \/ \E e : kids = <<e>> /\ e.key \notin Protected \union {TruncatedKey}
         /\ \/ \E i \in DOMAIN kids : kids[i].value = Error
            \/ \E M : Layers("data", 3, M) /\ kids \in Seq(Entries(M[1]))
         /\ \A i \in DOMAIN kids : kids[i].key = BodyKey /\ kids[i].value # Error =>
              kids[i].value.kind = "map" /\ Keys(kids[i].value) \subseteq BodyFields \union {TruncatedKey}
<1>0. Height \in Nat \ {0} /\ MaxDepth \in Nat \ {0} BY LimitsAssumption
<1>1. \/ CapturedBody(r) = NoBody
      \/ \E status \in ParseFailures : CapturedBody(r) = ParseStatus(status)
      \/ /\ r.data # Error /\ r.data.kind = "map"
         /\ CapturedBody(r) = MapOf(<<Entry(BodyKey, Project(Scrub(Allowed(r)), 0))>>)
  BY CapturedIs
<1>2. CASE CapturedBody(r) = NoBody
  <2>1. kids = <<>> BY <1>2 DEF NoBody, MapOf, Node
  <2>2. Layers("data", 3, Leaves({}))
    <3>1. {} \subseteq NodesOver({}) /\ \A u \in {} : Fit("data", 3, u) OBVIOUS
    <3> QED BY <3>1, LeavesLayers
  <2>3. kids \in Seq(Entries(Leaves({})[1])) BY <2>1
  <2>4. DOMAIN kids = {} BY <2>1
  <2> QED BY <2>1, <2>2, <2>3, <2>4
<1>3. CASE \E status \in ParseFailures : CapturedBody(r) = ParseStatus(status)
  <2>1. PICK status \in ParseFailures : CapturedBody(r) = ParseStatus(status) BY <1>3
  <2> DEFINE name == <<"request.body.parse_status">>
             value == Text(<<status>>)
             e == Entry(name, value)
  <2>2. kids = <<e>> BY <2>1 DEF ParseStatus, MapOf, Node
  <2>3. status \in Symbols \ {"s", "b"} /\ "request.body.parse_status" \in Symbols
    BY DEF ParseFailures, Symbols
  <2>4. name \in Seq(Symbols) BY <2>3
  <2>5. <<status>> \in Seq(Symbols) /\ Free(<<status>>) BY <2>3, OneSymbol
  <2>6. value \in NodesOver({}) /\ DataNode(3, value) /\ value # Error BY <2>5, TextNode
  <2>7. name \notin Protected \union {TruncatedKey} /\ name # BodyKey
    BY DEF Protected, Authoritative, Restored, TruncatedKey, BodyKey
  <2>8. e.key = name /\ e.value = value BY DEF Entry
  <2> HIDE DEF name, value
  <2>9. Fit("data", 3, value) BY <2>6 DEF Fit
  <2>10. Layers("data", 3, Leaves({value})) /\ Leaves({value})[1] = {value}
    <3>1. {value} \subseteq NodesOver({}) /\ \A u \in {value} : Fit("data", 3, u) BY <2>6, <2>9
    <3> QED BY <3>1, LeavesLayers
  <2>11. e \in Entries({value}) BY <2>4 DEF Entries, Entry
  <2> HIDE DEF e
  <2>12. kids \in Seq(Entries(Leaves({value})[1])) BY <2>2, <2>10, <2>11
  <2>13. DOMAIN kids = {1} /\ kids[1] = e BY <2>2
  <2>14. \E f : kids = <<f>> /\ f.key \notin Protected \union {TruncatedKey} BY <2>2, <2>7, <2>8
  <2>15. \E M : Layers("data", 3, M) /\ kids \in Seq(Entries(M[1])) BY <2>10, <2>12
  <2> QED BY <2>7, <2>8, <2>13, <2>14, <2>15
<1>4. CASE /\ r.data # Error /\ r.data.kind = "map"
           /\ CapturedBody(r) = MapOf(<<Entry(BodyKey, Project(Scrub(Allowed(r)), 0))>>)
  <2> DEFINE body == Allowed(r)
             value == Project(Scrub(body), 0)
             e == Entry(BodyKey, value)
  <2>1. kids = <<e>> BY <1>4 DEF MapOf, Node
  <2>2. e.key = BodyKey /\ e.value = value BY DEF Entry
  <2>3. BodyKey \notin Protected \union {TruncatedKey}
    BY DEF Protected, Authoritative, Restored, TruncatedKey, BodyKey
  <2> HIDE DEF e
  <2>4. DOMAIN kids = {1} /\ kids[1] = e BY <2>1
  <2>5. \E f : kids = <<f>> /\ f.key \notin Protected \union {TruncatedKey} BY <2>1, <2>2, <2>3
  <2>6. CASE value = Error
    <3> HIDE DEF value
    <3>1. 1 \in DOMAIN kids /\ kids[1].value = Error BY <2>2, <2>4, <2>6
    <3>2. \A i \in DOMAIN kids : kids[i].value = Error BY <2>2, <2>4, <2>6
    <3> QED BY <2>5, <3>1, <3>2
  <2>7. CASE value # Error
    <3> DEFINE D == Level(r.data)
               L == Retop(D, body)
    <3>1. IsData(r.data, Height - 1) /\ IsCanonical(r.data) BY <1>4
    <3>2. \A u \in Nodes(r.data) : Found(3, u) BY <3>1 DEF IsCanonical, JsonKinds, Found
    <3>3. Tree("data", 3, r.data) /\ D[Height] = {} BY <3>1, <3>2, DataIs DEF Ranks
    <3>4. /\ Tree("data", 3, body) /\ body.kind = "map"
          /\ Layers("data", 3, L) /\ body \in L[0]
      BY <3>3, ExcludingTree, RankIs DEF Allowed
    <3>5. L[Height] = {} BY <1>0, <3>3 DEF Retop
    <3>6. 0 \in 0..Height /\ 0 \in 0..MaxDepth /\ 0 # MaxDepth /\ Height \in 0..Height BY <1>0
    <3> HIDE DEF L, D, body
    <3> DEFINE S == ScrubbedLayers(L)
               P == ProjectedLayers(S)
    <3>7. Layers("scrubbed", 3, S) /\ S[Height] = {}
      <4>1. Layers("scrubbed", 3, S) BY <3>4, ScrubLayers, RankIs
      <4>2. S[Height] = {} BY <3>5, <3>6 DEF ScrubbedLayers
      <4> QED BY <4>1, <4>2
    <3>8. Scrub(body) # Error BY <2>7, <3>6, ErrorProjected
    <3>9. Scrub(body) \in S[0] BY <3>4, <3>6, <3>8 DEF ScrubbedLayers
    <3> HIDE DEF S
    <3>10. Layers("json", 3, P) BY <3>7, ProjectLayers, RankIs
    <3>11. P[Height] = {}
      <4>1. \A w \in P[Height] : \E u \in S[Height] : TRUE BY <3>6, ProjectedIn
      <4> QED BY <3>7, <4>1
    <3>12. value \in P[0] BY <2>7, <3>6, <3>9, ProjectedIn
    <3>13. /\ Keys(value) \subseteq Keys(body) \union {TruncatedKey}
           /\ value.kind = "map"
      BY <2>7, <3>4, <3>6, KeysPassed, RankIs
    <3> HIDE DEF value, P
    <3>14. Layers("data", 3, P) BY <3>10, JsonIsData DEF Again, Ranks
    <3>15. Layers("data", 3, Pushed(P)) /\ Pushed(P)[1] = P[0] BY <3>11, <3>14, PushedLayers
    <3>16. BodyKey \in Seq(Symbols)
      <4>1. "request.body" \in Symbols BY DEF Symbols
      <4> QED BY <4>1 DEF BodyKey
    <3>17. e \in Entries(Pushed(P)[1]) BY <3>12, <3>15, <3>16 DEF e, Entry, Entries
    <3>18. kids \in Seq(Entries(Pushed(P)[1])) BY <2>1, <3>17
    <3>19. Keys(body) \subseteq BodyFields
      <4> DEFINE out == Keys(r.data) \ BodyFields
      <4>2. \A i \in DOMAIN body.kids :
              /\ body.kids[i].key \notin out
              /\ \E j \in DOMAIN r.data.kids : body.kids[i] = r.data.kids[j]
        <5>1. IsTree(r.data) BY <3>3, TreeNodes
        <5>2. body = Excluding(r.data, out) BY DEF body, Allowed
        <5> HIDE DEF out
        <5> QED BY <5>1, <5>2, ExcludedEntries
      <4>3. \A j \in DOMAIN r.data.kids : r.data.kids[j].key \in Keys(r.data) BY DEF Keys
      <4>4. \A i \in DOMAIN body.kids : body.kids[i].key \in BodyFields BY <4>2, <4>3
      <4> QED BY <4>4 DEF Keys
    <3>20. \E M : Layers("data", 3, M) /\ kids \in Seq(Entries(M[1])) BY <3>15, <3>18
    <3> QED BY <2>2, <2>4, <2>5, <3>13, <3>19, <3>20
  <2> QED BY <2>6, <2>7
<1> QED BY <1>1, <1>2, <1>3, <1>4
-----------------------------------------------------------------------------
(* The event.                                                                *)

\* What an event is made of when its request body was captured.
Captured(s) == MapOf(s.fields.kids \o CapturedBody(s.body).kids)

\* v says no more of a body than is allowed.
BodyAllowed(v) == v.kind = "map" /\ Keys(v) \subseteq BodyFields \union {TruncatedKey}

\* What an event is made of, if it is JSON.
LEMMA CapturedTree ==
  ASSUME NEW s \in Sources, IsCanonical(Captured(s))
  PROVE  /\ Tree("data", 3, Captured(s)) /\ Captured(s).kind = "map"
         /\ \A i \in DOMAIN Captured(s).kids :
              \/ \E j \in DOMAIN s.fields.kids : Captured(s).kids[i] = s.fields.kids[j]
              \/ Captured(s).kids[i].key = BodyKey => BodyAllowed(Captured(s).kids[i].value)
<1> DEFINE own == s.fields.kids
           kids == CapturedBody(s.body).kids
           L == Level(s.fields)
           w == Captured(s)
<1>1. /\ s.fields.kind = "map" /\ IsData(s.fields, Height)
      /\ s.body.data = Error \/ (IsData(s.body.data, Height - 1) /\ IsCanonical(s.body.data))
  BY SourcesAssumption
<1>2. Tree("data", 1, s.fields) BY <1>1, AttributesAre
<1>3. own \in Seq(Entries(L[1])) /\ Layers("data", 1, L) BY <1>2, KidsIn DEF Tree
<1>4. w = MapOf(own \o kids) /\ w.kids = own \o kids BY DEF Captured, MapOf, Node
<1>5. /\ kids = <<>> \/ \E e : kids = <<e>> /\ e.key \notin Protected \union {TruncatedKey}
      /\ \/ \E i \in DOMAIN kids : kids[i].value = Error
         \/ \E M : Layers("data", 3, M) /\ kids \in Seq(Entries(M[1]))
      /\ \A i \in DOMAIN kids : kids[i].key = BodyKey /\ kids[i].value # Error =>
           BodyAllowed(kids[i].value)
  BY <1>1, BodyEntries DEF BodyAllowed
<1> HIDE DEF own, kids, w, L
<1>6. \A i \in DOMAIN kids : kids[i].value # Error
  <2> SUFFICES ASSUME NEW i \in DOMAIN kids, kids[i].value = Error PROVE FALSE OBVIOUS
  <2>1. PICK e : kids = <<e>> BY <1>5
  <2>2. i = 1 /\ kids[1] = e BY <2>1
  <2> DEFINE S == Entries(L[1]) \union {e}
  <2>3. own \in Seq(S) /\ kids \in Seq(S) BY <1>3, <2>1
  <2> HIDE DEF S
  <2>4. Len(kids) = 1 /\ Len(own) \in Nat BY <2>1, <2>3
  <2>5. /\ Len(own \o kids) = Len(own) + 1 /\ own \o kids \in Seq(S)
        /\ (own \o kids)[Len(own) + 1] = kids[1]
    BY <2>3, <2>4, ConcatAt
  <2>6. Len(own) + 1 \in DOMAIN w.kids /\ w.kids[Len(own) + 1].value = Error
    BY <1>4, <2>2, <2>4, <2>5
  <2>7. Error \in Members(w) BY <2>6 DEF Members
  <2>8. 0 \in 0..Height /\ 0 # Height /\ 1 \in 0..Height BY LimitsAssumption
  <2>9. Level(w)[0] = {w} /\ Level(w)[0 + 1] = Deeper(Level(w)[0]) BY <2>8, LevelIs
  <2>10. Error \in Level(w)[1] BY <2>7, <2>9 DEF Deeper
  <2>11. Error \in Nodes(w) BY <2>8, <2>10 DEF Nodes
  <2>12. Error.kind \in JsonKinds BY <2>11 DEF IsCanonical, w
  <2> QED BY <2>12 DEF Error, Node, JsonKinds
<1>7. PICK M : Layers("data", 3, M) /\ kids \in Seq(Entries(M[1])) BY <1>5, <1>6
<1>8. Layers("data", 1, M) BY <1>7, Narrower, RankIs DEF Layers, Fit
<1> DEFINE J == Joined(L, M)
<1>9. Layers("data", 1, J) BY <1>3, <1>8, JoinedLayers
<1>10. J[1] = L[1] \union M[1]
  <2>1. 1 \in 0..Height BY LimitsAssumption
  <2> QED BY <2>1 DEF Joined
<1> HIDE DEF J
<1>11. \A e : e \in Entries(L[1]) \/ e \in Entries(M[1]) => e \in Entries(J[1])
  BY <1>10 DEF Entries
<1>12. own \in Seq(Entries(J[1])) /\ kids \in Seq(Entries(J[1]))
  <2> DEFINE A == Entries(L[1])
             B == Entries(M[1])
             C == Entries(J[1])
  <2>1. own \in Seq(A) /\ kids \in Seq(B) /\ (\A e : e \in A \/ e \in B => e \in C)
    BY <1>3, <1>7, <1>11
  <2> HIDE DEF A, B, C
  <2>2. own \in Seq(C) /\ kids \in Seq(C) BY <2>1
  <2> QED BY <2>2 DEF C
<1>13. /\ own \o kids \in Seq(Entries(J[1])) /\ Len(own \o kids) = Len(own) + Len(kids)
       /\ \A i \in 1..Len(own) : (own \o kids)[i] = own[i]
       /\ \A i \in 1..Len(kids) : (own \o kids)[Len(own) + i] = kids[i]
  BY <1>12, ConcatAt
<1>14. Tree("data", 1, w) /\ w.kind = "map"
  <2> DEFINE r == own \o kids
  <2>1. w = MapOf(r) /\ r \in Seq(Entries(J[1])) BY <1>4, <1>13
  <2> HIDE DEF r
  <2> QED BY <1>9, <2>1, MapOfTree, RankIs
<1>15. Tree("data", 3, w) BY <1>14, CanonicalIs, RankIs DEF w
<1>16. ASSUME NEW i \in DOMAIN w.kids
       PROVE  \/ \E j \in DOMAIN own : w.kids[i] = own[j]
              \/ w.kids[i].key = BodyKey => BodyAllowed(w.kids[i].value)
  <2>1. Len(own) \in Nat /\ Len(kids) \in Nat /\ DOMAIN own = 1..Len(own) BY <1>12
  <2>2. DOMAIN w.kids = 1..(Len(own) + Len(kids))
    <3> DEFINE r == own \o kids
    <3>1. r \in Seq(Entries(J[1])) /\ Len(r) = Len(own) + Len(kids) /\ w.kids = r BY <1>4, <1>13
    <3> HIDE DEF r
    <3> QED BY <3>1
  <2>3. CASE i <= Len(own)
    <3>1. i \in 1..Len(own) BY <2>1, <2>2, <2>3
    <3>2. w.kids[i] = own[i] BY <1>4, <1>13, <3>1
    <3> QED BY <2>1, <3>1, <3>2
  <2>4. CASE ~(i <= Len(own))
    <3>1. i - Len(own) \in 1..Len(kids) /\ Len(own) + (i - Len(own)) = i BY <2>1, <2>2, <2>4
    <3>2. (own \o kids)[Len(own) + (i - Len(own))] = kids[i - Len(own)] BY <1>13, <3>1
    <3>3. w.kids[i] = kids[i - Len(own)] BY <1>4, <3>1, <3>2
    <3>4. i - Len(own) \in DOMAIN kids BY <1>12, <3>1
    <3> QED BY <1>5, <1>6, <3>3, <3>4
  <2> QED BY <2>3, <2>4
<1> QED BY <1>14, <1>15, <1>16 DEF w, own

\* An event that was made.
LEMMA EventIs ==
  ASSUME NEW s \in Sources, NEW e, e = NewEvent(Captured(s)), e # Error
  PROVE  /\ Tree("data", 3, e) /\ e.kind = "map"
         /\ \A i \in DOMAIN e.kids :
              e.kids[i].key = BodyKey /\ BodyKey \notin Keys(s.fields) => BodyAllowed(e.kids[i].value)
<1> DEFINE w == Captured(s)
           rest == Excluding(w, Authoritative)
           named == Entry(<<"event_type">>, Text(<<"event_type">>))
           versioned == Entry(<<"schema_version">>, Text(<<"schema_version">>))
           two == <<named, versioned>>
           T == {Text(<<"event_type">>), Text(<<"schema_version">>)}
<1>1. IsCanonical(w) /\ e = MapOf(rest.kids \o two) BY DEF NewEvent
<1>2. /\ Tree("data", 3, w) /\ w.kind = "map"
      /\ \A i \in DOMAIN w.kids :
           \/ \E j \in DOMAIN s.fields.kids : w.kids[i] = s.fields.kids[j]
           \/ w.kids[i].key = BodyKey => BodyAllowed(w.kids[i].value)
  BY <1>1, CapturedTree
<1> DEFINE L == Retop(Level(w), rest)
<1>3. Tree("data", 3, rest) /\ rest.kind = "map" BY <1>2, ExcludingTree, RankIs
<1> DEFINE R == Level(rest)
<1>4. rest.kids \in Seq(Entries(R[1])) /\ Layers("data", 3, R) BY <1>3, KidsIn DEF Tree
<1>5. /\ <<"event_type">> \in Seq(Symbols) /\ Free(<<"event_type">>)
      /\ <<"schema_version">> \in Seq(Symbols) /\ Free(<<"schema_version">>)
  <2>1. "event_type" \in Symbols \ {"s", "b"} /\ "schema_version" \in Symbols \ {"s", "b"}
    BY DEF Symbols
  <2> QED BY <2>1, OneSymbol
<1>6. Layers("data", 3, Leaves(T)) /\ Leaves(T)[1] = T
  <2>1. Text(<<"event_type">>) \in NodesOver({}) /\ DataNode(3, Text(<<"event_type">>))
    BY <1>5, TextNode
  <2>2. Text(<<"schema_version">>) \in NodesOver({}) /\ DataNode(3, Text(<<"schema_version">>))
    BY <1>5, TextNode
  <2>3. \A u \in T : u \in NodesOver({}) /\ Fit("data", 3, u) BY <2>1, <2>2 DEF Fit
  <2> HIDE DEF T
  <2>4. T \subseteq NodesOver({}) BY <2>3
  <2> QED BY <2>3, <2>4, LeavesLayers
<1>7. two \in Seq(Entries(T)) /\ Len(two) = 2
  <2>1. named \in Entries(T) /\ versioned \in Entries(T) BY <1>5 DEF Entries, Entry
  <2> HIDE DEF named, versioned
  <2> QED BY <2>1
<1>8. ASSUME NEW i \in 1..2 PROVE two[i].key # BodyKey
  BY DEF Entry, BodyKey
<1> DEFINE J == Joined(R, Leaves(T))
<1> HIDE DEF two, R, T
<1>9. Layers("data", 3, J) BY <1>4, <1>6, JoinedLayers
<1>10. J[1] = R[1] \union T
  <2>1. 1 \in 0..Height BY LimitsAssumption
  <2> QED BY <1>6, <2>1 DEF Joined
<1> HIDE DEF J
<1>11. \A x : x \in Entries(R[1]) \/ x \in Entries(T) => x \in Entries(J[1])
  BY <1>10 DEF Entries
<1> DEFINE own == rest.kids
<1>12. own \in Seq(Entries(J[1])) /\ two \in Seq(Entries(J[1]))
  <2> DEFINE A == Entries(R[1])
             B == Entries(T)
             C == Entries(J[1])
  <2>1. own \in Seq(A) /\ two \in Seq(B) /\ (\A x : x \in A \/ x \in B => x \in C)
    BY <1>4, <1>7, <1>11
  <2> HIDE DEF A, B, C, own
  <2>2. own \in Seq(C) /\ two \in Seq(C) BY <2>1
  <2> QED BY <2>2 DEF C
<1> HIDE DEF own
<1>13. /\ own \o two \in Seq(Entries(J[1])) /\ Len(own \o two) = Len(own) + Len(two)
       /\ \A i \in 1..Len(own) : (own \o two)[i] = own[i]
       /\ \A i \in 1..Len(two) : (own \o two)[Len(own) + i] = two[i]
  BY <1>12, ConcatAt
<1>14. /\ Tree("data", 3, e) /\ e.kind = "map" /\ e.kids = own \o two
  <2> DEFINE r == own \o two
  <2>1. e = MapOf(r) BY <1>1 DEF own
  <2>2. r \in Seq(Entries(J[1])) BY <1>13
  <2> HIDE DEF r
  <2>3. Tree("data", 3, e) /\ e.kind = "map" /\ e.kids = r BY <1>9, <2>1, <2>2, MapOfTree, RankIs
  <2> QED BY <2>3 DEF r
<1>15. ASSUME NEW i \in DOMAIN e.kids, e.kids[i].key = BodyKey, BodyKey \notin Keys(s.fields)
       PROVE  BodyAllowed(e.kids[i].value)
  <2>1. Len(own) \in Nat /\ DOMAIN own = 1..Len(own) BY <1>12
  <2>2. i \in 1..(Len(own) + 2)
    <3> DEFINE r == own \o two
    <3>1. r \in Seq(Entries(J[1])) /\ Len(r) = Len(own) + 2 /\ e.kids = r BY <1>7, <1>13, <1>14
    <3> HIDE DEF r
    <3> QED BY <3>1
  <2>3. CASE i <= Len(own)
    <3>1. i \in 1..Len(own) BY <2>1, <2>2, <2>3
    <3>2. e.kids[i] = own[i] BY <1>13, <1>14, <3>1
    <3>3. PICK j \in DOMAIN w.kids : own[i] = w.kids[j]
      <4>1. IsTree(w) BY <1>2, TreeNodes
      <4> HIDE DEF w
      <4>2. \A n \in DOMAIN rest.kids : \E j \in DOMAIN w.kids : rest.kids[n] = w.kids[j]
        BY <4>1, ExcludedEntries
      <4> QED BY <2>1, <3>1, <4>2 DEF own
    <3>4. \A n \in DOMAIN s.fields.kids : s.fields.kids[n].key \in Keys(s.fields) BY DEF Keys
    <3> QED BY <1>2, <1>15, <3>2, <3>3, <3>4
  <2>4. CASE ~(i <= Len(own))
    <3>1. i - Len(own) \in 1..2 /\ Len(own) + (i - Len(own)) = i BY <2>1, <2>2, <2>4
    <3>2. (own \o two)[Len(own) + (i - Len(own))] = two[i - Len(own)] BY <1>7, <1>13, <3>1
    <3>3. e.kids[i] = two[i - Len(own)] BY <1>14, <3>1, <3>2
    <3> QED BY <1>8, <1>15, <3>1, <3>3
  <2> QED BY <2>3, <2>4
<1> QED BY <1>14, <1>15
-----------------------------------------------------------------------------
(* The line.                                                                 *)

\* The value of a key is that of an entry.
LEMMA ValueIs ==
  ASSUME NEW v, NEW k \in Keys(v)
  PROVE  \E i \in DOMAIN v.kids : v.kids[i].key = k /\ ValueOf(v, k) = v.kids[i].value
BY DEF Keys, ValueOf

\* The entry of a key is the only one.
OneEach(v) ==
  \A i, j \in DOMAIN v.kids : v.kids[i].key = v.kids[j].key => v.kids[i].value = v.kids[j].value

LEMMA ValueAt ==
  ASSUME NEW v, OneEach(v), NEW i \in DOMAIN v.kids
  PROVE  ValueOf(v, v.kids[i].key) = v.kids[i].value
<1>1. v.kids[i].key \in Keys(v) BY DEF Keys
<1>2. PICK j \in DOMAIN v.kids : v.kids[j].key = v.kids[i].key
                                 /\ ValueOf(v, v.kids[i].key) = v.kids[j].value
  BY <1>1, ValueIs
<1> QED BY <1>2 DEF OneEach

LEMMA DataOneEach ==
  ASSUME NEW v, NEW levels, IsData(v, levels), v.kind = "map"
  PROVE  \A i, j \in DOMAIN v.kids : v.kids[i].key = v.kids[j].key => i = j
<1>1. 0 \in 0..Height BY LimitsAssumption
<1>2. v \in Level(v)[0] BY LevelIs
<1> QED BY <1>1, <1>2 DEF IsData

\* A text without a secret is JSON that shows nothing.
LEMMA TextTree ==
  ASSUME NEW t \in Seq(Symbols), Free(t)
  PROVE  Tree("json", 3, Text(t))
<1> DEFINE v == Text(t)
           L == Leaves({})
<1>1. Layers("json", 3, L)
  <2>1. {} \subseteq NodesOver({}) /\ \A u \in {} : Fit("json", 3, u) OBVIOUS
  <2> QED BY <2>1, LeavesLayers
<1>2. v \in NodesOver(L[1]) /\ Fit("json", 3, v) BY TextNode DEF Fit
<1> HIDE DEF v, L
<1>3. Tree("json", 3, v) BY <1>1, <1>2, RetopLayers
<1> QED BY <1>3 DEF v

LEMMA Shows ==
  ASSUME NEW rank \in Ranks, NEW v, Tree("json", rank, v)
  PROVE  Tidy(v) /\ (rank = 3 => NoSecret(v))
<1>1. ASSUME NEW u \in Nodes(v) PROVE JsonNode(rank, u) BY TreeNodes DEF Fit
<1>2. \A k \in HiddenKeys : IsSensitiveKey(k) BY NamesAssumption
<1>3. ASSUME NEW u \in Nodes(v) PROVE u.kind \in JsonKinds /\ \A i \in DOMAIN u.text : u.text[i] # "b"
  <2>1. u.kind \in JsonKinds /\ DataNode(Again(rank), u) BY <1>1 DEF JsonNode
  <2>2. u.kind # "bytes" BY <2>1 DEF JsonKinds
  <2> QED BY <2>1, <2>2 DEF DataNode, Free, NoBytes
<1>4. Tidy(v) BY <1>1, <1>2, <1>3 DEF Tidy, JsonNode
<1>5. rank = 3 => NoSecret(v) BY <1>1 DEF NoSecret, JsonNode, Free
<1> QED BY <1>4, <1>5

\* Marks show nothing, and what passes keeps its rank.
LEMMA MarkTree ==
  ASSUME NEW rank \in Ranks
  PROVE  /\ Tree("json", rank, Redaction) /\ Tree("json", rank, Truncation)
         /\ Tree("data", rank, Truncation)
<1>1. "REDACTED" \in Symbols \ {"s", "b"} /\ "TRUNCATED" \in Symbols \ {"s", "b"} BY DEF Symbols
<1>2. Tree("json", 3, Redaction) BY <1>1, OneSymbol, TextTree DEF Redaction
<1>3. Tree("json", 3, Truncation) BY <1>1, OneSymbol, TextTree DEF Truncation
<1>4. \A u : /\ Fit("json", 3, u) => Fit("json", rank, u)
             /\ Fit("data", 3, u) => Fit("data", rank, u)
  BY Narrower DEF Fit
<1>5. Layers("data", 3, Level(Truncation)) BY <1>3, JsonIsData DEF Tree, Ranks, Again
<1> QED BY <1>2, <1>3, <1>4, <1>5 DEF Tree, Layers

LEMMA Passes ==
  ASSUME NEW rank \in Ranks, NEW v, Tree("data", rank, v), NEW key, Passed(key, v) # Error
  PROVE  Tree("json", rank, Passed(key, v))
<1>0. 1 \in 0..MaxDepth BY LimitsAssumption
<1>1. CASE IsSensitiveKey(key)
  <2>1. Passed(key, v) \in {Truncation, Redaction} BY <1>0, <1>1, MarksProjected DEF Passed
  <2> QED BY <2>1, MarkTree
<1>2. CASE ~IsSensitiveKey(key)
  <2>1. Passed(key, v) = Project(Scrub(v), 1) BY <1>2 DEF Passed
  <2>2. CASE Scrub(v) = Error
    <3>1. Passed(key, v) = Truncation BY <1>0, <2>1, <2>2, ErrorProjected
    <3> QED BY <3>1, MarkTree
  <2>3. CASE Scrub(v) # Error
    <3>1. Tree("scrubbed", rank, Scrub(v)) BY <2>3, ScrubTree
    <3> QED BY <1>0, <2>1, <3>1, ProjectTree
  <2> QED BY <2>2, <2>3
<1> QED BY <1>1, <1>2

\* An entry that passed the gate is one of an attribute, or says that there were more.
PassedEntry(e, v) ==
  \/ \E j \in DOMAIN v.kids : e = Entry(v.kids[j].key, Passed(v.kids[j].key, v.kids[j].value))
  \/ e = Entry(TruncatedKey, Truncation)

LEMMA GatedEntries ==
  ASSUME NEW v, NEW r, Shaped(v), Shaped(r), Gated(r, v), NEW i \in DOMAIN r.kids
  PROVE  PassedEntry(r.kids[i], v)
<1>1. /\ Len(v.kids) \in Nat /\ DOMAIN v.kids = 1..Len(v.kids)
      /\ Len(r.kids) \in Nat /\ DOMAIN r.kids = 1..Len(r.kids)
  BY DEF Shaped
<1>2. PICK m \in 0..Len(v.kids) :
        /\ \A n \in 1..m : r.kids[n] = Entry(v.kids[n].key, Passed(v.kids[n].key, v.kids[n].value))
        /\ m = Len(v.kids) => Len(r.kids) = m
        /\ m # Len(v.kids) => Len(r.kids) = m + 1 /\ r.kids[m + 1] = Entry(TruncatedKey, Truncation)
  BY DEF Gated
<1>3. m \in Nat /\ m <= Len(v.kids) BY <1>1, <1>2
<1>4. CASE i <= m
  <2>1. i \in 1..m /\ i \in DOMAIN v.kids BY <1>1, <1>3, <1>4
  <2> QED BY <1>2, <2>1 DEF PassedEntry
<1>5. CASE ~(i <= m)
  <2>1. m # Len(v.kids) /\ i = m + 1 BY <1>1, <1>2, <1>3, <1>5
  <2> QED BY <1>2, <2>1 DEF PassedEntry
<1> QED BY <1>4, <1>5

\* What the gate made of an attribute.
GatedAt(rank, v, k) ==
  /\ Tree("json", rank, ValueOf(Gate(v), k)) /\ ValueOf(Gate(v), k) # Error
  /\ \/ k = TruncatedKey /\ ValueOf(Gate(v), k) = Truncation
     \/ \E j \in DOMAIN v.kids :
          v.kids[j].key = k /\ ValueOf(Gate(v), k) = Passed(k, v.kids[j].value)

LEMMA GatedValue ==
  ASSUME NEW rank \in Ranks, NEW v, Tree("data", rank, v), v.kind = "map",
         Gate(v) # Error, NEW k \in Keys(Gate(v))
  PROVE  GatedAt(rank, v, k)
<1> DEFINE r == Gate(v)
<1>1. Tree("json", rank, r) /\ Gated(r, v) BY GateIs
<1>2. Shaped(v) /\ Shaped(r)
  <2>1. Fit("data", rank, v) /\ Fit("json", rank, r) BY <1>1, TreeNodes
  <2> QED BY <2>1 DEF Fit, DataNode, JsonNode
<1> HIDE DEF r
<1>3. PICK i \in DOMAIN r.kids : r.kids[i].key = k /\ ValueOf(r, k) = r.kids[i].value
  BY ValueIs DEF r
<1>4. Tree("json", rank, r.kids[i].value) BY <1>1, TreeMembers
<1>5. r.kids[i].value # Error
  <2>1. Fit("json", rank, r.kids[i].value) BY <1>4, TreeNodes
  <2> QED BY <2>1 DEF Fit, JsonNode, JsonKinds, Error, Node
<1>6. PassedEntry(r.kids[i], v) BY <1>1, <1>2, GatedEntries
<1>7. CASE r.kids[i] = Entry(TruncatedKey, Truncation)
  <2>1. k = TruncatedKey /\ r.kids[i].value = Truncation BY <1>3, <1>7 DEF Entry
  <2> QED BY <1>3, <1>4, <1>5, <2>1 DEF GatedAt, r
<1>8. CASE \E j \in DOMAIN v.kids :
             r.kids[i] = Entry(v.kids[j].key, Passed(v.kids[j].key, v.kids[j].value))
  <2>1. PICK j \in DOMAIN v.kids :
          r.kids[i] = Entry(v.kids[j].key, Passed(v.kids[j].key, v.kids[j].value))
    BY <1>8
  <2>2. r.kids[i].key = v.kids[j].key /\ r.kids[i].value = Passed(v.kids[j].key, v.kids[j].value)
    BY <2>1 DEF Entry
  <2> QED BY <1>3, <1>4, <1>5, <2>2 DEF GatedAt, r
<1> QED BY <1>6, <1>7, <1>8 DEF PassedEntry, GatedAt, r

\* What passed of a body that says no more than is allowed.
LEMMA PassedBody ==
  ASSUME NEW rank \in Ranks, NEW v, Tree("data", rank, v), BodyAllowed(v), NEW key,
         Passed(key, v) # Error
  PROVE  Keys(Passed(key, v)) \subseteq BodyFields \union {TruncatedKey}
<1>0. 1 \in 0..MaxDepth BY LimitsAssumption
<1>1. CASE IsSensitiveKey(key)
  <2>1. Passed(key, v) \in {Truncation, Redaction} BY <1>0, <1>1, MarksProjected DEF Passed
  <2>2. Keys(Passed(key, v)) = {} BY <2>1 DEF Keys, Truncation, Redaction, Text, Node
  <2> QED BY <2>2
<1>2. CASE ~IsSensitiveKey(key)
  <2>1. Passed(key, v) = Project(Scrub(v), 1) BY <1>2 DEF Passed
  <2>2. Keys(Project(Scrub(v), 1)) \subseteq Keys(v) \union {TruncatedKey}
    BY <1>0, <2>1, KeysPassed DEF BodyAllowed
  <2> QED BY <2>1, <2>2 DEF BodyAllowed
<1> QED BY <1>1, <1>2

\* The additions that a record is made with.
Sent(s) == IF s.emitted THEN Gate(Unprotected(s.additions)) ELSE s.additions

\* Of what the value of k in such additions may hold a secret that is not found.
Lets(s, k) == k \in Keys(s.additions) /\ Escapes(ValueOf(s.additions, k), s.emitted)

Known(s, e) == Tree("data", 3, e.value) \/ Lets(s, e.key)

LEMMA KnownByHand ==
  ASSUME NEW s \in Sources, ~s.emitted, NEW i \in DOMAIN s.additions.kids
  PROVE  Known(s, s.additions.kids[i])
<1> DEFINE a == s.additions
           x == a.kids[i].value
<1>1. a.kind = "map" /\ IsData(a, Height) BY SourcesAssumption
<1>2. OneEach(a) BY <1>1, DataOneEach DEF OneEach
<1>3. a.kids[i].key \in Keys(a) /\ ValueOf(a, a.kids[i].key) = x BY <1>2, ValueAt DEF Keys
<1>4. CASE Escapes(x, s.emitted) BY <1>3, <1>4 DEF Known, Lets
<1>5. CASE ~Escapes(x, s.emitted)
  <2>1. \A u \in Nodes(x) : Found(3, u) BY <1>5 DEF Escapes, Found
  <2>2. Tree("data", 3, x) BY <1>1, <2>1, AttributeIs DEF Ranks
  <2> QED BY <2>2 DEF Known
<1> QED BY <1>4, <1>5

LEMMA KnownEmitted ==
  ASSUME NEW s \in Sources, s.emitted, NEW v, v = Unprotected(s.additions),
         NEW j \in DOMAIN v.kids, NEW e,
         e = Entry(v.kids[j].key, Passed(v.kids[j].key, v.kids[j].value)), e.value # Error
  PROVE  Known(s, e)
<1> DEFINE a == s.additions
<1>1. a.kind = "map" /\ IsData(a, Height) BY SourcesAssumption
<1>2. OneEach(a) /\ IsTree(a)
  <2>1. Tree("data", 1, a) BY <1>1, AttributesAre
  <2> QED BY <1>1, <2>1, DataOneEach, TreeNodes DEF OneEach
<1>3. v = Excluding(a, Protected) BY DEF Unprotected
<1> HIDE DEF a
<1>4. PICK i \in DOMAIN a.kids : v.kids[j] = a.kids[i] BY <1>2, <1>3, ExcludedEntries
<1> DEFINE x == a.kids[i].value
           k == a.kids[i].key
<1>5. k \in Keys(a) /\ ValueOf(a, k) = x BY <1>2, ValueAt DEF Keys
<1>6. e.key = k /\ e.value = Passed(k, x) BY <1>4 DEF Entry
<1>7. CASE Escapes(x, s.emitted) BY <1>5, <1>6, <1>7 DEF Known, Lets, a
<1>8. CASE ~Escapes(x, s.emitted)
  <2>1. \A u \in Nodes(x) : u.kind = "enum" /\ IsSensitiveValue(u.text) => ~(Len(u.text) > MaxLength)
    BY <1>8 DEF Escapes
  <2>2. Tree("data", 1, x) /\ MaxLength \in Nat
    <3>1. Tree("data", 1, a) BY <1>1, AttributesAre
    <3> QED BY <3>1, TreeMembers, LimitsAssumption
  <2>3. ASSUME NEW u \in Nodes(x) PROVE Found(2, u)
    <3>1. Fit("data", 1, u) BY <2>2, TreeNodes
    <3>2. Len(u.text) \in Nat BY <3>1 DEF Fit, DataNode, Shaped
    <3> QED BY <2>1, <2>2, <3>2 DEF Found
  <2>4. Tree("data", 2, x) BY <1>1, <2>3, AttributeIs DEF Ranks
  <2>5. Tree("json", 2, e.value) BY <1>6, <2>4, Passes DEF Ranks
  <2>6. Tree("data", 3, e.value) BY <2>5, JsonIsData DEF Tree, Ranks, Again
  <2> QED BY <2>6 DEF Known
<1> QED BY <1>7, <1>8

LEMMA SentIs ==
  ASSUME NEW s \in Sources, NEW m, m = Sent(s), m # Error
  PROVE  /\ Tree("data", 0, m) /\ m.kind = "map"
         /\ Keys(m) \subseteq Keys(s.additions) \union {TruncatedKey}
         /\ \A i \in DOMAIN m.kids : Known(s, m.kids[i])
<1>1. s.additions.kind = "map" /\ IsData(s.additions, Height) BY SourcesAssumption
<1>2. CASE ~s.emitted
  <2>1. Tree("data", 1, s.additions) BY <1>1, AttributesAre
  <2>2. \A u : Fit("data", 1, u) => Fit("data", 0, u) BY Narrower DEF Fit, Ranks
  <2>3. Tree("data", 0, s.additions) BY <2>1, <2>2 DEF Tree, Layers
  <2> QED BY <1>1, <1>2, <2>3, KnownByHand DEF Sent
<1>3. CASE s.emitted
  <2> DEFINE a == s.additions
             v == Unprotected(a)
  <2>1. Tree("data", 1, a) BY <1>1, AttributesAre
  <2>2. Tree("data", 1, v) /\ v.kind = "map" BY <2>1, ExcludingTree DEF Unprotected, Ranks
  <2>3. m = Gate(v) BY <1>3 DEF Sent
  <2>4. Keys(v) \subseteq Keys(a)
    <3>1. IsTree(a) BY <2>1, TreeNodes
    <3>2. v = Excluding(a, Protected) BY DEF Unprotected
    <3> HIDE DEF a, v
    <3>3. \A i \in DOMAIN v.kids : \E j \in DOMAIN a.kids : v.kids[i] = a.kids[j]
      BY <3>1, <3>2, ExcludedEntries
    <3> QED BY <3>3 DEF Keys
  <2>v. v = Unprotected(s.additions) OBVIOUS
  <2> HIDE DEF v, a
  <2>5. Tree("json", 1, m) /\ m.kind = "map" /\ Gated(m, v) BY <2>2, <2>3, GateIs DEF Ranks
  <2>6. Tree("data", 0, m) BY <2>5, JsonIsData DEF Tree, Again, Ranks
  <2>7. ASSUME NEW k \in Keys(m) PROVE k \in Keys(a) \union {TruncatedKey}
    <3>1. GatedAt(1, v, k) BY <2>2, <2>3, <2>7, GatedValue DEF Ranks
    <3> QED BY <2>4, <3>1 DEF Keys, GatedAt
  <2>8. ASSUME NEW i \in DOMAIN m.kids PROVE Known(s, m.kids[i])
    <3>1. Shaped(v) /\ Shaped(m)
      <4>1. Fit("data", 1, v) /\ Fit("data", 0, m) BY <2>2, <2>6, TreeNodes
      <4> QED BY <4>1 DEF Fit, DataNode
    <3>2. PassedEntry(m.kids[i], v) BY <2>5, <3>1, GatedEntries
    <3>3. CASE m.kids[i] = Entry(TruncatedKey, Truncation)
      <4>1. m.kids[i].value = Truncation BY <3>3 DEF Entry
      <4> QED BY <4>1, MarkTree DEF Known, Ranks
    <3>4. CASE \E j \in DOMAIN v.kids :
                 m.kids[i] = Entry(v.kids[j].key, Passed(v.kids[j].key, v.kids[j].value))
      <4>1. Tree("data", 0, m.kids[i].value) BY <2>6, TreeMembers
      <4>2. Fit("data", 0, m.kids[i].value) BY <4>1, TreeNodes
      <4>3. m.kids[i].value # Error BY <4>2 DEF Fit, DataNode, Error, Node
      <4> QED BY <1>3, <2>v, <3>4, <4>3, KnownEmitted
    <3> QED BY <3>2, <3>3, <3>4 DEF PassedEntry
  <2> QED BY <2>5, <2>6, <2>7, <2>8 DEF a
<1> QED BY <1>2, <1>3

\* What the attribute k of a line may hold.
Keeps(s, k, v) ==
  /\ Tidy(v) /\ (NoSecret(v) \/ Lets(s, k))
  /\ k \in HiddenKeys => v = IF MaxDepth = 1 THEN Truncation ELSE Redaction
  /\ k = BodyKey /\ k \notin Keys(s.fields) \union Keys(s.additions) =>
       Keys(v) \subseteq BodyFields \union {TruncatedKey}

\* The names of an event and of its version show nothing.
LEMMA NamedKeeps ==
  ASSUME NEW s, NEW k \in Authoritative,
         NEW x \in {"event_type", "schema_version", "malformed"}
  PROVE  Keeps(s, k, Text(<<x>>))
<1>1. x \in Symbols \ {"s", "b"} BY DEF Symbols
<1>2. Tidy(Text(<<x>>)) /\ NoSecret(Text(<<x>>)) BY <1>1, OneSymbol, TextTree, Shows, RankIs
<1>3. k \notin HiddenKeys BY NamesAssumption
<1>4. k # BodyKey BY DEF Authoritative, BodyKey
<1> QED BY <1>2, <1>3, <1>4 DEF Keeps

\* What passed the gate shows nothing but what escaped.
LEMMA GatedKeeps ==
  ASSUME NEW s, NEW rank \in Ranks, NEW v, Tree("data", rank, v), v.kind = "map",
         \A i \in DOMAIN v.kids : Known(s, v.kids[i]),
         Gate(v) # Error, NEW k \in Keys(Gate(v)),
         k = BodyKey /\ k \notin Keys(s.fields) \union Keys(s.additions) =>
           \A i \in DOMAIN v.kids : v.kids[i].key = BodyKey => BodyAllowed(v.kids[i].value)
  PROVE  Keeps(s, k, ValueOf(Gate(v), k))
<1> DEFINE w == ValueOf(Gate(v), k)
<1>0. 1 \in 0..MaxDepth BY LimitsAssumption
<1>1. /\ Tree("json", rank, w) /\ w # Error
      /\ \/ k = TruncatedKey /\ w = Truncation
         \/ \E j \in DOMAIN v.kids : v.kids[j].key = k /\ w = Passed(k, v.kids[j].value)
  BY GatedValue DEF GatedAt
<1> HIDE DEF w
<1>2. Tidy(w) BY <1>1, Shows
<1>3. TruncatedKey \notin HiddenKeys /\ TruncatedKey # BodyKey
  BY NamesAssumption DEF TruncatedKey, BodyKey
<1>4. ASSUME NEW j \in DOMAIN v.kids, v.kids[j].key = k, w = Passed(k, v.kids[j].value)
      PROVE  Keeps(s, k, w)
  <2>1. NoSecret(w) \/ Lets(s, k)
    <3>1. CASE Tree("data", 3, v.kids[j].value)
      <4>1. Tree("json", 3, w) BY <1>1, <1>4, <3>1, Passes DEF Ranks
      <4> QED BY <4>1, Shows DEF Ranks
    <3>2. Tree("data", 3, v.kids[j].value) \/ Lets(s, v.kids[j].key) BY DEF Known
    <3> QED BY <1>4, <3>1, <3>2
  <2>2. k \in HiddenKeys => w = IF MaxDepth = 1 THEN Truncation ELSE Redaction
    <3>1. \A h \in HiddenKeys : IsSensitiveKey(h) BY NamesAssumption
    <3> QED BY <1>0, <1>4, <3>1, MarksProjected DEF Passed
  <2>3. ASSUME k = BodyKey, k \notin Keys(s.fields) \union Keys(s.additions)
        PROVE  Keys(w) \subseteq BodyFields \union {TruncatedKey}
    <3>1. BodyAllowed(v.kids[j].value) BY <1>4, <2>3
    <3>2. Tree("data", rank, v.kids[j].value) BY TreeMembers
    <3> QED BY <1>1, <1>4, <3>1, <3>2, PassedBody
  <2> QED BY <1>2, <2>1, <2>2, <2>3 DEF Keeps
<1>5. ASSUME k = TruncatedKey, w = Truncation PROVE Keeps(s, k, w)
  <2>1. NoSecret(w) BY <1>5, MarkTree, Shows DEF Ranks
  <2> QED BY <1>2, <1>3, <1>5, <2>1 DEF Keeps
<1> QED BY <1>1, <1>4, <1>5 DEF w

\* No addition goes by the name of an attribute of the event that is protected.
LEMMA UnprotectedKeys ==
  ASSUME NEW rank \in Ranks, NEW m, Tree("data", rank, m),
         Gate(Unprotected(m)) # Error, NEW k \in Keys(Gate(Unprotected(m)))
  PROVE  k \notin Protected
<1> DEFINE v == Unprotected(m)
<1>1. v = Excluding(m, Protected) BY DEF Unprotected
<1>2. IsTree(m) BY TreeNodes
<1>3. Tree("data", rank, v) /\ v.kind = "map" BY <1>1, ExcludingTree
<1>4. Gate(v) # Error /\ k \in Keys(Gate(v)) OBVIOUS
<1> HIDE DEF v
<1>5. GatedAt(rank, v, k) BY <1>3, <1>4, GatedValue
<1>6. \A i \in DOMAIN v.kids : v.kids[i].key \notin Protected BY <1>1, <1>2, ExcludedEntries
<1>7. TruncatedKey \notin Protected BY DEF TruncatedKey, Protected, Authoritative, Restored
<1> QED BY <1>5, <1>6, <1>7 DEF GatedAt

\* No secret gets into a full line.
LEMMA FullLine ==
  ASSUME NEW s \in Sources, NEW e, e = NewEvent(Captured(s)), e # Error,
         NEW m, m = Sent(s), m # Error, NEW record, record = BuildLogRecord(e, m), record # Error,
         NEW k \in DOMAIN record \ Restored
  PROVE  Keeps(s, k, record[k])
<1> DEFINE v == Unprotected(m)
           own == Gate(e)
           added == Gate(v)
           keys == Keys(own) \union Keys(added) \union Authoritative
                     \union (Restored \intersect Keys(e))
           At(n) == CASE n \in Authoritative -> Text(n)
                      [] n \in Restored \intersect Keys(e) -> Project(ValueOf(e, n), 1)
                      [] n \in Keys(added) -> ValueOf(added, n)
                      [] OTHER -> ValueOf(own, n)
<1>1. /\ Tree("data", 3, e) /\ e.kind = "map"
      /\ \A i \in DOMAIN e.kids :
           e.kids[i].key = BodyKey /\ BodyKey \notin Keys(s.fields) => BodyAllowed(e.kids[i].value)
  BY EventIs
<1>2. /\ Tree("data", 0, m) /\ m.kind = "map"
      /\ Keys(m) \subseteq Keys(s.additions) \union {TruncatedKey}
      /\ \A i \in DOMAIN m.kids : Known(s, m.kids[i])
  BY SentIs
<1>3. Tree("data", 0, v) /\ v.kind = "map" BY <1>2, ExcludingTree DEF Unprotected, Ranks
<1>a. \A i \in DOMAIN v.kids : Known(s, v.kids[i])
  <2>1. IsTree(m) BY <1>2, TreeNodes
  <2>2. v = Excluding(m, Protected) BY DEF Unprotected
  <2> HIDE DEF v
  <2>3. \A i \in DOMAIN v.kids : \E j \in DOMAIN m.kids : v.kids[i] = m.kids[j]
    BY <2>1, <2>2, ExcludedEntries
  <2> QED BY <1>2, <2>3
<1>b. \A i \in DOMAIN e.kids : Known(s, e.kids[i]) BY <1>1, TreeMembers DEF Known
<1>4. own # Error /\ added # Error /\ record = [n \in keys |-> At(n)]
  BY <1>2 DEF BuildLogRecord
<1>5. k \in keys /\ k \notin Restored
  <2> HIDE DEF keys, At
  <2> QED BY <1>4
<1>6. record[k] = At(k)
  <2> HIDE DEF keys, At
  <2> QED BY <1>4, <1>5
<1>7. CASE k \in Authoritative
  <2>1. record[k] = Text(k)
    <3>1. k \notin Keys(added) BY <1>2, <1>4, <1>7, UnprotectedKeys DEF Protected, Ranks
    <3> QED BY <1>6, <1>7, <3>1
  <2>2. k = <<"event_type">> \/ k = <<"schema_version">> BY <1>7 DEF Authoritative
  <2>3. PICK x \in {"event_type", "schema_version", "malformed"} : k = <<x>> BY <2>2
  <2>4. Keeps(s, k, Text(<<x>>)) BY <1>7, NamedKeeps
  <2> QED BY <2>1, <2>3, <2>4
<1>8. CASE k \notin Authoritative /\ k \in Keys(added)
  <2>1. record[k] = ValueOf(Gate(v), k) BY <1>5, <1>6, <1>8
  <2>2. ASSUME k = BodyKey, k \notin Keys(s.fields) \union Keys(s.additions)
        PROVE  \A i \in DOMAIN v.kids : v.kids[i].key = BodyKey => BodyAllowed(v.kids[i].value)
    <3>1. IsTree(m) BY <1>2, TreeNodes
    <3>2. v = Excluding(m, Protected) BY DEF Unprotected
    <3>3. \A i \in DOMAIN m.kids : m.kids[i].key \in Keys(m) BY DEF Keys
    <3>4. BodyKey # TruncatedKey BY DEF BodyKey, TruncatedKey
    <3> HIDE DEF v
    <3>5. \A i \in DOMAIN v.kids : \E j \in DOMAIN m.kids : v.kids[i] = m.kids[j]
      BY <3>1, <3>2, ExcludedEntries
    <3> QED BY <1>2, <2>2, <3>3, <3>4, <3>5
  <2> HIDE DEF v
  <2>3. Keeps(s, k, ValueOf(Gate(v), k)) BY <1>3, <1>4, <1>8, <1>a, <2>2, GatedKeeps, RankIs
  <2> QED BY <2>1, <2>3
<1>9. CASE k \notin Authoritative /\ k \notin Keys(added)
  <2>1. record[k] = ValueOf(own, k) /\ k \in Keys(own) BY <1>5, <1>6, <1>9
  <2>2. Keeps(s, k, ValueOf(Gate(e), k)) BY <1>1, <1>4, <1>b, <2>1, GatedKeeps, RankIs
  <2> QED BY <2>1, <2>2
<1> QED BY <1>7, <1>8, <1>9

\* Nor into one that says that the record could not be made.
LEMMA FallbackLine ==
  ASSUME NEW s, NEW record \in {FallbackRecord, LastResort}, NEW k \in DOMAIN record
  PROVE  Keeps(s, k, record[k])
<1>1. k \in Authoritative BY DEF FallbackRecord, LastResort, Authoritative
<1>2. record[k] \in {Text(<<"event_type">>), Text(<<"schema_version">>), Text(<<"malformed">>)}
  BY <1>1 DEF FallbackRecord, LastResort, Authoritative
<1> QED BY <1>1, <1>2, NamedKeeps
-----------------------------------------------------------------------------
(* What holds no secret is unchanged.                                        *)

\* A container whose members stay what they are.
LEMMA RebuiltSame ==
  ASSUME NEW S, NEW v \in NodesOver(S), Error \notin S, NEW members,
         members = [i \in DOMAIN v.kids |-> v.kids[i].value]
  PROVE  Rebuilt(v, members) = v
<1>1. /\ DOMAIN v.kids = 1..Len(v.kids) /\ Len(v.kids) \in Nat
      /\ v = [kind |-> v.kind, text |-> v.text, kids |-> v.kids]
      /\ \A i \in DOMAIN v.kids : /\ v.kids[i].value \in S
                                  /\ v.kids[i] = Entry(v.kids[i].key, v.kids[i].value)
  BY NodeIs
<1>2. DOMAIN members = DOMAIN v.kids /\ \A i \in DOMAIN members : members[i] # Error
  BY <1>1
<1>3. v.kids = [i \in DOMAIN v.kids |-> v.kids[i]] BY DEF NodesOver
<1> DEFINE new == [i \in DOMAIN members |-> Entry(v.kids[i].key, members[i])]
<1>4. Rebuilt(v, members) = [v EXCEPT !.kids = new]
  <2>1. ~\E i \in DOMAIN members : members[i] = Error BY <1>2
  <2> QED BY <2>1 DEF Rebuilt
<1>5. new = v.kids
  <2>1. \A i \in DOMAIN v.kids : Entry(v.kids[i].key, members[i]) = v.kids[i] BY <1>1
  <2>2. new = [i \in DOMAIN v.kids |-> v.kids[i]] BY <1>2, <2>1
  <2> QED BY <1>3, <2>2
<1> HIDE DEF new
<1>6. [v EXCEPT !.kids = v.kids] = v BY <1>1
<1> QED BY <1>4, <1>5, <1>6

\* A node that has nothing to hide and is within the limits.
Harmless(u) ==
  /\ u.kind \in JsonKinds
  /\ ~IsSensitiveValue(u.text) /\ Len(u.text) <= MaxLength /\ Len(u.kids) <= MaxEntries
  /\ u.kind = "map" => Keys(u) \subseteq ShownKeys

LEMMA HarmlessScrubbed ==
  ASSUME NEW u, IsTree(u), Harmless(u), Error \notin Nodes(u),
         \A i \in DOMAIN u.kids : Scrub(u.kids[i].value) = u.kids[i].value
  PROVE  Scrub(u) = u
<1> DEFINE members == [i \in DOMAIN u.kids |->
                         IF u.kind = "map" /\ IsSensitiveKey(u.kids[i].key) THEN Redaction
                         ELSE Scrub(u.kids[i].value)]
<1>1. Scrub(u) = CASE u.kind = "set" -> Error
                   [] u.kind \in {"bytes", "loop"} -> Redaction
                   [] u.kind = "text" /\ IsSensitiveValue(u.text) -> Redaction
                   [] u.kind \in Containers -> Rebuilt(u, members)
                   [] OTHER -> u
  BY ScrubIs
<1>2. u.kind = "map" => \A i \in DOMAIN u.kids : ~IsSensitiveKey(u.kids[i].key)
  BY NamesAssumption DEF Harmless, Keys
<1>3. members = [i \in DOMAIN u.kids |-> u.kids[i].value] BY <1>2
<1>4. u \in NodesOver(Nodes(u)) BY NodeTrees
<1> HIDE DEF members
<1>5. Rebuilt(u, members) = u BY <1>3, <1>4, RebuiltSame
<1>6. u.kind \in JsonKinds /\ ~IsSensitiveValue(u.text) BY DEF Harmless
<1> QED BY <1>1, <1>5, <1>6 DEF JsonKinds, Containers

LEMMA HarmlessProjected ==
  ASSUME NEW u, IsTree(u), Harmless(u), u.kind \notin Containers => u.kids = <<>>,
         Error \notin Nodes(u), NEW depth \in 0..MaxDepth, depth # MaxDepth,
         \A i \in DOMAIN u.kids : Project(u.kids[i].value, depth + 1) = u.kids[i].value
  PROVE  Project(u, depth) = u
<1> DEFINE members == [i \in First(MaxEntries, u) |-> Project(u.kids[i].value, depth + 1)]
<1>0. MaxEntries \in Nat /\ MaxLength \in Nat BY LimitsAssumption
<1>1. Project(u, depth) =
        CASE depth = MaxDepth -> Truncation
          [] depth # MaxDepth /\ u.kind = "atom" -> u
          [] depth # MaxDepth /\ u.kind \in {"text", "enum"} -> Text(Limited(u.text))
          [] depth # MaxDepth /\ u.kind = "object" -> Text(u.text)
          [] depth # MaxDepth /\ u.kind = "bytes" -> BytesProjection(u)
          [] depth # MaxDepth /\ u.kind \in Containers -> Shortened(u, members)
          [] OTHER -> Error
  BY ProjectIs
<1>2. u \in NodesOver(Nodes(u)) BY NodeTrees
<1>3. /\ u.text \in Seq(Symbols) /\ Len(u.kids) \in Nat /\ DOMAIN u.kids = 1..Len(u.kids)
      /\ u = [kind |-> u.kind, text |-> u.text, kids |-> u.kids]
  BY <1>2, NodeIs
<1>4. /\ u.kind \in JsonKinds /\ Len(u.text) <= MaxLength /\ Len(u.kids) <= MaxEntries
  BY DEF Harmless
<1>5. First(MaxEntries, u) = DOMAIN u.kids BY <1>0, <1>3, <1>4 DEF First
<1>6. members = [i \in DOMAIN u.kids |-> u.kids[i].value] BY <1>5
<1> HIDE DEF members
<1>7. Shortened(u, members) = u
  <2>1. Rebuilt(u, members) = u BY <1>2, <1>6, RebuiltSame
  <2>2. Len(members) = Len(u.kids) BY <1>3, <1>6
  <2> QED BY <2>1, <2>2 DEF Shortened
<1>8. CASE u.kind \in Containers BY <1>1, <1>7, <1>8 DEF Containers
<1>9. CASE u.kind = "atom" BY <1>1, <1>9 DEF Containers
<1>10. CASE u.kind = "text"
  <2>1. Project(u, depth) = Text(Limited(u.text)) BY <1>1, <1>10 DEF Containers
  <2>2. Limited(u.text) = u.text BY <1>3, <1>4, LimitedIs
  <2>3. u.kids = <<>> BY <1>10 DEF Containers
  <2>4. u = Text(u.text) BY <1>3, <1>10, <2>3 DEF Text, Node
  <2> QED BY <2>1, <2>2, <2>4
<1> QED BY <1>4, <1>8, <1>9, <1>10 DEF JsonKinds, Containers
\* What neither scrubbing nor projection, from this depth on, changes.
Settled(u, d) == Scrub(u) = u /\ \A k \in 0..d : Project(u, k) = u

\* From the bottom up, each node below the root of a plain value stays what it is.
LEMMA PlainLevels ==
  ASSUME NEW v, Tree("data", 1, v), Plain(v)
  PROVE  \A d \in 1..Height : \A u \in Level(v)[d] : Settled(u, d)
<1>0. Height \in Nat /\ MaxDepth \in Nat BY LimitsAssumption
<1> DEFINE Done(n) == \A d \in 1..Height : Height - n <= d => \A u \in Level(v)[d] : Settled(u, d)
           N == {n \in Nat : Done(n)}
<1>1. ASSUME NEW d \in 1..Height, NEW u \in Level(v)[d],
             d # Height => \A w \in Level(v)[d + 1] : Settled(w, d + 1)
      PROVE  Settled(u, d)
  <2>0. d \in 0..Height /\ d \in Nat BY <1>0
  <2>1. u \in Nodes(v) BY <2>0 DEF Nodes
  <2>2. Tree("data", 1, u) /\ IsTree(u) /\ DataNode(1, u)
    <3>1. Tree("data", 1, u) /\ Fit("data", 1, u) BY <2>1, TreeNodes
    <3> QED BY <3>1, TreeNodes DEF Fit
  <2>3. Error \notin Nodes(u)
    <3>1. \A w \in Nodes(u) : Fit("data", 1, w) BY <2>2, TreeNodes
    <3> QED BY <3>1 DEF Fit, DataNode, Error, Node
  <2>4. Harmless(u) /\ d < MaxDepth BY DEF Plain, Harmless
  <2>5. u.kind \notin Containers => u.kids = <<>> BY <2>2 DEF DataNode
  <2>6. \A i \in DOMAIN u.kids : Settled(u.kids[i].value, d + 1)
    <3> SUFFICES ASSUME NEW i \in DOMAIN u.kids PROVE Settled(u.kids[i].value, d + 1) OBVIOUS
    <3>1. u \in NodesOver(Below(Level(v), d)) BY <2>0 DEF Tree, Layers, Layered
    <3>2. u.kids[i].value \in Below(Level(v), d) BY <3>1, NodeIs
    <3>3. d # Height /\ u.kids[i].value \in Level(v)[d + 1] BY <3>2 DEF Below
    <3> QED BY <1>1, <3>3
  <2>7. Scrub(u) = u
    <3>1. \A i \in DOMAIN u.kids : Scrub(u.kids[i].value) = u.kids[i].value BY <2>6 DEF Settled
    <3> QED BY <2>2, <2>3, <2>4, <3>1, HarmlessScrubbed
  <2>8. ASSUME NEW k \in 0..d PROVE Project(u, k) = u
    <3>1. k \in 0..MaxDepth /\ k # MaxDepth /\ k + 1 \in 0..(d + 1) BY <1>0, <2>0, <2>4
    <3>2. \A i \in DOMAIN u.kids : Project(u.kids[i].value, k + 1) = u.kids[i].value
      BY <2>6, <3>1 DEF Settled
    <3> QED BY <2>2, <2>3, <2>4, <2>5, <3>1, <3>2, HarmlessProjected
  <2> QED BY <2>7, <2>8 DEF Settled
<1>2. 0 \in N
  <2>1. ASSUME NEW d \in 1..Height, Height - 0 <= d, NEW u \in Level(v)[d] PROVE Settled(u, d)
    <3>1. d = Height BY <1>0, <2>1
    <3> QED BY <1>1, <3>1
  <2> QED BY <2>1
<1>3. ASSUME NEW n \in N PROVE n + 1 \in N
  <2>1. n \in Nat /\ n + 1 \in Nat /\ Done(n) BY <1>3
  <2>2. ASSUME NEW d \in 1..Height, Height - (n + 1) <= d, NEW u \in Level(v)[d]
        PROVE  Settled(u, d)
    <3>1. d # Height => d + 1 \in 1..Height /\ Height - n <= d + 1 BY <1>0, <2>1, <2>2
    <3>2. d # Height => \A w \in Level(v)[d + 1] : Settled(w, d + 1) BY <2>1, <3>1
    <3> QED BY <1>1, <3>2
  <2> QED BY <2>1, <2>2
<1>4. N \in SUBSET Nat OBVIOUS
<1> HIDE DEF N
<1>5. N = Nat BY <1>2, <1>3, <1>4, SetInduction
<1>6. Done(Height) BY <1>0, <1>5 DEF N
<1>7. \A d \in 1..Height : Height - Height <= d BY <1>0
<1> QED BY <1>6, <1>7

\* Values that neither scrubbing nor projection changes.
Unchanged(v) == Scrub(v) = v /\ Project(v, 1) = v /\ v # Error

LEMMA PlainMembers ==
  ASSUME NEW v, Tree("data", 1, v), Plain(v)
  PROVE  \A i \in DOMAIN v.kids : Unchanged(v.kids[i].value)
<1> SUFFICES ASSUME NEW i \in DOMAIN v.kids PROVE Unchanged(v.kids[i].value) OBVIOUS
<1>1. /\ Tree("data", 1, v.kids[i].value) /\ v.kids[i].value \in Level(v)[1]
  BY TreeMembers
<1>2. 1 \in 1..Height /\ 1 \in 0..1 BY LimitsAssumption
<1>3. Settled(v.kids[i].value, 1) BY <1>1, <1>2, PlainLevels
<1>4. v.kids[i].value # Error
  <2>1. Fit("data", 1, v.kids[i].value) BY <1>1, TreeNodes
  <2> QED BY <2>1 DEF Fit, DataNode, Error, Node
<1> QED BY <1>2, <1>3, <1>4 DEF Settled, Unchanged
\* A map no entry of which goes by one of these keys.
LEMMA ExcludingNone ==
  ASSUME NEW v, IsTree(v), NEW keys, Keys(v) \intersect keys = {}
  PROVE  Excluding(v, keys) = MapOf(v.kids)
<1> DEFINE T == {e \in {v.kids[i] : i \in DOMAIN v.kids} : e.key \in keys}
           E == [key : Seq(Symbols), value : Nodes(v)]
<1>1. v \in NodesOver(Nodes(v)) BY NodeTrees
<1>2. v.kids \in Seq(E) BY <1>1 DEF NodesOver
<1>3. DOMAIN v.kids = 1..Len(v.kids) BY <1>1, NodeIs
<1>4. \A i \in 1..Len(v.kids) : v.kids[i] \notin T BY <1>3 DEF Keys
<1>5. Excluding(v, keys) = MapOf(Without(v.kids, T)) BY DEF Excluding
<1> HIDE DEF E, T
<1>6. Without(v.kids, T) = v.kids BY <1>2, <1>4, WithoutNone
<1> QED BY <1>5, <1>6

\* The entries of an event that is made of plain attributes: these and two more.
EventKids(e, f) ==
  /\ e.kind = "map" /\ Len(e.kids) = Len(f.kids) + 2
  /\ \A i \in 1..Len(f.kids) : e.kids[i] = f.kids[i]
  /\ e.kids[Len(f.kids) + 1] = Entry(<<"event_type">>, Text(<<"event_type">>))
  /\ e.kids[Len(f.kids) + 2] = Entry(<<"schema_version">>, Text(<<"schema_version">>))

LEMMA PlainEvent ==
  ASSUME NEW s \in Sources, Plain(s.fields), s.body = Unread
  PROVE  /\ NewEvent(Captured(s)) # Error
         /\ EventKids(NewEvent(Captured(s)), s.fields)
<1> DEFINE f == s.fields
           L == Level(f)
           g == MapOf(f.kids)
           two == <<Entry(<<"event_type">>, Text(<<"event_type">>)),
                    Entry(<<"schema_version">>, Text(<<"schema_version">>))>>
<1>0. Height \in Nat BY LimitsAssumption
<1>1. f.kind = "map" /\ IsData(f, Height) BY SourcesAssumption
<1>2. Tree("data", 1, f) BY <1>1, AttributesAre
<1>3. f.kids \in Seq(Entries(L[1])) /\ Layers("data", 1, L) BY <1>2, KidsIn DEF Tree
<1>4. Captured(s) = g
  <2>1. ~s.body.wanted BY DEF Unread
  <2>2. CapturedBody(s.body) = NoBody BY <2>1, CapturedIs
  <2>3. CapturedBody(s.body).kids = <<>> BY <2>2 DEF NoBody, MapOf, Node
  <2> HIDE DEF L
  <2>4. f.kids \o <<>> = f.kids BY <1>3
  <2> QED BY <2>3, <2>4 DEF Captured
<1>5. /\ Tree("data", 1, g) /\ g.kind = "map" /\ g.kids = f.kids
      /\ Layers("data", 1, Retop(L, g)) /\ g \in Retop(L, g)[0]
  <2> HIDE DEF L
  <2> QED BY <1>3, MapOfTree, RankIs
<1>6. Plain(f) OBVIOUS
<1>7. Keys(f) \subseteq ShownKeys \union Restored BY <1>6 DEF Plain
<1>8. Keys(g) = Keys(f) BY <1>5 DEF Keys
<1>9. NumberKey \notin ShownKeys \union Restored BY NamesAssumption DEF NumberKey, Restored
<1>10. Authoritative \intersect (ShownKeys \union Restored) = {}
  BY NamesAssumption DEF Authoritative, Restored
<1> HIDE DEF g, f
<1>11. IsCanonical(g)
  <2> SUFFICES ASSUME NEW u \in Nodes(g)
               PROVE  u.kind \in JsonKinds /\ (u.kind = "map" => NumberKey \notin Keys(u))
    BY DEF IsCanonical
  <2>1. Layered(Retop(L, g)) BY <1>5 DEF Layers
  <2>2. PICK d \in 0..Height : u \in Retop(L, g)[d] BY <1>5, <2>1, NodesWithin
  <2>3. CASE d = 0
    <3>1. u = g BY <2>2, <2>3 DEF Retop
    <3> QED BY <1>5, <1>7, <1>8, <1>9, <3>1 DEF JsonKinds
  <2>4. CASE d # 0
    <3>1. d \in 1..Height /\ u \in L[d] BY <1>0, <2>2, <2>4 DEF Retop
    <3>2. u.kind \in JsonKinds /\ (u.kind = "map" => Keys(u) \subseteq ShownKeys)
      BY <1>6, <3>1 DEF Plain
    <3> QED BY <1>9, <3>2
  <2> QED BY <2>3, <2>4
<1>12. Authoritative \intersect Keys(g) = {} BY <1>7, <1>8, <1>10
<1>13. Excluding(g, Authoritative).kids = f.kids
  <2>1. IsTree(g) BY <1>5, TreeNodes
  <2>2. Excluding(g, Authoritative) = MapOf(g.kids) BY <1>12, <2>1, ExcludingNone
  <2> QED BY <1>5, <2>2 DEF MapOf, Node
<1>14. NewEvent(g) = MapOf(f.kids \o two) BY <1>11, <1>12, <1>13 DEF NewEvent
<1> DEFINE S == Entries(L[1]) \union {two[1], two[2]}
<1>15. f.kids \in Seq(S) /\ two \in Seq(S) /\ Len(two) = 2
  <2> HIDE DEF L
  <2>1. f.kids \in Seq(Entries(L[1])) BY <1>3 DEF f
  <2> DEFINE A == Entries(L[1])
             a == two[1]
             b == two[2]
  <2>2. two = <<a, b>> OBVIOUS
  <2> HIDE DEF A, a, b, two
  <2> QED BY <2>1, <2>2
<1>16. /\ Len(f.kids \o two) = Len(f.kids) + 2
       /\ \A i \in 1..Len(f.kids) : (f.kids \o two)[i] = f.kids[i]
       /\ \A i \in 1..2 : (f.kids \o two)[Len(f.kids) + i] = two[i]
  <2> HIDE DEF S, two
  <2> QED BY <1>15, ConcatAt
<1>17. NewEvent(g).kids = f.kids \o two /\ NewEvent(g).kind = "map"
  <2> HIDE DEF two
  <2> QED BY <1>14 DEF MapOf, Node
<1>18. NewEvent(g) # Error BY <1>17 DEF Error, Node
<1>19. EventKids(NewEvent(g), f)
  <2>1. 1 \in 1..2 /\ 2 \in 1..2 OBVIOUS
  <2>2. NewEvent(g).kids[Len(f.kids) + 1] = two[1] /\ NewEvent(g).kids[Len(f.kids) + 2] = two[2]
    BY <1>16, <1>17, <2>1
  <2> QED BY <1>16, <1>17, <2>2 DEF EventKids
<1> QED BY <1>4, <1>18, <1>19 DEF f
\* Plain attributes pass the gate as they are.
LEMMA PlainGate ==
  ASSUME NEW rank \in Ranks, NEW v, Tree("data", rank, v), v.kind = "map",
         Len(v.kids) <= MaxAttributes,
         \A i \in DOMAIN v.kids : Unchanged(v.kids[i].value) /\ ~IsSensitiveKey(v.kids[i].key)
  PROVE  Gate(v) # Error /\ Gate(v).kind = "map" /\ Gate(v).kids = v.kids
<1> DEFINE r == Gate(v)
<1>1. /\ DOMAIN v.kids = 1..Len(v.kids) /\ Len(v.kids) \in Nat
      /\ v.kids \in Seq(Entries(Level(v)[1]))
      /\ \A i \in DOMAIN v.kids : v.kids[i] = Entry(v.kids[i].key, v.kids[i].value)
  <2>1. v \in NodesOver(Nodes(v)) BY TreeNodes, NodeTrees
  <2> QED BY <2>1, NodeIs, KidsIn
<1>2. \A i \in 1..Len(v.kids) :
        /\ Scrub(v.kids[i].value) # Error /\ Project(Scrub(v.kids[i].value), 1) # Error
        /\ Passed(v.kids[i].key, v.kids[i].value) = v.kids[i].value
  BY <1>1 DEF Unchanged, Passed
<1>3. r # Error BY <1>2, GateWorks
<1>4. Tree("json", rank, r) /\ r.kind = "map" /\ Gated(r, v) BY <1>3, GateIs
<1>5. r.kids \in Seq(Entries(Level(r)[1])) BY <1>4, KidsIn
<1> HIDE DEF r
<1>6. Len(r.kids) = Len(v.kids) /\ \A i \in 1..Len(v.kids) : r.kids[i] = v.kids[i]
  BY <1>1, <1>2, <1>4 DEF Gated
<1>7. r.kids = v.kids BY <1>1, <1>5, <1>6
<1> QED BY <1>3, <1>4, <1>7 DEF r

\* Plain additions are the same however often they pass.
LEMMA PlainAdditions ==
  ASSUME NEW s \in Sources, Plain(s.additions), NEW v, v = Unprotected(s.additions)
  PROVE  /\ Gate(v) # Error /\ Gate(v).kids = v.kids
         /\ Sent(s) # Error /\ Sent(s).kind = "map" /\ Unprotected(Sent(s)) = v
         /\ Keys(v) = Keys(s.additions) \ Protected
         /\ \A k \in Keys(v) : ValueOf(v, k) = ValueOf(s.additions, k)
<1> DEFINE a == s.additions
<1>1. a.kind = "map" /\ IsData(a, Height) BY SourcesAssumption
<1>2. Tree("data", 1, a) BY <1>1, AttributesAre
<1>3. v = Excluding(a, Protected) /\ Plain(a) BY DEF Unprotected
<1> HIDE DEF a
<1>4. Tree("data", 1, v) BY <1>2, <1>3, ExcludingTree, RankIs
<1>5. IsTree(a) BY <1>2, TreeNodes
<1>6. /\ Len(v.kids) <= Len(a.kids) /\ Len(v.kids) \in Nat /\ v.kind = "map"
      /\ \A i \in DOMAIN v.kids : /\ v.kids[i].key \notin Protected
                                  /\ \E j \in DOMAIN a.kids : v.kids[i] = a.kids[j]
      /\ \A j \in DOMAIN a.kids : a.kids[j].key \notin Protected =>
           \E i \in DOMAIN v.kids : v.kids[i] = a.kids[j]
  BY <1>3, <1>5, ExcludedEntries
<1>7. OneEach(a) BY <1>1, DataOneEach DEF OneEach
<1>8. OneEach(v)
  <2> SUFFICES ASSUME NEW i \in DOMAIN v.kids, NEW j \in DOMAIN v.kids,
                      v.kids[i].key = v.kids[j].key
               PROVE  v.kids[i].value = v.kids[j].value
    BY DEF OneEach
  <2>1. PICK n \in DOMAIN a.kids : v.kids[i] = a.kids[n] BY <1>6
  <2>2. PICK p \in DOMAIN a.kids : v.kids[j] = a.kids[p] BY <1>6
  <2>3. a.kids[n].key = a.kids[p].key BY <2>1, <2>2
  <2>4. a.kids[n].value = a.kids[p].value BY <1>7, <2>3 DEF OneEach
  <2> QED BY <2>1, <2>2, <2>4
<1>9. Keys(v) = Keys(a) \ Protected
  <2>1. ASSUME NEW k \in Keys(v) PROVE k \in Keys(a) \ Protected BY <1>6 DEF Keys
  <2>2. ASSUME NEW k \in Keys(a) \ Protected PROVE k \in Keys(v)
    <3>1. PICK j \in DOMAIN a.kids : a.kids[j].key = k BY DEF Keys
    <3>2. PICK i \in DOMAIN v.kids : v.kids[i] = a.kids[j] BY <1>6, <3>1
    <3> QED BY <3>1, <3>2 DEF Keys
  <2> QED BY <2>1, <2>2
<1>10. ASSUME NEW k \in Keys(v) PROVE ValueOf(v, k) = ValueOf(a, k)
  <2>1. PICK i \in DOMAIN v.kids : v.kids[i].key = k /\ ValueOf(v, k) = v.kids[i].value
    BY ValueIs
  <2>2. PICK j \in DOMAIN a.kids : v.kids[i] = a.kids[j] BY <1>6
  <2>3. ValueOf(a, a.kids[j].key) = a.kids[j].value BY <1>7, ValueAt
  <2> QED BY <2>1, <2>2, <2>3
<1>11. Keys(a) \subseteq ShownKeys \union Restored /\ Len(a.kids) + 2 <= MaxAttributes
  BY <1>3 DEF Plain
<1>12. Gate(v) # Error /\ Gate(v).kind = "map" /\ Gate(v).kids = v.kids
  <2>1. \A i \in DOMAIN a.kids : Unchanged(a.kids[i].value) BY <1>2, <1>3, PlainMembers
  <2>2. \A i \in DOMAIN v.kids : Unchanged(v.kids[i].value) BY <1>6, <2>1
  <2>3. \A i \in DOMAIN v.kids : v.kids[i].key \in ShownKeys
    <3>1. \A i \in DOMAIN v.kids : v.kids[i].key \in Keys(v) BY DEF Keys
    <3> QED BY <1>9, <1>11, <3>1 DEF Protected
  <2>4. \A i \in DOMAIN v.kids : ~IsSensitiveKey(v.kids[i].key) BY <2>3, NamesAssumption
  <2>5. Len(v.kids) <= MaxAttributes
    <3>1. MaxAttributes \in Nat /\ Len(a.kids) \in Nat
      <4>1. a \in NodesOver(Nodes(a)) BY <1>5, NodeTrees
      <4> QED BY <4>1, NodeIs, LimitsAssumption
    <3> QED BY <1>6, <1>11, <3>1
  <2> QED BY <1>4, <1>6, <2>2, <2>4, <2>5, PlainGate, RankIs
<1>13. Sent(s) # Error /\ Sent(s).kind = "map" /\ Unprotected(Sent(s)) = v
  <2>1. CASE ~s.emitted
    <3>1. Sent(s) = a BY <2>1 DEF Sent, a
    <3>2. a # Error BY <1>1 DEF Error, Node
    <3> QED BY <1>1, <1>3, <3>1, <3>2 DEF Unprotected
  <2>2. CASE s.emitted
    <3>1. Sent(s) = Gate(v) BY <1>3, <2>2 DEF Sent, Unprotected, a
    <3>2. Tree("json", 1, Gate(v)) BY <1>4, <1>6, <1>12, GateIs, RankIs
    <3>3. IsTree(Gate(v)) BY <3>2, TreeNodes
    <3>4. Keys(Gate(v)) = Keys(v) BY <1>12 DEF Keys
    <3>5. Keys(Gate(v)) \intersect Protected = {} BY <1>9, <3>4
    <3>6. Unprotected(Gate(v)) = MapOf(v.kids)
      <4>1. Excluding(Gate(v), Protected) = MapOf(Gate(v).kids) BY <3>3, <3>5, ExcludingNone
      <4> QED BY <1>12, <4>1 DEF Unprotected
    <3>7. v = MapOf(v.kids) BY <1>3 DEF Excluding, MapOf, Node
    <3> QED BY <1>12, <3>1, <3>6, <3>7
  <2> QED BY <2>1, <2>2
<1> QED BY <1>9, <1>10, <1>12, <1>13 DEF a
\* The values of an event that is made of plain attributes, and what the gate makes of them.
LEMMA PlainValues ==
  ASSUME NEW s \in Sources, Plain(s.fields), s.body = Unread,
         NEW e, e = NewEvent(Captured(s)), Gate(e) # Error
  PROVE  /\ Authoritative \subseteq Keys(e) /\ Keys(Gate(e)) = Keys(e)
         /\ \A k \in Authoritative : ValueOf(e, k) = Text(k)
         /\ \A k \in Keys(e) \intersect Restored : Project(ValueOf(e, k), 1) = ValueOf(e, k)
         /\ \A k \in Keys(e) \ Protected : ValueOf(Gate(e), k) = ValueOf(e, k)
<1> DEFINE f == s.fields
           n == Len(f.kids)
           r == Gate(e)
<1>1. f.kind = "map" /\ IsData(f, Height) /\ Plain(f) BY SourcesAssumption
<1>2. Tree("data", 1, f) BY <1>1, AttributesAre
<1>3. n \in Nat /\ DOMAIN f.kids = 1..n
  <2>1. f \in NodesOver(Nodes(f)) BY <1>2, TreeNodes, NodeTrees
  <2> QED BY <2>1, NodeIs
<1>4. \A i \in DOMAIN f.kids : Unchanged(f.kids[i].value) BY <1>1, <1>2, PlainMembers
<1>5. \A i \in DOMAIN f.kids : f.kids[i].key \in ShownKeys \union Restored
  <2>1. Keys(f) \subseteq ShownKeys \union Restored BY <1>1 DEF Plain
  <2> QED BY <2>1 DEF Keys
<1>6. Authoritative \intersect (ShownKeys \union Restored) = {}
  BY NamesAssumption DEF Authoritative, Restored
<1>7. \A i, j \in DOMAIN f.kids : f.kids[i].key = f.kids[j].key => i = j
  BY <1>1, DataOneEach
<1>8. n + 2 <= MaxAttributes BY <1>1 DEF Plain
<1>9. e # Error /\ EventKids(e, f) BY PlainEvent
<1>10. Tree("data", 3, e) /\ e.kind = "map" BY <1>9, EventIs
<1>11. Tree("json", 3, r) /\ Gated(r, e) BY <1>10, GateIs, RankIs
<1> HIDE DEF f, r
<1> DEFINE named == Entry(<<"event_type">>, Text(<<"event_type">>))
           versioned == Entry(<<"schema_version">>, Text(<<"schema_version">>))
<1>12. /\ Len(e.kids) = n + 2 /\ \A i \in 1..n : e.kids[i] = f.kids[i]
       /\ e.kids[n + 1] = named /\ e.kids[n + 2] = versioned
  BY <1>9 DEF EventKids
<1>13. DOMAIN e.kids = 1..(n + 2) /\ DOMAIN r.kids = 1..Len(r.kids)
  <2>1. e \in NodesOver(Nodes(e)) BY <1>10, TreeNodes, NodeTrees
  <2>2. r \in NodesOver(Nodes(r)) BY <1>11, TreeNodes, NodeTrees
  <2> QED BY <1>12, <2>1, <2>2, NodeIs
<1>14. /\ named.key = <<"event_type">> /\ named.value = Text(named.key)
       /\ versioned.key = <<"schema_version">> /\ versioned.value = Text(versioned.key)
       /\ Authoritative = {named.key, versioned.key} /\ named.key # versioned.key
  BY DEF Entry, Authoritative
<1> HIDE DEF named, versioned, n
<1>15. OneEach(e)
  <2> SUFFICES ASSUME NEW i \in 1..(n + 2), NEW j \in 1..(n + 2), e.kids[i].key = e.kids[j].key
               PROVE  i = j
    BY <1>13 DEF OneEach
  <2>1. \A p \in 1..n : e.kids[p].key \notin Authoritative BY <1>3, <1>5, <1>6, <1>12
  <2>2. \A p \in 1..(n + 2) : p \in 1..n \/ p = n + 1 \/ p = n + 2 BY <1>3
  <2>3. CASE i \in 1..n /\ j \in 1..n BY <1>3, <1>7, <1>12, <2>3
  <2>4. CASE i \notin 1..n /\ j \notin 1..n BY <1>12, <1>14, <2>2, <2>4
  <2>5. CASE i \in 1..n /\ j \notin 1..n BY <1>12, <1>14, <2>1, <2>2, <2>5
  <2>6. CASE i \notin 1..n /\ j \in 1..n BY <1>12, <1>14, <2>1, <2>2, <2>6
  <2> QED BY <2>3, <2>4, <2>5, <2>6
<1>16. /\ Len(r.kids) = n + 2
       /\ \A i \in 1..(n + 2) : r.kids[i] = Entry(e.kids[i].key, Passed(e.kids[i].key, e.kids[i].value))
  <2>1. n + 2 \in Nat BY <1>3
  <2> QED BY <1>8, <1>11, <1>12, <2>1 DEF Gated
<1>17. ASSUME NEW i \in 1..(n + 2)
       PROVE  /\ r.kids[i].key = e.kids[i].key
              /\ r.kids[i].value = Passed(e.kids[i].key, e.kids[i].value)
  <2> DEFINE key == e.kids[i].key
             value == Passed(e.kids[i].key, e.kids[i].value)
  <2>1. r.kids[i] = Entry(key, value) BY <1>16
  <2> HIDE DEF key, value
  <2>2. r.kids[i].key = key /\ r.kids[i].value = value BY <2>1 DEF Entry
  <2> QED BY <2>2 DEF key, value
<1>18. DOMAIN r.kids = 1..(n + 2) BY <1>13, <1>16
<1>19. Keys(r) = Keys(e) BY <1>13, <1>17, <1>18 DEF Keys
<1>20. n + 1 \in DOMAIN e.kids /\ n + 2 \in DOMAIN e.kids BY <1>3, <1>13
<1>21. Authoritative \subseteq Keys(e)
  <2>1. e.kids[n + 1].key \in Keys(e) /\ e.kids[n + 2].key \in Keys(e) BY <1>20 DEF Keys
  <2> QED BY <1>12, <1>14, <2>1
<1>22. ASSUME NEW k \in Authoritative PROVE ValueOf(e, k) = Text(k)
  <2>1. ValueOf(e, e.kids[n + 1].key) = e.kids[n + 1].value BY <1>15, <1>20, ValueAt
  <2>2. ValueOf(e, e.kids[n + 2].key) = e.kids[n + 2].value BY <1>15, <1>20, ValueAt
  <2> QED BY <1>12, <1>14, <2>1, <2>2
<1>23. ASSUME NEW i \in DOMAIN e.kids, e.kids[i].key \notin Authoritative
       PROVE  /\ i \in 1..n /\ Unchanged(e.kids[i].value)
              /\ e.kids[i].key \in ShownKeys \union Restored
  <2>1. i \in 1..n \/ i = n + 1 \/ i = n + 2 BY <1>3, <1>13
  <2>2. i \in 1..n BY <1>12, <1>14, <1>23, <2>1
  <2> QED BY <1>3, <1>4, <1>5, <1>12, <2>2
<1>24. ASSUME NEW k \in Keys(e) \intersect Restored PROVE Project(ValueOf(e, k), 1) = ValueOf(e, k)
  <2>1. PICK i \in DOMAIN e.kids : e.kids[i].key = k /\ ValueOf(e, k) = e.kids[i].value
    BY ValueIs
  <2>2. k \notin Authoritative BY <1>6
  <2> QED BY <1>23, <2>1, <2>2 DEF Unchanged
<1>25. ASSUME NEW k \in Keys(e) \ Protected PROVE ValueOf(r, k) = ValueOf(e, k)
  <2>1. PICK i \in DOMAIN r.kids : r.kids[i].key = k /\ ValueOf(r, k) = r.kids[i].value
    BY <1>19, ValueIs
  <2>2. i \in DOMAIN e.kids /\ e.kids[i].key = k /\ ValueOf(r, k) = Passed(k, e.kids[i].value)
    BY <1>13, <1>17, <1>18, <2>1
  <2>3. ValueOf(e, k) = e.kids[i].value BY <1>15, <2>2, ValueAt
  <2>4. k \notin Authoritative /\ k \notin Restored BY <1>25 DEF Protected
  <2>5. Unchanged(e.kids[i].value) /\ k \in ShownKeys BY <1>23, <2>2, <2>4
  <2>6. ~IsSensitiveKey(k) BY <2>5, NamesAssumption
  <2> QED BY <2>2, <2>3, <2>5, <2>6 DEF Passed, Unchanged
<1> QED BY <1>19, <1>21, <1>22, <1>24, <1>25 DEF r

\* What holds no secret is in a full line as it was.
LEMMA PlainLine ==
  ASSUME NEW s \in Sources, Plain(s.fields), Plain(s.additions), s.body = Unread,
         NEW e, e = NewEvent(Captured(s)), NEW m, m = Sent(s),
         NEW record, record = BuildLogRecord(e, m), record # Error
  PROVE  record = [k \in Keys(e) \union (Keys(s.additions) \ Protected) |->
                     ValueOf(IF k \in Keys(s.additions) \ Protected THEN s.additions ELSE e, k)]
<1> DEFINE a == s.additions
           v == Unprotected(m)
           own == Gate(e)
           added == Gate(v)
           others == Keys(a) \ Protected
           keys == Keys(own) \union Keys(added) \union Authoritative
                     \union (Restored \intersect Keys(e))
           At(k) == CASE k \in Authoritative -> Text(k)
                      [] k \in Restored \intersect Keys(e) -> Project(ValueOf(e, k), 1)
                      [] k \in Keys(added) -> ValueOf(added, k)
                      [] OTHER -> ValueOf(own, k)
           Plainly(k) == ValueOf(IF k \in others THEN a ELSE e, k)
<1>1. m.kind = "map" /\ v = Unprotected(a) BY PlainAdditions
<1>2. own # Error /\ added # Error /\ record = [k \in keys |-> At(k)] BY <1>1 DEF BuildLogRecord
<1>3. /\ Authoritative \subseteq Keys(e) /\ Keys(own) = Keys(e)
      /\ \A k \in Authoritative : ValueOf(e, k) = Text(k)
      /\ \A k \in Keys(e) \intersect Restored : Project(ValueOf(e, k), 1) = ValueOf(e, k)
      /\ \A k \in Keys(e) \ Protected : ValueOf(own, k) = ValueOf(e, k)
  BY <1>2, PlainValues
<1>4. /\ added.kids = v.kids /\ Keys(v) = others
      /\ \A k \in Keys(v) : ValueOf(v, k) = ValueOf(a, k)
  BY <1>1, PlainAdditions
<1> HIDE DEF added, own, v, a
<1>5. Keys(added) = others /\ \A k \in others : ValueOf(added, k) = ValueOf(a, k)
  <2>1. Keys(added) = Keys(v) BY <1>4 DEF Keys
  <2>2. ASSUME NEW k PROVE ValueOf(added, k) = ValueOf(v, k)
    <3> DEFINE kids == v.kids
    <3>1. added.kids = kids BY <1>4
    <3>2. ValueOf(v, k) = kids[CHOOSE i \in DOMAIN kids : kids[i].key = k].value BY DEF ValueOf
    <3> HIDE DEF kids
    <3> QED BY <3>1, <3>2 DEF ValueOf
  <2> QED BY <1>4, <2>1, <2>2
<1>6. Authoritative \intersect Restored = {} BY DEF Authoritative, Restored
<1>7. keys = Keys(e) \union others BY <1>3, <1>5
<1>8. ASSUME NEW k \in keys PROVE At(k) = Plainly(k)
  <2>1. CASE k \in Authoritative
    <3>1. k \notin others /\ k \notin Restored BY <1>6, <2>1 DEF Protected
    <3> QED BY <1>3, <1>5, <2>1, <3>1
  <2>2. CASE k \in Restored
    <3>1. k \notin others /\ k \notin Authoritative BY <1>6, <2>2 DEF Protected
    <3>2. k \in Keys(e) BY <1>7, <3>1
    <3> QED BY <1>3, <1>5, <2>2, <3>1, <3>2
  <2>3. CASE k \notin Authoritative /\ k \notin Restored /\ k \in others
    BY <1>5, <2>3
  <2>4. CASE k \notin Authoritative /\ k \notin Restored /\ k \notin others
    <3>1. k \in Keys(e) \ Protected BY <1>7, <2>4 DEF Protected
    <3> QED BY <1>3, <1>5, <2>4, <3>1
  <2> QED BY <2>1, <2>2, <2>3, <2>4
<1> HIDE DEF At, Plainly, keys
<1>9. record = [k \in Keys(e) \union others |-> Plainly(k)] BY <1>2, <1>7, <1>8
<1> QED BY <1>9 DEF Plainly, a
-----------------------------------------------------------------------------
(* The record on its way.                                                    *)

\* What event, additions and line are at each stage, in terms of what the record is made of.
OnItsWay ==
  /\ source \in Sources /\ stage \in {"capture", "build", "emit", "format", "done"}
  /\ stage # "done" => line = NoLine
  /\ stage = "capture" => event = source.fields
  /\ stage = "build" => event = Captured(source)
  /\ stage \in {"capture", "build", "emit"} => more = source.additions
  /\ stage = "emit" => source.emitted
  /\ stage \in {"emit", "format"} => event = NewEvent(Captured(source)) /\ event # Error
  /\ stage = "format" => more = Sent(source) /\ more # Error
  /\ stage = "done" =>
       \/ line = NoLine /\ (NewEvent(Captured(source)) = Error \/ Sent(source) = Error)
       \/ /\ event = NewEvent(Captured(source)) /\ event # Error /\ Sent(source) # Error
          /\ \/ line \in {FallbackRecord, LastResort}
             \/ line = BuildLogRecord(event, Sent(source)) /\ line # Error

LEMMA OnItsWayInit ==
  RecordInit => OnItsWay
BY DEF RecordInit, OnItsWay

LEMMA OnItsWayNext ==
  OnItsWay /\ [RecordNext]_recordVars => OnItsWay'
<1> SUFFICES ASSUME OnItsWay, [RecordNext]_recordVars PROVE OnItsWay' OBVIOUS
<1> USE DEF OnItsWay
<1>1. CASE Capture BY <1>1 DEF Capture, Captured
<1>2. CASE Build
  <2>1. /\ stage = "build" /\ event' = NewEvent(Captured(source))
        /\ source' = source /\ more' = source.additions /\ line' = NoLine
        /\ stage' = IF event' = Error THEN "done" ELSE IF source.emitted THEN "emit" ELSE "format"
    BY <1>2 DEF Build
  <2>2. CASE event' = Error BY <2>1, <2>2
  <2>3. CASE event' # Error /\ source.emitted BY <2>1, <2>3
  <2>4. CASE event' # Error /\ ~source.emitted
    <3>1. source.additions # Error BY SourcesAssumption DEF Error, Node
    <3>2. Sent(source) = source.additions BY <2>4 DEF Sent
    <3> QED BY <2>1, <2>4, <3>1, <3>2
  <2> QED BY <2>2, <2>3, <2>4
<1>3. CASE Emit
  <2>1. /\ stage = "emit" /\ more' = Sent(source) /\ UNCHANGED <<source, event, line>>
        /\ stage' = IF more' = Error THEN "done" ELSE "format"
    BY <1>3 DEF Emit, Sent
  <2>2. CASE more' = Error BY <2>1, <2>2
  <2>3. CASE more' # Error BY <2>1, <2>3
  <2> QED BY <2>2, <2>3
<1>4. ASSUME NEW room, Format(room) PROVE OnItsWay'
  <2>1. /\ stage = "format" /\ stage' = "done" /\ UNCHANGED <<source, event, more>>
        /\ \/ line' = BuildLogRecord(event, more) /\ line' # Error
           \/ line' = Fallback(room)
    BY <1>4 DEF Format
  <2>2. Fallback(room) \in {FallbackRecord, LastResort} BY DEF Fallback
  <2> QED BY <2>1, <2>2
<1>5. CASE UNCHANGED recordVars BY <1>5 DEF recordVars
<1> QED BY <1>1, <1>2, <1>3, <1>4, <1>5 DEF RecordNext

LEMMA OnItsWayShowsNothing ==
  OnItsWay => OnlySecretsAreRedacted
<1> SUFFICES ASSUME OnItsWay, stage = "done"
             PROVE  /\ \A k \in DOMAIN line \ Restored : Keeps(source, k, line[k])
                    /\ Plain(source.fields) /\ Plain(source.additions) /\ source.body = Unread =>
                         line \in {FallbackRecord, LastResort}
                           \union {[k \in Keys(event) \union (Keys(source.additions) \ Protected) |->
                                     ValueOf(IF k \in Keys(source.additions) \ Protected
                                             THEN source.additions ELSE event, k)]}
  BY DEF OnlySecretsAreRedacted, Keeps, Lets
<1>1. source \in Sources BY DEF OnItsWay
<1>2. CASE line = NoLine /\ (NewEvent(Captured(source)) = Error \/ Sent(source) = Error)
  <2>1. DOMAIN line = {} BY <1>2 DEF NoLine
  <2>2. ~(Plain(source.fields) /\ Plain(source.additions) /\ source.body = Unread)
    BY <1>1, <1>2, PlainEvent, PlainAdditions
  <2> QED BY <2>1, <2>2
<1>3. CASE line \in {FallbackRecord, LastResort}
  <2>1. \A k \in DOMAIN line \ Restored : Keeps(source, k, line[k]) BY <1>3, FallbackLine
  <2> QED BY <1>3, <2>1
<1>4. CASE /\ event = NewEvent(Captured(source)) /\ event # Error /\ Sent(source) # Error
           /\ line = BuildLogRecord(event, Sent(source)) /\ line # Error
  <2>1. \A k \in DOMAIN line \ Restored : Keeps(source, k, line[k]) BY <1>1, <1>4, FullLine
  <2>2. Plain(source.fields) /\ Plain(source.additions) /\ source.body = Unread =>
          line = [k \in Keys(event) \union (Keys(source.additions) \ Protected) |->
                    ValueOf(IF k \in Keys(source.additions) \ Protected
                            THEN source.additions ELSE event, k)]
    BY <1>1, <1>4, PlainLine
  <2> QED BY <2>1, <2>2
<1> QED BY <1>2, <1>3, <1>4 DEF OnItsWay

\* LOG formatters.py:133-164, emission.py:54-64, DJ body.py:34-98.  Whatever an event, a
\* request body and additions hold, a secret gets into a line only in the restored ids and
\* in additions with an object or a member of an Enum that no scrubbing recognised, and what
\* holds none and is within the limits is in a full line as it was.
THEOREM SecretsStayOut ==
  RecordSpec => []OnlySecretsAreRedacted
<1>1. RecordInit => OnItsWay BY OnItsWayInit
<1>2. OnItsWay /\ [RecordNext]_recordVars => OnItsWay' BY OnItsWayNext
<1>3. OnItsWay => OnlySecretsAreRedacted BY OnItsWayShowsNothing
<1> QED BY <1>1, <1>2, <1>3, PTL DEF RecordSpec

=============================================================================
