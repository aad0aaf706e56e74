----------------------- MODULE BlockManagementProofs -----------------------
(* Every deployment keeps the ledger of blocks; the page shows what is        *)
(* enforced while it is put together, no block is revoked twice where one     *)
(* step revokes it, and the trail has the last word on a scope whose last     *)
(* call met no other: for every set of scopes, operators and batches and      *)
(* every lifetime.                                                            *)
EXTENDS BlockManagement, SequenceTheorems, FiniteSetTheorems, TLAPS

\* The types the refinement rests on.
CallsOK  == \A o \in Operators : op[o] \in Calls /\ (op[o].at # "idle" => op[o].todo # <<>>)
StoreOK  ==
  /\ deployment \in {"memory", "redis", "tiered"}
  /\ kept \subseteq Scopes /\ left \in [Scopes -> Lives] /\ rows \subseteq Scopes
  /\ reading \subseteq Scopes
  /\ deployment # "memory" => \A s \in Scopes : left[s] # Forever
  /\ \A s \in Scopes : left[s] # 0 => s \in kept
TrailOK  ==
  /\ begun \in Nat /\ told \in [Scopes -> {"none", "temp", "permanent", "revoked"}]
  /\ wrote \in [Scopes -> Nat] /\ revoked \in [Scopes -> Nat] /\ clear \subseteq Scopes
CoreOK == StoreOK /\ TrailOK /\ op \in [Operators -> Calls] /\ CallsOK
PageOK ==
  page \in [at : {"idle", "scan", "rows", "list"}, of : Scopes, temp : BOOLEAN,
            steady : BOOLEAN, ever : BOOLEAN, renewed : BOOLEAN]

\* The type invariant in the parts the proofs use one at a time.
LEMMA TypeOKIsParts ==
  /\ TypeOK <=> CoreOK /\ PageOK
  /\ CoreOK <=> StoreOK /\ TrailOK /\ op \in [Operators -> Calls] /\ CallsOK
BY DEF TypeOK, CoreOK, StoreOK, TrailOK, CallsOK, PageOK

\* The lifetimes: a tick of one that ends leaves a lifetime.
LEMMA LivesType ==
  /\ Ttl \in Lives \ {0} /\ CacheTtl \in Lives \ {0, Forever} /\ Forever \in Lives \ {0}
  /\ 0 \in Lives \ {Forever}
  /\ \A d \in Lives \ {0, Forever} : d - 1 \in Lives \ {Forever}
BY ManagementAssumption DEF Lives

\* Whoever is in a call has a scope the call is about.
LEMMA OnType == ASSUME NEW o \in Operators, CallsOK, op[o].at # "idle" PROVE On(o) \in Scopes
BY DEF CallsOK, Calls, On

\* The lifetime a block is written with; only the dictionary keeps one for ever.
LEMMA LifeType ==
  ASSUME NEW ttl \in {Ttl, Forever}
  PROVE  Life(ttl) \in Lives \ {0} /\ (deployment # "memory" => Life(ttl) # Forever)
BY LivesType, ManagementAssumption DEF Life

-----------------------------------------------------------------------------
(* Type correctness.                                                         *)

\* The initial states are well typed.
LEMMA InitType == Init => TypeOK
<1>1. Idle \in Calls
  BY DEF Idle, Calls, Places, Kinds
<1>2. ASSUME Init PROVE op \in [Operators -> Calls] /\ \A o \in Operators : op[o].at = "idle"
  BY <1>1, <1>2 DEF Init, Idle
<1>3. ASSUME Init PROVE left \in [Scopes -> Lives] /\ \A s \in Scopes : left[s] = 0
  BY <1>3, LivesType DEF Init
<1>4. ASSUME Init PROVE PageOK
  BY <1>4, ManagementAssumption DEF Init, NoPage, PageOK
<1>5. QED
  BY <1>2, <1>3, <1>4, ManagementAssumption DEF Init, TypeOK, PageOK

\* The record a call leaves behind, and the calls it has met.
LEMMA MeetsType ==
  ASSUME TypeOK, NEW o \in Operators, NEW s \in Scopes, NEW after \in Calls,
         after.at # "idle" => after.todo # <<>>, Meets(o, s, after)
  PROVE  (op \in [Operators -> Calls] /\ CallsOK)'
BY DEF TypeOK, CallsOK, Meets, Calls

\* Changing the call of one operator to a well typed one keeps all calls well typed.
LEMMA OneCallType ==
  ASSUME TypeOK, NEW o \in Operators, NEW after \in Calls,
         after.at # "idle" => after.todo # <<>>, op' = [op EXCEPT ![o] = after]
  PROVE  (op \in [Operators -> Calls] /\ CallsOK)'
BY DEF TypeOK, CallsOK, Calls

\* The rest of a batch, or being idle, is a call again.
LEMMA RestType ==
  ASSUME TypeOK, NEW o \in Operators, op[o].at # "idle"
  PROVE  Rest(o) \in Calls /\ (Rest(o).at # "idle" => Rest(o).todo # <<>>)
<1>1. /\ op[o].todo \in Seq(Scopes) /\ op[o].todo # <<>>
      /\ op[o].kind \in Kinds /\ op[o].ttl \in {Ttl, Forever}
  BY DEF TypeOK, Calls
<1> DEFINE q == op[o].todo
<1>2. Tail(q) \in Seq(Scopes) /\ (Len(q) # 1 => Tail(q) # <<>>)
  <2>1. Tail(q) \in Seq(Scopes) /\ Len(Tail(q)) = Len(q) - 1 /\ Len(q) \in Nat
    BY <1>1, HeadTailProperties, LenProperties
  <2>2. Tail(q) = <<>> => Len(Tail(q)) = 0
    BY EmptySeq, Zenon
  <2> QED BY <2>1, <2>2
<1>3. CASE Len(q) = 1
  BY <1>3 DEF Rest, Idle, Calls, Places, Kinds
<1>4. CASE Len(q) # 1
  BY <1>1, <1>2, <1>4 DEF Rest, Idle, Calls, Places, Kinds
<1> QED BY <1>3, <1>4

\* The history an operator that starts on a scope leaves is well typed.
LEMMA EntersType ==
  ASSUME TypeOK, NEW o \in Operators, NEW at \in Places, NEW found \in BOOLEAN,
         op[o].at # "idle", Enters(o, at, found)
  PROVE  (op \in [Operators -> Calls] /\ CallsOK)' /\ (clear \subseteq Scopes)'
<1> DEFINE alone == On(o) \notin reading /\ \A p \in Operators \ {o} : ~MidCall(p, On(o))
           after == [op[o] EXCEPT !.at = at, !.found = found, !.alone = alone,
                       !.was = On(o) \in clear]
<1>1. On(o) \in Scopes
  BY OnType, TypeOKIsParts
<1>2. op[o] \in Calls /\ op[o].todo # <<>>
  BY DEF TypeOK
<1>3. after \in Calls /\ after.todo # <<>>
  <2>1. alone \in BOOLEAN /\ (On(o) \in clear) \in BOOLEAN
    OBVIOUS
  <2> HIDE DEF alone
  <2>2. QED
    BY <1>2, <2>1 DEF Calls
<1>4. Meets(o, On(o), after) /\ clear' = clear \ {On(o)}
  BY DEF Enters
<1>5. QED
  BY <1>1, <1>3, <1>4, MeetsType DEF TypeOK

\* The key or the row a block leaves in the store.
LEMMA WrittenType ==
  ASSUME TypeOK, NEW o \in Operators, On(o) \in Scopes, op[o].ttl \in {Ttl, Forever},
         Written(o), UNCHANGED <<deployment, reading>>
  PROVE  StoreOK'
<1>1. CASE Through(o)
  BY <1>1 DEF Written, TypeOK, StoreOK
<1>2. CASE ~Through(o)
  BY <1>2, LifeType DEF Written, TypeOK, StoreOK, PutKey
<1> QED BY <1>1, <1>2

\* What a page has read, and what becomes of it meanwhile, is well typed.
LEMMA PageStepType == ASSUME TypeOK, PageStep PROVE PageOK'
<1>1. PageOK
  BY TypeOKIsParts
<1>2. ASSUME NEW s \in Scopes, OpenPage(s) PROVE PageOK'
  <2>1. /\ (IF deployment = "memory" THEN left[s] \notin {0, Forever} ELSE s \in kept) \in BOOLEAN
        /\ Enforced(s) \in BOOLEAN
        /\ (IF deployment = "memory" THEN "list" ELSE "scan") \in {"idle", "scan", "rows", "list"}
    <3>1. CASE deployment = "memory" BY <3>1 DEF Enforced
    <3>2. CASE deployment # "memory" BY <3>2 DEF Enforced
    <3> QED BY <3>1, <3>2
  <2> QED BY <1>2, <2>1 DEF OpenPage, PageOK
<1>3. CASE ReadKey
  <2>1. PICK there \in {page.temp, page.of \in kept} :
          page' = [page EXCEPT !.at = IF deployment = "redis" THEN "list" ELSE "rows",
                               !.temp = there]
    BY <1>3 DEF ReadKey
  <2>2. there \in BOOLEAN
    <3>1. page.temp \in BOOLEAN BY <1>1 DEF PageOK
    <3>2. (page.of \in kept) \in BOOLEAN OBVIOUS
    <3> HIDE <2>1
    <3> QED BY <3>1, <3>2, Zenon
  <2> QED BY <1>1, <2>1, <2>2 DEF PageOK
<1>4. CASE SubtractRows
  BY <1>1, <1>4 DEF SubtractRows, PageOK
<1>5. CASE ClosePage
  BY <1>5, ManagementAssumption DEF ClosePage, NoPage, PageOK
<1> QED BY <1>2, <1>3, <1>4, <1>5 DEF PageStep

LEMMA WatchesType == ASSUME TypeOK, Watches PROVE PageOK'
<1>1. PageOK
  BY TypeOKIsParts
<1>2. PICK s \in Scopes :
        page' = IF page.at = "idle" THEN page
                ELSE [page EXCEPT !.temp = IF page.at = "scan" THEN @ /\ s \in kept' ELSE @,
                        !.steady = @ /\ Enforced(s)' /\ (Permanent(s) => Permanent(s)'),
                        !.ever = @ \/ Enforced(s)',
                        !.renewed = @ \/ (~Permanent(s) /\ Permanent(s)')]
  BY DEF Watches
<1> DEFINE temp == IF page.at = "scan" THEN page.temp /\ s \in kept' ELSE page.temp
           steady == page.steady /\ Enforced(s)' /\ (Permanent(s) => Permanent(s)')
           ever == page.ever \/ Enforced(s)'
           renewed == page.renewed \/ (~Permanent(s) /\ Permanent(s)')
<1>3. temp \in BOOLEAN /\ steady \in BOOLEAN /\ ever \in BOOLEAN /\ renewed \in BOOLEAN
  <2>1. page.temp \in BOOLEAN
    BY <1>1 DEF PageOK
  <2> QED BY <2>1
<1>4. page' = IF page.at = "idle" THEN page
              ELSE [page EXCEPT !.temp = temp, !.steady = steady, !.ever = ever,
                                !.renewed = renewed]
  BY <1>2
<1> HIDE DEF temp, steady, ever, renewed
<1> QED BY <1>1, <1>3, <1>4 DEF PageOK

\* Every step keeps the types.
LEMMA TypeStep == TypeOK /\ [Next]_vars => TypeOK'
<1> SUFFICES ASSUME TypeOK, [Next]_vars PROVE TypeOK'
  OBVIOUS
<1>1. ASSUME NEW o \in Operators, NEW b \in Batches,
             NEW ttl \in {Ttl, Forever}, NEW kind \in Kinds,
             Begin(o, kind, ttl, b), UNCHANGED <<deployment, reading>>
      PROVE  CoreOK'
  <2>1. [Idle EXCEPT !.at = "store", !.kind = kind, !.ttl = ttl, !.todo = b] \in Calls
    BY ManagementAssumption DEF Idle, Calls, Places, Kinds
  <2>2. (op \in [Operators -> Calls] /\ CallsOK)'
    BY <1>1, <2>1, OneCallType DEF Begin, Idle
  <2>3. QED
    BY <1>1, <2>2 DEF Begin, store, history, TypeOK, CoreOK, StoreOK, TrailOK, CallsOK
<1>2. ASSUME NEW o \in Operators, WriteBlock(o), UNCHANGED <<deployment, reading>> PROVE CoreOK'
  <2>1. On(o) \in Scopes /\ op[o].at # "idle" /\ op[o].ttl \in {Ttl, Forever}
    BY <1>2, OnType, TypeOKIsParts DEF WriteBlock, At, TypeOK, Calls
  <2>2. (op \in [Operators -> Calls] /\ CallsOK)' /\ (clear \subseteq Scopes)'
    BY <1>2, <2>1, EntersType DEF WriteBlock, Places
  <2>3. wrote' \in [Scopes -> Nat]
    BY <1>2, <2>1 DEF WriteBlock, Written, TypeOK
  <2>4. StoreOK'
    BY <1>2, <2>1, WrittenType DEF WriteBlock
  <2>5. QED
    BY <1>2, <2>2, <2>3, <2>4 DEF WriteBlock, TypeOK, CoreOK, TrailOK
<1>3. ASSUME NEW o \in Operators, CacheBlock(o), UNCHANGED <<deployment, reading>> PROVE CoreOK'
  <2>1. On(o) \in Scopes /\ op[o].at # "idle" /\ op[o] \in Calls /\ op[o].todo # <<>>
    BY <1>3, OnType, TypeOKIsParts DEF CacheBlock, At, TypeOK
  <2>2. (op \in [Operators -> Calls] /\ CallsOK)'
    <3>1. [op[o] EXCEPT !.at = "emit"] \in Calls /\ [op[o] EXCEPT !.at = "emit"].todo # <<>>
      BY <2>1 DEF Calls, Places
    <3>2. Meets(o, On(o), [op[o] EXCEPT !.at = "emit"])
      BY <1>3 DEF CacheBlock
    <3>3. QED
      BY <2>1, <3>1, <3>2, MeetsType
  <2>3. StoreOK'
    BY <1>3, <2>1, TypeOKIsParts, LivesType DEF CacheBlock, StoreOK, PutKey
  <2>4. QED
    BY <1>3, <2>2, <2>3 DEF CacheBlock, TypeOK, CoreOK, StoreOK, TrailOK, CallsOK, history
<1>4. ASSUME NEW o \in Operators, EraseKey(o), UNCHANGED <<deployment, reading>> PROVE CoreOK'
  <2>1. On(o) \in Scopes /\ op[o].at # "idle"
    BY <1>4, OnType, TypeOKIsParts DEF EraseKey, At
  <2>2. (op \in [Operators -> Calls] /\ CallsOK)' /\ (clear \subseteq Scopes)'
    <3>1. (On(o) \in kept) \in BOOLEAN
      OBVIOUS
    <3>2. QED
      BY <1>4, <2>1, <3>1, EntersType DEF EraseKey, Places
  <2>3. StoreOK'
    BY <1>4, <2>1, TypeOKIsParts, LivesType DEF EraseKey, StoreOK, NoKey
  <2>4. QED
    BY <1>4, <2>2, <2>3 DEF EraseKey, TypeOK, CoreOK, StoreOK, TrailOK, CallsOK
<1>5. ASSUME NEW o \in Operators, RevokeRow(o), UNCHANGED <<deployment, reading>> PROVE CoreOK'
  <2>1. On(o) \in Scopes /\ op[o].at # "idle" /\ op[o] \in Calls /\ op[o].todo # <<>>
    BY <1>5, OnType, TypeOKIsParts DEF RevokeRow, At, TypeOK
  <2>2. (op \in [Operators -> Calls] /\ CallsOK)'
    <3> DEFINE after == [op[o] EXCEPT !.at = "emit", !.found = @ \/ On(o) \in rows]
    <3>1. (op[o].found \/ On(o) \in rows) \in BOOLEAN
      OBVIOUS
    <3>2. after \in Calls /\ after.todo # <<>>
      BY <2>1, <3>1 DEF Calls, Places
    <3>3. Meets(o, On(o), after)
      BY <1>5 DEF RevokeRow
    <3>4. QED
      BY <2>1, <3>2, <3>3, MeetsType
  <2>3. QED
    BY <1>5, <2>2 DEF RevokeRow, TypeOK, CoreOK, StoreOK, TrailOK, CallsOK, history
<1>6. ASSUME NEW o \in Operators, Emit(o), UNCHANGED <<deployment, reading>> PROVE CoreOK'
  <2>1. On(o) \in Scopes /\ op[o].at # "idle" /\ op[o] \in Calls /\ op[o].todo # <<>>
    BY <1>6, OnType, TypeOKIsParts DEF Emit, At, TypeOK
  <2>2. (op \in [Operators -> Calls] /\ CallsOK)'
    <3>1. [op[o] EXCEPT !.at = "row"] \in Calls /\ [op[o] EXCEPT !.at = "row"].todo # <<>>
      BY <2>1 DEF Calls, Places
    <3>2. \/ op' = [op EXCEPT ![o] = [op[o] EXCEPT !.at = "row"]]
          \/ op' = [op EXCEPT ![o] = Rest(o)]
      BY <1>6 DEF Emit
    <3>3. QED
      BY <2>1, <3>1, <3>2, OneCallType, RestType
  <2>3. TrailOK'
    BY <1>6, <2>1 DEF Emit, TypeOK, TrailOK
  <2>4. QED
    BY <1>6, <2>2, <2>3 DEF Emit, TypeOK, CoreOK, StoreOK, TrailOK, CallsOK, store
<1>7. ASSUME NEW o \in Operators, SaveRow(o), UNCHANGED <<deployment, reading>> PROVE CoreOK'
  <2>1. On(o) \in Scopes /\ op[o].at # "idle"
    BY <1>7, OnType, TypeOKIsParts DEF SaveRow, At
  <2>2. (op \in [Operators -> Calls] /\ CallsOK)' /\ (clear \subseteq Scopes)'
    <3>1. \/ op' = [op EXCEPT ![o] = Rest(o)] /\ clear' = clear
          \/ Meets(o, On(o), Rest(o)) /\ clear' = clear \ {On(o)}
      BY <1>7 DEF SaveRow
    <3>2. QED
      BY <2>1, <3>1, OneCallType, MeetsType, RestType DEF TypeOK
  <2>3. QED
    BY <1>7, <2>1, <2>2 DEF SaveRow, TypeOK, CoreOK, StoreOK, TrailOK, CallsOK
<1>8. ASSUME NEW o \in Operators, StoreFails(o), UNCHANGED <<deployment, reading>> PROVE CoreOK'
  <2>1. Idle \in Calls /\ Idle.at = "idle"
    BY DEF Idle, Calls, Places, Kinds
  <2>2. (op \in [Operators -> Calls] /\ CallsOK)'
    BY <1>8, <2>1, OneCallType DEF StoreFails
  <2>3. QED
    BY <1>8, <2>2 DEF StoreFails, TypeOK, CoreOK, StoreOK, TrailOK, CallsOK, store, history
<1>9. ASSUME NEW o \in Operators, ReplyLost(o), UNCHANGED <<deployment, reading>> PROVE CoreOK'
  <2>1. On(o) \in Scopes /\ op[o].at # "idle" /\ op[o].ttl \in {Ttl, Forever}
    BY <1>9, OnType, TypeOKIsParts DEF ReplyLost, At, TypeOK, Calls
  <2>2. (op \in [Operators -> Calls] /\ CallsOK)'
    <3>1. Idle \in Calls /\ Idle.at = "idle"
      BY DEF Idle, Calls, Places, Kinds
    <3>2. Meets(o, On(o), Idle)
      BY <1>9 DEF ReplyLost
    <3>3. QED
      BY <2>1, <3>1, <3>2, MeetsType
  <2>3. StoreOK' /\ wrote' \in [Scopes -> Nat]
    <3>1. CASE Written(o)
      <4>1. StoreOK'
        BY <1>9, <2>1, <3>1, WrittenType
      <4>2. wrote' \in [Scopes -> Nat]
        BY <2>1, <3>1 DEF Written, TypeOK
      <4> QED BY <4>1, <4>2
    <3>2. CASE NoKey(On(o)) /\ UNCHANGED <<rows, wrote>>
      BY <1>9, <2>1, <3>2, LivesType DEF TypeOK, StoreOK, NoKey
    <3>3. CASE rows' = rows \ {On(o)} /\ UNCHANGED <<kept, left, wrote>>
      BY <1>9, <2>1, <3>3 DEF TypeOK, StoreOK
    <3>4. QED
      BY <1>9, <3>1, <3>2, <3>3 DEF ReplyLost
  <2>4. QED
    BY <1>9, <2>2, <2>3 DEF ReplyLost, TypeOK, CoreOK, TrailOK
<1>10. ASSUME NEW s \in Scopes, MeetsAll(s) PROVE (op \in [Operators -> Calls] /\ CallsOK)'
  <2>1. op' = [p \in Operators |-> IF MidCall(p, s) THEN [op[p] EXCEPT !.alone = FALSE] ELSE op[p]]
    BY <1>10 DEF MeetsAll
  <2>2. \A p \in Operators : op[p] \in Calls /\ (op[p].at # "idle" => op[p].todo # <<>>)
    BY DEF TypeOK, CallsOK
  <2>3. \A c \in Calls : LET d == [c EXCEPT !.alone = FALSE] IN
          d \in Calls /\ d.at = c.at /\ d.todo = c.todo
    BY DEF Calls
  <2>4. \A p \in Operators : op'[p] \in Calls /\ (op'[p].at # "idle" => op'[p].todo # <<>>)
    BY <2>1, <2>2, <2>3
  <2>5. QED
    BY <2>1, <2>4 DEF CallsOK
<1>11. ASSUME NEW s \in Scopes, DropExpired(s), UNCHANGED <<deployment, reading>> PROVE CoreOK'
  <2>1. StoreOK'
    BY <1>11, LivesType DEF DropExpired, TypeOK, StoreOK, NoKey
  <2>2. QED
    BY <1>11, <2>1 DEF DropExpired, TypeOK, CoreOK, TrailOK, CallsOK, history
<1>12. ASSUME NEW s \in Scopes, ReadRow(s), UNCHANGED deployment PROVE CoreOK'
  BY <1>10, <1>12 DEF ReadRow, TypeOK, CoreOK, StoreOK, TrailOK, CallsOK, store, history
<1>13. ASSUME NEW s \in Scopes, CacheAgain(s), UNCHANGED deployment PROVE CoreOK'
  <2>1. reading' \subseteq Scopes
    BY <1>13 DEF CacheAgain, TypeOK
  <2>2. StoreOK'
    <3>1. /\ rows' = rows /\ CacheTtl \in Lives /\ CacheTtl # 0 /\ CacheTtl # Forever
          /\ PutKey(s, CacheTtl) \/ UNCHANGED <<kept, left>>
      BY <1>13, LivesType DEF CacheAgain
    <3> QED BY <1>13, <2>1, <3>1 DEF TypeOK, StoreOK, PutKey
  <2>3. QED
    BY <1>10, <1>13, <2>2 DEF CacheAgain, TypeOK, CoreOK, TrailOK, CallsOK, history
<1>14. ASSUME Tick, UNCHANGED <<deployment, reading>> PROVE CoreOK'
  <2>1. left' \in [Scopes -> Lives]
    BY <1>14, LivesType DEF Tick, TypeOK
  <2>2. \A s \in Scopes : left'[s] = Forever => left[s] = Forever
    BY <1>14, LivesType DEF Tick, TypeOK
  <2>3. \A s \in Scopes : left'[s] # 0 => left[s] # 0
    BY <1>14 DEF Tick, TypeOK
  <2>4. kept' \subseteq Scopes /\ \A s \in Scopes : left'[s] # 0 => s \in kept'
    BY <1>14, <2>3 DEF Tick, TypeOK
  <2>5. QED
    BY <1>14, <2>1, <2>2, <2>4 DEF Tick, TypeOK, CoreOK, StoreOK, TrailOK, CallsOK, history
<1>15. CASE UNCHANGED vars
  BY <1>15 DEF vars, store, history, TypeOK
<1>16. CASE PageStep
  <2>1. CoreOK'
    BY <1>16 DEF PageStep, TypeOK, CoreOK, StoreOK, TrailOK, CallsOK, store, history
  <2>2. PageOK'
    BY <1>16, PageStepType
  <2>3. QED
    BY <2>1, <2>2 DEF TypeOK, CoreOK, StoreOK, TrailOK, CallsOK, PageOK
<1>17. CASE Next /\ ~PageStep
  <2>1. UNCHANGED deployment /\ Watches
    BY <1>17 DEF Next
  <2>2. ASSUME CallStep PROVE CoreOK'
    <3>1. UNCHANGED <<deployment, reading>>
      BY <2>1, <2>2 DEF CallStep
    <3>2. ASSUME NEW o \in Operators, Step(o) PROVE CoreOK'
      BY <3>1, <3>2, <1>2, <1>3, <1>4, <1>5, <1>6, <1>7, <1>8, <1>9 DEF Step
    <3>3. CASE \E o \in Operators, b \in Batches, kind \in Kinds, ttl \in {Ttl, Forever} :
                 Begin(o, kind, ttl, b)
      BY <3>1, <3>3, <1>1
    <3>4. QED
      BY <2>2, <3>1, <3>2, <3>3, <1>11, <1>14 DEF CallStep, Kinds
  <2>3. CoreOK'
    <3>1. ASSUME NEW s \in Scopes, ReadRow(s) \/ CacheAgain(s) PROVE CoreOK'
      BY <1>12, <1>13, <2>1, <3>1
    <3>2. CallStep \/ \E s \in Scopes : ReadRow(s) \/ CacheAgain(s)
      BY <1>17 DEF Next
    <3>3. QED
      BY <2>2, <3>1, <3>2
  <2>4. PageOK'
    BY <2>1, WatchesType
  <2>5. QED
    BY <2>3, <2>4 DEF TypeOK, CoreOK, StoreOK, TrailOK, CallsOK, PageOK
<1>18. QED
  BY <1>15, <1>16, <1>17

\* Every variable of BlockManagement keeps its type; outside the in-process store no
\* key is without an end, and a key in force is always kept.
THEOREM TypeCorrect == Spec => []TypeOK
BY InitType, TypeStep, PTL DEF Spec

-----------------------------------------------------------------------------
(* The calls, one step at a time.                                            *)

\* What each label says of the call at it; only the tiers have rows to cache.
ShapeOK ==
  /\ reading # {} => deployment = "tiered"
  /\ \A o \in Operators :
       /\ op[o].at = "cache" => deployment = "tiered" /\ Blocking(o) /\ op[o].ttl = Forever
       /\ op[o].at = "revoke" => deployment = "tiered" /\ ~Blocking(o)
       /\ op[o].at = "row" => op[o].ttl = Forever
       /\ op[o].kind = "add" => op[o].ttl = Forever

\* Operator p goes on with its call, which may have met another one.
Waits(p) ==
  /\ op'[p].at = op[p].at /\ op'[p].kind = op[p].kind /\ op'[p].ttl = op[p].ttl
  /\ op'[p].todo = op[p].todo /\ op'[p].found = op[p].found /\ op'[p].was = op[p].was
  /\ op'[p].alone => op[p].alone

\* A step of o takes its call from one record to the next; the others wait, and their
\* calls on the same scope have met it.
LEMMA MeetsIs ==
  ASSUME TypeOK, NEW o \in Operators, NEW s, NEW after, Meets(o, s, after)
  PROVE  /\ op'[o] = after
         /\ \A p \in Operators \ {o} : Waits(p) /\ (MidCall(p, s) => ~op'[p].alone)
<1>1. op'[o] = after BY DEF Meets
<1>2. ASSUME NEW p \in Operators \ {o}
      PROVE  Waits(p) /\ (MidCall(p, s) => ~op'[p].alone)
  <2> DEFINE c == op[p]
  <2>1. c \in Calls BY DEF TypeOK
  <2>2. op'[p] = IF MidCall(p, s) THEN [c EXCEPT !.alone = FALSE] ELSE c
    BY <1>2 DEF Meets
  <2> HIDE DEF c
  <2>3. LET d == [c EXCEPT !.alone = FALSE] IN
        /\ d.at = c.at /\ d.kind = c.kind /\ d.ttl = c.ttl /\ d.todo = c.todo
        /\ d.found = c.found /\ d.was = c.was /\ d.alone = FALSE
    BY <2>1 DEF Calls
  <2>4. Waits(p) BY <2>2, <2>3 DEF Waits, c
  <2> QED BY <2>2, <2>3, <2>4
<1> QED BY <1>1, <1>2

\* The first step of a call in the store.
LEMMA EntersIs ==
  ASSUME TypeOK, NEW o \in Operators, NEW at, NEW found, Enters(o, at, found)
  PROVE  /\ op'[o].at = at /\ (op'[o].found <=> found) /\ op'[o].kind = op[o].kind
         /\ op'[o].ttl = op[o].ttl /\ op'[o].todo = op[o].todo
         /\ op'[o].alone <=> On(o) \notin reading /\ \A p \in Operators \ {o} : ~MidCall(p, On(o))
         /\ op'[o].was <=> On(o) \in clear
         /\ \A p \in Operators \ {o} : Waits(p) /\ (MidCall(p, On(o)) => ~op'[p].alone)
<1> DEFINE c == op[o]
           alone == On(o) \notin reading /\ \A p \in Operators \ {o} : ~MidCall(p, On(o))
           was == On(o) \in clear
           after == [c EXCEPT !.at = at, !.found = found, !.alone = alone, !.was = was]
<1>1. c \in Calls BY DEF TypeOK
<1>2. Meets(o, On(o), after) BY DEF Enters
<1>3. /\ op'[o] = after
      /\ \A p \in Operators \ {o} : Waits(p) /\ (MidCall(p, On(o)) => ~op'[p].alone)
  <2> HIDE DEF after
  <2> QED BY <1>2, MeetsIs
<1> HIDE DEF c, alone, was
<1>4. /\ after.at = at /\ after.found = found /\ after.kind = c.kind /\ after.ttl = c.ttl
      /\ after.todo = c.todo /\ after.alone = alone /\ after.was = was
  BY <1>1 DEF Calls
<1> QED BY <1>3, <1>4 DEF c, alone, was

\* One operator's record changes.
LEMMA OneCallIs ==
  ASSUME TypeOK, NEW o \in Operators, NEW after, op' = [op EXCEPT ![o] = after]
  PROVE  op'[o] = after /\ \A p \in Operators \ {o} : Waits(p)
BY DEF TypeOK, Waits

\* What is left of a batch has no call in the store, and the kind and ttl of the batch.
LEMMA RestIs ==
  ASSUME TypeOK, NEW o \in Operators
  PROVE  /\ Rest(o).at \in {"idle", "store"}
         /\ Rest(o).kind = "add" => op[o].kind = "add" /\ Rest(o).ttl = op[o].ttl
BY DEF Rest, Idle

\* A call goes on to a label; the rest of its record may only lose its solitude.
LEMMA AtIs ==
  ASSUME TypeOK, NEW o \in Operators, NEW at
  PROVE  LET d == [op[o] EXCEPT !.at = at] IN
         /\ d.at = at /\ d.kind = op[o].kind /\ d.ttl = op[o].ttl /\ d.todo = op[o].todo
         /\ d.found = op[o].found /\ d.was = op[o].was /\ d.alone = op[o].alone
<1> DEFINE c == op[o]
<1>1. c \in Calls BY DEF TypeOK
<1> HIDE DEF c
<1>2. LET d == [c EXCEPT !.at = at] IN
      /\ d.at = at /\ d.kind = c.kind /\ d.ttl = c.ttl /\ d.todo = c.todo
      /\ d.found = c.found /\ d.was = c.was /\ d.alone = c.alone
  BY <1>1 DEF Calls
<1> QED BY <1>2 DEF c

\* What each step of an operator makes of its own call.
Becomes(o) ==
  /\ WriteBlock(o) =>
       /\ op'[o].at = IF Through(o) THEN "cache" ELSE "emit"
       /\ Blocking(o)' /\ op'[o].ttl = op[o].ttl /\ op'[o].todo = op[o].todo
       /\ op'[o].kind = op[o].kind
  /\ CacheBlock(o) =>
       /\ op'[o].at = "emit" /\ op'[o].kind = op[o].kind /\ op'[o].ttl = op[o].ttl
       /\ op'[o].todo = op[o].todo /\ op'[o].alone = op[o].alone
  /\ EraseKey(o) =>
       /\ op'[o].at = IF deployment = "tiered" THEN "revoke" ELSE "emit"
       /\ ~Blocking(o)' /\ op'[o].todo = op[o].todo
       /\ op'[o].kind = op[o].kind /\ op'[o].ttl = op[o].ttl
       /\ op'[o].found <=> On(o) \in kept
       /\ op'[o].was <=> On(o) \in clear
  /\ RevokeRow(o) =>
       /\ op'[o].at = "emit" /\ op'[o].kind = op[o].kind /\ op'[o].todo = op[o].todo
       /\ op'[o].ttl = op[o].ttl
       /\ op'[o].found <=> op[o].found \/ On(o) \in rows
       /\ op'[o].was = op[o].was /\ op'[o].alone = op[o].alone
  /\ Emit(o) => /\ op'[o].at \in {"row", "idle", "store"}
                /\ op'[o].at = "row" \/ op'[o].kind = "add" =>
                     op[o].kind = "add" /\ op'[o].ttl = op[o].ttl
  /\ SaveRow(o) => /\ op'[o].at \in {"idle", "store"}
                   /\ op'[o].kind = "add" => op[o].kind = "add" /\ op'[o].ttl = op[o].ttl
  /\ StoreFails(o) \/ ReplyLost(o) => op'[o] = Idle

\* What a step makes of its operator's call, while the other operators wait.
LEMMA StepIs ==
  ASSUME TypeOK, NEW o \in Operators, Step(o)
  PROVE  Becomes(o) /\ \A p \in Operators \ {o} : Waits(p)
<1> DEFINE Others == \A p \in Operators \ {o} : Waits(p)
<1>1. ASSUME WriteBlock(o)
      PROVE  /\ op'[o].at = IF Through(o) THEN "cache" ELSE "emit"
             /\ Blocking(o)' /\ op'[o].ttl = op[o].ttl /\ op'[o].todo = op[o].todo
             /\ op'[o].kind = op[o].kind /\ Others
  <2> DEFINE at == IF Through(o) THEN "cache" ELSE "emit"
  <2>1. Enters(o, at, FALSE) /\ Blocking(o) BY <1>1 DEF WriteBlock
  <2> HIDE DEF at
  <2>2. /\ op'[o].at = at /\ op'[o].ttl = op[o].ttl /\ op'[o].kind = op[o].kind
        /\ op'[o].todo = op[o].todo /\ Others
    BY <2>1, EntersIs
  <2>3. Blocking(o)' BY <2>1, <2>2 DEF Blocking
  <2> QED BY <2>2, <2>3 DEF at
<1>2. ASSUME CacheBlock(o)
      PROVE  /\ op'[o].at = "emit" /\ op'[o].kind = op[o].kind /\ op'[o].ttl = op[o].ttl
             /\ op'[o].todo = op[o].todo /\ op'[o].alone = op[o].alone /\ Others
  <2>1. Meets(o, On(o), [op[o] EXCEPT !.at = "emit"]) BY <1>2 DEF CacheBlock
  <2>2. op'[o] = [op[o] EXCEPT !.at = "emit"] /\ Others BY <2>1, MeetsIs
  <2> QED BY <2>2, AtIs
<1>3. ASSUME EraseKey(o)
      PROVE  /\ op'[o].at = IF deployment = "tiered" THEN "revoke" ELSE "emit"
             /\ ~Blocking(o)' /\ op'[o].todo = op[o].todo
             /\ op'[o].kind = op[o].kind /\ op'[o].ttl = op[o].ttl
             /\ op'[o].found <=> On(o) \in kept
             /\ op'[o].was <=> On(o) \in clear
             /\ Others
  <2> DEFINE at == IF deployment = "tiered" THEN "revoke" ELSE "emit"
             found == On(o) \in kept
  <2>1. Enters(o, at, found) /\ ~Blocking(o) BY <1>3 DEF EraseKey
  <2> HIDE DEF at, found
  <2>2. /\ op'[o].at = at /\ op'[o].ttl = op[o].ttl /\ op'[o].kind = op[o].kind
        /\ op'[o].todo = op[o].todo /\ (op'[o].found <=> found)
        /\ (op'[o].was <=> On(o) \in clear) /\ Others
    BY <2>1, EntersIs
  <2>3. ~Blocking(o)' BY <2>1, <2>2 DEF Blocking
  <2> QED BY <2>2, <2>3 DEF at, found
<1>4. ASSUME RevokeRow(o)
      PROVE  /\ op'[o].at = "emit" /\ op'[o].kind = op[o].kind /\ op'[o].todo = op[o].todo
             /\ op'[o].ttl = op[o].ttl
             /\ op'[o].found <=> op[o].found \/ On(o) \in rows
             /\ op'[o].was = op[o].was /\ op'[o].alone = op[o].alone /\ Others
  <2> DEFINE c == op[o]
             d == [c EXCEPT !.at = "emit", !.found = @ \/ On(o) \in rows]
  <2>1. Meets(o, On(o), d) BY <1>4 DEF RevokeRow
  <2>2. c \in Calls BY DEF TypeOK
  <2>3. op'[o] = d /\ Others
    <3> HIDE DEF d
    <3> QED BY <2>1, MeetsIs
  <2> HIDE DEF c
  <2>4. /\ d.at = "emit" /\ d.kind = c.kind /\ d.todo = c.todo /\ d.ttl = c.ttl
        /\ d.found <=> c.found \/ On(o) \in rows
        /\ d.was = c.was /\ d.alone = c.alone
    BY <2>2 DEF Calls
  <2> HIDE DEF d
  <2> QED BY <2>3, <2>4 DEF c
<1>5. ASSUME Emit(o)
      PROVE  /\ op'[o].at \in {"row", "idle", "store"}
             /\ op'[o].at = "row" \/ op'[o].kind = "add" =>
                  op[o].kind = "add" /\ op'[o].ttl = op[o].ttl
             /\ Others
  <2>1. CASE op[o].kind = "add"
    <3>1. op'[o] = [op[o] EXCEPT !.at = "row"] /\ Others
      <4>1. op' = [op EXCEPT ![o] = [op[o] EXCEPT !.at = "row"]] BY <1>5, <2>1 DEF Emit
      <4> QED BY <4>1, OneCallIs
    <3> QED BY <2>1, <3>1, AtIs
  <2>2. CASE op[o].kind # "add"
    <3>1. op'[o] = Rest(o) /\ Others
      <4>1. op' = [op EXCEPT ![o] = Rest(o)] BY <1>5, <2>2 DEF Emit
      <4> QED BY <4>1, OneCallIs
    <3> QED BY <2>2, <3>1, RestIs
  <2> QED BY <2>1, <2>2
<1>6. ASSUME SaveRow(o)
      PROVE  /\ op'[o].at \in {"idle", "store"}
             /\ op'[o].kind = "add" => op[o].kind = "add" /\ op'[o].ttl = op[o].ttl
             /\ Others
  <2>1. op' = [op EXCEPT ![o] = Rest(o)] \/ Meets(o, On(o), Rest(o)) BY <1>6 DEF SaveRow
  <2>2. op'[o] = Rest(o) /\ Others BY <2>1, OneCallIs, MeetsIs
  <2> QED BY <2>2, RestIs
<1>7. ASSUME StoreFails(o) \/ ReplyLost(o) PROVE op'[o] = Idle /\ Others
  <2>1. op' = [op EXCEPT ![o] = Idle] \/ Meets(o, On(o), Idle) BY <1>7 DEF StoreFails, ReplyLost
  <2> QED BY <2>1, OneCallIs, MeetsIs
<1>8. Others
  <2> HIDE DEF Others
  <2> QED BY <1>1, <1>2, <1>3, <1>4, <1>5, <1>6, <1>7 DEF Step
<1>9. Becomes(o)
  <2> HIDE DEF Others
  <2> QED BY <1>1, <1>2, <1>3, <1>4, <1>5, <1>6, <1>7 DEF Becomes
<1> QED BY <1>8, <1>9

\* A batch begins with no call in the store.
LEMMA BeginIs ==
  ASSUME TypeOK, NEW o \in Operators, NEW kind, NEW ttl, NEW b, Begin(o, kind, ttl, b)
  PROVE  /\ op[o].at = "idle" /\ op'[o].at = "store" /\ \A p \in Operators \ {o} : Waits(p)
         /\ op'[o].kind = kind /\ op'[o].ttl = ttl
         /\ UNCHANGED <<store, history>>
<1> DEFINE after == [Idle EXCEPT !.at = "store", !.kind = kind, !.ttl = ttl, !.todo = b]
<1>1. op' = [op EXCEPT ![o] = after] BY DEF Begin
<1>2. after.at = "store" /\ after.kind = kind /\ after.ttl = ttl BY DEF Idle
<1> HIDE DEF after
<1>3. op'[o] = after /\ \A p \in Operators \ {o} : Waits(p) BY <1>1, OneCallIs
<1> QED BY <1>2, <1>3 DEF Begin

\* A lookup leaves the calls where they are.
LEMMA MeetsAllIs ==
  ASSUME TypeOK, NEW s \in Scopes, MeetsAll(s)
  PROVE  \A p \in Operators : Waits(p) /\ (MidCall(p, s) => ~op'[p].alone)
<1> SUFFICES ASSUME NEW p \in Operators
             PROVE  Waits(p) /\ (MidCall(p, s) => ~op'[p].alone)
  OBVIOUS
<1> DEFINE c == op[p]
<1>1. c \in Calls BY DEF TypeOK
<1>2. op'[p] = IF MidCall(p, s) THEN [c EXCEPT !.alone = FALSE] ELSE c BY DEF MeetsAll
<1> HIDE DEF c
<1>3. LET d == [c EXCEPT !.alone = FALSE] IN
      /\ d.at = c.at /\ d.kind = c.kind /\ d.ttl = c.ttl /\ d.todo = c.todo
      /\ d.found = c.found /\ d.was = c.was /\ d.alone = FALSE
  BY <1>1 DEF Calls
<1>4. Waits(p) BY <1>2, <1>3 DEF Waits, c
<1> QED BY <1>2, <1>3, <1>4

\* The steps: the operators', the lookups', the clock's, and those of the page.
LEMMA NextCases ==
  ASSUME [Next]_vars
  PROVE  /\ UNCHANGED deployment
         /\ \/ \E o \in Operators : \E kind, ttl, b :
                 Begin(o, kind, ttl, b) /\ (kind = "add" => ttl = Forever) /\ UNCHANGED reading
            \/ \E o \in Operators : Step(o) /\ UNCHANGED reading
            \/ \E s \in Scopes : DropExpired(s) /\ UNCHANGED reading
            \/ \E s \in Scopes : ReadRow(s) \/ CacheAgain(s)
            \/ Tick /\ UNCHANGED reading
            \/ UNCHANGED <<store, reading, op, begun, history>>
BY DEF Next, CallStep, PageStep, vars

\* Every step keeps the labels.
LEMMA ShapeStep ==
  ASSUME TypeOK, ShapeOK, [Next]_vars
  PROVE  ShapeOK'
<1> DEFINE Fine(p) == /\ op'[p].at = "cache" => deployment' = "tiered" /\ Blocking(p)'
                                                /\ op'[p].ttl = Forever
                      /\ op'[p].at = "revoke" => deployment' = "tiered" /\ ~Blocking(p)'
                      /\ op'[p].at = "row" => op'[p].ttl = Forever
                      /\ op'[p].kind = "add" => op'[p].ttl = Forever
           Rows == reading' # {} => deployment' = "tiered"
<1>1. UNCHANGED deployment BY NextCases
<1>2. ASSUME NEW p \in Operators, Waits(p) PROVE Fine(p)
  BY <1>1, <1>2 DEF ShapeOK, Waits, Blocking
<1>3. ASSUME NEW o \in Operators, \A p \in Operators \ {o} : Waits(p), Fine(o), UNCHANGED reading
      PROVE  ShapeOK'
  <2>1. Rows BY <1>1, <1>3 DEF ShapeOK
  <2> HIDE DEF Fine
  <2>2. \A p \in Operators : Fine(p) BY <1>2, <1>3
  <2> QED BY <2>1, <2>2 DEF ShapeOK, Fine
<1>4. ASSUME NEW o \in Operators, Step(o), UNCHANGED reading PROVE ShapeOK'
  <2>1. Becomes(o) /\ \A p \in Operators \ {o} : Waits(p) BY <1>4, StepIs
  <2>2. Idle.at = "idle" /\ Idle.kind = "block" BY DEF Idle
  <2>3. Fine(o)
    <3>1. CASE WriteBlock(o) BY <1>1, <2>1, <3>1 DEF Becomes, Through, ShapeOK
    <3>2. CASE CacheBlock(o) \/ EraseKey(o) \/ RevokeRow(o)
      BY <1>1, <2>1, <3>2 DEF Becomes, ShapeOK
    <3>3. CASE Emit(o) \/ SaveRow(o) BY <1>1, <2>1, <3>3 DEF Becomes, ShapeOK
    <3>4. CASE StoreFails(o) \/ ReplyLost(o) BY <1>1, <2>1, <2>2, <3>4 DEF Becomes
    <3> QED BY <1>4, <3>1, <3>2, <3>3, <3>4 DEF Step
  <2> QED BY <1>3, <1>4, <2>1, <2>3
<1>5. ASSUME NEW o \in Operators, NEW kind, NEW ttl, NEW b, Begin(o, kind, ttl, b),
             kind = "add" => ttl = Forever, UNCHANGED reading
      PROVE  ShapeOK'
  BY <1>3, <1>5, BeginIs
<1>6. ASSUME \A p \in Operators : Waits(p), Rows PROVE ShapeOK'
  BY <1>1, <1>6 DEF ShapeOK, Waits, Blocking
<1>7. ASSUME UNCHANGED <<op, reading>> PROVE ShapeOK'
  BY <1>1, <1>6, <1>7 DEF Waits, ShapeOK
<1>8. ASSUME NEW s \in Scopes, ReadRow(s) \/ CacheAgain(s) PROVE ShapeOK'
  <2>1. MeetsAll(s) BY <1>8 DEF ReadRow, CacheAgain
  <2>2. Rows BY <1>1, <1>8 DEF ReadRow, CacheAgain, ShapeOK
  <2> QED BY <1>6, <2>1, <2>2, MeetsAllIs
<1> QED BY <1>4, <1>5, <1>7, <1>8, NextCases DEF DropExpired, Tick

-----------------------------------------------------------------------------
(* The refinement.                                                           *)

force   == [s \in Scopes |-> IF Durable(s) THEN Forever ELSE left[s]]
copied  == {s \in Scopes : left[s] # 0}
Cachers == {On(o) : o \in {p \in Operators : At(p, "cache")}}
knows   == reading \union Cachers
asked   == UNION {Asks(o) : o \in Operators}
ledger  == <<deployment, force, copied, knows>>

\* Every lifetime that ends is at most the longer of the two configured ones.
LEMMA LongestIs ==
  /\ Longer \in Nat /\ Forever \notin Nat
  /\ \A d \in Lives \ {Forever} : d \in 0..Longer
BY ManagementAssumption DEF Longer, Lives

\* At the start nothing is in force, copied or known.
LEMMA LedgerInit == Init => Ledger!Init
<1> SUFFICES ASSUME Init PROVE Ledger!Init
  OBVIOUS
<1>1. \A o \in Operators : ~At(o, "cache")
  BY DEF Init, Idle, At
<1>2. force = [s \in Scopes |-> 0] /\ copied = {} /\ knows = {}
  BY <1>1 DEF Init, force, copied, knows, Cachers, Durable
<1> QED BY <1>2 DEF Ledger!Init, force, copied, knows, Cachers

\* What is on record are the rows of the tiers.
LEMMA RecordIs == ASSUME TypeOK, NEW s \in Scopes PROVE Ledger!OnRecord(s) <=> Durable(s)
BY DEF TypeOK, Ledger!OnRecord, Durable

\* Writing key s or row s changes what is enforced at s alone.
LEMMA OnlyThere ==
  ASSUME TypeOK, NEW s \in Scopes, UNCHANGED deployment,
         \A z \in Scopes \ {s} : left'[z] = left[z] /\ (z \in rows' <=> z \in rows)
  PROVE  /\ force' = [force EXCEPT ![s] = IF Durable(s)' THEN Forever ELSE left'[s]]
         /\ copied' = IF left'[s] # 0 THEN copied \union {s} ELSE copied \ {s}
BY DEF TypeOK, force, copied, Durable

\* A step that leaves key, time and row of every scope alone leaves the ledger alone.
LEMMA Same ==
  ASSUME TypeOK, UNCHANGED deployment,
         \A z \in Scopes : left'[z] = left[z] /\ (Durable(z)' <=> Durable(z))
  PROVE  UNCHANGED <<force, copied>>
BY DEF force, copied

\* A step of o leaves alone whom the others know of.
LEMMA KnowsIs ==
  ASSUME TypeOK, NEW o \in Operators, \A p \in Operators \ {o} : Waits(p), UNCHANGED reading
  PROVE  /\ op[o].at # "cache" /\ op'[o].at # "cache" => knows' = knows
         /\ op[o].at = "store" /\ op[o].todo # <<>> /\ op'[o].at = "cache" /\ op'[o].todo = op[o].todo
              => knows' = knows \union {On(o)}
         /\ At(o, "cache") /\ op'[o].at # "cache"
              => On(o) \in knows /\ knows' \in {knows, knows \ {On(o)}}
<1> DEFINE Else == {On(q) : q \in {p \in Operators \ {o} : At(p, "cache")}}
<1>1. \A p \in Operators \ {o} : (At(p, "cache")' <=> At(p, "cache")) /\ On(p)' = On(p)
  BY DEF Waits, At, On
<1>2. Else' = Else
  BY <1>1
<1>3. Cachers = IF At(o, "cache") THEN Else \union {On(o)} ELSE Else
  BY DEF Cachers
<1>4. Cachers' = IF At(o, "cache")' THEN Else' \union {On(o)'} ELSE Else'
  BY DEF Cachers
<1> HIDE DEF Else
<1>5. CASE op[o].at # "cache" /\ op'[o].at # "cache"
  BY <1>2, <1>3, <1>4, <1>5 DEF knows, At
<1>6. CASE op[o].at = "store" /\ op[o].todo # <<>> /\ op'[o].at = "cache" /\ op'[o].todo = op[o].todo
  <2>1. ~At(o, "cache") /\ At(o, "cache")' /\ On(o)' = On(o)
    BY <1>6 DEF At, On
  <2> QED BY <1>2, <1>3, <1>4, <1>6, <2>1 DEF knows
<1>7. CASE At(o, "cache") /\ op'[o].at # "cache"
  <2>1. ~At(o, "cache")' /\ op[o].at = "cache"
    BY <1>7 DEF At
  <2> QED BY <1>2, <1>3, <1>4, <1>7, <2>1 DEF knows
<1> QED BY <1>5, <1>6, <1>7 DEF At

\* A block is one somebody asks for.
LEMMA ImposeStep ==
  ASSUME TypeOK, NEW o \in Operators, On(o) \in Scopes, At(o, "store"), Blocking(o), Written(o),
         UNCHANGED deployment,
         knows' \in IF Through(o) THEN {knows, knows \union {On(o)}} ELSE {knows}
  PROVE  Ledger!Next
<1> PICK s \in Scopes : s = On(o)
  OBVIOUS
<1> PICK d : d = op[o].ttl
  OBVIOUS
<1>1. s \in Scopes /\ d \in {Ttl, Forever} /\ Durable(s) \in BOOLEAN
  BY DEF TypeOK, Calls, Durable
<1>2. <<s, d>> \in asked
  BY DEF asked, Asks
<1>3. Ledger!OnRecord(s) <=> Durable(s)
  BY <1>1, RecordIs
<1>4. CASE Through(o)
  <2>1. rows' = rows \union {s} /\ left' = left /\ deployment = "tiered" /\ d = Forever
    BY <1>4 DEF Written, Through
  <2>2. Durable(s)' /\ (left'[s] # 0 <=> s \in copied)
    BY <1>1, <2>1 DEF Durable, copied
  <2>3. force' = [force EXCEPT ![s] = Forever] /\ copied' = copied
    <3>1. \A z \in Scopes \ {s} : left'[z] = left[z] /\ (z \in rows' <=> z \in rows)
      BY <2>1
    <3> QED BY <1>1, <2>2, <3>1, OnlyThere DEF copied
  <2>4. Ledger!Term(d) = Forever
    BY <2>1 DEF Ledger!Term
  <2>5. Ledger!Sets(s, Ledger!Term(d))
    BY <2>3, <2>4 DEF Ledger!Sets, force
  <2>6. Ledger!Impose(s)
    BY <1>1, <1>2, <1>4, <2>1, <2>3, <2>5 DEF Ledger!Impose, asked, copied, knows, Cachers
  <2> QED BY <1>1, <2>6 DEF Ledger!Next
<1>5. CASE ~Through(o)
  <2>1. rows' = rows /\ left' = [left EXCEPT ![s] = Life(d)]
    BY <1>5 DEF Written, PutKey
  <2>2. Life(d) \in Lives \ {0} /\ Life(d) = Ledger!Term(d)
    BY <1>1, <1>5, LifeType DEF Ledger!Term, Life, Through, TypeOK
  <2>3. left'[s] = Life(d) /\ \A z \in Scopes \ {s} : left'[z] = left[z]
    BY <1>1, <2>1 DEF TypeOK
  <2>4. Durable(s)' <=> Durable(s)
    BY <2>1 DEF Durable
  <2>5. /\ force' = [force EXCEPT ![s] = IF Durable(s) THEN Forever ELSE Life(d)]
        /\ copied' = copied \union {s}
    <3> QED BY <1>1, <2>1, <2>2, <2>3, <2>4, OnlyThere
  <2>6. Ledger!Sets(s, Ledger!Term(d))
    BY <1>3, <2>2, <2>5 DEF Ledger!Sets, force
  <2>7. ~(deployment = "tiered" /\ d = Forever) /\ knows' = knows
    BY <1>5 DEF Through
  <2>8. Ledger!Impose(s)
    BY <1>1, <1>2, <2>5, <2>6, <2>7 DEF Ledger!Impose, asked, copied, knows, Cachers
  <2> QED BY <1>1, <2>8 DEF Ledger!Next
<1> QED BY <1>4, <1>5

\* An unblock withdraws what is not on record.
LEMMA WithdrawStep ==
  ASSUME TypeOK, NEW o \in Operators, On(o) \in Scopes, At(o, "store"), ~Blocking(o), NoKey(On(o)),
         UNCHANGED <<deployment, rows, knows>>
  PROVE  Ledger!Next
<1> PICK s \in Scopes : s = On(o)
  OBVIOUS
<1>1. s \in Scopes /\ left' = [left EXCEPT ![s] = 0]
  BY DEF NoKey
<1>2. <<s, 0>> \in asked
  BY DEF asked, Asks, At
<1>3. Ledger!OnRecord(s) <=> Durable(s)
  BY <1>1, RecordIs
<1>4. left'[s] = 0 /\ (\A z \in Scopes \ {s} : left'[z] = left[z]) /\ (Durable(s)' <=> Durable(s))
  BY <1>1 DEF TypeOK, Durable
<1>5. force' = [force EXCEPT ![s] = IF Durable(s) THEN Forever ELSE 0] /\ copied' = copied \ {s}
  <2> QED BY <1>1, <1>4, OnlyThere
<1>6. Ledger!Sets(s, 0)
  BY <1>3, <1>5 DEF Ledger!Sets, force
<1>7. Ledger!Withdraw(s)
  BY <1>2, <1>5, <1>6 DEF Ledger!Withdraw, asked, copied, knows, Cachers
<1> QED BY <1>1, <1>7 DEF Ledger!Next

\* And ends the record.
LEMMA LiftStep ==
  ASSUME TypeOK, NEW o \in Operators, On(o) \in Scopes, At(o, "revoke"), rows' = rows \ {On(o)},
         UNCHANGED <<deployment, left, knows>>
  PROVE  Ledger!Next \/ UNCHANGED ledger
<1> PICK s \in Scopes : s = On(o)
  OBVIOUS
<1>1. s \in Scopes
  OBVIOUS
<1>2. CASE Durable(s)
  <2>1. <<s, 0>> \in asked
    BY DEF asked, Asks, At
  <2>2. Ledger!OnRecord(s)
    BY <1>1, <1>2, RecordIs
  <2>3. left[s] \in 0..Longer
    BY <1>1, <1>2, LongestIs DEF TypeOK, Durable
  <2>4. ~Durable(s)' /\ (left[s] = 0 <=> s \notin copied)
    BY <1>1 DEF Durable, copied
  <2>5. force' = [force EXCEPT ![s] = left[s]] /\ copied' = copied
    <3>1. \A z \in Scopes \ {s} : left'[z] = left[z] /\ (z \in rows' <=> z \in rows)
      OBVIOUS
    <3> QED BY <1>1, <2>4, <3>1, OnlyThere DEF copied
  <2>6. Ledger!Lift(s)
    BY <2>1, <2>2, <2>3, <2>4, <2>5 DEF Ledger!Lift, asked, copied, force, knows, Cachers
  <2> QED BY <1>1, <2>6 DEF Ledger!Next
<1>3. CASE ~Durable(s)
  <2>1. \A z \in Scopes : left'[z] = left[z] /\ (Durable(z)' <=> Durable(z))
    BY <1>3 DEF Durable
  <2> QED BY <2>1, Same DEF ledger
<1> QED BY <1>2, <1>3

\* Who has learnt of a ban caches it, or forgets it.
LEMMA CopyStep ==
  ASSUME TypeOK, NEW s \in Scopes, s \in knows, knows' \in {knows, knows \ {s}},
         PutKey(s, CacheTtl) \/ UNCHANGED left, UNCHANGED <<deployment, rows>>
  PROVE  Ledger!Next \/ UNCHANGED ledger
<1>1. Durable(s)' <=> Durable(s)
  BY DEF Durable
<1>2. CASE PutKey(s, CacheTtl)
  <2>1. left'[s] = CacheTtl /\ CacheTtl # 0 /\ \A z \in Scopes \ {s} : left'[z] = left[z]
    BY <1>2, LivesType DEF PutKey, TypeOK
  <2>2. /\ force' = [force EXCEPT ![s] = IF Durable(s) THEN Forever ELSE CacheTtl]
        /\ copied' = copied \union {s}
    BY <1>1, <2>1, OnlyThere
  <2>3. Ledger!Sets(s, CacheTtl)
    BY <2>2, RecordIs DEF Ledger!Sets, force
  <2>4. Ledger!Copy(s)
    BY <2>2, <2>3 DEF Ledger!Copy, copied, knows, Cachers
  <2> QED BY <2>4 DEF Ledger!Next
<1>3. CASE UNCHANGED left
  <2>1. UNCHANGED <<force, copied>>
    BY <1>3, Same DEF Durable
  <2>2. knows' = knows \ {s} => Ledger!Forget(s)
    BY <2>1 DEF Ledger!Forget, force, copied, knows, Cachers
  <2> QED BY <2>1, <2>2 DEF Ledger!Next, ledger
<1> QED BY <1>2, <1>3

\* Every step is a step of the ledger or leaves the ledger alone.
LEMMA LedgerStep ==
  ASSUME TypeOK, ShapeOK, [Next]_vars
  PROVE  Ledger!Next \/ UNCHANGED ledger
<1>1. UNCHANGED deployment
  BY NextCases
<1>2. ASSUME \A p \in Operators : Waits(p) PROVE Cachers' = Cachers
  BY <1>2 DEF Cachers, Waits, At, On
<1>3. ASSUME NEW o \in Operators, Step(o), UNCHANGED reading
      PROVE  Ledger!Next \/ UNCHANGED ledger
  <2>1. Becomes(o) /\ \A p \in Operators \ {o} : Waits(p)
    BY <1>3, StepIs
  <2>2. op[o].at # "idle" => On(o) \in Scopes /\ op[o].todo # <<>>
    BY OnType, TypeOKIsParts DEF TypeOK
  <2>3. op[o].at # "cache" /\ op'[o].at # "cache" => knows' = knows
    BY <1>3, <2>1, KnowsIs
  <2>4. CASE WriteBlock(o)
    <3>1. At(o, "store") /\ Blocking(o) /\ Written(o) /\ op[o].at = "store" /\ op[o].todo # <<>>
      BY <2>4 DEF WriteBlock, At
    <3>2. CASE Through(o)
      <4>1. op'[o].at = "cache" /\ op'[o].todo = op[o].todo
        BY <2>1, <2>4, <3>2 DEF Becomes
      <4>2. knows' = knows \union {On(o)}
        BY <1>3, <2>1, <3>1, <4>1, KnowsIs
      <4> QED BY <1>1, <2>2, <3>1, <3>2, <4>2, ImposeStep
    <3>3. CASE ~Through(o)
      <4>1. knows' = knows
        BY <2>1, <2>3, <2>4, <3>1, <3>3 DEF Becomes
      <4> QED BY <1>1, <2>2, <3>1, <3>3, <4>1, ImposeStep
    <3> QED BY <3>2, <3>3
  <2>5. CASE CacheBlock(o)
    <3>1. At(o, "cache") /\ op[o].at = "cache" /\ op'[o].at = "emit"
      BY <2>1, <2>5 DEF CacheBlock, At, Becomes
    <3>2. On(o) \in knows /\ knows' \in {knows, knows \ {On(o)}}
      BY <1>3, <2>1, <3>1, KnowsIs
    <3>3. (PutKey(On(o), CacheTtl) \/ UNCHANGED left) /\ UNCHANGED rows
      BY <2>5 DEF CacheBlock
    <3> QED BY <1>1, <2>2, <3>1, <3>2, <3>3, CopyStep
  <2>6. CASE EraseKey(o)
    <3>1. At(o, "store") /\ ~Blocking(o) /\ NoKey(On(o)) /\ UNCHANGED rows /\ op[o].at = "store"
      BY <2>6 DEF EraseKey, At
    <3>2. knows' = knows
      BY <2>1, <2>3, <2>6, <3>1 DEF Becomes
    <3> QED BY <1>1, <2>2, <3>1, <3>2, WithdrawStep
  <2>7. CASE RevokeRow(o)
    <3>1. At(o, "revoke") /\ op[o].at = "revoke" /\ rows' = rows \ {On(o)} /\ UNCHANGED left
      BY <2>7 DEF RevokeRow, At
    <3>2. knows' = knows
      BY <2>1, <2>3, <2>7, <3>1 DEF Becomes
    <3> QED BY <1>1, <2>2, <3>1, <3>2, LiftStep
  <2>8. CASE Emit(o) \/ StoreFails(o)
    <3>1. op[o].at # "cache" /\ op'[o].at # "cache" /\ UNCHANGED <<left, rows>>
      BY <2>1, <2>8 DEF Emit, StoreFails, At, store, Becomes, Idle
    <3>2. UNCHANGED <<force, copied>>
      BY <1>1, <3>1, Same DEF Durable
    <3> QED BY <1>1, <2>3, <3>1, <3>2 DEF ledger
  <2>9. CASE SaveRow(o)
    <3>1. /\ At(o, "row") /\ op[o].at = "row" /\ op'[o].at # "cache"
          /\ rows' = rows \union {On(o)} /\ UNCHANGED left
      BY <2>1, <2>9 DEF SaveRow, At, Becomes
    <3>2. knows' = knows /\ On(o) \in Scopes /\ op[o].ttl = Forever
      BY <2>2, <2>3, <3>1 DEF ShapeOK
    <3>3. CASE deployment # "tiered"
      <4>1. UNCHANGED <<force, copied>>
        BY <1>1, <3>1, <3>3, Same DEF Durable
      <4> QED BY <1>1, <3>2, <4>1 DEF ledger
    <3>4. CASE deployment = "tiered"
      <4> PICK s \in Scopes : s = On(o)
        BY <3>2
      <4>1. <<s, Forever>> \in asked
        BY <3>1, <3>2 DEF asked, Asks
      <4>2. Durable(s)' /\ (left'[s] # 0 <=> s \in copied)
        BY <1>1, <3>1, <3>2, <3>4 DEF Durable, copied
      <4>3. force' = [force EXCEPT ![s] = Forever] /\ copied' = copied
        <5>1. s \in Scopes /\ \A z \in Scopes \ {s} : left'[z] = left[z] /\ (z \in rows' <=> z \in rows)
          BY <3>1, <3>2
        <5> QED BY <1>1, <4>2, <5>1, OnlyThere DEF copied
      <4>4. Ledger!Impose(s)
        <5>1. PICK d \in {Ttl, Forever} : d = Forever
          OBVIOUS
        <5>2. <<s, d>> \in asked
          BY <4>1, <5>1
        <5>3. Ledger!Sets(s, Ledger!Term(d))
          BY <3>4, <4>3, <5>1 DEF Ledger!Sets, Ledger!Term, force
        <5> QED BY <3>2, <3>4, <4>3, <5>1, <5>2, <5>3
                DEF Ledger!Impose, asked, copied, knows, Cachers
      <4> QED BY <1>1, <3>2, <4>4 DEF Ledger!Next
    <3> QED BY <3>3, <3>4
  <2>10. CASE ReplyLost(o)
    <3>1. op'[o].at = "idle" /\ op[o].at \in {"store", "revoke"}
      BY <2>1, <2>10 DEF ReplyLost, At, Becomes, Idle
    <3>2. knows' = knows /\ On(o) \in Scopes
      BY <2>2, <2>3, <3>1
    <3>3. CASE At(o, "store") /\ Blocking(o) /\ Written(o)
      BY <1>1, <3>2, <3>3, ImposeStep
    <3>4. CASE At(o, "store") /\ ~Blocking(o) /\ NoKey(On(o)) /\ UNCHANGED rows
      BY <1>1, <3>2, <3>4, WithdrawStep
    <3>5. CASE At(o, "revoke") /\ rows' = rows \ {On(o)} /\ UNCHANGED left
      BY <1>1, <3>2, <3>5, LiftStep
    <3> QED BY <2>10, <3>3, <3>4, <3>5 DEF ReplyLost
  <2> QED BY <1>3, <2>4, <2>5, <2>6, <2>7, <2>8, <2>9, <2>10 DEF Step
<1>4. ASSUME NEW o \in Operators, NEW kind, NEW ttl, NEW b, Begin(o, kind, ttl, b), UNCHANGED reading
      PROVE  UNCHANGED ledger
  <2>1. knows' = knows /\ UNCHANGED <<left, rows>>
    <3>1. /\ op[o].at = "idle" /\ op'[o].at = "store" /\ UNCHANGED store
          /\ \A p \in Operators \ {o} : Waits(p)
      BY <1>4, BeginIs
    <3> QED BY <1>4, <3>1, KnowsIs DEF store
  <2> QED BY <1>1, <2>1, Same DEF ledger, Durable
<1>5. ASSUME NEW s \in Scopes, DropExpired(s), UNCHANGED reading PROVE UNCHANGED ledger
  <2>1. \A z \in Scopes : left'[z] = left[z] /\ (Durable(z)' <=> Durable(z))
    BY <1>1, <1>5 DEF DropExpired, NoKey, TypeOK, Durable
  <2>2. knows' = knows
    BY <1>5 DEF DropExpired, knows, Cachers, At, On
  <2> QED BY <1>1, <2>1, <2>2, Same DEF ledger
<1>6. ASSUME NEW s \in Scopes, ReadRow(s) PROVE Ledger!Next
  <2>1. Cachers' = Cachers
    BY <1>2, <1>6, MeetsAllIs DEF ReadRow
  <2>2. knows' = knows \union {s} /\ UNCHANGED <<left, rows>> /\ Durable(s)
    BY <1>6, <2>1 DEF ReadRow, store, knows, Durable
  <2>3. UNCHANGED <<force, copied>>
    BY <1>1, <2>2, Same DEF Durable
  <2>4. Ledger!Learn(s)
    BY <2>2, <2>3, RecordIs DEF Ledger!Learn, force, copied, knows, Cachers
  <2> QED BY <1>1, <2>4 DEF Ledger!Next
<1>7. ASSUME NEW s \in Scopes, CacheAgain(s) PROVE Ledger!Next \/ UNCHANGED ledger
  <2>1. Cachers' = Cachers
    BY <1>2, <1>7, MeetsAllIs DEF CacheAgain
  <2>2. s \in knows /\ knows' \in {knows, knows \ {s}}
    BY <1>7, <2>1 DEF CacheAgain, knows
  <2>3. (PutKey(s, CacheTtl) \/ UNCHANGED left) /\ UNCHANGED rows
    BY <1>7 DEF CacheAgain
  <2> QED BY <1>1, <2>2, <2>3, CopyStep
<1>8. ASSUME Tick, UNCHANGED reading PROVE Ledger!Next
  <2>1. /\ left' = [s \in Scopes |-> IF left[s] \in {0, Forever} THEN left[s] ELSE left[s] - 1]
        /\ rows' = rows /\ op' = op
    BY <1>8 DEF Tick
  <2>2. knows' = knows
    BY <1>8, <2>1 DEF knows, Cachers, At, On
  <2>3. \A s \in Scopes : Durable(s)' <=> Durable(s)
    BY <1>1, <2>1 DEF Durable
  <2>4. force' = [s \in Scopes |-> IF force[s] \in {0, Forever} THEN force[s] ELSE force[s] - 1]
    BY <2>1, <2>3 DEF force
  <2>5. copied' \subseteq copied
    BY <2>1 DEF copied
  <2>6. \A s \in Scopes : force'[s] # Forever => (s \in copied' <=> force'[s] # 0)
    BY <2>3 DEF force, copied
  <2>7. Ledger!Tick
    BY <2>2, <2>4, <2>5, <2>6 DEF Ledger!Tick, force, copied, knows, Cachers
  <2> QED BY <1>1, <2>7 DEF Ledger!Next
<1>9. CASE UNCHANGED <<store, reading, op, begun, history>>
  <2>1. UNCHANGED <<left, rows, reading, op>>
    BY <1>9 DEF store
  <2>2. knows' = knows
    BY <2>1 DEF knows, Cachers, At, On
  <2> QED BY <1>1, <2>1, <2>2, Same DEF ledger, Durable
<1> QED BY <1>3, <1>4, <1>5, <1>6, <1>7, <1>8, <1>9, NextCases

\* At the start no call has a label.
LEMMA ShapeInit == Init => ShapeOK
BY DEF Init, Idle, ShapeOK

\* Every deployment keeps the ledger: nothing is enforced that no call asks for, and for
\* no longer; no permanent block of the tiers ends but by an unblock that reaches its row;
\* and what is enforced after that was left or made by one who had learnt of the block.
THEOREM LedgerKept == Spec => KeepsTheLedger
<1>1. Ledger!Init /\ [][Ledger!Next]_ledger <=> KeepsTheLedger
  BY DEF KeepsTheLedger, Ledger!Spec, ledger, force, copied, knows, Cachers
<1>2. TypeOK /\ ShapeOK /\ [Next]_vars => [Ledger!Next]_ledger
  BY LedgerStep
<1>3. QED
  BY <1>1, <1>2, LedgerInit, ShapeInit, ShapeStep, InitType, TypeStep, PTL DEF Spec

-----------------------------------------------------------------------------
(* The block manager page.                                                   *)

\* Outside memory a kept key is in force.
KeptInForce == deployment # "memory" => \A s \in kept : left[s] # 0

\* Every step keeps it so.
LEMMA KeptStep ==
  ASSUME TypeOK, KeptInForce, [Next]_vars
  PROVE  KeptInForce'
<1>1. UNCHANGED deployment /\ kept \subseteq Scopes /\ left \in [Scopes -> Lives]
  BY NextCases DEF TypeOK
<1>2. CASE UNCHANGED <<kept, left>> BY <1>1, <1>2 DEF KeptInForce
<1>3. ASSUME NEW z \in Scopes, NEW life \in Lives \ {0}, PutKey(z, life) PROVE KeptInForce'
  BY <1>1, <1>3 DEF KeptInForce, PutKey
<1>4. ASSUME NEW z \in Scopes, NoKey(z) PROVE KeptInForce'
  BY <1>1, <1>4 DEF KeptInForce, NoKey
<1>5. ASSUME NEW o \in Operators, Step(o) PROVE KeptInForce'
  <2>1. op[o].at # "idle" => On(o) \in Scopes /\ op[o].ttl \in {Ttl, Forever}
    BY OnType, TypeOKIsParts DEF TypeOK, Calls
  <2>2. ASSUME op[o].at # "idle", Written(o) PROVE KeptInForce'
    <3>1. On(o) \in Scopes /\ Life(op[o].ttl) \in Lives \ {0}
      BY <2>1, <2>2, LifeType
    <3> QED BY <1>2, <1>3, <2>2, <3>1 DEF Written
  <2>3. CASE WriteBlock(o)
    BY <2>2, <2>3 DEF WriteBlock, At
  <2>4. CASE CacheBlock(o)
    <3>1. On(o) \in Scopes BY <2>1, <2>4 DEF CacheBlock, At
    <3> QED BY <1>2, <1>3, <2>4, <3>1, LivesType DEF CacheBlock
  <2>5. CASE EraseKey(o)
    <3>1. On(o) \in Scopes BY <2>1, <2>5 DEF EraseKey, At
    <3> QED BY <1>4, <2>5, <3>1 DEF EraseKey
  <2>6. CASE RevokeRow(o) \/ Emit(o) \/ SaveRow(o) \/ StoreFails(o)
    BY <1>2, <2>6 DEF RevokeRow, Emit, SaveRow, StoreFails, store
  <2>7. CASE ReplyLost(o)
    <3>1. op[o].at # "idle" /\ On(o) \in Scopes BY <2>1, <2>7 DEF ReplyLost, At
    <3>2. Written(o) \/ NoKey(On(o)) \/ UNCHANGED <<kept, left>> BY <2>7 DEF ReplyLost
    <3> QED BY <1>2, <1>4, <2>2, <3>1, <3>2
  <2> QED BY <1>5, <2>3, <2>4, <2>5, <2>6, <2>7 DEF Step
<1>6. ASSUME NEW s \in Scopes, DropExpired(s) PROVE KeptInForce'
  BY <1>4, <1>6 DEF DropExpired
<1>7. ASSUME NEW s \in Scopes, ReadRow(s) \/ CacheAgain(s) PROVE KeptInForce'
  BY <1>2, <1>3, <1>7, LivesType DEF ReadRow, CacheAgain, store
<1>8. CASE Tick BY <1>1, <1>8 DEF Tick, KeptInForce
<1> QED BY <1>2, <1>5, <1>6, <1>7, <1>8, NextCases DEF Begin, store

\* What a page has of its scope so far: its history is that of the scope; what it has not
\* among the keys is on record, or was not in force at all times; and what it lists as
\* temporary was not on record when it looked.
PageInv ==
  page.at # "idle" => \A s \in Scopes : s = page.of =>
    /\ page.at \in {"scan", "rows"} => deployment # "memory"
    /\ page.at = "rows" => deployment = "tiered"
    /\ page.at = "scan" /\ page.temp => s \in kept
    /\ page.temp \/ Enforced(s) => page.ever
    /\ page.steady => Enforced(s) /\ (page.temp \/ Permanent(s))
    /\ page.at = "list" /\ page.temp /\ Permanent(s) => page.renewed

\* What is in the store is in force, and so is what is on record.
StoreShows == \A s \in Scopes :
  /\ deployment # "memory" /\ s \in kept => Enforced(s)
  /\ Enforced(s) /\ s \notin kept => Permanent(s)
  /\ Permanent(s) => Enforced(s)

LEMMA StoreForce == TypeOK /\ KeptInForce => StoreShows
<1> SUFFICES ASSUME TypeOK, KeptInForce, NEW s \in Scopes
             PROVE  /\ deployment # "memory" /\ s \in kept => Enforced(s)
                    /\ Enforced(s) /\ s \notin kept => Permanent(s)
                    /\ Permanent(s) => Enforced(s)
  BY DEF StoreShows
<1>1. (left[s] # 0 => s \in kept) /\ Forever # 0 /\ deployment \in {"memory", "redis", "tiered"}
  BY ManagementAssumption DEF TypeOK
<1>2. CASE deployment = "memory" BY <1>1, <1>2 DEF Enforced, Durable, Permanent
<1>3. CASE deployment = "redis"
  BY <1>1, <1>3 DEF KeptInForce, Enforced, Durable, Permanent
<1>4. CASE deployment = "tiered"
  BY <1>1, <1>4 DEF KeptInForce, Enforced, Durable, Permanent
<1> QED BY <1>1, <1>2, <1>3, <1>4

\* The steps as the page sees them.
LEMMA WatchCases ==
  ASSUME [Next]_vars
  PROVE  /\ UNCHANGED deployment
         /\ Watches \/ (PageStep /\ UNCHANGED store) \/ UNCHANGED <<page, store>>
BY DEF Next, PageStep, vars

\* Every step keeps what is known of the page.
LEMMA PageInvStep ==
  ASSUME TypeOK, TypeOK', KeptInForce, KeptInForce', PageInv, [Next]_vars
  PROVE  PageInv'
<1>1. UNCHANGED deployment /\ PageOK /\ page.of \in Scopes /\ deployment \in {"memory", "redis", "tiered"}
  BY WatchCases, TypeOKIsParts DEF PageOK, TypeOK
<1>2. StoreShows /\ StoreShows'
  BY StoreForce, PTL
<1>3. CASE UNCHANGED <<page, store>>
  BY <1>1, <1>3 DEF PageInv, store, Enforced, Permanent, Durable
<1>4. CASE Watches
  <2>1. PICK s \in Scopes :
          /\ s = page.of
          /\ page' = IF page.at = "idle" THEN page
                     ELSE [page EXCEPT !.temp = IF page.at = "scan" THEN @ /\ s \in kept' ELSE @,
                             !.steady = @ /\ Enforced(s)' /\ (Permanent(s) => Permanent(s)'),
                             !.ever = @ \/ Enforced(s)',
                             !.renewed = @ \/ (~Permanent(s) /\ Permanent(s)')]
    BY <1>4 DEF Watches
  <2>2. CASE page.at = "idle"
    BY <2>1, <2>2 DEF PageInv
  <2>3. CASE page.at # "idle"
    <3> DEFINE forced == Enforced(s)'
               record == Permanent(s)
               after == Permanent(s)'
               there == s \in kept'
    <3>1. /\ page'.at = page.at /\ page'.of = s
          /\ page'.temp <=> page.temp /\ (page.at = "scan" => there)
          /\ page'.steady <=> page.steady /\ forced /\ (record => after)
          /\ page'.ever <=> page.ever \/ forced
          /\ page'.renewed <=> page.renewed \/ (~record /\ after)
      <4>1. /\ page' = [page EXCEPT !.temp = IF page.at = "scan" THEN @ /\ there ELSE @,
                             !.steady = @ /\ forced /\ (record => after),
                             !.ever = @ \/ forced, !.renewed = @ \/ (~record /\ after)]
            /\ page.of = s
        BY <2>1, <2>3
      <4> HIDE DEF forced, record, after, there
      <4> QED BY <1>1, <4>1 DEF PageOK
    <3>2. /\ deployment # "memory" /\ there => forced
          /\ forced /\ ~there => after
      BY <1>1, <1>2 DEF StoreShows
    <3>3. /\ page.at \in {"scan", "rows"} => deployment # "memory"
          /\ page.at = "rows" => deployment = "tiered"
          /\ page.at = "scan" /\ page.temp => s \in kept
          /\ page.temp \/ Enforced(s) => page.ever
          /\ page.steady => Enforced(s) /\ (page.temp \/ record)
          /\ page.at = "list" /\ page.temp /\ record => page.renewed
      BY <2>1, <2>3 DEF PageInv
    <3> HIDE DEF forced, record, after, there
    <3>4. /\ page'.temp \/ forced => page'.ever
          /\ page'.steady => forced /\ (page'.temp \/ after)
          /\ page'.at = "list" /\ page'.temp /\ after => page'.renewed
          /\ page'.at = "scan" /\ page'.temp => there
      BY <3>1, <3>2, <3>3
    <3> QED BY <1>1, <3>1, <3>3, <3>4 DEF PageInv, forced, record, after, there
  <2> QED BY <2>2, <2>3
<1>5. CASE PageStep /\ UNCHANGED store
  <2>1. \A s \in Scopes : /\ Enforced(s)' <=> Enforced(s)
                          /\ Permanent(s)' <=> Permanent(s)
                          /\ s \in kept' <=> s \in kept
    BY <1>1, <1>5 DEF store, Enforced, Durable, Permanent
  <2> PICK s \in Scopes : s = page.of
    BY <1>1
  <2>2. page.at # "idle" =>
          /\ page.at \in {"scan", "rows"} => deployment # "memory"
          /\ page.at = "rows" => deployment = "tiered"
          /\ page.at = "scan" /\ page.temp => s \in kept
          /\ page.temp \/ Enforced(s) => page.ever
          /\ page.steady => Enforced(s) /\ (page.temp \/ Permanent(s))
    BY DEF PageInv
  <2>3. ASSUME NEW z \in Scopes, OpenPage(z) PROVE PageInv'
    <3>1. Enforced(z) \in BOOLEAN BY DEF Enforced
    <3>2. CASE deployment = "memory"
      <4>1. /\ page'.at = "list" /\ page'.of = z /\ (page'.temp <=> left[z] \notin {0, Forever})
            /\ (page'.steady <=> Enforced(z)) /\ (page'.ever <=> Enforced(z))
        BY <2>3, <3>1, <3>2 DEF OpenPage
      <4>2. /\ Enforced(z) <=> left[z] # 0
            /\ Permanent(z) <=> left[z] = Forever
        BY <3>2 DEF Enforced, Durable, Permanent
      <4> QED BY <2>1, <4>1, <4>2 DEF PageInv
    <3>3. CASE deployment # "memory"
      <4>1. /\ page'.at = "scan" /\ page'.of = z /\ (page'.temp <=> z \in kept)
            /\ (page'.steady <=> Enforced(z)) /\ (page'.ever <=> Enforced(z))
        BY <2>3, <3>1, <3>3 DEF OpenPage
      <4> QED BY <1>1, <1>2, <2>1, <3>3, <4>1 DEF PageInv, StoreShows
    <3> QED BY <3>2, <3>3
  <2>4. CASE ReadKey
    <3>1. PICK there \in {page.temp, page.of \in kept} :
            page' = [page EXCEPT !.at = IF deployment = "redis" THEN "list" ELSE "rows",
                                 !.temp = there]
      BY <2>4 DEF ReadKey
    <3>2. /\ page'.at = IF deployment = "redis" THEN "list" ELSE "rows"
          /\ page'.temp = there /\ page'.of = page.of /\ page'.steady = page.steady
          /\ page'.ever = page.ever
      BY <1>1, <3>1 DEF PageOK
    <3>3. page.at = "scan" BY <2>4 DEF ReadKey
    <3>4. there = page.temp \/ there = (s \in kept) OBVIOUS
    <3>5. deployment = "redis" => ~Permanent(s) BY DEF Permanent
    <3>6. /\ deployment # "memory" /\ s \in kept => Enforced(s)
          /\ Enforced(s) /\ s \notin kept => Permanent(s)
      BY <1>2 DEF StoreShows
    <3>7. /\ page'.at # "scan" /\ (page'.at = "rows" => deployment = "tiered")
          /\ (page'.at = "list" => deployment = "redis") /\ deployment # "memory"
      BY <1>1, <2>2, <3>2, <3>3
    <3>8. /\ page'.temp \/ Enforced(s) => page'.ever
          /\ page'.steady => Enforced(s) /\ (page'.temp \/ Permanent(s))
      BY <2>2, <3>2, <3>3, <3>4, <3>6, <3>7
    <3> QED BY <1>1, <2>1, <3>2, <3>5, <3>7, <3>8 DEF PageInv
  <2>5. CASE SubtractRows
    <3>1. page' = [page EXCEPT !.at = "list", !.temp = @ /\ page.of \notin rows] /\ page.at = "rows"
      BY <2>5 DEF SubtractRows
    <3>2. /\ page'.at = "list" /\ (page'.temp <=> page.temp /\ s \notin rows)
          /\ page'.of = page.of /\ page'.steady = page.steady /\ page'.ever = page.ever
      BY <1>1, <3>1 DEF PageOK
    <3>3. Permanent(s) <=> s \in rows BY <2>2, <3>1 DEF Permanent
    <3> QED BY <2>1, <2>2, <3>1, <3>2, <3>3 DEF PageInv
  <2>6. CASE ClosePage
    BY <2>6 DEF ClosePage, NoPage, PageInv
  <2> QED BY <1>5, <2>3, <2>4, <2>5, <2>6 DEF PageStep
<1> QED BY <1>3, <1>4, <1>5, WatchCases

\* admin.py:270-291.  What the block manager page shows of a scope was in force while the
\* page was put together; both permanent and temporary it shows only a scope banned
\* meanwhile; and it shows all that was in force the whole time, unless it was a permanent
\* block that ended meanwhile; whatever calls, lookups and expiries fall between its reads.
THEOREM PageHolds == Spec => []PageShowsWhatIsEnforced
<1>1. Init => KeptInForce /\ PageInv
  BY DEF Init, KeptInForce, PageInv, NoPage
<1>2. TypeOK /\ KeptInForce /\ PageInv => PageShowsWhatIsEnforced
  <2> SUFFICES ASSUME TypeOK, KeptInForce, PageInv, page.at = "list"
               PROVE  /\ page.temp \/ Permanent(page.of) => page.ever
                      /\ page.temp /\ Permanent(page.of) => page.renewed
                      /\ page.steady => page.temp \/ Permanent(page.of)
    BY DEF PageShowsWhatIsEnforced
  <2>1. page.of \in Scopes BY DEF TypeOK
  <2> QED BY <2>1, StoreForce DEF PageInv, StoreShows
<1>3. TypeOK /\ TypeOK' /\ KeptInForce /\ PageInv /\ [Next]_vars => KeptInForce' /\ PageInv'
  BY KeptStep, PageInvStep
<1> QED BY <1>1, <1>2, <1>3, InitType, TypeStep, PTL DEF Spec

-----------------------------------------------------------------------------
(* Revocations.                                                              *)

\* The calls that have revoked a block of s and not announced it yet.
Pending(s) == {o \in Operators : op[o].at = "emit" /\ ~Blocking(o) /\ op[o].found /\ On(o) = s}

\* In a store of one tier every block written is kept, being revoked, or revoked, at
\* most one of them.
RevokedInv ==
  deployment # "tiered" =>
    \A s \in Scopes :
      /\ IsFiniteSet(Pending(s))
      /\ revoked[s] + Cardinality(Pending(s)) + (IF s \in kept THEN 1 ELSE 0) <= wrote[s]

\* Only a step of its own changes whether a call is among them.
LEMMA PendingElse ==
  ASSUME NEW o \in Operators, \A p \in Operators \ {o} : Waits(p), NEW s
  PROVE  Pending(s)' \ {o} = Pending(s) \ {o}
BY DEF Waits, Pending, Blocking, On

\* Every step keeps the account.
LEMMA RevokedStep ==
  ASSUME TypeOK, ShapeOK, RevokedInv, [Next]_vars
  PROVE  RevokedInv'
<1>1. UNCHANGED deployment BY NextCases
<1>2. SUFFICES ASSUME deployment # "tiered", NEW s \in Scopes
      PROVE  /\ IsFiniteSet(Pending(s)')
             /\ revoked'[s] + Cardinality(Pending(s)') + (IF s \in kept' THEN 1 ELSE 0)
                  <= wrote'[s]
  BY <1>1 DEF RevokedInv
<1> DEFINE P == Pending(s)
           Q == Pending(s)'
           Fine == /\ IsFiniteSet(Q)
                   /\ revoked'[s] + Cardinality(Q) + (IF s \in kept' THEN 1 ELSE 0) <= wrote'[s]
<1>3. /\ IsFiniteSet(P) /\ Cardinality(P) \in Nat
      /\ revoked[s] + Cardinality(P) + (IF s \in kept THEN 1 ELSE 0) <= wrote[s]
      /\ revoked[s] \in Nat /\ wrote[s] \in Nat
  BY <1>2, FS_CardinalityType DEF RevokedInv, TypeOK
<1>4. ASSUME Q = P, revoked'[s] = revoked[s],
             \/ wrote'[s] = wrote[s] /\ (s \in kept' => s \in kept)
             \/ wrote'[s] = wrote[s] + 1
      PROVE  Fine
  <2> HIDE DEF P, Q
  <2> QED BY <1>3, <1>4
<1>5. ASSUME \A p \in Operators : Waits(p) PROVE Q = P
  BY <1>5 DEF Waits, Pending, Blocking, On
<1>6. ASSUME NEW o \in Operators, \A p \in Operators \ {o} : Waits(p), o \notin P, o \notin Q
      PROVE  Q = P
  BY <1>6, PendingElse
<1>7. ASSUME NEW o \in Operators, On(o) \in Scopes, Written(o)
      PROVE  \/ wrote'[s] = wrote[s] /\ (s \in kept' => s \in kept)
             \/ wrote'[s] = wrote[s] + 1
  BY <1>2, <1>7 DEF Written, Through, PutKey, TypeOK
<1>8. ASSUME NEW o \in Operators, Step(o) PROVE Fine
  <2>1. Becomes(o) /\ \A p \in Operators \ {o} : Waits(p) BY <1>8, StepIs
  <2>2. op[o].at # "idle" => On(o) \in Scopes BY OnType, TypeOKIsParts
  <2>3. Q \ {o} = P \ {o} BY <2>1, PendingElse
  <2>4. CASE WriteBlock(o)
    <3>1. Blocking(o)' BY <2>1, <2>4 DEF Becomes
    <3>2. op[o].at = "store" BY <2>4 DEF WriteBlock, At
    <3>3. o \notin P /\ o \notin Q BY <3>1, <3>2 DEF Pending
    <3>4. Q = P BY <2>3, <3>3
    <3>5. revoked' = revoked /\ On(o) \in Scopes BY <2>2, <2>4, <3>2 DEF WriteBlock
    <3>6. \/ wrote'[s] = wrote[s] /\ (s \in kept' => s \in kept)
          \/ wrote'[s] = wrote[s] + 1
      BY <1>7, <2>4, <3>5 DEF WriteBlock
    <3> HIDE DEF P, Q, Fine
    <3> QED BY <1>4, <3>4, <3>5, <3>6
  <2>5. CASE CacheBlock(o) \/ RevokeRow(o)
    BY <1>2, <2>5 DEF ShapeOK, CacheBlock, RevokeRow, At
  <2>6. CASE EraseKey(o)
    <3>1. /\ ~Blocking(o)' /\ (op'[o].found <=> On(o) \in kept) /\ op'[o].todo = op[o].todo
          /\ op'[o].at = "emit"
      BY <1>2, <2>1, <2>6 DEF Becomes
    <3>2. op[o].at = "store" /\ kept' = kept \ {On(o)} /\ revoked' = revoked /\ wrote' = wrote
      BY <2>6 DEF EraseKey, NoKey, At
    <3>3. o \notin P BY <3>2 DEF Pending
    <3>4. o \in Q <=> On(o) = s /\ s \in kept BY <3>1 DEF Pending, On
    <3>5. CASE o \notin Q
      <4>1. Q = P BY <2>3, <3>3, <3>5
      <4> HIDE DEF P, Q, Fine
      <4> QED BY <1>4, <3>2, <4>1
    <3>6. CASE o \in Q
      <4>1. Q = P \union {o} /\ s \in kept /\ s \notin kept' BY <2>3, <3>2, <3>3, <3>4, <3>6
      <4> HIDE DEF P, Q
      <4>2. IsFiniteSet(Q) /\ Cardinality(Q) = Cardinality(P) + 1
        BY <1>3, <3>3, <4>1, FS_AddElement
      <4> QED BY <1>3, <3>2, <4>1, <4>2
    <3> QED BY <3>5, <3>6
  <2>7. CASE Emit(o)
    <3>1. op'[o].at # "emit"
      BY <2>1, <2>7 DEF Becomes
    <3>2. /\ op[o].at = "emit" /\ kept' = kept /\ wrote' = wrote /\ On(o) \in Scopes
          /\ revoked' = IF ~Blocking(o) /\ op[o].found THEN [revoked EXCEPT ![On(o)] = @ + 1]
                        ELSE revoked
      BY <1>2, <2>2, <2>7 DEF Emit, At, store
    <3>3. o \notin Q BY <3>1 DEF Pending
    <3>4. o \in P <=> ~Blocking(o) /\ op[o].found /\ On(o) = s BY <3>2 DEF Pending
    <3>5. revoked'[s] = IF o \in P THEN revoked[s] + 1 ELSE revoked[s]
      BY <3>2, <3>4 DEF TypeOK
    <3>6. CASE o \notin P
      <4>1. Q = P BY <2>3, <3>3, <3>6
      <4> HIDE DEF P, Q, Fine
      <4> QED BY <1>4, <3>2, <3>5, <3>6, <4>1
    <3>7. CASE o \in P
      <4>1. Q = P \ {o} BY <2>3, <3>3
      <4> HIDE DEF P, Q
      <4>2. IsFiniteSet(Q) /\ Cardinality(Q) = Cardinality(P) - 1
        BY <1>3, <3>7, <4>1, FS_RemoveElement
      <4> QED BY <1>3, <3>2, <3>5, <3>7, <4>2
    <3> QED BY <3>6, <3>7
  <2>8. CASE SaveRow(o) \/ StoreFails(o)
    <3>1. op'[o].at # "emit" /\ op[o].at # "emit" /\ UNCHANGED <<kept, wrote, revoked>>
      BY <2>1, <2>8 DEF Becomes, SaveRow, StoreFails, Idle, At, store, history
    <3>2. Q = P BY <2>3, <3>1 DEF Pending
    <3> HIDE DEF P, Q, Fine
    <3> QED BY <1>4, <3>1, <3>2
  <2>9. CASE ReplyLost(o)
    <3>1. op'[o].at # "emit" /\ op[o].at = "store" /\ revoked' = revoked
      BY <1>2, <2>1, <2>9 DEF Becomes, Idle, ReplyLost, At, ShapeOK
    <3>2. Q = P BY <2>3, <3>1 DEF Pending
    <3>3. \/ wrote'[s] = wrote[s] /\ (s \in kept' => s \in kept)
          \/ wrote'[s] = wrote[s] + 1
      <4>1. Written(o) \/ (NoKey(On(o)) /\ UNCHANGED wrote)
        BY <2>9, <3>1 DEF ReplyLost, At
      <4>2. On(o) \in Scopes BY <2>2, <3>1
      <4> QED BY <1>7, <4>1, <4>2 DEF NoKey
    <3> HIDE DEF P, Q, Fine
    <3> QED BY <1>4, <3>1, <3>2, <3>3
  <2> QED BY <1>8, <2>4, <2>5, <2>6, <2>7, <2>8, <2>9 DEF Step
<1>9. ASSUME NEW o \in Operators, NEW kind, NEW ttl, NEW b, Begin(o, kind, ttl, b) PROVE Fine
  <2>1. /\ op[o].at = "idle" /\ op'[o].at = "store" /\ \A p \in Operators \ {o} : Waits(p)
        /\ UNCHANGED <<kept, wrote, revoked>>
    BY <1>9, BeginIs DEF store, history
  <2>2. Q = P BY <1>6, <2>1 DEF Pending
  <2> HIDE DEF P, Q, Fine
  <2> QED BY <1>4, <2>1, <2>2
<1>10. ASSUME \A p \in Operators : Waits(p), UNCHANGED <<wrote, revoked>>,
              s \in kept' => s \in kept
       PROVE  Fine
  <2>1. Q = P BY <1>5, <1>10
  <2> HIDE DEF P, Q, Fine
  <2> QED BY <1>4, <1>10, <2>1
<1>11. ASSUME NEW z \in Scopes, ReadRow(z) \/ CacheAgain(z) PROVE FALSE
  BY <1>2, <1>11 DEF ReadRow, CacheAgain, ShapeOK
<1>12. ASSUME \/ \E z \in Scopes : DropExpired(z)
              \/ Tick
              \/ UNCHANGED <<store, reading, op, begun, history>>
       PROVE  Fine
  <2>1. op' = op /\ UNCHANGED <<wrote, revoked>> /\ (s \in kept' => s \in kept)
    BY <1>12 DEF DropExpired, NoKey, Tick, store, history
  <2>2. \A p \in Operators : Waits(p) BY <2>1 DEF Waits
  <2>3. Fine
    <3> HIDE DEF Fine
    <3> QED BY <1>10, <2>1, <2>2
  <2> QED BY <2>3
<1> QED BY <1>8, <1>9, <1>11, <1>12, NextCases

\* memory.py:53-59, redis.py:112-116.  Whoever revokes and however often, a store of
\* one tier has no block revoked twice on the trail.
THEOREM RevokedOnce == Spec => []RevokedOncePerBlock
<1>1. Init => RevokedInv
  <2> SUFFICES ASSUME Init PROVE RevokedInv OBVIOUS
  <2>1. \A o \in Operators : op[o].at = "idle" BY DEF Init, Idle
  <2>2. ASSUME NEW s \in Scopes PROVE Pending(s) = {} BY <2>1 DEF Pending
  <2>3. IsFiniteSet({}) /\ Cardinality({}) = 0 BY FS_EmptySet
  <2> QED BY <2>2, <2>3 DEF Init, RevokedInv
<1>2. TypeOK /\ RevokedInv => RevokedOncePerBlock
  <2> SUFFICES ASSUME TypeOK, RevokedInv, deployment # "tiered", NEW s \in Scopes
               PROVE  revoked[s] <= wrote[s]
    BY DEF RevokedOncePerBlock
  <2> DEFINE n == Cardinality(Pending(s))
  <2>1. n \in Nat /\ revoked[s] \in Nat /\ wrote[s] \in Nat
    BY FS_CardinalityType DEF RevokedInv, TypeOK
  <2>2. revoked[s] + n + (IF s \in kept THEN 1 ELSE 0) <= wrote[s] BY DEF RevokedInv
  <2> HIDE DEF n
  <2> QED BY <2>1, <2>2
<1> QED BY <1>1, <1>2, InitType, TypeStep, ShapeInit, ShapeStep, RevokedStep, PTL DEF Spec

-----------------------------------------------------------------------------
(* The last word of the trail.                                               *)

\* A block of s that lasts until it is lifted, whatever time does, but over Redis alone.
ForGood(s) ==
  /\ deployment = "memory" => left[s] = Forever
  /\ deployment = "tiered" => s \in rows

Agrees(s) ==
  /\ told[s] = "revoked" => ~Enforced(s)
  /\ told[s] = "permanent" => ForGood(s)
  /\ Enforced(s) => told[s] \in {"temp", "permanent"}

\* What a call on s that has met no other has done so far: it finds what the trail said
\* there was.
CallAgrees(o, s) ==
  /\ op[o].at = "cache" => s \in rows
  /\ op[o].at = "emit" /\ Blocking(o) /\ op[o].ttl = Forever => ForGood(s)
  /\ op[o].at = "revoke" => left[s] = 0 /\ (op[o].was /\ told[s] = "permanent" => s \in rows)
  /\ op[o].at = "emit" /\ ~Blocking(o) =>
       /\ ~Enforced(s)
       /\ op[o].was /\ ~op[o].found /\ told[s] = "permanent" => deployment = "redis"

\* No call is under way on a clear scope, and none but o's on one where o's is alone; who
\* is about to cache a clear scope's row has read one that is there, and where a call is
\* alone nobody is.
ScopeInv(s) ==
  /\ s \in clear => /\ Agrees(s) /\ (s \in reading => s \in rows)
                    /\ \A o \in Operators : ~MidCall(o, s)
  /\ \A o \in Operators :
       MidCall(o, s) /\ op[o].alone =>
         CallAgrees(o, s) /\ s \notin reading /\ \A p \in Operators \ {o} : ~MidCall(p, s)

TrailInv == \A s \in Scopes : ScopeInv(s)

\* A step elsewhere, and the time that passes, leave a scope as agreed.
LEMMA Elsewhere ==
  ASSUME TypeOK, ShapeOK, NEW s \in Scopes, ScopeInv(s), UNCHANGED deployment,
         told'[s] = told[s], s \in clear' => s \in clear, s \in reading' => s \in reading,
         left[s] = 0 => left'[s] = 0, left[s] = Forever => left'[s] = Forever,
         deployment = "tiered" => (s \in rows' <=> s \in rows),
         \A p \in Operators : MidCall(p, s)' => MidCall(p, s) /\ Waits(p)
  PROVE  ScopeInv(s)'
<1>1. ~Enforced(s) => ~Enforced(s)' BY DEF Enforced, Durable
<1>2. ForGood(s) => ForGood(s)' BY DEF ForGood
<1>3. ASSUME s \in clear'
      PROVE  /\ Agrees(s)' /\ (s \in reading' => s \in rows')
             /\ \A o \in Operators : ~MidCall(o, s)'
  <2>1. /\ Agrees(s) /\ (s \in reading => s \in rows)
        /\ \A o \in Operators : ~MidCall(o, s)
    BY <1>3 DEF ScopeInv
  <2>2. Agrees(s)' BY <1>1, <1>2, <2>1 DEF Agrees
  <2>3. s \in reading' => s \in rows' BY <2>1 DEF ShapeOK
  <2> QED BY <2>1, <2>2, <2>3
<1>4. ASSUME NEW o \in Operators, MidCall(o, s)', op'[o].alone
      PROVE  /\ CallAgrees(o, s)' /\ s \notin reading'
             /\ \A p \in Operators \ {o} : ~MidCall(p, s)'
  <2>1. MidCall(o, s) /\ Waits(o) BY <1>4
  <2>2. CallAgrees(o, s) /\ s \notin reading /\ \A p \in Operators \ {o} : ~MidCall(p, s)
    BY <1>4, <2>1 DEF ScopeInv, Waits
  <2>3. CallAgrees(o, s)'
    BY <1>1, <1>2, <2>1, <2>2 DEF CallAgrees, Waits, Blocking, ShapeOK
  <2> QED BY <2>2, <2>3
<1> QED BY <1>3, <1>4 DEF ScopeInv

\* A step of o on a scope: every other call on it has met o's, or there is none.
LEMMA OwnStep ==
  ASSUME NEW o \in Operators, NEW s, s \notin clear',
         \A p \in Operators \ {o} : MidCall(p, s)' => ~op'[p].alone,
         MidCall(o, s)' /\ op'[o].alone
           => CallAgrees(o, s)' /\ s \notin reading' /\ \A p \in Operators \ {o} : ~MidCall(p, s)'
  PROVE  ScopeInv(s)'
BY DEF ScopeInv

\* Those who wait are where they were.
LEMMA WaitsMid ==
  ASSUME NEW p, Waits(p), NEW s
  PROVE  MidCall(p, s)' <=> MidCall(p, s)
BY DEF Waits, MidCall, On

\* Where o enters the store.
LEMMA EntersAlone ==
  ASSUME TypeOK, NEW o \in Operators, WriteBlock(o) \/ EraseKey(o)
  PROVE  /\ clear' = clear \ {On(o)}
         /\ \A p \in Operators \ {o} : Waits(p) /\ (MidCall(p, On(o)) => ~op'[p].alone)
         /\ op'[o].alone => On(o) \notin reading /\ \A p \in Operators \ {o} : ~MidCall(p, On(o))
<1>1. PICK at, found : Enters(o, at, found) BY DEF WriteBlock, EraseKey
<1>2. clear' = clear \ {On(o)} BY <1>1 DEF Enters
<1> QED BY <1>1, <1>2, EntersIs

\* Every step of an operator keeps what is agreed of the scope it is on.
LEMMA TrailHere ==
  ASSUME TypeOK, ShapeOK, TrailInv, NEW o \in Operators, Step(o),
         UNCHANGED <<deployment, reading>>, NEW z \in Scopes, z = On(o)
  PROVE  ScopeInv(z)'
<1>1. Becomes(o) /\ \A p \in Operators \ {o} : Waits(p) BY StepIs
<1>2. z \in Scopes /\ ScopeInv(z) BY DEF TrailInv
<1>3. /\ deployment \in {"memory", "redis", "tiered"} /\ kept \subseteq Scopes
      /\ left \in [Scopes -> Lives] /\ told \in [Scopes -> {"none", "temp", "permanent", "revoked"}]
      /\ (left[z] # 0 => z \in kept) /\ clear \subseteq Scopes /\ op[o].ttl \in {Ttl, Forever}
      /\ Forever # 0 /\ Ttl # 0 /\ Ttl # Forever /\ CacheTtl # 0
  BY <1>2, ManagementAssumption DEF TypeOK, Calls
<1>4. \A p \in Operators \ {o} : MidCall(p, z)' <=> MidCall(p, z)
  BY <1>1, WaitsMid
<1>5. CASE WriteBlock(o)
  <2>1. /\ z \notin clear'
        /\ \A p \in Operators \ {o} : MidCall(p, z) => ~op'[p].alone
        /\ op'[o].alone => z \notin reading /\ \A p \in Operators \ {o} : ~MidCall(p, z)
    BY <1>5, EntersAlone
  <2>2. /\ op'[o].at = IF deployment = "tiered" /\ op[o].ttl = Forever THEN "cache" ELSE "emit"
        /\ Blocking(o)' /\ op'[o].ttl = op[o].ttl
    BY <1>1, <1>5 DEF Becomes, Through
  <2>3. CallAgrees(o, z)'
    <3>1. CASE deployment = "tiered" /\ op[o].ttl = Forever
      <4>1. rows' = rows \union {z} BY <1>5, <3>1 DEF WriteBlock, Written, Through
      <4> QED BY <2>2, <3>1, <4>1 DEF CallAgrees
    <3>2. CASE ~(deployment = "tiered" /\ op[o].ttl = Forever)
      <4>1. left'[z] = Life(op[o].ttl)
        BY <1>2, <1>3, <1>5, <3>2 DEF WriteBlock, Written, Through, PutKey
      <4>2. op[o].ttl = Forever => ForGood(z)' BY <1>3, <3>2, <4>1 DEF Life, ForGood
      <4> QED BY <2>2, <3>2, <4>2 DEF CallAgrees
    <3> QED BY <3>1, <3>2
  <2> QED BY <1>4, <2>1, <2>3, OwnStep
<1>6. CASE EraseKey(o)
  <2>1. /\ z \notin clear'
        /\ \A p \in Operators \ {o} : MidCall(p, z) => ~op'[p].alone
        /\ op'[o].alone => z \notin reading /\ \A p \in Operators \ {o} : ~MidCall(p, z)
    BY <1>6, EntersAlone
  <2>2. /\ op'[o].at = IF deployment = "tiered" THEN "revoke" ELSE "emit"
        /\ ~Blocking(o)'
        /\ op'[o].found <=> z \in kept
        /\ op'[o].was <=> z \in clear
    BY <1>1, <1>6 DEF Becomes
  <2>3. left'[z] = 0 /\ rows' = rows /\ told' = told
    BY <1>2, <1>3, <1>6 DEF EraseKey, NoKey
  <2>4. z \in clear => Agrees(z) BY <1>2 DEF ScopeInv
  <2>5. CallAgrees(o, z)'
    <3>1. CASE deployment = "tiered"
      BY <2>2, <2>3, <2>4, <3>1 DEF CallAgrees, Agrees, ForGood
    <3>2. CASE deployment # "tiered"
      <4>1. ~Enforced(z)' BY <2>3, <3>2 DEF Enforced, Durable
      <4>2. z \in clear /\ told[z] = "permanent" /\ z \notin kept => deployment = "redis"
        BY <1>3, <2>4, <3>2 DEF Agrees, ForGood
      <4> QED BY <2>2, <2>3, <3>2, <4>1, <4>2 DEF CallAgrees
    <3> QED BY <3>1, <3>2
  <2> QED BY <1>4, <2>1, <2>5, OwnStep
<1>7. ASSUME op[o].at \in {"cache", "revoke"}, Meets(o, z, op'[o]), clear' = clear,
             op'[o].alone = op[o].alone, CallAgrees(o, z) => CallAgrees(o, z)'
      PROVE  ScopeInv(z)'
  <2>1. MidCall(o, z) BY <1>7 DEF MidCall
  <2>2. z \notin clear' BY <1>2, <1>7, <2>1 DEF ScopeInv
  <2>3. op'[o].alone =>
          CallAgrees(o, z)' /\ z \notin reading /\ \A p \in Operators \ {o} : ~MidCall(p, z)
    BY <1>2, <1>7, <2>1 DEF ScopeInv
  <2>4. \A p \in Operators \ {o} : MidCall(p, z) => ~op'[p].alone BY <1>7, MeetsIs
  <2> QED BY <1>4, <2>2, <2>3, <2>4, OwnStep
<1>8. CASE CacheBlock(o)
  <2>1. /\ op'[o].at = "emit" /\ op'[o].kind = op[o].kind /\ op'[o].ttl = op[o].ttl
        /\ op'[o].alone = op[o].alone /\ op[o].at = "cache" /\ rows' = rows /\ clear' = clear
    BY <1>1, <1>8 DEF Becomes, CacheBlock, At, history
  <2>2. Meets(o, z, op'[o])
    <3>1. Meets(o, z, [op[o] EXCEPT !.at = "emit"]) BY <1>8 DEF CacheBlock
    <3> QED BY <3>1, MeetsIs
  <2>3. deployment = "tiered" /\ Blocking(o) BY <2>1 DEF ShapeOK
  <2>4. CallAgrees(o, z) => CallAgrees(o, z)'
    BY <2>1, <2>3 DEF CallAgrees, ForGood, Blocking
  <2> QED BY <1>7, <2>1, <2>2, <2>4
<1>9. CASE RevokeRow(o)
  <2>1. /\ op'[o].at = "emit" /\ op'[o].kind = op[o].kind
        /\ op'[o].found <=> op[o].found \/ z \in rows
        /\ op'[o].was = op[o].was /\ op'[o].alone = op[o].alone
        /\ op[o].at = "revoke" /\ rows' = rows \ {z} /\ clear' = clear /\ told' = told
        /\ left' = left
    BY <1>1, <1>9 DEF Becomes, RevokeRow, At, history
  <2>2. Meets(o, z, op'[o])
    <3> DEFINE d == [op[o] EXCEPT !.at = "emit", !.found = @ \/ On(o) \in rows]
    <3>1. Meets(o, z, d) BY <1>9 DEF RevokeRow
    <3> HIDE DEF d
    <3> QED BY <3>1, MeetsIs
  <2>3. ~Blocking(o) BY <2>1 DEF ShapeOK
  <2>4. CallAgrees(o, z) => CallAgrees(o, z)'
    BY <2>1, <2>3 DEF CallAgrees, Blocking, Enforced, Durable
  <2> QED BY <1>7, <2>1, <2>2, <2>4
<1>10. CASE Emit(o)
  <2>1. op'[o].at \in {"row", "idle", "store"} BY <1>1, <1>10 DEF Becomes
  <2>2. ~MidCall(o, z)' BY <2>1 DEF MidCall
  <2>3. /\ op[o].at = "emit" /\ UNCHANGED <<kept, left, rows>>
        /\ told' = [told EXCEPT ![z] =
                      IF Blocking(o) THEN IF op[o].ttl = Forever THEN "permanent" ELSE "temp"
                      ELSE IF op[o].found THEN "revoked" ELSE told[z]]
        /\ clear' = IF op[o].alone /\ (Blocking(o) \/ op[o].found \/ op[o].was)
                    THEN clear \union {z} ELSE clear
    BY <1>10 DEF Emit, At, store
  <2>4. MidCall(o, z) BY <2>3 DEF MidCall
  <2>5. z \notin clear BY <1>2, <2>4 DEF ScopeInv
  <2>6. \A p \in Operators \ {o} : MidCall(p, z)' => ~op'[p].alone
    <3> SUFFICES ASSUME NEW p \in Operators \ {o}, MidCall(p, z)', op'[p].alone PROVE FALSE OBVIOUS
    <3>1. Waits(p) /\ MidCall(p, z) BY <1>1, <1>4
    <3>2. op[p].alone BY <3>1 DEF Waits
    <3> QED BY <1>2, <2>4, <3>1, <3>2 DEF ScopeInv
  <2>7. CASE z \notin clear'
    <3> QED BY <2>2, <2>6, <2>7, OwnStep
  <2>8. CASE z \in clear'
    <3>1. op[o].alone /\ (Blocking(o) \/ op[o].found \/ op[o].was) BY <2>3, <2>5, <2>8
    <3>2. CallAgrees(o, z) /\ z \notin reading /\ \A p \in Operators \ {o} : ~MidCall(p, z)
      BY <1>2, <2>4, <3>1 DEF ScopeInv
    <3>3. told'[z] = IF Blocking(o) THEN IF op[o].ttl = Forever THEN "permanent" ELSE "temp"
                     ELSE IF op[o].found THEN "revoked" ELSE told[z]
      BY <1>2, <1>3, <2>3
    <3>4. (Enforced(z)' <=> Enforced(z)) /\ (ForGood(z)' <=> ForGood(z))
      BY <2>3 DEF Enforced, Durable, ForGood
    <3>5. deployment = "redis" => ForGood(z) BY DEF ForGood
    <3>6. Agrees(z)'
      <4>1. CASE Blocking(o) BY <1>3, <2>3, <3>2, <3>3, <3>4, <4>1 DEF Agrees, CallAgrees
      <4>2. CASE ~Blocking(o)
        BY <1>3, <2>3, <3>1, <3>2, <3>3, <3>4, <3>5, <4>2 DEF Agrees, CallAgrees
      <4> QED BY <4>1, <4>2
    <3>7. \A p \in Operators : ~MidCall(p, z)' BY <1>4, <2>2, <3>2
    <3> QED BY <2>2, <3>2, <3>6, <3>7 DEF ScopeInv
  <2> QED BY <2>7, <2>8
<1>11. CASE SaveRow(o)
  <2>1. op'[o].at \in {"idle", "store"} BY <1>1, <1>11 DEF Becomes
  <2>2. ~MidCall(o, z)' BY <2>1 DEF MidCall
  <2>3. rows' = rows \union {z} /\ UNCHANGED <<kept, left, told>> BY <1>11 DEF SaveRow
  <2>4. CASE Durable(z) \/ deployment # "tiered"
    <3>1. clear' = clear /\ (deployment = "tiered" => rows' = rows)
      BY <1>11, <2>3, <2>4 DEF SaveRow, Durable
    <3>2. \A p \in Operators : MidCall(p, z)' => MidCall(p, z) /\ Waits(p) BY <1>1, <1>4, <2>2
    <3> QED BY <1>2, <2>3, <3>1, <3>2, Elsewhere
  <2>5. CASE ~(Durable(z) \/ deployment # "tiered")
    <3>1. Meets(o, z, Rest(o)) /\ z \notin clear' BY <1>11, <2>5 DEF SaveRow
    <3>2. \A p \in Operators \ {o} : MidCall(p, z) => ~op'[p].alone BY <3>1, MeetsIs
    <3> QED BY <1>4, <2>2, <3>1, <3>2, OwnStep
  <2> QED BY <2>4, <2>5
<1>12. CASE StoreFails(o)
  <2>1. op'[o].at = "idle" BY <1>1, <1>12 DEF Becomes, Idle
  <2>2. ~MidCall(o, z)' BY <2>1 DEF MidCall
  <2>3. UNCHANGED <<left, rows, told, clear>> BY <1>12 DEF StoreFails, store, history
  <2>4. \A p \in Operators : MidCall(p, z)' => MidCall(p, z) /\ Waits(p) BY <1>1, <1>4, <2>2
  <2> QED BY <1>2, <2>3, <2>4, Elsewhere
<1>13. CASE ReplyLost(o)
  <2>1. ~MidCall(o, z)' BY <1>1, <1>13 DEF Becomes, Idle, MidCall
  <2>2. Meets(o, z, Idle) /\ z \notin clear' BY <1>13 DEF ReplyLost
  <2>3. \A p \in Operators \ {o} : MidCall(p, z) => ~op'[p].alone BY <2>2, MeetsIs
  <2> QED BY <1>4, <2>1, <2>2, <2>3, OwnStep
<1> QED BY <1>5, <1>6, <1>8, <1>9, <1>10, <1>11, <1>12, <1>13 DEF Step

\* And of the scopes it is not on.
LEMMA TrailThere ==
  ASSUME TypeOK, ShapeOK, TrailInv, NEW o \in Operators, Step(o),
         UNCHANGED <<deployment, reading>>, NEW s \in Scopes, s # On(o), On(o) \in Scopes
  PROVE  ScopeInv(s)'
<1>1. Becomes(o) /\ \A p \in Operators \ {o} : Waits(p) BY StepIs
<1>2. ScopeInv(s) BY DEF TrailInv
<1>3. ~MidCall(o, s)'
  <2>1. CASE WriteBlock(o) \/ CacheBlock(o) \/ EraseKey(o) \/ RevokeRow(o)
    <3>1. op'[o].todo = op[o].todo BY <1>1, <2>1 DEF Becomes
    <3> QED BY <3>1 DEF MidCall, On
  <2>2. CASE Emit(o) \/ SaveRow(o) \/ StoreFails(o) \/ ReplyLost(o)
    <3>1. op'[o].at \in {"row", "idle", "store"} BY <1>1, <2>2 DEF Becomes, Idle
    <3> QED BY <3>1 DEF MidCall
  <2> QED BY <2>1, <2>2 DEF Step
<1>4. \A p \in Operators : MidCall(p, s)' => MidCall(p, s) /\ Waits(p)
  <2> SUFFICES ASSUME NEW p \in Operators, MidCall(p, s)' PROVE MidCall(p, s) /\ Waits(p) OBVIOUS
  <2>1. p # o BY <1>3
  <2> QED BY <1>1, <2>1, WaitsMid
<1>5. /\ told'[s] = told[s] /\ left'[s] = left[s] /\ (s \in rows' <=> s \in rows)
      /\ s \in clear' => s \in clear
  <2>1. /\ told \in [Scopes -> {"none", "temp", "permanent", "revoked"}]
        /\ left \in [Scopes -> Lives]
    BY DEF TypeOK
  <2>2. CASE WriteBlock(o) BY <2>1, <2>2 DEF WriteBlock, Written, PutKey, Enters
  <2>3. CASE CacheBlock(o) BY <2>1, <2>3 DEF CacheBlock, PutKey, history
  <2>4. CASE EraseKey(o) BY <2>1, <2>4 DEF EraseKey, NoKey, Enters
  <2>5. CASE RevokeRow(o) BY <2>1, <2>5 DEF RevokeRow, history
  <2>6. CASE Emit(o) BY <2>1, <2>6 DEF Emit, store
  <2>7. CASE SaveRow(o) BY <2>1, <2>7 DEF SaveRow
  <2>8. CASE StoreFails(o) BY <2>1, <2>8 DEF StoreFails, store, history
  <2>9. CASE ReplyLost(o)
    BY <2>1, <2>9 DEF ReplyLost, Written, PutKey, NoKey
  <2> QED BY <2>2, <2>3, <2>4, <2>5, <2>6, <2>7, <2>8, <2>9 DEF Step
<1> QED BY <1>2, <1>4, <1>5, Elsewhere

\* Every step keeps what is agreed of every scope.
LEMMA TrailStep ==
  ASSUME TypeOK, ShapeOK, TrailInv, [Next]_vars
  PROVE  TrailInv'
<1>1. UNCHANGED deployment BY NextCases
<1> SUFFICES ASSUME NEW s \in Scopes PROVE ScopeInv(s)' BY DEF TrailInv
<1>2. ScopeInv(s) /\ left \in [Scopes -> Lives] /\ Forever # 0
  BY ManagementAssumption DEF TrailInv, TypeOK
<1>3. ASSUME told' = told, clear' = clear, left[s] = 0 => left'[s] = 0,
             left[s] = Forever => left'[s] = Forever, UNCHANGED <<rows, reading>>,
             \A p \in Operators : MidCall(p, s)' => MidCall(p, s) /\ Waits(p)
      PROVE  ScopeInv(s)'
  BY <1>1, <1>2, <1>3, Elsewhere
<1>4. ASSUME NEW o \in Operators, Step(o), UNCHANGED reading PROVE ScopeInv(s)'
  <2>1. On(o) \in Scopes
    <3>1. op[o].at # "idle"
      BY <1>4 DEF Step, WriteBlock, CacheBlock, EraseKey, RevokeRow, Emit, SaveRow, StoreFails,
                  ReplyLost, At
    <3> QED BY <3>1, OnType, TypeOKIsParts
  <2> QED BY <1>1, <1>4, <2>1, TrailHere, TrailThere
<1>5. ASSUME NEW o \in Operators, NEW kind, NEW ttl, NEW b, Begin(o, kind, ttl, b),
             UNCHANGED reading
      PROVE  ScopeInv(s)'
  <2>1. /\ op'[o].at = "store" /\ \A p \in Operators \ {o} : Waits(p)
        /\ UNCHANGED <<left, rows, told, clear>>
    BY <1>5, BeginIs DEF store, history
  <2>2. ~MidCall(o, s)' BY <2>1 DEF MidCall
  <2>3. ASSUME NEW p \in Operators, MidCall(p, s)' PROVE MidCall(p, s) /\ Waits(p)
    <3>1. p # o BY <2>2, <2>3
    <3> QED BY <2>1, <2>3, <3>1, WaitsMid
  <2> QED BY <1>3, <1>5, <2>1, <2>3
<1>6. ASSUME NEW y \in Scopes, ReadRow(y) \/ CacheAgain(y) PROVE ScopeInv(s)'
  <2>1. \A p \in Operators : Waits(p) /\ (MidCall(p, y) => ~op'[p].alone)
    BY <1>6, MeetsAllIs DEF ReadRow, CacheAgain
  <2>2. \A p \in Operators : MidCall(p, s)' <=> MidCall(p, s) BY <2>1, WaitsMid
  <2>3. UNCHANGED <<rows, told, clear>> /\ deployment = "tiered"
    BY <1>6 DEF ReadRow, CacheAgain, ShapeOK, store, history
  <2>4. CASE s # y
    <3>1. left'[s] = left[s] /\ (s \in reading' => s \in reading)
      BY <1>2, <1>6, <2>4 DEF ReadRow, CacheAgain, PutKey, store
    <3> QED BY <1>1, <1>2, <2>1, <2>2, <2>3, <3>1, Elsewhere
  <2>5. CASE s = y
    <3>1. \A p \in Operators : MidCall(p, s)' => ~op'[p].alone BY <2>1, <2>2, <2>5
    <3>2. s \in reading \/ s \in rows
      BY <1>6, <2>5 DEF ReadRow, CacheAgain
    <3>3. ASSUME s \in clear'
          PROVE  /\ Agrees(s)' /\ (s \in reading' => s \in rows')
                 /\ \A p \in Operators : ~MidCall(p, s)'
      <4>1. Agrees(s) /\ s \in rows /\ \A p \in Operators : ~MidCall(p, s)
        BY <1>2, <2>3, <3>2, <3>3 DEF ScopeInv
      <4>2. Enforced(s) /\ Enforced(s)' BY <1>1, <2>3, <4>1 DEF Enforced, Durable
      <4>3. Agrees(s)' BY <1>1, <2>3, <4>1, <4>2 DEF Agrees, ForGood
      <4> QED BY <2>2, <2>3, <4>1, <4>3
    <3> QED BY <3>1, <3>3 DEF ScopeInv
  <2> QED BY <2>4, <2>5
<1>7. ASSUME op' = op, UNCHANGED <<rows, reading, told, clear>>,
             left[s] = 0 => left'[s] = 0, left[s] = Forever => left'[s] = Forever
      PROVE  ScopeInv(s)'
  <2>1. \A p \in Operators : MidCall(p, s)' => MidCall(p, s) /\ Waits(p)
    BY <1>7 DEF MidCall, On, Waits
  <2> QED BY <1>3, <1>7, <2>1
<1>8. ASSUME NEW y \in Scopes, DropExpired(y), UNCHANGED reading PROVE ScopeInv(s)'
  <2>1. /\ left[s] = 0 => left'[s] = 0
        /\ left[s] = Forever => left'[s] = Forever
    BY <1>2, <1>8 DEF DropExpired, NoKey
  <2> QED BY <1>7, <1>8, <2>1 DEF DropExpired, history
<1>9. ASSUME Tick, UNCHANGED reading PROVE ScopeInv(s)'
  <2>1. left'[s] = IF left[s] \in {0, Forever} THEN left[s] ELSE left[s] - 1
    BY <1>9 DEF Tick
  <2> QED BY <1>7, <1>9, <2>1 DEF Tick, history
<1>10. CASE UNCHANGED <<store, reading, op, begun, history>>
  BY <1>7, <1>10 DEF store, history
<1> QED BY <1>4, <1>5, <1>6, <1>8, <1>9, <1>10, NextCases

\* api.py:75-111, 114-134.  If the last call on a scope met no other one, no lookup that had
\* still to cache what it read, and no error, the trail has its last word: what it says
\* revoked is not enforced, what it says blocked for good is (unless Redis alone has let it
\* lapse), and nothing is enforced unannounced, whatever is done on other scopes and
\* whatever lookups follow.
THEOREM LastWord == Spec => []TrailHasTheLastWord
<1>1. Init => TrailInv
  <2> SUFFICES ASSUME Init PROVE TrailInv OBVIOUS
  <2>1. \A o \in Operators : op[o].at = "idle" BY DEF Init, Idle
  <2>2. ASSUME NEW s \in Scopes PROVE ScopeInv(s)
    <3>1. \A o \in Operators : ~MidCall(o, s) BY <2>1 DEF MidCall
    <3>2. told[s] = "none" /\ ~Enforced(s) /\ s \notin reading BY DEF Init, Enforced, Durable
    <3> QED BY <3>1, <3>2 DEF ScopeInv, Agrees
  <2> QED BY <2>2 DEF TrailInv
<1>2. TypeOK /\ TrailInv => TrailHasTheLastWord
  <2> SUFFICES ASSUME TypeOK, TrailInv, NEW s \in clear
               PROVE  /\ told[s] = "revoked" => ~Enforced(s)
                      /\ told[s] = "permanent" /\ deployment # "redis" => Enforced(s)
                      /\ Enforced(s) => told[s] \in {"temp", "permanent"}
    BY DEF TrailHasTheLastWord
  <2>1. s \in Scopes /\ deployment \in {"memory", "redis", "tiered"} /\ Forever # 0
    BY ManagementAssumption DEF TypeOK
  <2>2. Agrees(s) BY <2>1 DEF TrailInv, ScopeInv
  <2> QED BY <2>1, <2>2 DEF Agrees, ForGood, Enforced, Durable
<1> QED BY <1>1, <1>2, InitType, TypeStep, ShapeInit, ShapeStep, TrailStep, PTL DEF Spec
=============================================================================
