----------------------- MODULE TieredBlockStoreProofs -----------------------
(* What TieredBlockStore keeps for every set of scopes, requests, workers and *)
(* faults, and for every cap.                                                 *)
EXTENDS TieredBlockStore, WellFoundedInduction, TLAPS

\* Every non-empty set of naturals has a least element.
LEMMA LeastNatural ==
  ASSUME NEW T \in SUBSET Nat, T # {}
  PROVE  \E x \in T : \A y \in T : x <= y
<1> DEFINE R == {ss \in Nat \X Nat : ss[1] < ss[2]}
<1>1. R = OpToRel(<, Nat)
  BY Zenon DEF OpToRel
<1>2. IsWellFoundedOn(R, Nat)
  BY <1>1, NatLessThanWellFounded, Zenon
<1> HIDE DEF R
<1>3. PICK x \in T : \A y \in T : ~ (<<y, x>> \in R)
  BY <1>2, WFMin, Zenon
<1>4. ASSUME NEW y \in T PROVE x <= y
  <2>1. <<y, x>> \notin R
    BY <1>3
  <2>2. y \in Nat /\ x \in Nat
    OBVIOUS
  <2>3. ~ (y < x)
    BY <2>1, <2>2 DEF R
  <2>4. QED
    BY <2>2, <2>3
<1>5. QED
  BY <1>4

\* FirstOf returns a scope of the path that is in the set, if there is one.
LEMMA FirstOfIsOnPath ==
  ASSUME NEW p \in Seq(Scopes), NEW S, OnPath(p) \intersect S # {}
  PROVE  FirstOf(p, S) \in OnPath(p) \intersect S
<1> DEFINE Hits == {i \in DOMAIN p : p[i] \in S}
<1>1. Hits \in SUBSET Nat /\ Hits # {}
  BY DEF OnPath
<1>2. PICK i \in Hits : \A j \in Hits : i <= j
  BY <1>1, LeastNatural
<1>3. \E k \in DOMAIN p : p[k] \in S /\ \A j \in DOMAIN p : p[j] \in S => k <= j
  BY <1>2
<1>4. QED
  BY <1>3 DEF FirstOf, OnPath

LEMMA OnPathType ==
  ASSUME NEW p \in Seq(Scopes) PROVE OnPath(p) \subseteq Scopes
BY DEF OnPath

LEMMA WarmPayloadType ==
  ASSUME NEW bans \in SUBSET Scopes
  PROVE  WarmPayload(bans) \in Sentinels /\ bans \subseteq WarmPayload(bans).covers
BY DEF WarmPayload, Sentinels

LEMMA ColdType == Cold \in Sentinels
BY DEF Cold, Sentinels

-----------------------------------------------------------------------------
(* Typing.                                                                    *)

TInv == TypeOK /\ LocalsOK

LEMMA TInvInit == Init => TInv
BY DEF Init, TInv, TypeOK, LocalsOK, Cold, Sentinels, Labels

LEMMA TInvStep == TInv /\ [Next]_vars => TInv'
<1> SUFFICES ASSUME TInv, [Next]_vars PROVE TInv'
  OBVIOUS
<1> USE DEF TInv, TypeOK, LocalsOK, Labels, Goto, Answer, locals, history
<1>1. ASSUME NEW w \in Workers, NEW s \in Scopes, BlockTemp(w, s) PROVE TInv'
  BY <1>1 DEF BlockTemp
<1>2. ASSUME NEW w \in Workers, NEW s \in Scopes, BlockPermanent(w, s) PROVE TInv'
  BY <1>2 DEF BlockPermanent
<1>3. ASSUME NEW w \in Workers, CacheBan(w) PROVE TInv'
  BY <1>3 DEF CacheBan
<1>4. ASSUME NEW w \in Workers, ClearAfterBan(w) PROVE TInv'
  <2>1. TypeOK'
    BY <1>4, ColdType DEF ClearAfterBan
  <2>2. LocalsOK'
    BY <1>4 DEF ClearAfterBan
  <2>3. QED
    BY <2>1, <2>2
<1>5. ASSUME NEW w \in Workers, NEW s \in Scopes, Unblock(w, s) PROVE TInv'
  BY <1>5 DEF Unblock
<1>6. ASSUME NEW w \in Workers, Revoke(w) PROVE TInv'
  BY <1>6 DEF Revoke
<1>7. ASSUME NEW w \in Workers, ClearAfterRevoke(w) PROVE TInv'
  <2>1. TypeOK'
    BY <1>7, ColdType DEF ClearAfterRevoke
  <2>2. LocalsOK'
    BY <1>7 DEF ClearAfterRevoke
  <2>3. QED
    BY <2>1, <2>2
<1>8. ASSUME NEW w \in Workers, NEW p \in Paths, Lookup(w, p) PROVE TInv'
  <2>1. p \in Seq(Scopes) /\ OnPath(p) \subseteq Scopes
    BY PathsAssumption, OnPathType
  <2>2. answer' \in [Workers -> Scopes \union {None, Error}]
    <3>1. CASE OnPath(p) \intersect Cached # {}
      BY <1>8, <2>1, <3>1, FirstOfIsOnPath DEF Lookup
    <3>2. CASE OnPath(p) \intersect Cached = {}
      BY <1>8, <3>2 DEF Lookup
    <3>3. QED
      BY <3>1, <3>2
  <2>3. owed' \in [Workers -> SUBSET Scopes]
    BY <1>8, <2>1 DEF Lookup
  <2>4. pc' \in [Workers -> Labels] /\ path' \in [Workers -> Seq(Scopes)]
    BY <1>8, <2>1 DEF Lookup
  <2>5. TypeOK'
    BY <1>8, <2>2, <2>3, <2>4 DEF Lookup
  <2>6. LocalsOK'
    <3>1. PICK l \in {"read_warm", "answered"} : pc' = [pc EXCEPT ![w] = l]
      BY <1>8 DEF Lookup
    <3>2. UNCHANGED <<arg, cands, listed, todo, slipped>> /\ path' = [path EXCEPT ![w] = p]
      BY <1>8 DEF Lookup
    <3>3. pc[w] = "idle"
      BY <1>8 DEF Lookup
    <3>4. QED
      BY <3>1, <3>2, <3>3
  <2>7. QED
    BY <2>5, <2>6
<1>9. ASSUME NEW w \in Workers, ReadWarm(w) PROVE TInv'
  <2>1. OnPath(path[w]) \subseteq Scopes
    BY OnPathType
  <2> DEFINE asked == OnPath(path[w]) \intersect warm.covers
  <2>2. CASE warm.shape = "cold"
    BY <1>9, <2>2, ZenonT(30) DEF ReadWarm
  <2>3. CASE warm.shape # "cold" /\ asked = {}
    BY <1>9, <2>3, ZenonT(30) DEF ReadWarm
  <2>4. CASE warm.shape # "cold" /\ asked # {}
    <3>1. PICK l \in {"fetch", "verify"} : pc' = [pc EXCEPT ![w] = l]
      BY <1>9, <2>4 DEF ReadWarm
    <3>2. cands' = [cands EXCEPT ![w] = asked] /\ UNCHANGED answer
      BY <1>9, <2>4 DEF ReadWarm
    <3>3. UNCHANGED <<pg, redis, warm, arg, path, listed, todo, history>>
      BY <1>9 DEF ReadWarm
    <3>4. cands' \in [Workers -> SUBSET Scopes]
      BY <2>1, <3>2
    <3>5. TypeOK'
      BY <3>1, <3>2, <3>3, <3>4
    <3>6. LocalsOK'
      BY <1>9, <2>4, <3>1, <3>2, <3>3 DEF ReadWarm
    <3>7. QED
      BY <3>5, <3>6
  <2>5. QED
    BY <2>2, <2>3, <2>4
<1>10. ASSUME NEW w \in Workers, Fetch(w) PROVE TInv'
  <2> DEFINE s == FirstOf(path[w], cands[w])
  <2>1. s \in OnPath(path[w]) /\ s \in cands[w] /\ s \in Scopes
    <3>1. OnPath(path[w]) \intersect cands[w] # {}
      BY <1>10 DEF Fetch
    <3>2. QED
      BY <3>1, OnPathType, FirstOfIsOnPath
  <2> HIDE DEF s
  <2>2. CASE s \in pg
    <3>1. arg' = [arg EXCEPT ![w] = s] /\ pc' = [pc EXCEPT ![w] = "cache_hit"]
      BY <1>10, <2>2 DEF Fetch, s
    <3>2. arg' \in [Workers -> Scopes \union {None}] /\ pc' \in [Workers -> Labels]
      BY <2>1, <3>1
    <3>3. UNCHANGED <<pg, redis, warm, path, cands, listed, todo, answer, history>>
      BY <1>10, <2>2 DEF Fetch, s
    <3>4. TypeOK'
      BY <3>2, <3>3
    <3>5. LocalsOK'
      BY <1>10, <2>1, <3>1, <3>3 DEF Fetch
    <3>6. QED
      BY <3>4, <3>5
  <2>3. CASE s \notin pg
    <3>1. /\ cands' = [cands EXCEPT ![w] = cands[w] \ {s}]
          /\ \/ cands[w] = {s} /\ Answer(w, None)
             \/ cands[w] # {s} /\ UNCHANGED <<pc, answer>>
      BY <1>10, <2>3 DEF Fetch, s
    <3>2. UNCHANGED <<pg, redis, warm, arg, path, listed, todo, history>>
      BY <1>10, <2>3 DEF Fetch, s
    <3>3. TypeOK'
      BY <3>1, <3>2
    <3>4. LocalsOK'
      BY <2>1, <3>1, <3>2
    <3>5. QED
      BY <3>3, <3>4
  <2>4. QED
    BY <2>2, <2>3
<1>11. ASSUME NEW w \in Workers, Verify(w) PROVE TInv'
  <2> DEFINE s == FirstOf(path[w], cands[w] \intersect pg)
  <2>1. cands[w] \intersect pg # {} => s \in Scopes
    <3>1. cands[w] \subseteq OnPath(path[w])
      BY <1>11 DEF Verify
    <3>2. QED
      BY <3>1, OnPathType, FirstOfIsOnPath
  <2> HIDE DEF s
  <2>2. CASE cands[w] \intersect pg # {}
    <3>1. arg' = [arg EXCEPT ![w] = s] /\ pc' = [pc EXCEPT ![w] = "cache_hit"]
      BY <1>11, <2>2 DEF Verify, s
    <3>2. arg' \in [Workers -> Scopes \union {None}] /\ pc' \in [Workers -> Labels]
      BY <2>1, <2>2, <3>1
    <3>3. UNCHANGED <<pg, redis, warm, path, cands, listed, todo, answer, history>>
      BY <1>11, <2>2 DEF Verify
    <3>4. TypeOK'
      BY <3>2, <3>3
    <3>5. LocalsOK'
      BY <1>11, <2>1, <2>2, <3>1, <3>3 DEF Verify
    <3>6. QED
      BY <3>4, <3>5
  <2>3. CASE cands[w] \intersect pg = {}
    BY <1>11, <2>3, ZenonT(30) DEF Verify
  <2>4. QED
    BY <2>2, <2>3
<1>12. ASSUME NEW w \in Workers, CacheHit(w) PROVE TInv'
  BY <1>12 DEF CacheHit
<1>13. ASSUME NEW w \in Workers, ListBans(w) PROVE TInv'
  BY <1>13 DEF ListBans
<1>14. ASSUME NEW w \in Workers, NEW s \in Scopes, CacheListed(w, s) PROVE TInv'
  BY <1>14 DEF CacheListed
<1>15. ASSUME NEW w \in Workers, MarkWarm(w) PROVE TInv'
  BY <1>15, WarmPayloadType DEF MarkWarm
<1>16. ASSUME NEW w \in Workers, Recheck(w) PROVE TInv'
  BY <1>16, OnPathType, FirstOfIsOnPath DEF Recheck
<1>17. ASSUME NEW w \in Workers, Return(w) PROVE TInv'
  BY <1>17 DEF Return, Forget
<1>18. ASSUME NEW w \in Workers, RedisError(w) PROVE TInv'
  <2>1. CASE pc[w] \in {"read_warm", "fill", "recheck"} /\ Raise(w)
    BY <2>1 DEF Raise
  <2>2. CASE pc[w] \in {"cache_hit", "cache_ban"}
    BY <1>18, <2>2, ZenonT(30) DEF RedisError
  <2>3. CASE pc[w] \in {"clear_ban", "clear_revoke"}
    <3>1. /\ missed' = IF pc[w] = "clear_ban" THEN missed \union {arg[w]} ELSE missed
          /\ Goto(w, "idle") /\ arg' = [arg EXCEPT ![w] = None]
          /\ UNCHANGED <<pg, redis, warm, path, cands, listed, todo, answer,
                         ever, owed, slipped, recached>>
      BY <1>18, <2>3 DEF RedisError, Raise
    <3>2. TypeOK'
      BY <2>3, <3>1
    <3>3. LocalsOK'
      BY <2>3, <3>1
    <3>4. QED
      BY <3>2, <3>3
  <2>4. QED
    BY <1>18, <2>1, <2>2, <2>3 DEF RedisError
<1>19. ASSUME NEW w \in Workers, PgError(w) PROVE TInv'
  <2>1. CASE pc[w] \in {"list", "fetch", "verify"} /\ Raise(w)
    BY <2>1 DEF Raise
  <2>2. CASE pc[w] = "revoke"
    BY <1>19, <2>2, ZenonT(30) DEF PgError
  <2>3. QED
    BY <1>19, <2>1, <2>2 DEF PgError
<1>20. ASSUME NEW w \in Workers, Crash(w) PROVE TInv'
  BY <1>20 DEF Crash, Forget
<1>21. ASSUME NEW s \in Scopes, DropKey(s) PROVE TInv'
  BY <1>21 DEF DropKey, Slip
<1>22. CASE DropWarm
  BY <1>22, ColdType DEF DropWarm
<1>23. CASE Flush
  <2>1. TypeOK'
    BY <1>23, ColdType DEF Flush, Slip, Cached
  <2>2. LocalsOK'
    BY <1>23 DEF Flush, Slip
  <2>3. QED
    BY <2>1, <2>2
<1>24. CASE UNCHANGED vars
  BY <1>24 DEF vars
<1>25. QED
  BY <1>1, <1>2, <1>3, <1>4, <1>5, <1>6, <1>7, <1>8, <1>9, <1>10, <1>11, <1>12, <1>13, <1>14, <1>15, <1>16, <1>17, <1>18, <1>19, <1>20, <1>21, <1>22, <1>23, <1>24 DEF Next, Begin, Continue, Fault

\* The variables keep their types, and the locals of a call are set where the
\* call uses them.
THEOREM TypeCorrect == Spec => []TypeOK
<1>1. TInv => TypeOK
  BY DEF TInv
<1>2. QED
  BY <1>1, TInvInit, TInvStep, PTL DEF Spec

-----------------------------------------------------------------------------
(* What the steps of a lookup do, for the proofs below.                       *)

LookupEffect(w, p) ==
  /\ pc[w] = "idle"
  /\ \E l \in {"read_warm", "answered"} : pc' = [pc EXCEPT ![w] = l]
  /\ path' = [path EXCEPT ![w] = p]
  /\ owed' = [owed EXCEPT ![w] = {s \in OnPath(p) : InForce(s)}]
  /\ UNCHANGED <<pg, redis, warm, arg, cands, listed, todo, ever, slipped, missed, recached>>

LEMMA LookupStep == ASSUME NEW w, NEW p, Lookup(w, p) PROVE LookupEffect(w, p)
BY DEF LookupEffect, Lookup, Goto, Answer

ReadWarmEffect(w) ==
  /\ pc[w] = "read_warm"
  /\ UNCHANGED <<pg, redis, warm, arg, path, listed, todo, history>>
  /\ \/ /\ warm.shape = "cold" /\ pc' = [pc EXCEPT ![w] = "list"]
        /\ UNCHANGED <<cands, answer>>
     \/ /\ warm.shape # "cold" /\ OnPath(path[w]) \intersect warm.covers = {}
        /\ pc' = [pc EXCEPT ![w] = "answered"] /\ answer' = [answer EXCEPT ![w] = None]
        /\ UNCHANGED cands
     \/ /\ warm.shape = "members" /\ pc' = [pc EXCEPT ![w] = "fetch"]
        /\ cands' = [cands EXCEPT ![w] = OnPath(path[w]) \intersect warm.covers]
        /\ UNCHANGED answer
     \/ /\ warm.shape = "truncated" /\ pc' = [pc EXCEPT ![w] = "verify"]
        /\ cands' = [cands EXCEPT ![w] = OnPath(path[w]) \intersect warm.covers]
        /\ UNCHANGED answer

LEMMA ReadWarmStep == ASSUME TInv, NEW w \in Workers, ReadWarm(w) PROVE ReadWarmEffect(w)
BY DEF ReadWarmEffect, ReadWarm, Goto, Answer, TInv, TypeOK, Sentinels

FetchEffect(w) ==
  /\ pc[w] = "fetch"
  /\ UNCHANGED <<pg, redis, warm, path, listed, todo, history>>
  /\ \E s \in cands[w] :
       \/ /\ s \in pg /\ arg' = [arg EXCEPT ![w] = s]
          /\ pc' = [pc EXCEPT ![w] = "cache_hit"] /\ UNCHANGED <<cands, answer>>
       \/ /\ s \notin pg /\ cands' = [cands EXCEPT ![w] = cands[w] \ {s}]
          /\ UNCHANGED arg
          /\ \/ /\ cands[w] = {s} /\ pc' = [pc EXCEPT ![w] = "answered"]
                /\ answer' = [answer EXCEPT ![w] = None]
             \/ cands[w] # {s} /\ UNCHANGED <<pc, answer>>

LEMMA FetchStep == ASSUME TInv, NEW w \in Workers, Fetch(w) PROVE FetchEffect(w)
<1> DEFINE s == FirstOf(path[w], cands[w])
<1>1. s \in cands[w]
  BY FirstOfIsOnPath DEF TInv, TypeOK, LocalsOK, Fetch
<1> HIDE DEF s
<1>2. CASE s \in pg
  BY <1>1, <1>2 DEF FetchEffect, Fetch, Goto, s
<1>3. CASE s \notin pg
  BY <1>1, <1>3 DEF FetchEffect, Fetch, Goto, Answer, s
<1>4. QED
  BY <1>2, <1>3

VerifyEffect(w) ==
  /\ pc[w] = "verify"
  /\ UNCHANGED <<pg, redis, warm, path, cands, listed, todo, history>>
  /\ \/ \E s \in cands[w] \intersect pg :
          /\ arg' = [arg EXCEPT ![w] = s]
          /\ pc' = [pc EXCEPT ![w] = "cache_hit"] /\ UNCHANGED answer
     \/ /\ cands[w] \intersect pg = {}
        /\ pc' = [pc EXCEPT ![w] = "answered"] /\ answer' = [answer EXCEPT ![w] = None]
        /\ UNCHANGED arg

LEMMA VerifyStep == ASSUME TInv, NEW w \in Workers, Verify(w) PROVE VerifyEffect(w)
<1>1. CASE cands[w] \intersect pg # {}
  <2> DEFINE s == FirstOf(path[w], cands[w] \intersect pg)
  <2>1. s \in cands[w] \intersect pg
    BY <1>1, FirstOfIsOnPath DEF TInv, TypeOK, LocalsOK, Verify
  <2>2. arg' = [arg EXCEPT ![w] = s] /\ pc' = [pc EXCEPT ![w] = "cache_hit"] /\ UNCHANGED answer
    BY <1>1 DEF Verify, Goto
  <2>3. QED
    BY <2>1, <2>2 DEF Verify, VerifyEffect
<1>2. CASE cands[w] \intersect pg = {}
  BY <1>2 DEF VerifyEffect, Verify, Goto, Answer
<1>3. QED
  BY <1>1, <1>2

\* A backend error ends a lookup, or moves a call on without its effect.
RedisErrorEffect(w) ==
  /\ UNCHANGED <<pg, redis, warm, path, cands, listed, todo, ever, owed, slipped, recached>>
  /\ \/ /\ pc[w] \in {"read_warm", "fill", "recheck"}
        /\ pc' = [pc EXCEPT ![w] = "answered"] /\ answer' = [answer EXCEPT ![w] = Error]
        /\ UNCHANGED <<arg, missed>>
     \/ /\ pc[w] = "cache_hit" /\ pc' = [pc EXCEPT ![w] = "answered"]
        /\ answer' = [answer EXCEPT ![w] = arg[w]] /\ UNCHANGED <<arg, missed>>
     \/ /\ pc[w] = "cache_ban" /\ pc' = [pc EXCEPT ![w] = "clear_ban"]
        /\ UNCHANGED <<arg, answer, missed>>
     \/ /\ pc[w] = "clear_ban" /\ pc' = [pc EXCEPT ![w] = "idle"]
        /\ arg' = [arg EXCEPT ![w] = None] /\ missed' = missed \union {arg[w]}
        /\ UNCHANGED answer
     \/ /\ pc[w] = "clear_revoke" /\ pc' = [pc EXCEPT ![w] = "idle"]
        /\ arg' = [arg EXCEPT ![w] = None] /\ UNCHANGED <<answer, missed>>

LEMMA RedisErrorStep == ASSUME TInv, NEW w \in Workers, RedisError(w) PROVE RedisErrorEffect(w)
BY DEF RedisErrorEffect, RedisError, Raise, Goto, Answer, history

PgErrorEffect(w) ==
  /\ UNCHANGED <<pg, redis, warm, path, cands, listed, todo, history>>
  /\ \/ /\ pc[w] \in {"list", "fetch", "verify"}
        /\ pc' = [pc EXCEPT ![w] = "answered"] /\ answer' = [answer EXCEPT ![w] = Error]
        /\ UNCHANGED arg
     \/ /\ pc[w] = "revoke" /\ pc' = [pc EXCEPT ![w] = "idle"]
        /\ arg' = [arg EXCEPT ![w] = None] /\ UNCHANGED answer

LEMMA PgErrorStep == ASSUME TInv, NEW w \in Workers, PgError(w) PROVE PgErrorEffect(w)
BY DEF PgErrorEffect, PgError, Raise, Goto, Answer

-----------------------------------------------------------------------------
(* Nothing is enforced that was not banned.                                   *)

LEMMA WarmPayloadMembers ==
  ASSUME NEW bans \in SUBSET Scopes
  PROVE  /\ WarmPayload(bans).shape = "members" => WarmPayload(bans).covers = bans
         /\ bans \subseteq ever => WarmPayload(bans).covers \subseteq EverTypes
BY DEF WarmPayload, EverTypes

LEMMA EverTypesGrow ==
  ASSUME ever \subseteq ever' PROVE EverTypes \subseteq EverTypes'
BY DEF EverTypes

\* What is enforced, and what each worker is about to enforce.
PGlobal ==
  /\ pg \subseteq ever /\ warm.covers \subseteq EverTypes
  /\ \A s \in Scopes : redis[s] = "perm" => s \in ever
  /\ warm.shape = "members" => warm.covers \subseteq ever

PLocal(w) ==
  /\ listed[w] \subseteq ever
  /\ pc[w] \in {"cache_ban", "cache_hit"} => arg[w] \in ever
  /\ pc[w] = "fetch" => cands[w] \subseteq ever
  /\ pc[w] = "verify" => cands[w] \subseteq EverTypes

PInv == PGlobal /\ \A w \in Workers : PLocal(w)

LEMMA PInvInit == Init => PInv
BY DEF Init, PInv, PGlobal, PLocal, Cold

LEMMA PInvStep == TInv /\ PInv /\ [Next]_vars => PInv'
<1> SUFFICES ASSUME TInv, PInv, [Next]_vars PROVE PInv'
  OBVIOUS
<1>0. EverTypes \subseteq EverTypes'
  <2>1. ever \subseteq ever'
    BY ZenonT(30) DEF Next, Begin, Continue, Fault, vars, history, BlockTemp, BlockPermanent, Unblock,
           Lookup, CacheBan, ClearAfterBan, Revoke, ClearAfterRevoke, ReadWarm, Fetch, Verify,
           CacheHit, ListBans, CacheListed, MarkWarm, Recheck, Return, RedisError, PgError,
           Raise, Crash, DropKey, DropWarm, Flush
  <2>2. QED
    BY <2>1, EverTypesGrow
<1> USE DEF TInv, TypeOK, LocalsOK, PInv, PGlobal, PLocal, Goto, Answer, locals, history
<1>1. ASSUME NEW w \in Workers, NEW s \in Scopes, BlockTemp(w, s) PROVE PInv'
  BY <1>1, <1>0 DEF BlockTemp
<1>2. ASSUME NEW w \in Workers, NEW s \in Scopes, BlockPermanent(w, s) PROVE PInv'
  BY <1>2, <1>0 DEF BlockPermanent
<1>3. ASSUME NEW w \in Workers, CacheBan(w) PROVE PInv'
  BY <1>3, <1>0 DEF CacheBan
<1>4. ASSUME NEW w \in Workers, ClearAfterBan(w) PROVE PInv'
  BY <1>4, <1>0 DEF ClearAfterBan, Cold
<1>5. ASSUME NEW w \in Workers, NEW s \in Scopes, Unblock(w, s) PROVE PInv'
  BY <1>5, <1>0 DEF Unblock
<1>6. ASSUME NEW w \in Workers, Revoke(w) PROVE PInv'
  BY <1>6, <1>0 DEF Revoke
<1>7. ASSUME NEW w \in Workers, ClearAfterRevoke(w) PROVE PInv'
  BY <1>7, <1>0 DEF ClearAfterRevoke, Cold
<1>8. ASSUME NEW w \in Workers, NEW p \in Paths, Lookup(w, p) PROVE PInv'
  <2>0. LookupEffect(w, p)
    BY <1>8, LookupStep
  <2>1. PGlobal'
    BY <2>0, <1>0 DEF LookupEffect
  <2>2. ASSUME NEW v \in Workers, v # w PROVE PLocal(v)'
    BY <2>0, <1>0, <2>2 DEF LookupEffect
  <2>3. PLocal(w)'
    BY <2>0, <1>0 DEF LookupEffect
  <2>4. QED
    BY <2>1, <2>2, <2>3
<1>9. ASSUME NEW w \in Workers, ReadWarm(w) PROVE PInv'
  <2>0. ReadWarmEffect(w)
    BY <1>9, ReadWarmStep
  <2>1. PGlobal'
    BY <2>0, <1>0 DEF ReadWarmEffect
  <2>2. ASSUME NEW v \in Workers, v # w PROVE PLocal(v)'
    BY <2>0, <1>0, <2>2 DEF ReadWarmEffect
  <2>3. PLocal(w)'
    BY <2>0, <1>0 DEF ReadWarmEffect
  <2>4. QED
    BY <2>1, <2>2, <2>3
<1>10. ASSUME NEW w \in Workers, Fetch(w) PROVE PInv'
  <2>0. FetchEffect(w)
    BY <1>10, FetchStep
  <2>1. PGlobal'
    BY <2>0, <1>0 DEF FetchEffect
  <2>2. ASSUME NEW v \in Workers, v # w PROVE PLocal(v)'
    BY <2>0, <1>0, <2>2 DEF FetchEffect
  <2>3. PLocal(w)'
    BY <2>0, <1>0 DEF FetchEffect
  <2>4. QED
    BY <2>1, <2>2, <2>3
<1>11. ASSUME NEW w \in Workers, Verify(w) PROVE PInv'
  <2>0. VerifyEffect(w)
    BY <1>11, VerifyStep
  <2>1. PGlobal'
    BY <2>0, <1>0 DEF VerifyEffect
  <2>2. ASSUME NEW v \in Workers, v # w PROVE PLocal(v)'
    BY <2>0, <1>0, <2>2 DEF VerifyEffect
  <2>3. PLocal(w)'
    BY <2>0, <1>0 DEF VerifyEffect
  <2>4. QED
    BY <2>1, <2>2, <2>3
<1>12. ASSUME NEW w \in Workers, CacheHit(w) PROVE PInv'
  BY <1>12, <1>0 DEF CacheHit
<1>13. ASSUME NEW w \in Workers, ListBans(w) PROVE PInv'
  BY <1>13, <1>0 DEF ListBans
<1>14. ASSUME NEW w \in Workers, NEW s \in Scopes, CacheListed(w, s) PROVE PInv'
  BY <1>14, <1>0 DEF CacheListed
<1>15. ASSUME NEW w \in Workers, MarkWarm(w) PROVE PInv'
  <2>1. listed[w] \in SUBSET Scopes /\ listed[w] \subseteq ever
    OBVIOUS
  <2>2. PGlobal'
    BY <1>15, <1>0, <2>1, WarmPayloadMembers DEF MarkWarm
  <2>3. \A v \in Workers : PLocal(v)'
    BY <1>15, <1>0, <2>1 DEF MarkWarm
  <2>4. QED
    BY <2>2, <2>3
<1>16. ASSUME NEW w \in Workers, Recheck(w) PROVE PInv'
  BY <1>16, <1>0 DEF Recheck
<1>17. ASSUME NEW w \in Workers, Return(w) PROVE PInv'
  BY <1>17, <1>0 DEF Return, Forget
<1>18. ASSUME NEW w \in Workers, RedisError(w) PROVE PInv'
  <2>0. RedisErrorEffect(w)
    BY <1>18, RedisErrorStep
  <2>1. PGlobal'
    BY <2>0, <1>0 DEF RedisErrorEffect
  <2>2. ASSUME NEW v \in Workers, v # w PROVE PLocal(v)'
    BY <2>0, <1>0, <2>2 DEF RedisErrorEffect
  <2>3. PLocal(w)'
    BY <2>0, <1>0 DEF RedisErrorEffect
  <2>4. QED
    BY <2>1, <2>2, <2>3
<1>19. ASSUME NEW w \in Workers, PgError(w) PROVE PInv'
  <2>0. PgErrorEffect(w)
    BY <1>19, PgErrorStep
  <2>1. PGlobal'
    BY <2>0, <1>0 DEF PgErrorEffect
  <2>2. ASSUME NEW v \in Workers, v # w PROVE PLocal(v)'
    BY <2>0, <1>0, <2>2 DEF PgErrorEffect
  <2>3. PLocal(w)'
    BY <2>0, <1>0 DEF PgErrorEffect
  <2>4. QED
    BY <2>1, <2>2, <2>3
<1>20. ASSUME NEW w \in Workers, Crash(w) PROVE PInv'
  BY <1>20, <1>0 DEF Crash, Forget
<1>21. ASSUME NEW s \in Scopes, DropKey(s) PROVE PInv'
  BY <1>21, <1>0 DEF DropKey, Slip
<1>22. CASE DropWarm
  BY <1>22, <1>0 DEF DropWarm, Cold
<1>23. CASE Flush
  BY <1>23, <1>0 DEF Flush, Slip, Cold
<1>24. CASE UNCHANGED vars
  BY <1>24, <1>0 DEF vars
<1>25. QED
  BY <1>1, <1>2, <1>3, <1>4, <1>5, <1>6, <1>7, <1>8, <1>9, <1>10, <1>11, <1>12, <1>13, <1>14, <1>15, <1>16, <1>17, <1>18, <1>19, <1>20, <1>21, <1>22, <1>23, <1>24 DEF Next, Begin, Continue, Fault

\* Redis, the sentinel and the Postgres re-verification enforce permanent blocks
\* only on scopes that were permanently banned, whatever races or fails.
THEOREM NothingInventedHolds == Spec => []NothingInvented
<1>1. PInv => NothingInvented
  BY DEF PInv, PGlobal, PLocal, NothingInvented
<1>2. QED
  BY <1>1, TInvInit, TInvStep, PInvInit, PInvStep, PTL DEF Spec

-----------------------------------------------------------------------------
(* Revoked bans.                                                              *)

RInv == HeldIsRecached /\ StaleOnlyIfRecached

LEMMA RInvInit == Init => RInv
BY DEF Init, RInv, HeldIsRecached, StaleOnlyIfRecached

LEMMA RInvStep == TInv /\ RInv /\ [Next]_vars => RInv'
<1> SUFFICES ASSUME TInv, RInv, [Next]_vars PROVE RInv'
  OBVIOUS
<1> USE DEF TInv, TypeOK, LocalsOK, RInv, HeldIsRecached, StaleOnlyIfRecached,
            Goto, Answer, locals, history
<1>1. ASSUME NEW w \in Workers, NEW s \in Scopes, BlockTemp(w, s) PROVE RInv'
  BY <1>1 DEF BlockTemp
<1>2. ASSUME NEW w \in Workers, NEW s \in Scopes, BlockPermanent(w, s) PROVE RInv'
  BY <1>2 DEF BlockPermanent
<1>3. ASSUME NEW w \in Workers, CacheBan(w) PROVE RInv'
  BY <1>3 DEF CacheBan
<1>4. ASSUME NEW w \in Workers, ClearAfterBan(w) PROVE RInv'
  BY <1>4 DEF ClearAfterBan
<1>5. ASSUME NEW w \in Workers, NEW s \in Scopes, Unblock(w, s) PROVE RInv'
  BY <1>5 DEF Unblock
<1>6. ASSUME NEW w \in Workers, Revoke(w) PROVE RInv'
  BY <1>6 DEF Revoke, Holding
<1>7. ASSUME NEW w \in Workers, ClearAfterRevoke(w) PROVE RInv'
  BY <1>7 DEF ClearAfterRevoke
<1>8. ASSUME NEW w \in Workers, NEW p \in Paths, Lookup(w, p) PROVE RInv'
  BY <1>8 DEF Lookup
<1>9. ASSUME NEW w \in Workers, ReadWarm(w) PROVE RInv'
  BY <1>9 DEF ReadWarm
<1>10. ASSUME NEW w \in Workers, Fetch(w) PROVE RInv'
  BY <1>10 DEF Fetch
<1>11. ASSUME NEW w \in Workers, Verify(w) PROVE RInv'
  <2>1. VerifyEffect(w)
    BY <1>11, VerifyStep
  <2>2. QED
    BY <2>1 DEF VerifyEffect
<1>12. ASSUME NEW w \in Workers, CacheHit(w) PROVE RInv'
  BY <1>12 DEF CacheHit
<1>13. ASSUME NEW w \in Workers, ListBans(w) PROVE RInv'
  BY <1>13 DEF ListBans
<1>14. ASSUME NEW w \in Workers, NEW s \in Scopes, CacheListed(w, s) PROVE RInv'
  BY <1>14 DEF CacheListed
<1>15. ASSUME NEW w \in Workers, MarkWarm(w) PROVE RInv'
  BY <1>15 DEF MarkWarm
<1>16. ASSUME NEW w \in Workers, Recheck(w) PROVE RInv'
  BY <1>16 DEF Recheck
<1>17. ASSUME NEW w \in Workers, Return(w) PROVE RInv'
  BY <1>17 DEF Return, Forget
<1>18. ASSUME NEW w \in Workers, RedisError(w) PROVE RInv'
  BY <1>18 DEF RedisError, Raise
<1>19. ASSUME NEW w \in Workers, PgError(w) PROVE RInv'
  BY <1>19 DEF PgError, Raise
<1>20. ASSUME NEW w \in Workers, Crash(w) PROVE RInv'
  BY <1>20 DEF Crash, Forget
<1>21. ASSUME NEW s \in Scopes, DropKey(s) PROVE RInv'
  BY <1>21 DEF DropKey, Slip
<1>22. CASE DropWarm
  BY <1>22 DEF DropWarm
<1>23. CASE Flush
  BY <1>23 DEF Flush, Slip
<1>24. CASE UNCHANGED vars
  BY <1>24 DEF vars
<1>25. QED
  BY <1>1, <1>2, <1>3, <1>4, <1>5, <1>6, <1>7, <1>8, <1>9, <1>10, <1>11, <1>12, <1>13, <1>14, <1>15, <1>16, <1>17, <1>18, <1>19, <1>20, <1>21, <1>22, <1>23, <1>24 DEF Next, Begin, Continue, Fault

\* Redis enforces a revoked ban only if a write-through of it overlapped the
\* revocation; with no such overlap unblock() clears both tiers.
THEOREM StaleOnlyIfRecachedHolds == Spec => []StaleOnlyIfRecached
<1>1. RInv => StaleOnlyIfRecached
  BY DEF RInv
<1>2. QED
  BY <1>1, TInvInit, TInvStep, RInvInit, RInvStep, PTL DEF Spec

-----------------------------------------------------------------------------
(* Bans in force are not overlooked.                                          *)

LEMMA IInvInit == Init => IInv
BY TInvInit DEF Init, IInv, TInv, OwedInForce, LackingIsMissed, OwedIsMissed, OwedIsAhead,
                Ahead, SentinelLacks, ListingLacks, FoundNothing, Cold

\* What a lookup owes stays in force.
LEMMA OwedInForceStep == TInv /\ OwedInForce /\ [Next]_vars => OwedInForce'
<1> SUFFICES ASSUME TInv, OwedInForce, [Next]_vars PROVE OwedInForce'
  OBVIOUS
<1> USE DEF TInv, TypeOK, OwedInForce, Goto, Answer, locals, history
<1>1. ASSUME NEW w \in Workers, NEW s \in Scopes, BlockTemp(w, s) PROVE OwedInForce'
  BY <1>1 DEF BlockTemp
<1>2. ASSUME NEW w \in Workers, NEW s \in Scopes, BlockPermanent(w, s) PROVE OwedInForce'
  BY <1>2 DEF BlockPermanent
<1>3. ASSUME NEW w \in Workers, CacheBan(w) PROVE OwedInForce'
  BY <1>3 DEF CacheBan
<1>4. ASSUME NEW w \in Workers, ClearAfterBan(w) PROVE OwedInForce'
  BY <1>4 DEF ClearAfterBan
<1>5. ASSUME NEW w \in Workers, NEW s \in Scopes, Unblock(w, s) PROVE OwedInForce'
  BY <1>5 DEF Unblock
<1>6. ASSUME NEW w \in Workers, Revoke(w) PROVE OwedInForce'
  BY <1>6 DEF Revoke
<1>7. ASSUME NEW w \in Workers, ClearAfterRevoke(w) PROVE OwedInForce'
  BY <1>7 DEF ClearAfterRevoke
<1>8. ASSUME NEW w \in Workers, NEW p \in Paths, Lookup(w, p) PROVE OwedInForce'
  <2>1. LookupEffect(w, p)
    BY <1>8, LookupStep
  <2>2. \A s \in owed'[w] : s \in pg /\ s \in OnPath(p) /\ ~Revoking(s)
    BY <2>1 DEF LookupEffect, InForce
  <2>3. \A u \in Workers : pc'[u] = "revoke" => pc[u] = "revoke"
    BY <2>1 DEF LookupEffect
  <2>4. \A v \in Workers : v # w => owed'[v] = owed[v] /\ path'[v] = path[v] /\ pc'[v] = pc[v]
    BY <2>1 DEF LookupEffect
  <2>5. path'[w] = p /\ pc'[w] \in {"read_warm", "answered"} /\ UNCHANGED <<pg, arg>>
    BY <2>1 DEF LookupEffect
  <2>6. QED
    BY <2>2, <2>3, <2>4, <2>5 DEF Revoking
<1>9. ASSUME NEW w \in Workers, ReadWarm(w) PROVE OwedInForce'
  <2>1. ReadWarmEffect(w)
    BY <1>9, ReadWarmStep
  <2>2. QED
    BY <2>1, ZenonT(30) DEF ReadWarmEffect
<1>10. ASSUME NEW w \in Workers, Fetch(w) PROVE OwedInForce'
  <2>1. FetchEffect(w)
    BY <1>10, FetchStep
  <2>2. QED
    BY <2>1, ZenonT(30) DEF FetchEffect
<1>11. ASSUME NEW w \in Workers, Verify(w) PROVE OwedInForce'
  <2>1. VerifyEffect(w)
    BY <1>11, VerifyStep
  <2>2. QED
    BY <2>1, ZenonT(30) DEF VerifyEffect
<1>12. ASSUME NEW w \in Workers, CacheHit(w) PROVE OwedInForce'
  BY <1>12 DEF CacheHit
<1>13. ASSUME NEW w \in Workers, ListBans(w) PROVE OwedInForce'
  BY <1>13 DEF ListBans
<1>14. ASSUME NEW w \in Workers, NEW s \in Scopes, CacheListed(w, s) PROVE OwedInForce'
  BY <1>14 DEF CacheListed
<1>15. ASSUME NEW w \in Workers, MarkWarm(w) PROVE OwedInForce'
  BY <1>15 DEF MarkWarm
<1>16. ASSUME NEW w \in Workers, Recheck(w) PROVE OwedInForce'
  BY <1>16 DEF Recheck
<1>17. ASSUME NEW w \in Workers, Return(w) PROVE OwedInForce'
  BY <1>17 DEF Return, Forget
<1>18. ASSUME NEW w \in Workers, RedisError(w) PROVE OwedInForce'
  <2>1. RedisErrorEffect(w)
    BY <1>18, RedisErrorStep
  <2>2. QED
    BY <2>1 DEF RedisErrorEffect
<1>19. ASSUME NEW w \in Workers, PgError(w) PROVE OwedInForce'
  <2>1. PgErrorEffect(w)
    BY <1>19, PgErrorStep
  <2>2. QED
    BY <2>1 DEF PgErrorEffect
<1>20. ASSUME NEW w \in Workers, Crash(w) PROVE OwedInForce'
  BY <1>20 DEF Crash, Forget
<1>21. ASSUME NEW s \in Scopes, DropKey(s) PROVE OwedInForce'
  BY <1>21 DEF DropKey, Slip
<1>22. CASE DropWarm
  BY <1>22 DEF DropWarm
<1>23. CASE Flush
  BY <1>23 DEF Flush, Slip
<1>24. CASE UNCHANGED vars
  BY <1>24 DEF vars
<1>25. QED
  BY <1>1, <1>2, <1>3, <1>4, <1>5, <1>6, <1>7, <1>8, <1>9, <1>10, <1>11, <1>12, <1>13, <1>14, <1>15, <1>16, <1>17, <1>18, <1>19, <1>20, <1>21, <1>22, <1>23, <1>24 DEF Next, Begin, Continue, Fault

\* A ban that the sentinel or a listing lacks is being announced, or missed.
LEMMA LackingIsMissedStep == TInv /\ LackingIsMissed /\ [Next]_vars => LackingIsMissed'
<1> SUFFICES ASSUME TInv, LackingIsMissed, [Next]_vars PROVE LackingIsMissed'
  OBVIOUS
<1> USE DEF TInv, TypeOK, LocalsOK, LackingIsMissed, SentinelLacks,
            Goto, Answer, locals, history
<1>1. ASSUME NEW w \in Workers, NEW s \in Scopes, BlockTemp(w, s) PROVE LackingIsMissed'
  BY <1>1 DEF BlockTemp, ListingLacks, Banning
<1>2. ASSUME NEW w \in Workers, NEW s \in Scopes, BlockPermanent(w, s) PROVE LackingIsMissed'
  BY <1>2 DEF BlockPermanent, ListingLacks, Banning
<1>3. ASSUME NEW w \in Workers, CacheBan(w) PROVE LackingIsMissed'
  BY <1>3 DEF CacheBan, ListingLacks, Banning
<1>4. ASSUME NEW w \in Workers, ClearAfterBan(w) PROVE LackingIsMissed'
  BY <1>4 DEF ClearAfterBan, Cold, ListingLacks, Banning
<1>5. ASSUME NEW w \in Workers, NEW s \in Scopes, Unblock(w, s) PROVE LackingIsMissed'
  BY <1>5 DEF Unblock, ListingLacks, Banning
<1>6. ASSUME NEW w \in Workers, Revoke(w) PROVE LackingIsMissed'
  BY <1>6 DEF Revoke, ListingLacks, Banning
<1>7. ASSUME NEW w \in Workers, ClearAfterRevoke(w) PROVE LackingIsMissed'
  BY <1>7 DEF ClearAfterRevoke, Cold, ListingLacks, Banning
<1>8. ASSUME NEW w \in Workers, NEW p \in Paths, Lookup(w, p) PROVE LackingIsMissed'
  <2>1. LookupEffect(w, p)
    BY <1>8, LookupStep
  <2>2. \A s : Banning(s) => Banning(s)'
    BY <2>1 DEF LookupEffect, Banning
  <2>3. \A v \in Workers : \A s : ListingLacks(v, s)' => ListingLacks(v, s)
    BY <2>1 DEF LookupEffect, ListingLacks
  <2>4. UNCHANGED <<pg, warm, missed>>
    BY <2>1 DEF LookupEffect
  <2>5. QED
    BY <2>2, <2>3, <2>4
<1>9. ASSUME NEW w \in Workers, ReadWarm(w) PROVE LackingIsMissed'
  <2>1. ReadWarmEffect(w)
    BY <1>9, ReadWarmStep
  <2>2. \A s : Banning(s) => Banning(s)'
    BY <2>1 DEF ReadWarmEffect, Banning
  <2>3. \A v \in Workers : \A s : ListingLacks(v, s)' => ListingLacks(v, s)
    BY <2>1 DEF ReadWarmEffect, ListingLacks
  <2>4. UNCHANGED <<pg, warm, missed>>
    BY <2>1 DEF ReadWarmEffect
  <2>5. QED
    BY <2>2, <2>3, <2>4
<1>10. ASSUME NEW w \in Workers, Fetch(w) PROVE LackingIsMissed'
  <2>1. FetchEffect(w)
    BY <1>10, FetchStep
  <2>2. \A s : Banning(s) => Banning(s)'
    <3>1. \A u \in Workers : pc[u] \in {"cache_ban", "clear_ban"}
             => pc'[u] = pc[u] /\ arg'[u] = arg[u]
      BY <2>1 DEF FetchEffect
    <3>2. QED
      BY <3>1 DEF Banning
  <2>3. \A v \in Workers : \A s : ListingLacks(v, s)' => ListingLacks(v, s)
    BY <2>1 DEF FetchEffect, ListingLacks
  <2>4. UNCHANGED <<pg, warm, missed>>
    BY <2>1 DEF FetchEffect
  <2>5. QED
    BY <2>2, <2>3, <2>4
<1>11. ASSUME NEW w \in Workers, Verify(w) PROVE LackingIsMissed'
  <2>1. VerifyEffect(w)
    BY <1>11, VerifyStep
  <2>2. \A s : Banning(s) => Banning(s)'
    <3>1. \A u \in Workers : pc[u] \in {"cache_ban", "clear_ban"}
             => pc'[u] = pc[u] /\ arg'[u] = arg[u]
      BY <2>1 DEF VerifyEffect
    <3>2. QED
      BY <3>1 DEF Banning
  <2>3. \A v \in Workers : \A s : ListingLacks(v, s)' => ListingLacks(v, s)
    BY <2>1 DEF VerifyEffect, ListingLacks
  <2>4. UNCHANGED <<pg, warm, missed>>
    BY <2>1 DEF VerifyEffect
  <2>5. QED
    BY <2>2, <2>3, <2>4
<1>12. ASSUME NEW w \in Workers, CacheHit(w) PROVE LackingIsMissed'
  BY <1>12, ZenonT(30) DEF CacheHit, ListingLacks, Banning
<1>13. ASSUME NEW w \in Workers, ListBans(w) PROVE LackingIsMissed'
  BY <1>13, ZenonT(30) DEF ListBans, ListingLacks, Banning
<1>14. ASSUME NEW w \in Workers, NEW s \in Scopes, CacheListed(w, s) PROVE LackingIsMissed'
  BY <1>14 DEF CacheListed, ListingLacks, Banning
<1>15. ASSUME NEW w \in Workers, MarkWarm(w) PROVE LackingIsMissed'
  BY <1>15, WarmPayloadType, ZenonT(30) DEF MarkWarm, ListingLacks, Banning
<1>16. ASSUME NEW w \in Workers, Recheck(w) PROVE LackingIsMissed'
  BY <1>16, ZenonT(30) DEF Recheck, ListingLacks, Banning
<1>17. ASSUME NEW w \in Workers, Return(w) PROVE LackingIsMissed'
  BY <1>17 DEF Return, Forget, ListingLacks, Banning
<1>18. ASSUME NEW w \in Workers, RedisError(w) PROVE LackingIsMissed'
  <2>1. RedisErrorEffect(w)
    BY <1>18, RedisErrorStep
  <2>2. \A s : Banning(s) => Banning(s)' \/ s \in missed'
    BY <2>1 DEF RedisErrorEffect, Banning
  <2>3. \A v \in Workers : \A s : ListingLacks(v, s)' => ListingLacks(v, s)
    BY <2>1 DEF RedisErrorEffect, ListingLacks
  <2>4. UNCHANGED <<pg, warm>> /\ missed \subseteq missed'
    BY <2>1 DEF RedisErrorEffect
  <2>5. QED
    BY <2>2, <2>3, <2>4
<1>19. ASSUME NEW w \in Workers, PgError(w) PROVE LackingIsMissed'
  <2>1. PgErrorEffect(w)
    BY <1>19, PgErrorStep
  <2>2. \A s : Banning(s) => Banning(s)'
    BY <2>1 DEF PgErrorEffect, Banning
  <2>3. \A v \in Workers : \A s : ListingLacks(v, s)' => ListingLacks(v, s)
    BY <2>1 DEF PgErrorEffect, ListingLacks
  <2>4. UNCHANGED <<pg, warm, missed>>
    BY <2>1 DEF PgErrorEffect
  <2>5. QED
    BY <2>2, <2>3, <2>4
<1>20. ASSUME NEW w \in Workers, Crash(w) PROVE LackingIsMissed'
  BY <1>20 DEF Crash, Forget, ListingLacks, Banning
<1>21. ASSUME NEW s \in Scopes, DropKey(s) PROVE LackingIsMissed'
  BY <1>21 DEF DropKey, Slip, ListingLacks, Banning
<1>22. CASE DropWarm
  BY <1>22 DEF DropWarm, Cold, ListingLacks, Banning
<1>23. CASE Flush
  BY <1>23 DEF Flush, Slip, Cold, ListingLacks, Banning
<1>24. CASE UNCHANGED vars
  BY <1>24 DEF vars, ListingLacks, Banning
<1>25. QED
  BY <1>1, <1>2, <1>3, <1>4, <1>5, <1>6, <1>7, <1>8, <1>9, <1>10, <1>11, <1>12, <1>13, <1>14, <1>15, <1>16, <1>17, <1>18, <1>19, <1>20, <1>21, <1>22, <1>23, <1>24 DEF Next, Begin, Continue, Fault

\* If a lookup owes the ban, it is missed.
LEMMA OwedIsMissedStep ==
  TInv /\ OwedInForce /\ LackingIsMissed /\ OwedIsMissed /\ [Next]_vars => OwedIsMissed'
<1> SUFFICES ASSUME TInv, OwedInForce, LackingIsMissed, OwedIsMissed, [Next]_vars
             PROVE  OwedIsMissed'
  OBVIOUS
<1> USE DEF TInv, TypeOK, LocalsOK, OwedIsMissed, SentinelLacks, Goto, Answer, locals, history
<1>1. ASSUME NEW w \in Workers, NEW s \in Scopes, BlockTemp(w, s) PROVE OwedIsMissed'
  BY <1>1 DEF BlockTemp, ListingLacks
<1>2. ASSUME NEW w \in Workers, NEW s \in Scopes, BlockPermanent(w, s) PROVE OwedIsMissed'
  BY <1>2 DEF BlockPermanent, ListingLacks
<1>3. ASSUME NEW w \in Workers, CacheBan(w) PROVE OwedIsMissed'
  BY <1>3 DEF CacheBan, ListingLacks
<1>4. ASSUME NEW w \in Workers, ClearAfterBan(w) PROVE OwedIsMissed'
  BY <1>4 DEF ClearAfterBan, Cold, ListingLacks
<1>5. ASSUME NEW w \in Workers, NEW s \in Scopes, Unblock(w, s) PROVE OwedIsMissed'
  BY <1>5 DEF Unblock, ListingLacks
<1>6. ASSUME NEW w \in Workers, Revoke(w) PROVE OwedIsMissed'
  BY <1>6 DEF Revoke, OwedInForce, ListingLacks
<1>7. ASSUME NEW w \in Workers, ClearAfterRevoke(w) PROVE OwedIsMissed'
  BY <1>7 DEF ClearAfterRevoke, Cold, ListingLacks
<1>8. ASSUME NEW w \in Workers, NEW p \in Paths, Lookup(w, p) PROVE OwedIsMissed'
  <2>1. LookupEffect(w, p)
    BY <1>8, LookupStep
  <2>2. \A v \in Workers : \A s : ListingLacks(v, s)' => ListingLacks(v, s)
    BY <2>1 DEF LookupEffect, ListingLacks
  <2>3. UNCHANGED <<warm, missed>>
    BY <2>1 DEF LookupEffect
  <2>4. ASSUME NEW s \in owed'[w]
        PROVE  /\ SentinelLacks(s) => s \in missed
               /\ \A v \in Workers : ListingLacks(v, s) => s \in missed
    <3>1. InForce(s)
      BY <2>1, <2>4 DEF LookupEffect
    <3>2. QED
      BY <3>1 DEF InForce, LackingIsMissed, SentinelLacks
  <2>5. \A v \in Workers : v # w => owed'[v] = owed[v]
    BY <2>1 DEF LookupEffect
  <2>6. QED
    BY <2>2, <2>3, <2>4, <2>5
<1>9. ASSUME NEW w \in Workers, ReadWarm(w) PROVE OwedIsMissed'
  <2>1. ReadWarmEffect(w)
    BY <1>9, ReadWarmStep
  <2>2. \A v \in Workers : \A s : ListingLacks(v, s)' => ListingLacks(v, s)
    BY <2>1 DEF ReadWarmEffect, ListingLacks
  <2>3. UNCHANGED <<warm, owed>> /\ missed \subseteq missed'
    BY <2>1 DEF ReadWarmEffect
  <2>4. QED
    BY <2>2, <2>3
<1>10. ASSUME NEW w \in Workers, Fetch(w) PROVE OwedIsMissed'
  <2>1. FetchEffect(w)
    BY <1>10, FetchStep
  <2>2. \A v \in Workers : \A s : ListingLacks(v, s)' => ListingLacks(v, s)
    BY <2>1 DEF FetchEffect, ListingLacks
  <2>3. UNCHANGED <<warm, owed>> /\ missed \subseteq missed'
    BY <2>1 DEF FetchEffect
  <2>4. QED
    BY <2>2, <2>3
<1>11. ASSUME NEW w \in Workers, Verify(w) PROVE OwedIsMissed'
  <2>1. VerifyEffect(w)
    BY <1>11, VerifyStep
  <2>2. \A v \in Workers : \A s : ListingLacks(v, s)' => ListingLacks(v, s)
    BY <2>1 DEF VerifyEffect, ListingLacks
  <2>3. UNCHANGED <<warm, owed>> /\ missed \subseteq missed'
    BY <2>1 DEF VerifyEffect
  <2>4. QED
    BY <2>2, <2>3
<1>12. ASSUME NEW w \in Workers, CacheHit(w) PROVE OwedIsMissed'
  BY <1>12 DEF CacheHit, ListingLacks
<1>13. ASSUME NEW w \in Workers, ListBans(w) PROVE OwedIsMissed'
  BY <1>13 DEF ListBans, OwedInForce, ListingLacks
<1>14. ASSUME NEW w \in Workers, NEW s \in Scopes, CacheListed(w, s) PROVE OwedIsMissed'
  BY <1>14 DEF CacheListed, ListingLacks
<1>15. ASSUME NEW w \in Workers, MarkWarm(w) PROVE OwedIsMissed'
  BY <1>15, WarmPayloadType DEF MarkWarm, ListingLacks
<1>16. ASSUME NEW w \in Workers, Recheck(w) PROVE OwedIsMissed'
  BY <1>16 DEF Recheck, ListingLacks
<1>17. ASSUME NEW w \in Workers, Return(w) PROVE OwedIsMissed'
  BY <1>17 DEF Return, Forget, ListingLacks
<1>18. ASSUME NEW w \in Workers, RedisError(w) PROVE OwedIsMissed'
  <2>1. RedisErrorEffect(w)
    BY <1>18, RedisErrorStep
  <2>2. \A v \in Workers : \A s : ListingLacks(v, s)' => ListingLacks(v, s)
    BY <2>1 DEF RedisErrorEffect, ListingLacks
  <2>3. UNCHANGED <<warm, owed>> /\ missed \subseteq missed'
    BY <2>1 DEF RedisErrorEffect
  <2>4. QED
    BY <2>2, <2>3
<1>19. ASSUME NEW w \in Workers, PgError(w) PROVE OwedIsMissed'
  <2>1. PgErrorEffect(w)
    BY <1>19, PgErrorStep
  <2>2. \A v \in Workers : \A s : ListingLacks(v, s)' => ListingLacks(v, s)
    BY <2>1 DEF PgErrorEffect, ListingLacks
  <2>3. UNCHANGED <<warm, owed>> /\ missed \subseteq missed'
    BY <2>1 DEF PgErrorEffect
  <2>4. QED
    BY <2>2, <2>3
<1>20. ASSUME NEW w \in Workers, Crash(w) PROVE OwedIsMissed'
  BY <1>20 DEF Crash, Forget, ListingLacks
<1>21. ASSUME NEW s \in Scopes, DropKey(s) PROVE OwedIsMissed'
  BY <1>21 DEF DropKey, Slip, ListingLacks
<1>22. CASE DropWarm
  BY <1>22 DEF DropWarm, Cold, ListingLacks
<1>23. CASE Flush
  BY <1>23 DEF Flush, Slip, Cold, ListingLacks
<1>24. CASE UNCHANGED vars
  BY <1>24 DEF vars, ListingLacks
<1>25. QED
  BY <1>1, <1>2, <1>3, <1>4, <1>5, <1>6, <1>7, <1>8, <1>9, <1>10, <1>11, <1>12, <1>13, <1>14, <1>15, <1>16, <1>17, <1>18, <1>19, <1>20, <1>21, <1>22, <1>23, <1>24 DEF Next, Begin, Continue, Fault

\* A step that leaves v's call alone, loses no cached key unnoticed and forgives
\* no missed ban leaves what v owes ahead of it.
LEMMA AheadFrame ==
  ASSUME NEW v, Ahead(v),
         UNCHANGED <<pc[v], owed[v], cands[v], todo[v], slipped[v], answer[v]>>,
         missed \subseteq missed', Cached \subseteq Cached'
  PROVE  Ahead(v)'
BY DEF Ahead, FoundNothing

\* What a lookup owes is still ahead of it.
LEMMA OwedIsAheadStep == IInv /\ [Next]_vars => OwedIsAhead'
<1> SUFFICES ASSUME IInv, [Next]_vars PROVE OwedIsAhead'
  OBVIOUS
<1> USE DEF IInv, TInv, TypeOK, LocalsOK, Ahead, FoundNothing, Cached,
            Goto, Answer, locals, history
<1>1. ASSUME NEW w \in Workers, NEW s \in Scopes, BlockTemp(w, s) PROVE OwedIsAhead'
  BY <1>1 DEF BlockTemp, OwedIsAhead
<1>2. ASSUME NEW w \in Workers, NEW s \in Scopes, BlockPermanent(w, s) PROVE OwedIsAhead'
  BY <1>2 DEF BlockPermanent, OwedIsAhead
<1>3. ASSUME NEW w \in Workers, CacheBan(w) PROVE OwedIsAhead'
  BY <1>3 DEF CacheBan, OwedIsAhead
<1>4. ASSUME NEW w \in Workers, ClearAfterBan(w) PROVE OwedIsAhead'
  BY <1>4 DEF ClearAfterBan, OwedIsAhead
<1>5. ASSUME NEW w \in Workers, NEW s \in Scopes, Unblock(w, s) PROVE OwedIsAhead'
  BY <1>5 DEF Unblock, OwedIsAhead
<1>6. ASSUME NEW w \in Workers, Revoke(w) PROVE OwedIsAhead'
  BY <1>6 DEF Revoke, OwedInForce, OwedIsAhead
<1>7. ASSUME NEW w \in Workers, ClearAfterRevoke(w) PROVE OwedIsAhead'
  BY <1>7 DEF ClearAfterRevoke, OwedIsAhead
<1>8. ASSUME NEW w \in Workers, NEW p \in Paths, Lookup(w, p) PROVE OwedIsAhead'
  <2>1. LookupEffect(w, p)
    BY <1>8, LookupStep
  <2>2. pc'[w] = "answered" /\ answer'[w] = None => owed'[w] = {}
    <3>1. CASE OnPath(p) \intersect Cached # {}
      <4>1. FirstOf(p, Cached) \in Scopes
        BY <3>1, PathsAssumption, OnPathType, FirstOfIsOnPath
      <4>2. answer' = [answer EXCEPT ![w] = FirstOf(p, Cached)]
        BY <1>8, <3>1 DEF Lookup
      <4>3. QED
        BY <4>1, <4>2, AnswerAssumption
    <3>2. CASE OnPath(p) = {}
      BY <2>1, <3>2 DEF LookupEffect
    <3>3. CASE OnPath(p) # {} /\ OnPath(p) \intersect Cached = {}
      BY <1>8, <3>3 DEF Lookup
    <3>4. QED
      BY <3>1, <3>2, <3>3
  <2>3. ASSUME NEW v \in Workers, v # w PROVE Ahead(v)'
    <3>1. UNCHANGED answer \/ \E a : answer' = [answer EXCEPT ![w] = a]
      BY <1>8 DEF Lookup, OwedIsAhead
    <3>2. answer'[v] = answer[v]
      BY <2>3, <3>1
    <3>3. UNCHANGED <<pc[v], owed[v], cands[v], todo[v], slipped[v], redis, missed>>
      BY <2>1, <2>3 DEF LookupEffect
    <3>4. QED
      BY <3>2, <3>3, AheadFrame DEF OwedIsAhead
  <2>4. Ahead(w)'
    BY <2>1, <2>2 DEF LookupEffect
  <2>5. QED
    BY <2>3, <2>4 DEF OwedIsAhead
<1>9. ASSUME NEW w \in Workers, ReadWarm(w) PROVE OwedIsAhead'
  <2>1. ReadWarmEffect(w)
    BY <1>9, ReadWarmStep
  <2>2. ASSUME NEW v \in Workers, v # w PROVE Ahead(v)'
    <3>1. UNCHANGED <<pc[v], owed[v], cands[v], todo[v], slipped[v], answer[v]>>
      BY <2>1, <2>2 DEF ReadWarmEffect
    <3>2. UNCHANGED redis /\ missed \subseteq missed'
      BY <2>1 DEF ReadWarmEffect
    <3>3. QED
      BY <3>1, <3>2, AheadFrame DEF OwedIsAhead
  <2>3. Ahead(w)'
    <3>1. owed[w] \subseteq OnPath(path[w])
      BY DEF OwedInForce
    <3>2. warm.shape # "cold" => owed[w] \subseteq missed \union warm.covers
      BY DEF OwedIsMissed, SentinelLacks
    <3>3. UNCHANGED <<owed, missed, slipped>>
      BY <2>1 DEF ReadWarmEffect
    <3>4. \/ pc'[w] = "list"
          \/ pc'[w] = "answered" /\ owed[w] \subseteq missed
          \/ pc'[w] \in {"fetch", "verify"} /\ owed[w] \subseteq missed \union cands'[w]
      BY <2>1, <3>1, <3>2 DEF ReadWarmEffect
    <3>5. QED
      BY <3>3, <3>4
  <2>4. QED
    BY <2>2, <2>3 DEF OwedIsAhead
<1>10. ASSUME NEW w \in Workers, Fetch(w) PROVE OwedIsAhead'
  <2>1. FetchEffect(w)
    BY <1>10, FetchStep
  <2>2. ASSUME NEW v \in Workers, v # w PROVE Ahead(v)'
    <3>1. UNCHANGED <<pc[v], owed[v], cands[v], todo[v], slipped[v], answer[v]>>
      BY <2>1, <2>2 DEF FetchEffect
    <3>2. UNCHANGED redis /\ missed \subseteq missed'
      BY <2>1 DEF FetchEffect
    <3>3. QED
      BY <3>1, <3>2, AheadFrame DEF OwedIsAhead
  <2>3. Ahead(w)'
    <3>1. Ahead(w) /\ owed[w] \subseteq pg
      BY DEF OwedIsAhead, OwedInForce
    <3>2. UNCHANGED <<owed, missed, slipped>>
      BY <2>1 DEF FetchEffect
    <3>3. \/ pc'[w] = "cache_hit"
          \/ pc'[w] = "answered" /\ owed[w] \subseteq missed
          \/ pc'[w] = "fetch" /\ owed[w] \subseteq missed \union cands'[w]
      BY <2>1, <3>1 DEF FetchEffect
    <3>4. QED
      BY <3>2, <3>3
  <2>4. QED
    BY <2>2, <2>3 DEF OwedIsAhead
<1>11. ASSUME NEW w \in Workers, Verify(w) PROVE OwedIsAhead'
  <2>1. VerifyEffect(w)
    BY <1>11, VerifyStep
  <2>2. ASSUME NEW v \in Workers, v # w PROVE Ahead(v)'
    <3>1. UNCHANGED <<pc[v], owed[v], cands[v], todo[v], slipped[v], answer[v]>>
      BY <2>1, <2>2 DEF VerifyEffect
    <3>2. UNCHANGED redis /\ missed \subseteq missed'
      BY <2>1 DEF VerifyEffect
    <3>3. QED
      BY <3>1, <3>2, AheadFrame DEF OwedIsAhead
  <2>3. Ahead(w)'
    <3>1. Ahead(w) /\ owed[w] \subseteq pg
      BY DEF OwedIsAhead, OwedInForce
    <3>2. UNCHANGED <<owed, missed, cands, slipped>>
      BY <2>1 DEF VerifyEffect
    <3>3. pc'[w] = "cache_hit" \/ (pc'[w] = "answered" /\ owed[w] \subseteq missed)
      <4>1. owed[w] \subseteq missed \union (cands[w] \intersect pg)
        BY <2>1, <3>1 DEF VerifyEffect
      <4>2. pc'[w] = "cache_hit" \/ (pc'[w] = "answered" /\ cands[w] \intersect pg = {})
        BY <2>1 DEF VerifyEffect
      <4>3. QED
        BY <4>1, <4>2
    <3>4. QED
      BY <3>2, <3>3
  <2>4. QED
    BY <2>2, <2>3 DEF OwedIsAhead
<1>12. ASSUME NEW w \in Workers, CacheHit(w) PROVE OwedIsAhead'
  <2>1. answer'[w] \in Scopes
    BY <1>12 DEF CacheHit, OwedIsAhead
  <2>2. QED
    BY <1>12, <2>1, AnswerAssumption DEF CacheHit, OwedIsAhead
<1>13. ASSUME NEW w \in Workers, ListBans(w) PROVE OwedIsAhead'
  BY <1>13 DEF ListBans, OwedInForce, OwedIsAhead
<1>14. ASSUME NEW w \in Workers, NEW s \in Scopes, CacheListed(w, s) PROVE OwedIsAhead'
  BY <1>14 DEF CacheListed, OwedIsAhead
<1>15. ASSUME NEW w \in Workers, MarkWarm(w) PROVE OwedIsAhead'
  BY <1>15 DEF MarkWarm, OwedIsAhead
<1>16. ASSUME NEW w \in Workers, Recheck(w) PROVE OwedIsAhead'
  <2>1. ASSUME NEW v \in Workers, v # w PROVE Ahead(v)'
    <3>1. UNCHANGED <<pc[v], owed[v], cands[v], todo[v], slipped[v], answer[v], redis, missed>>
      BY <1>16, <2>1 DEF Recheck
    <3>2. QED
      BY <3>1, AheadFrame DEF OwedIsAhead
  <2>2. CASE OnPath(path[w]) \intersect Cached = {}
    <3>1. Ahead(w)'
      BY <1>16, <2>2 DEF Recheck, OwedInForce, OwedIsAhead
    <3>2. QED
      BY <2>1, <3>1 DEF OwedIsAhead
  <2>3. CASE OnPath(path[w]) \intersect Cached # {}
    <3>1. FirstOf(path[w], Cached) \in Scopes
      BY <2>3, OnPathType, FirstOfIsOnPath
    <3>2. pc'[w] = "answered" /\ answer'[w] \in Scopes
      BY <1>16, <2>3, <3>1 DEF Recheck
    <3>3. Ahead(w)'
      BY <3>2, AnswerAssumption
    <3>4. QED
      BY <2>1, <3>3 DEF OwedIsAhead
  <2>4. QED
    BY <2>2, <2>3
<1>17. ASSUME NEW w \in Workers, Return(w) PROVE OwedIsAhead'
  BY <1>17 DEF Return, Forget, OwedIsAhead
<1>18. ASSUME NEW w \in Workers, RedisError(w) PROVE OwedIsAhead'
  <2>1. RedisErrorEffect(w)
    BY <1>18, RedisErrorStep
  <2>2. ASSUME NEW v \in Workers, v # w PROVE Ahead(v)'
    <3>1. UNCHANGED <<pc[v], owed[v], cands[v], todo[v], slipped[v], answer[v]>>
      BY <2>1, <2>2 DEF RedisErrorEffect
    <3>2. UNCHANGED redis /\ missed \subseteq missed'
      BY <2>1 DEF RedisErrorEffect
    <3>3. QED
      BY <3>1, <3>2, AheadFrame DEF OwedIsAhead
  <2>3. Ahead(w)'
    BY <2>1, AnswerAssumption DEF RedisErrorEffect
  <2>4. QED
    BY <2>2, <2>3 DEF OwedIsAhead
<1>19. ASSUME NEW w \in Workers, PgError(w) PROVE OwedIsAhead'
  <2>1. PgErrorEffect(w)
    BY <1>19, PgErrorStep
  <2>2. ASSUME NEW v \in Workers, v # w PROVE Ahead(v)'
    <3>1. UNCHANGED <<pc[v], owed[v], cands[v], todo[v], slipped[v], answer[v]>>
      BY <2>1, <2>2 DEF PgErrorEffect
    <3>2. UNCHANGED redis /\ missed \subseteq missed'
      BY <2>1 DEF PgErrorEffect
    <3>3. QED
      BY <3>1, <3>2, AheadFrame DEF OwedIsAhead
  <2>3. Ahead(w)'
    BY <2>1, AnswerAssumption DEF PgErrorEffect
  <2>4. QED
    BY <2>2, <2>3 DEF OwedIsAhead
<1>20. ASSUME NEW w \in Workers, Crash(w) PROVE OwedIsAhead'
  BY <1>20 DEF Crash, Forget, OwedIsAhead
<1>21. ASSUME NEW s \in Scopes, DropKey(s) PROVE OwedIsAhead'
  BY <1>21 DEF DropKey, Slip, OwedIsAhead
<1>22. CASE DropWarm
  BY <1>22 DEF DropWarm, OwedIsAhead
<1>23. CASE Flush
  BY <1>23 DEF Flush, Slip, OwedIsAhead
<1>24. CASE UNCHANGED vars
  BY <1>24 DEF vars, OwedIsAhead
<1>25. QED
  BY <1>1, <1>2, <1>3, <1>4, <1>5, <1>6, <1>7, <1>8, <1>9, <1>10, <1>11, <1>12, <1>13, <1>14, <1>15, <1>16, <1>17, <1>18, <1>19, <1>20, <1>21, <1>22, <1>23, <1>24 DEF Next, Begin, Continue, Fault

LEMMA IInvStep == IInv /\ [Next]_vars => IInv'
BY TInvStep, OwedInForceStep, LackingIsMissedStep, OwedIsMissedStep, OwedIsAheadStep
   DEF IInv, TInv

\* A lookup that answers "not blocked" overlooks a ban in force only if Redis lost
\* its key during the lookup's own re-warm, or the ban's invalidation was lost or
\* overtaken: tiered.py:14-18 with exactly these exceptions.
THEOREM NoBanOverlookedHolds == Spec => []NoBanOverlooked
<1>1. IInv => NoBanOverlooked
  BY DEF IInv, OwedIsAhead, Ahead, NoBanOverlooked
<1>2. QED
  BY <1>1, IInvInit, IInvStep, PTL DEF Spec

\* The inductive invariant of the runs holds in every reachable state.
THEOREM Invariance == Spec => []IInv
BY IInvInit, IInvStep, PTL DEF Spec

-----------------------------------------------------------------------------
(* Interleavings alone.                                                       *)

Caching(s) == \E w \in Workers : pc[w] = "cache_ban" /\ arg[w] = s

\* While nothing is harmed, a ban is in Redis unless a call is about to write or to
\* revoke it; so a lookup that owes one has found it at once.
KeysKept  == ~harmed => \A s \in pg : redis[s] # "absent" \/ Revoking(s) \/ Caching(s)
OwedFound ==
  ~harmed => \A w \in Workers : owed[w] # {} => pc[w] = "answered" /\ answer[w] \in Scopes

\* A step of a call that is about neither, and takes nothing from Redis.
LEMMA KeysFrame ==
  ASSUME TInv, KeysKept, NEW w \in Workers, pc[w] \notin {"cache_ban", "revoke"},
         \A v \in Workers \ {w} : pc'[v] = pc[v] /\ arg'[v] = arg[v],
         pg' = pg, \A s \in Scopes : redis[s] # "absent" => redis'[s] # "absent",
         harmed' = harmed
  PROVE  KeysKept'
<1> SUFFICES ASSUME ~harmed, NEW s \in pg, redis'[s] = "absent"
             PROVE  Revoking(s)' \/ Caching(s)'
  BY DEF KeysKept
<1>1. redis[s] = "absent"
  BY DEF TInv, TypeOK
<1>2. CASE Revoking(s)
  BY <1>2 DEF Revoking
<1>3. CASE Caching(s)
  BY <1>3 DEF Caching
<1>4. QED
  BY <1>1, <1>2, <1>3 DEF KeysKept

\* The reading steps of a lookup are such steps.
LEMMA ReadersKeepKeys ==
  ASSUME TInv, KeysKept, NEW w \in Workers,
         (\E p \in Paths : Lookup(w, p)) \/ ReadWarm(w) \/ Fetch(w) \/ Verify(w)
  PROVE  KeysKept'
<1>1. pc[w] \notin {"cache_ban", "revoke"}
  BY DEF Lookup, ReadWarm, Fetch, Verify
<1>2. UNCHANGED <<pg, redis, harmed>>
  BY DEF Lookup, ReadWarm, Fetch, Verify
<1>3. \A v \in Workers \ {w} : arg'[v] = arg[v]
  BY DEF Lookup, ReadWarm, Fetch, Verify, TInv, TypeOK
<1>4. \A v \in Workers \ {w} : pc'[v] = pc[v]
  BY DEF Lookup, ReadWarm, Fetch, Verify, Goto, Answer, TInv, TypeOK
<1>5. QED
  BY <1>1, <1>2, <1>3, <1>4, KeysFrame

LEMMA KeysKeptStep == TInv /\ KeysKept /\ [Next]_vars => KeysKept'
<1> SUFFICES ASSUME TInv, KeysKept, [Next]_vars PROVE KeysKept'
  OBVIOUS
<1> USE DEF TInv, TypeOK, LocalsOK, KeysKept, Caching, Revoking, Goto, Answer, locals, history
<1>1. ASSUME NEW w \in Workers, NEW s \in Scopes, BlockTemp(w, s) PROVE KeysKept'
  BY <1>1, KeysFrame DEF BlockTemp
<1>2. ASSUME NEW w \in Workers, NEW s \in Scopes, BlockPermanent(w, s) PROVE KeysKept'
  BY <1>2 DEF BlockPermanent
<1>3. ASSUME NEW w \in Workers, CacheBan(w) PROVE KeysKept'
  BY <1>3, ZenonT(30) DEF CacheBan
<1>4. ASSUME NEW w \in Workers, ClearAfterBan(w) PROVE KeysKept'
  BY <1>4 DEF ClearAfterBan
<1>5. ASSUME NEW w \in Workers, NEW s \in Scopes, Unblock(w, s) PROVE KeysKept'
  BY <1>5 DEF Unblock
<1>6. ASSUME NEW w \in Workers, Revoke(w) PROVE KeysKept'
  BY <1>6 DEF Revoke
<1>7. ASSUME NEW w \in Workers, ClearAfterRevoke(w) PROVE KeysKept'
  BY <1>7 DEF ClearAfterRevoke
<1>8. ASSUME NEW w \in Workers, NEW p \in Paths, Lookup(w, p) PROVE KeysKept'
  BY <1>8, ReadersKeepKeys
<1>9. ASSUME NEW w \in Workers, ReadWarm(w) PROVE KeysKept'
  BY <1>9, ReadersKeepKeys
<1>10. ASSUME NEW w \in Workers, Fetch(w) PROVE KeysKept'
  BY <1>10, ReadersKeepKeys
<1>11. ASSUME NEW w \in Workers, Verify(w) PROVE KeysKept'
  BY <1>11, ReadersKeepKeys
<1>12. ASSUME NEW w \in Workers, CacheHit(w) PROVE KeysKept'
  BY <1>12, SMTT(30) DEF CacheHit
<1>13. ASSUME NEW w \in Workers, ListBans(w) PROVE KeysKept'
  BY <1>13, ZenonT(30) DEF ListBans
<1>14. ASSUME NEW w \in Workers, NEW s \in Scopes, CacheListed(w, s) PROVE KeysKept'
  BY <1>14, ZenonT(30) DEF CacheListed
<1>15. ASSUME NEW w \in Workers, MarkWarm(w) PROVE KeysKept'
  BY <1>15, ZenonT(30) DEF MarkWarm
<1>16. ASSUME NEW w \in Workers, Recheck(w) PROVE KeysKept'
  BY <1>16, SMTT(30) DEF Recheck
<1>17. ASSUME NEW w \in Workers, Return(w) PROVE KeysKept'
  BY <1>17 DEF Return, Forget
<1>18. ASSUME NEW w \in Workers, RedisError(w) PROVE KeysKept'
  BY <1>18 DEF RedisError
<1>19. ASSUME NEW w \in Workers, PgError(w) PROVE KeysKept'
  BY <1>19 DEF PgError
<1>20. ASSUME NEW w \in Workers, Crash(w) PROVE KeysKept'
  BY <1>20 DEF Crash
<1>21. ASSUME NEW s \in Scopes, DropKey(s) PROVE KeysKept'
  BY <1>21 DEF DropKey
<1>22. CASE DropWarm
  BY <1>22 DEF DropWarm
<1>23. CASE Flush
  BY <1>23 DEF Flush
<1>24. CASE UNCHANGED vars
  BY <1>24 DEF vars
<1>25. QED
  BY <1>1, <1>2, <1>3, <1>4, <1>5, <1>6, <1>7, <1>8, <1>9, <1>10, <1>11, <1>12,
     <1>13, <1>14, <1>15, <1>16, <1>17, <1>18, <1>19, <1>20, <1>21, <1>22, <1>23, <1>24
     DEF Next, Begin, Continue, Fault

LEMMA OwedFoundStep == IInv /\ KeysKept /\ OwedFound /\ [Next]_vars => OwedFound'
<1> SUFFICES ASSUME IInv, KeysKept, OwedFound, [Next]_vars PROVE OwedFound'
  OBVIOUS
<1> USE DEF IInv, TInv, TypeOK, LocalsOK, OwedFound, Goto, Answer, locals, history
<1>1. ASSUME NEW w \in Workers, NEW s \in Scopes, BlockTemp(w, s) PROVE OwedFound'
  BY <1>1 DEF BlockTemp
<1>2. ASSUME NEW w \in Workers, NEW s \in Scopes, BlockPermanent(w, s) PROVE OwedFound'
  BY <1>2 DEF BlockPermanent
<1>3. ASSUME NEW w \in Workers, CacheBan(w) PROVE OwedFound'
  BY <1>3 DEF CacheBan
<1>4. ASSUME NEW w \in Workers, ClearAfterBan(w) PROVE OwedFound'
  BY <1>4 DEF ClearAfterBan
<1>5. ASSUME NEW w \in Workers, NEW s \in Scopes, Unblock(w, s) PROVE OwedFound'
  BY <1>5 DEF Unblock
<1>6. ASSUME NEW w \in Workers, Revoke(w) PROVE OwedFound'
  BY <1>6 DEF Revoke
<1>7. ASSUME NEW w \in Workers, ClearAfterRevoke(w) PROVE OwedFound'
  BY <1>7 DEF ClearAfterRevoke
<1>8. ASSUME NEW w \in Workers, NEW p \in Paths, Lookup(w, p) PROVE OwedFound'
  <2>1. p \in Seq(Scopes) /\ OnPath(p) \subseteq Scopes
    BY PathsAssumption, OnPathType
  <2>2. ASSUME NEW v \in Workers, v # w
        PROVE  owed'[v] = owed[v] /\ pc'[v] = pc[v] /\ answer'[v] = answer[v]
    BY <1>8, <2>2 DEF Lookup
  <2>3. ASSUME ~harmed, owed'[w] # {} PROVE pc'[w] = "answered" /\ answer'[w] \in Scopes
    <3>1. PICK s \in OnPath(p) : InForce(s)
      BY <1>8, <2>3 DEF Lookup
    <3>2. s \in Cached
      BY <2>1, <2>3, <3>1 DEF KeysKept, InForce, Banning, Revoking, Caching, Cached
    <3>3. OnPath(p) \intersect Cached # {}
      BY <3>1, <3>2
    <3>4. FirstOf(p, Cached) \in Scopes
      BY <2>1, <3>3, FirstOfIsOnPath
    <3>5. QED
      BY <1>8, <3>3, <3>4 DEF Lookup
  <2>4. harmed' = harmed
    BY <1>8 DEF Lookup
  <2>5. QED
    BY <2>2, <2>3, <2>4
<1>9. ASSUME NEW w \in Workers, ReadWarm(w) PROVE OwedFound'
  BY <1>9 DEF ReadWarm
<1>10. ASSUME NEW w \in Workers, Fetch(w) PROVE OwedFound'
  BY <1>10 DEF Fetch
<1>11. ASSUME NEW w \in Workers, Verify(w) PROVE OwedFound'
  <2>1. VerifyEffect(w)
    BY <1>11, VerifyStep
  <2>2. QED
    BY <1>11, <2>1 DEF VerifyEffect, Verify
<1>12. ASSUME NEW w \in Workers, CacheHit(w) PROVE OwedFound'
  BY <1>12 DEF CacheHit
<1>13. ASSUME NEW w \in Workers, ListBans(w) PROVE OwedFound'
  BY <1>13 DEF ListBans
<1>14. ASSUME NEW w \in Workers, NEW s \in Scopes, CacheListed(w, s) PROVE OwedFound'
  BY <1>14 DEF CacheListed
<1>15. ASSUME NEW w \in Workers, MarkWarm(w) PROVE OwedFound'
  BY <1>15 DEF MarkWarm
<1>16. ASSUME NEW w \in Workers, Recheck(w) PROVE OwedFound'
  BY <1>16 DEF Recheck
<1>17. ASSUME NEW w \in Workers, Return(w) PROVE OwedFound'
  BY <1>17 DEF Return, Forget
<1>18. ASSUME NEW w \in Workers, RedisError(w) PROVE OwedFound'
  BY <1>18 DEF RedisError
<1>19. ASSUME NEW w \in Workers, PgError(w) PROVE OwedFound'
  BY <1>19 DEF PgError
<1>20. ASSUME NEW w \in Workers, Crash(w) PROVE OwedFound'
  BY <1>20 DEF Crash
<1>21. ASSUME NEW s \in Scopes, DropKey(s) PROVE OwedFound'
  BY <1>21 DEF DropKey
<1>22. CASE DropWarm
  BY <1>22 DEF DropWarm
<1>23. CASE Flush
  BY <1>23 DEF Flush
<1>24. CASE UNCHANGED vars
  BY <1>24 DEF vars
<1>25. QED
  BY <1>1, <1>2, <1>3, <1>4, <1>5, <1>6, <1>7, <1>8, <1>9, <1>10, <1>11, <1>12,
     <1>13, <1>14, <1>15, <1>16, <1>17, <1>18, <1>19, <1>20, <1>21, <1>22, <1>23, <1>24
     DEF Next, Begin, Continue, Fault

\* tiered.py:184-205.  Without losses and failures no order of blocks, revocations,
\* re-warms and evicted sentinels hides a ban from a lookup that it was in force for.
THEOREM NoBanLostInARaceHolds == Spec => []NoBanLostInARace
<1>1. Init => KeysKept /\ OwedFound
  BY DEF Init, KeysKept, OwedFound
<1>2. OwedFound => NoBanLostInARace
  BY AnswerAssumption DEF OwedFound, NoBanLostInARace, FoundNothing
<1>3. IInv /\ [Next]_vars => TInv
  BY DEF IInv, TInv
<1>4. IInv /\ KeysKept /\ OwedFound /\ [Next]_vars => (IInv /\ KeysKept /\ OwedFound)'
  BY <1>3, IInvStep, KeysKeptStep, OwedFoundStep
<1>5. QED
  BY <1>1, <1>2, <1>4, IInvInit, PTL DEF Spec

=============================================================================
