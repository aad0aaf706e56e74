-------------------------- MODULE TieredBlockStore --------------------------
(***************************************************************************)
(* The composed block store the enforcer and the ingress middleware talk   *)
(* to (stores/tiered.py) over its two tiers: permanent bans are rows of    *)
(* Postgres (the source of truth) written through to Redis keys with a     *)
(* TTL, temp blocks are Redis keys only, and one more Redis key, the warm  *)
(* sentinel, tells a lookup that missed whether Postgres is worth asking.  *)
(*                                                                         *)
(* Every action is one call to one backend, so that the calls of different *)
(* request workers and operators interleave as the round trips do.  The    *)
(* deployment modelled has both tiers.                                     *)
(***************************************************************************)
EXTENDS Naturals, FiniteSets, Sequences

CONSTANTS
  Scopes,     \* the (scope_type, scope_value) pairs that can be blocked
  TypeOf,     \* the scope_type of each scope
  Paths,      \* the candidate scopes of the requests, in precedence order
  Workers,    \* request workers and operators, each making one call at a time
  EmbedCap,   \* _WARM_EMBED_CAP: the largest ban list the sentinel embeds
  None,       \* the answer of a lookup that finds no block
  Error,      \* the answer of a lookup that raises BlockStoreError
  Faults      \* what the environment may do, out of FaultKinds

\* drop_key, drop_warm: Redis expires or evicts a block key, or the sentinel;
\* flush: Redis loses everything; redis_error, pg_error: a call to that backend
\* raises; crash: the process of a worker dies inside a call.
FaultKinds == {"drop_key", "drop_warm", "flush", "redis_error", "pg_error", "crash"}

ASSUME PathsAssumption  == Paths \subseteq Seq(Scopes)
ASSUME AnswerAssumption == None \notin Scopes /\ Error \notin Scopes /\ None # Error
ASSUME FaultsAssumption == Faults \subseteq FaultKinds

VARIABLES
  pg,         \* scopes with an active PermanentBlock row
  redis,      \* what the block key of each scope holds
  warm,       \* the warm sentinel
  pc,         \* the backend call each worker makes next
  arg,        \* the scope a worker's call works on
  path,       \* the candidate scopes of a worker's lookup
  cands,      \* the candidates a lookup still has to ask Postgres about
  listed,     \* the ban list a re-warm read from Postgres
  todo,       \* the listed bans a re-warm has not cached yet
  answer,     \* what a lookup returns
  \* History, read by the properties only.
  ever,       \* scopes for which a permanent ban was ever committed
  owed,       \* bans in force since a lookup began, which it must report
  slipped,    \* keys lost by Redis while a lookup was re-warming
  missed,     \* bans whose invalidation of the sentinel was lost or overtaken
  recached,   \* revocations overtaken by a write-through of the revoked ban
  harmed      \* whether anything but the sentinel was ever lost, or failed

locals  == <<pc, arg, path, cands, listed, todo, answer>>
history == <<ever, owed, slipped, missed, recached>>
vars    == <<pg, redis, warm, locals, history, harmed>>

-----------------------------------------------------------------------------
\* Range(p): the scopes on a path.  FirstOf: the first of them in S.
OnPath(p) == {p[i] : i \in DOMAIN p}

FirstOf(p, S) ==
  p[CHOOSE i \in DOMAIN p : p[i] \in S /\ \A j \in DOMAIN p : p[j] \in S => i <= j]

Cached   == {s \in Scopes : redis[s] # "absent"}
Cold     == [shape |-> "cold", covers |-> {}]

\* Mutant: past the cap the sentinel names the types instead of covering scopes.
WarmPayload_TypeNames(bans) ==
  IF Cardinality(bans) <= EmbedCap
  THEN [shape |-> "members", covers |-> bans]
  ELSE [shape |-> "truncated", covers |-> {TypeOf[b] : b \in bans}]

\* The sentinel written after a re-warm.  covers is the set of scopes for which
\* a reader of the sentinel goes on to ask Postgres: the embedded members, or,
\* past the cap, every scope whose type some ban has.
WarmPayload(bans) ==
  IF Cardinality(bans) <= EmbedCap
  THEN [shape |-> "members", covers |-> bans]
  ELSE [shape |-> "truncated",
        covers |-> {s \in Scopes : \E b \in bans : TypeOf[b] = TypeOf[s]}]

Banning(s)  == \E w \in Workers : pc[w] \in {"cache_ban", "clear_ban"} /\ arg[w] = s
Revoking(s) == \E w \in Workers : pc[w] = "revoke" /\ arg[w] = s
InForce(s)  == s \in pg /\ ~Banning(s) /\ ~Revoking(s)

\* Another call holds ban s and is going to write it to Redis.
Holding(w, s) ==
  \E v \in Workers \ {w} : \/ pc[v] = "fill" /\ s \in todo[v]
                           \/ pc[v] \in {"cache_hit", "cache_ban"} /\ arg[v] = s

Goto(w, label) == pc' = [pc EXCEPT ![w] = label]

\* A lookup has its answer; a call with nothing to answer goes straight to idle.
Answer(w, a) == Goto(w, "answered") /\ answer' = [answer EXCEPT ![w] = a]

Init ==
  /\ pg = {} /\ redis = [s \in Scopes |-> "absent"] /\ warm = Cold
  /\ pc = [w \in Workers |-> "idle"]
  /\ arg = [w \in Workers |-> None]
  /\ path = [w \in Workers |-> <<>>]
  /\ answer = [w \in Workers |-> None]
  /\ cands = [w \in Workers |-> {}]
  /\ listed = [w \in Workers |-> {}]
  /\ todo = [w \in Workers |-> {}]
  /\ owed = [w \in Workers |-> {}]
  /\ slipped = [w \in Workers |-> {}]
  /\ ever = {} /\ missed = {} /\ recached = {} /\ harmed = FALSE

-----------------------------------------------------------------------------
(* Plausible defects of the actions below, each used by one mutant of the    *)
(* project file and by nothing else.                                         *)

\* The write-through of a new ban is forgotten.
CacheBan_Skipped(w) ==
  /\ pc[w] = "cache_ban"
  /\ Goto(w, "clear_ban")
  /\ UNCHANGED <<pg, redis, warm, arg, path, cands, listed, todo, answer, history, harmed>>

\* A new ban leaves the sentinel alone.
ClearAfterBan_KeepsSentinel(w) ==
  /\ pc[w] = "clear_ban"
  /\ missed' = IF \E v \in Workers : pc[v] = "fill" /\ arg[w] \notin listed[v]
               THEN missed \union {arg[w]} ELSE missed
  /\ Goto(w, "idle") /\ arg' = [arg EXCEPT ![w] = None]
  /\ UNCHANGED <<pg, redis, warm, path, cands, listed, todo, answer,
                 ever, owed, slipped, recached, harmed>>

\* Membership is trusted without reading the row.
Fetch_TrustsMembers(w) ==
  /\ pc[w] = "fetch"
  /\ arg' = [arg EXCEPT ![w] = FirstOf(path[w], cands[w])]
  /\ Goto(w, "cache_hit")
  /\ UNCHANGED <<pg, redis, warm, path, cands, listed, todo, answer, history, harmed>>

\* The loop over the members does not advance past one without a row.
Fetch_NoAdvance(w) ==
  /\ pc[w] = "fetch"
  /\ LET s == FirstOf(path[w], cands[w]) IN
       /\ s \in pg
       /\ arg' = [arg EXCEPT ![w] = s]
       /\ Goto(w, "cache_hit")
  /\ UNCHANGED <<pg, redis, warm, path, cands, listed, todo, answer, history, harmed>>

\* A re-warm lists the live keys of Redis as well as the rows.
ListBans_FromRedis(w) ==
  /\ pc[w] = "list"
  /\ listed' = [listed EXCEPT ![w] = pg \union Cached]
  /\ todo' = [todo EXCEPT ![w] = pg \union Cached]
  /\ Goto(w, "fill")
  /\ UNCHANGED <<pg, redis, warm, arg, path, cands, answer, history, harmed>>

\* The sentinel is written before the bans it promises are cached.
MarkWarm_BeforeFill(w) ==
  /\ pc[w] = "fill"
  /\ warm' = WarmPayload(listed[w])
  /\ Goto(w, "recheck")
  /\ UNCHANGED <<pg, redis, arg, path, cands, listed, todo, answer, history, harmed>>

\* Permanent bans are cached without an expiry.
DropKey_TempOnly(s) ==
  /\ "drop_key" \in Faults /\ harmed' = TRUE /\ redis[s] = "temp"
  /\ redis' = [redis EXCEPT ![s] = "absent"]
  /\ slipped' = [w \in Workers |-> IF pc[w] \in {"fill", "recheck"}
                                   THEN slipped[w] \union {s} ELSE slipped[w]]
  /\ UNCHANGED <<pg, warm, locals, ever, owed, missed, recached>>

\* The sentinel is written without an expiry.
DropWarm_Never == FALSE /\ UNCHANGED vars

-----------------------------------------------------------------------------
(* block(): with a ttl one Redis SET; without one a committed row, its       *)
(* write-through and the invalidation of the sentinel.                       *)

BlockTemp(w, s) ==
  /\ pc[w] = "idle"
  /\ redis' = [redis EXCEPT ![s] = "temp"]
  /\ UNCHANGED <<pg, warm, locals, history, harmed>>

BlockPermanent(w, s) ==
  /\ pc[w] = "idle"
  /\ pg' = pg \union {s} /\ ever' = ever \union {s} /\ recached' = recached \ {s}
  /\ arg' = [arg EXCEPT ![w] = s]
  /\ Goto(w, "cache_ban")
  /\ UNCHANGED <<redis, warm, path, cands, listed, todo, answer, owed, slipped, missed, harmed>>

CacheBan(w) ==
  /\ pc[w] = "cache_ban"
  /\ redis' = [redis EXCEPT ![arg[w]] = "perm"]
  /\ Goto(w, "clear_ban")
  /\ UNCHANGED <<pg, warm, arg, path, cands, listed, todo, answer, history, harmed>>

\* The sentinel goes, but a re-warm that listed the bans before this one was
\* committed is still going to write its own.
ClearAfterBan(w) ==
  /\ pc[w] = "clear_ban"
  /\ warm' = Cold
  /\ missed' = IF \E v \in Workers : pc[v] = "fill" /\ arg[w] \notin listed[v]
               THEN missed \union {arg[w]} ELSE missed
  /\ Goto(w, "idle") /\ arg' = [arg EXCEPT ![w] = None]
  /\ UNCHANGED <<pg, redis, path, cands, listed, todo, answer, ever, owed, slipped, recached, harmed>>

-----------------------------------------------------------------------------
(* unblock(): the key, then the row, then the sentinel.                      *)

Unblock(w, s) ==
  /\ pc[w] = "idle"
  /\ redis' = [redis EXCEPT ![s] = "absent"]
  /\ arg' = [arg EXCEPT ![w] = s]
  /\ Goto(w, "revoke")
  /\ owed' = [v \in Workers |-> owed[v] \ {s}]
  /\ UNCHANGED <<pg, warm, path, cands, listed, todo, answer, ever, slipped, missed, recached, harmed>>

Revoke(w) ==
  /\ pc[w] = "revoke"
  /\ pg' = pg \ {arg[w]} /\ missed' = missed \ {arg[w]}
  /\ recached' = IF redis[arg[w]] = "perm" \/ Holding(w, arg[w])
                 THEN recached \union {arg[w]} ELSE recached
  /\ Goto(w, "clear_revoke")
  /\ UNCHANGED <<redis, warm, arg, path, cands, listed, todo, answer, ever, owed, slipped,
                 harmed>>

ClearAfterRevoke(w) ==
  /\ pc[w] = "clear_revoke"
  /\ warm' = Cold
  /\ Goto(w, "idle") /\ arg' = [arg EXCEPT ![w] = None]
  /\ UNCHANGED <<pg, redis, path, cands, listed, todo, answer, history, harmed>>

-----------------------------------------------------------------------------
(* first_active() and get_active(): one MGET, and on a miss whatever the     *)
(* sentinel says.                                                            *)

Lookup(w, p) ==
  /\ pc[w] = "idle"
  /\ path' = [path EXCEPT ![w] = p]
  /\ owed' = [owed EXCEPT ![w] = {s \in OnPath(p) : InForce(s)}]
  /\ \/ /\ OnPath(p) \intersect Cached # {}
        /\ Answer(w, FirstOf(p, Cached))
     \/ /\ OnPath(p) = {}
        /\ Answer(w, None)
     \/ /\ OnPath(p) # {} /\ OnPath(p) \intersect Cached = {}
        /\ Goto(w, "read_warm") /\ UNCHANGED answer
  /\ UNCHANGED <<pg, redis, warm, arg, cands, listed, todo, ever, slipped, missed, recached, harmed>>

ReadWarm(w) ==
  /\ pc[w] = "read_warm"
  /\ LET asked == OnPath(path[w]) \intersect warm.covers IN
       \/ /\ warm.shape = "cold"
          /\ Goto(w, "list") /\ UNCHANGED <<cands, answer>>
       \/ /\ warm.shape # "cold" /\ asked = {}
          /\ Answer(w, None) /\ UNCHANGED cands
       \/ /\ warm.shape # "cold" /\ asked # {}
          /\ cands' = [cands EXCEPT ![w] = asked]
          /\ Goto(w, IF warm.shape = "members" THEN "fetch" ELSE "verify")
          /\ UNCHANGED answer
  /\ UNCHANGED <<pg, redis, warm, arg, path, listed, todo, history, harmed>>

\* One Postgres read per member, in precedence order, until one has a row.
Fetch(w) ==
  /\ pc[w] = "fetch"
  /\ LET s == FirstOf(path[w], cands[w]) IN
       \/ /\ s \in pg
          /\ arg' = [arg EXCEPT ![w] = s]
          /\ Goto(w, "cache_hit") /\ UNCHANGED <<cands, answer>>
       \/ /\ s \notin pg
          /\ cands' = [cands EXCEPT ![w] = @ \ {s}]
          /\ IF cands[w] = {s} THEN Answer(w, None) ELSE UNCHANGED <<pc, answer>>
          /\ UNCHANGED arg
  /\ UNCHANGED <<pg, redis, warm, path, listed, todo, history, harmed>>

\* One Postgres read for all the candidates of the truncated sentinel.
Verify(w) ==
  /\ pc[w] = "verify"
  /\ \/ /\ cands[w] \intersect pg # {}
        /\ arg' = [arg EXCEPT ![w] = FirstOf(path[w], cands[w] \intersect pg)]
        /\ Goto(w, "cache_hit") /\ UNCHANGED answer
     \/ /\ cands[w] \intersect pg = {}
        /\ Answer(w, None) /\ UNCHANGED arg
  /\ UNCHANGED <<pg, redis, warm, path, cands, listed, todo, history, harmed>>

CacheHit(w) ==
  /\ pc[w] = "cache_hit"
  /\ redis' = [redis EXCEPT ![arg[w]] = "perm"]
  /\ Answer(w, arg[w])
  /\ UNCHANGED <<pg, warm, arg, path, cands, listed, todo, history, harmed>>

-----------------------------------------------------------------------------
(* _rewarm(): list the bans, cache each, write the sentinel; then MGET again. *)

ListBans(w) ==
  /\ pc[w] = "list"
  /\ listed' = [listed EXCEPT ![w] = pg]
  /\ todo' = [todo EXCEPT ![w] = pg]
  /\ Goto(w, "fill")
  /\ UNCHANGED <<pg, redis, warm, arg, path, cands, answer, history, harmed>>

CacheListed(w, s) ==
  /\ pc[w] = "fill" /\ s \in todo[w]
  /\ redis' = [redis EXCEPT ![s] = "perm"]
  /\ todo' = [todo EXCEPT ![w] = @ \ {s}]
  /\ UNCHANGED <<pg, warm, pc, arg, path, cands, listed, answer, history, harmed>>

MarkWarm(w) ==
  /\ pc[w] = "fill" /\ todo[w] = {}
  /\ warm' = WarmPayload(listed[w])
  /\ Goto(w, "recheck")
  /\ UNCHANGED <<pg, redis, arg, path, cands, listed, todo, answer, history, harmed>>

Recheck(w) ==
  /\ pc[w] = "recheck"
  /\ Answer(w, IF OnPath(path[w]) \intersect Cached = {} THEN None
               ELSE FirstOf(path[w], Cached))
  /\ UNCHANGED <<pg, redis, warm, arg, path, cands, listed, todo, history, harmed>>

\* The call ends, and with it its locals.
Forget(w) ==
  /\ Goto(w, "idle")
  /\ arg' = [arg EXCEPT ![w] = None] /\ path' = [path EXCEPT ![w] = <<>>]
  /\ cands' = [cands EXCEPT ![w] = {}]
  /\ listed' = [listed EXCEPT ![w] = {}] /\ todo' = [todo EXCEPT ![w] = {}]
  /\ answer' = [answer EXCEPT ![w] = None]
  /\ owed' = [owed EXCEPT ![w] = {}] /\ slipped' = [slipped EXCEPT ![w] = {}]

Return(w) ==
  /\ pc[w] = "answered"
  /\ Forget(w)
  /\ UNCHANGED <<pg, redis, warm, ever, missed, recached, harmed>>

-----------------------------------------------------------------------------
(* The environment.                                                          *)

\* A backend call of a lookup raises, and so does the lookup.
Raise(w) ==
  /\ Answer(w, Error)
  /\ UNCHANGED <<pg, redis, warm, arg, path, cands, listed, todo, history>>

\* Redis raises: the write-through and the invalidations swallow it.
RedisError(w) ==
  /\ "redis_error" \in Faults /\ harmed' = TRUE
  /\ \/ pc[w] \in {"read_warm", "fill", "recheck"} /\ Raise(w)
     \/ /\ pc[w] = "cache_hit"
        /\ Answer(w, arg[w])
        /\ UNCHANGED <<pg, redis, warm, arg, path, cands, listed, todo, history>>
     \/ /\ pc[w] = "cache_ban"
        /\ Goto(w, "clear_ban")
        /\ UNCHANGED <<pg, redis, warm, arg, path, cands, listed, todo, answer, history>>
     \/ /\ pc[w] \in {"clear_ban", "clear_revoke"}
        /\ missed' = IF pc[w] = "clear_ban" THEN missed \union {arg[w]} ELSE missed
        /\ Goto(w, "idle") /\ arg' = [arg EXCEPT ![w] = None]
        /\ UNCHANGED <<pg, redis, warm, path, cands, listed, todo, answer,
                       ever, owed, slipped, recached>>

\* Postgres raises: no caller swallows it.
PgError(w) ==
  /\ "pg_error" \in Faults /\ harmed' = TRUE
  /\ \/ pc[w] \in {"list", "fetch", "verify"} /\ Raise(w)
     \/ /\ pc[w] = "revoke"
        /\ Goto(w, "idle") /\ arg' = [arg EXCEPT ![w] = None]
        /\ UNCHANGED <<pg, redis, warm, path, cands, listed, todo, answer, history>>

\* The process dies between two backend calls and is replaced.
Crash(w) ==
  /\ "crash" \in Faults /\ harmed' = TRUE /\ pc[w] # "idle"
  /\ missed' = IF pc[w] \in {"cache_ban", "clear_ban"}
               THEN missed \union {arg[w]} ELSE missed
  /\ Forget(w)
  /\ UNCHANGED <<pg, redis, warm, ever, recached>>

Slip(keys) ==
  slipped' = [w \in Workers |-> IF pc[w] \in {"fill", "recheck"}
                                THEN slipped[w] \union keys ELSE slipped[w]]

\* Every key has a TTL, and an evicting maxmemory policy may take it earlier.
DropKey(s) ==
  /\ "drop_key" \in Faults /\ harmed' = TRUE /\ redis[s] # "absent"
  /\ redis' = [redis EXCEPT ![s] = "absent"]
  /\ Slip({s})
  /\ UNCHANGED <<pg, warm, locals, ever, owed, missed, recached>>

DropWarm ==
  /\ "drop_warm" \in Faults /\ warm # Cold
  /\ warm' = Cold
  /\ UNCHANGED <<pg, redis, locals, history, harmed>>

Flush ==
  /\ "flush" \in Faults /\ harmed' = TRUE
  /\ redis' = [s \in Scopes |-> "absent"] /\ warm' = Cold
  /\ Slip(Cached)
  /\ UNCHANGED <<pg, locals, ever, owed, missed, recached>>

-----------------------------------------------------------------------------
Begin(w) ==
  \/ \E s \in Scopes : BlockTemp(w, s) \/ BlockPermanent(w, s) \/ Unblock(w, s)
  \/ \E p \in Paths : Lookup(w, p)

\* The steps of a call already begun.
Continue(w) ==
  \/ CacheBan(w) \/ ClearAfterBan(w) \/ Revoke(w) \/ ClearAfterRevoke(w)
  \/ ReadWarm(w) \/ Fetch(w) \/ Verify(w) \/ CacheHit(w)
  \/ ListBans(w) \/ (\E s \in Scopes : CacheListed(w, s)) \/ MarkWarm(w) \/ Recheck(w)
  \/ Return(w)

Fault ==
  \/ \E w \in Workers : RedisError(w) \/ PgError(w) \/ Crash(w)
  \/ \E s \in Scopes : DropKey(s)
  \/ DropWarm \/ Flush

Next == (\E w \in Workers : Begin(w) \/ Continue(w)) \/ Fault

Spec == Init /\ [][Next]_vars

\* A thread of the server keeps running the call it is in, and every key of
\* Redis is written with an expiry.
Fairness ==
  /\ \A w \in Workers : WF_vars(Continue(w))
  /\ \A s \in Scopes : WF_vars(DropKey(s))
  /\ WF_vars(DropWarm)

FairSpec == Spec /\ Fairness

-----------------------------------------------------------------------------
(* Properties.                                                               *)

Labels == {"idle", "cache_ban", "clear_ban", "revoke", "clear_revoke", "read_warm",
           "fetch", "verify", "cache_hit", "list", "fill", "recheck", "answered"}

Sentinels == [shape : {"cold", "members", "truncated"}, covers : SUBSET Scopes]

\* The type of every variable but the flag harmed.
TypeOK ==
  /\ pg \subseteq Scopes
  /\ redis \in [Scopes -> {"absent", "temp", "perm"}]
  /\ warm \in Sentinels
  /\ pc \in [Workers -> Labels]
  /\ arg \in [Workers -> Scopes \union {None}]
  /\ path \in [Workers -> Seq(Scopes)]
  /\ answer \in [Workers -> Scopes \union {None, Error}]
  /\ cands \in [Workers -> SUBSET Scopes] /\ listed \in [Workers -> SUBSET Scopes]
  /\ todo \in [Workers -> SUBSET Scopes] /\ owed \in [Workers -> SUBSET Scopes]
  /\ slipped \in [Workers -> SUBSET Scopes]
  /\ ever \subseteq Scopes /\ missed \subseteq Scopes /\ recached \subseteq Scopes

FoundNothing(w) == pc[w] = "answered" /\ answer[w] = None

\* tiered.py:14-18.  A lookup that answers "not blocked" overlooks a ban that was
\* in force during the whole call only if Redis lost the key while the lookup
\* itself was re-warming, or if the ban's invalidation of the sentinel failed,
\* died with its process or was overtaken by a re-warm with an older ban list.
\* No other interleaving, eviction, flush or backend error hides a ban.
NoBanOverlooked ==
  \A w \in Workers : FoundNothing(w) => owed[w] \subseteq missed \union slipped[w]

\* The scopes of the type of some scope that was ever banned.
EverTypes == {s \in Scopes : \E b \in ever : TypeOf[b] = TypeOf[s]}

\* A permanent block is written to Redis, listed in the sentinel or sent to
\* Postgres for verification only for a scope that was permanently banned at some
\* time, or, past the cap, one of the type of such a scope.
NothingInvented ==
  /\ \A s \in Scopes : redis[s] = "perm" => s \in ever
  /\ warm.shape = "members" => warm.covers \subseteq ever
  /\ \A w \in Workers : pc[w] = "fetch" => cands[w] \subseteq ever
  /\ \A w \in Workers : pc[w] = "verify" => cands[w] \subseteq EverTypes

\* tiered.py:136-144.  Redis enforces a revoked ban only if some call wrote the
\* ban through while the revocation was between its first and its last step.
StaleOnlyIfRecached ==
  \A s \in Scopes : redis[s] = "perm" /\ s \notin pg => s \in recached

\* tiered.py:184-205.  As long as nothing but the sentinel was lost and nothing
\* failed, the order of block(), unblock() and re-warms is irrelevant: a ban in
\* force throughout a lookup is reported.
NoBanLostInARace ==
  ~harmed => \A w \in Workers : FoundNothing(w) => owed[w] = {}

\* Every call returns, whatever the other workers and Redis do meanwhile.
EveryCallReturns == \A w \in Workers : pc[w] # "idle" ~> pc[w] = "idle"

\* tiered.py:196-199, "self-heals on the next cold read": once a ban stays, later
\* lookups end up reporting it, lost or overtaken invalidations included.
BanIsEnforcedInTheEnd ==
  \A s \in Scopes :
    <>[](s \in pg) => <>[](\A w \in Workers : FoundNothing(w) /\ s \in owed[w]
                                                => s \in slipped[w])

\* A revoked ban that stays revoked leaves Redis for good once its keys expire.
RevocationIsHeard ==
  \A s \in Scopes : <>[](s \notin pg) => <>[](redis[s] # "perm")

-----------------------------------------------------------------------------
(* What the documentation promises and the code does not keep.               *)

\* operations.md:211-214: "an evicting policy never unbans an actor".  The MGET
\* that ends a re-warm asks Redis only, so a key evicted since it was cached is
\* not found.
EvictionNeverUnbans == \A w \in Workers : FoundNothing(w) => owed[w] = {}

\* operations.md:182: the unblock utilities "clear both tiers".  A lookup that
\* reads the row between the key's deletion and the revocation caches it again.
UnblockClearsBothTiers ==
  (\A w \in Workers : pc[w] = "idle") => \A s \in Scopes : redis[s] = "perm" => s \in pg

-----------------------------------------------------------------------------
(* The inductive invariant behind the safety properties.                     *)

\* A sentinel or a finished listing w would answer from, without ban s.
SentinelLacks(s)   == warm.shape # "cold" /\ s \notin warm.covers
ListingLacks(v, s) == pc[v] = "fill" /\ s \notin listed[v]

\* Locals of a call in the states that use them.
LocalsOK ==
  \A w \in Workers :
    /\ pc[w] \in {"cache_ban", "clear_ban", "revoke", "clear_revoke", "cache_hit"}
         => arg[w] \in Scopes
    /\ pc[w] \in {"fetch", "verify"} => cands[w] # {} /\ cands[w] \subseteq OnPath(path[w])
    /\ todo[w] \subseteq listed[w]
    /\ pc[w] \notin {"fill", "recheck", "answered"} => slipped[w] = {}

\* What a lookup owes stays in force, and is not about to be revoked.
OwedInForce ==
  \A w \in Workers :
    /\ owed[w] \subseteq pg \intersect OnPath(path[w])
    /\ \A u \in Workers : pc[u] = "revoke" => arg[u] \notin owed[w]
    /\ pc[w] \in {"idle", "cache_ban", "clear_ban", "revoke", "clear_revoke"} => owed[w] = {}

\* A ban the sentinel or a listing lacks is still being announced, or missed; if
\* some lookup owes it, it is missed.
LackingIsMissed ==
  \A s \in pg :
    /\ SentinelLacks(s) => s \in missed \/ Banning(s)
    /\ \A v \in Workers : ListingLacks(v, s) => s \in missed \/ Banning(s)

OwedIsMissed ==
  \A w \in Workers : \A s \in owed[w] :
    /\ SentinelLacks(s) => s \in missed
    /\ \A v \in Workers : ListingLacks(v, s) => s \in missed

\* What a lookup owes is still ahead of it.
Ahead(w) ==
  /\ pc[w] \in {"fetch", "verify"} => owed[w] \subseteq missed \union cands[w]
  /\ pc[w] = "fill"    => owed[w] \subseteq slipped[w] \union todo[w] \union Cached
  /\ pc[w] = "recheck" => owed[w] \subseteq slipped[w] \union Cached
  /\ FoundNothing(w)   => owed[w] \subseteq missed \union slipped[w]

OwedIsAhead == \A w \in Workers : Ahead(w)

IInv == TypeOK /\ LocalsOK /\ OwedInForce /\ LackingIsMissed /\ OwedIsMissed /\ OwedIsAhead

\* Whoever is about to write a ban to Redis read it while it was in force, or
\* the revocation saw it.
HeldIsRecached ==
  \A s \in Scopes, w \in Workers :
    s \notin pg /\ (\/ pc[w] = "fill" /\ s \in todo[w]
                    \/ pc[w] \in {"cache_hit", "cache_ban"} /\ arg[w] = s) => s \in recached

=============================================================================
