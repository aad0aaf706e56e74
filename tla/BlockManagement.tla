-------------------------- MODULE BlockManagement --------------------------
(***************************************************************************)
(* Operators and application code managing blocks: the API (api.py), the   *)
(* admin's batches, add form and row revocation (admin.py), over the block *)
(* store of a deployment: the in-process one (stores/memory.py), Redis     *)
(* alone, or Redis with Postgres behind it (stores/tiered.py).             *)
(*                                                                         *)
(* A call on a scope is one or two steps in the store and the emission of  *)
(* its event; operators overtake each other between any two of them, and   *)
(* lookups of the tiers cache again what they have read of a row (which of *)
(* them do, eviction and crashes are TieredBlockStore's).  The block       *)
(* manager page reads the store in several round trips too: one page is    *)
(* followed, and what it shows of one scope.                               *)
(***************************************************************************)
EXTENDS Naturals, Sequences, FiniteSets

CONSTANTS
  Scopes,     \* what can be blocked
  Operators,  \* the callers
  Batches,    \* sequences of scopes an operator acts on at once
  Ttl,        \* ttl of a temporary block, in ticks
  CacheTtl,   \* permanent_cache_ttl, in ticks
  Forever,    \* ttl=None: no end
  Faults,     \* "store_error": a backend raises
  Listed,     \* bound: the scopes a page is followed for
  CallCap     \* bound: calls

ASSUME ManagementAssumption ==
  /\ Ttl \in Nat \ {0} /\ CacheTtl \in Nat \ {0} /\ Forever \notin Nat
  /\ Scopes # {} /\ Batches \subseteq Seq(Scopes) /\ Faults \subseteq {"store_error"}
  /\ Listed \subseteq Scopes /\ CallCap \in Nat

VARIABLES
  deployment,  \* a setting: "memory", "redis" or "tiered"
  kept,        \* scopes the store has a key for
  left,        \* how long each key is in force: expired ones stay in memory
  rows,        \* scopes with an unrevoked PermanentBlock row
  reading,     \* scopes whose row some lookup has read and is about to cache
  op,          \* what each operator is doing
  begun,       \* calls begun, those of a batch all at once
  page,        \* the block manager page that is being put together
  \* History, read by the properties only.
  told,        \* the last word of the trail on each scope
  wrote,       \* how many blocks of it were written, outside the tiers
  revoked,     \* how many revocations of it were announced there
  clear        \* scopes whose last call met no other, no lookup, and failed nowhere

store   == <<kept, left, rows>>
history == <<told, wrote, revoked, clear>>
vars    == <<deployment, store, reading, op, begun, page, history>>

\* What an operator does: kind and ttl, the scopes still to do, the next step of the
\* call on the first of them, whether its unblock found a block; and for the
\* properties whether it met no other call on the scope and no lookup about to cache
\* it, and whether it was clear before.
Idle == [at |-> "idle", kind |-> "block", ttl |-> Forever, todo |-> <<>>,
         found |-> FALSE, alone |-> TRUE, was |-> TRUE]

\* What a page has of its scope: its next step; whether the key was there throughout the
\* scan, then whether the scan returned it, then whether it is listed as temporary; and
\* for the properties whether it was in force at all times since the page was begun, and
\* no ban ended; whether it was at one; and whether a ban began.
NoPage == [at |-> "idle", of |-> CHOOSE s \in Scopes : TRUE, temp |-> FALSE,
           steady |-> FALSE, ever |-> FALSE, renewed |-> FALSE]

Init ==
  /\ deployment \in {"memory", "redis", "tiered"}
  /\ kept = {} /\ left = [s \in Scopes |-> 0] /\ rows = {}
  /\ reading = {} /\ op = [o \in Operators |-> Idle] /\ begun = 0 /\ page = NoPage
  /\ told = [s \in Scopes |-> "none"]
  /\ wrote = [s \in Scopes |-> 0] /\ revoked = [s \in Scopes |-> 0]
  /\ clear = Scopes

-----------------------------------------------------------------------------
Durable(s) == deployment = "tiered" /\ s \in rows
At(o, label) == op[o].at = label /\ op[o].todo # <<>>
On(o)        == Head(op[o].todo)
MidCall(o, s) == op[o].at \in {"cache", "revoke", "emit"} /\ On(o) = s
Blocking(o)  == op[o].kind \in {"block", "add"}

\* A permanent block goes to Postgres first.
Through(o) == deployment = "tiered" /\ op[o].ttl = Forever

\* A step of o on scope s, which every other call on s has met; and one of a lookup.
Meets(o, s, after) ==
  op' = [p \in Operators |-> IF p = o THEN after
                             ELSE IF MidCall(p, s) THEN [op[p] EXCEPT !.alone = FALSE]
                             ELSE op[p]]
MeetsAll(s) ==
  op' = [p \in Operators |-> IF MidCall(p, s) THEN [op[p] EXCEPT !.alone = FALSE] ELSE op[p]]

\* The first step of a call in the store.
Enters(o, at, found) ==
  /\ Meets(o, On(o), [op[o] EXCEPT !.at = at, !.found = found,
                        !.alone = /\ On(o) \notin reading
                                  /\ \A p \in Operators \ {o} : ~MidCall(p, On(o)),
                        !.was = On(o) \in clear])
  /\ clear' = clear \ {On(o)}

\* A defect, used by a mutant: Redis keeps a permanent block for good.
Life_ForGood(ttl) == ttl

\* How long a key written for a ttl lasts: Redis never keeps one for good.
Life(ttl) == IF ttl = Forever /\ deployment # "memory" THEN CacheTtl ELSE ttl

PutKey(s, life) == kept' = kept \union {s} /\ left' = [left EXCEPT ![s] = life]
NoKey(s)        == kept' = kept \ {s} /\ left' = [left EXCEPT ![s] = 0]

\* What is left of a batch after its first scope.
Rest(o) ==
  IF Len(op[o].todo) = 1 THEN Idle
  ELSE [Idle EXCEPT !.at = "store", !.kind = op[o].kind, !.ttl = op[o].ttl,
                    !.todo = Tail(op[o].todo)]

-----------------------------------------------------------------------------
(* Calls.                                                                    *)

\* block_subject, unblock_subject, the batches of BlockActionsMixin, the add form:
\* the scopes in order, one for the add form.  revoke_blocks unblocks those of the rows
\* selected that are unrevoked: one of the batches.
Begin(o, kind, ttl, batch) ==
  /\ op[o].at = "idle" /\ batch # <<>> /\ begun + Len(batch) <= CallCap
  /\ kind = "add" => Len(batch) = 1
  /\ op' = [op EXCEPT ![o] = [Idle EXCEPT !.at = "store", !.kind = kind, !.ttl = ttl,
                                           !.todo = batch]]
  /\ begun' = begun + Len(batch)
  /\ UNCHANGED <<store, history>>

Written(o) ==
  /\ IF Through(o)
     THEN rows' = rows \union {On(o)} /\ UNCHANGED <<kept, left>>
     ELSE PutKey(On(o), Life(op[o].ttl)) /\ UNCHANGED rows
  /\ wrote' = IF deployment = "tiered" THEN wrote ELSE [wrote EXCEPT ![On(o)] = @ + 1]

\* A defect: in the tiers too a temporary block takes the place of a permanent one.
WriteBlock_Replaces(o) ==
  /\ At(o, "store") /\ Blocking(o)
  /\ IF Through(o)
     THEN rows' = rows \union {On(o)} /\ UNCHANGED <<kept, left>>
     ELSE PutKey(On(o), Life(op[o].ttl)) /\ rows' = rows \ {On(o)}
  /\ wrote' = IF deployment = "tiered" THEN wrote ELSE [wrote EXCEPT ![On(o)] = @ + 1]
  /\ Enters(o, IF Through(o) THEN "cache" ELSE "emit", FALSE)
  /\ UNCHANGED <<begun, told, revoked>>

\* block() of the store.
WriteBlock(o) ==
  /\ At(o, "store") /\ Blocking(o)
  /\ Written(o)
  /\ Enters(o, IF Through(o) THEN "cache" ELSE "emit", FALSE)
  /\ UNCHANGED <<begun, told, revoked>>

\* The write-through of a permanent block, which swallows an error of Redis.
CacheBlock(o) ==
  /\ At(o, "cache")
  /\ \/ PutKey(On(o), CacheTtl)
     \/ "store_error" \in Faults /\ UNCHANGED <<kept, left>>
  /\ Meets(o, On(o), [op[o] EXCEPT !.at = "emit"])
  /\ UNCHANGED <<rows, begun, history>>

\* Defects: the in-process and the Redis store answer one whatever they found; the
\* tiers answer the number of keys alone.
EraseKey_SaysOne(o) ==
  /\ At(o, "store") /\ ~Blocking(o)
  /\ NoKey(On(o))
  /\ Enters(o, IF deployment = "tiered" THEN "revoke" ELSE "emit", TRUE)
  /\ UNCHANGED <<rows, begun, told, wrote, revoked>>

RevokeRow_Uncounted(o) ==
  /\ At(o, "revoke")
  /\ rows' = rows \ {On(o)}
  /\ Meets(o, On(o), [op[o] EXCEPT !.at = "emit"])
  /\ UNCHANGED <<kept, left, begun, history>>

\* unblock() of the store: the key, then the row.
EraseKey(o) ==
  /\ At(o, "store") /\ ~Blocking(o)
  /\ NoKey(On(o))
  /\ Enters(o, IF deployment = "tiered" THEN "revoke" ELSE "emit", On(o) \in kept)
  /\ UNCHANGED <<rows, begun, told, wrote, revoked>>

RevokeRow(o) ==
  /\ At(o, "revoke")
  /\ rows' = rows \ {On(o)}
  /\ Meets(o, On(o), [op[o] EXCEPT !.at = "emit", !.found = @ \/ On(o) \in rows])
  /\ UNCHANGED <<kept, left, begun, history>>

\* block_applied, or block_revoked if there was something to revoke.
Emit(o) ==
  /\ At(o, "emit")
  /\ LET s == On(o)
         word == IF Blocking(o) THEN IF op[o].ttl = Forever THEN "permanent" ELSE "temp"
                 ELSE IF op[o].found THEN "revoked" ELSE told[s] IN
       /\ told' = [told EXCEPT ![s] = word]
       /\ revoked' = IF deployment # "tiered" /\ ~Blocking(o) /\ op[o].found
                     THEN [revoked EXCEPT ![s] = @ + 1] ELSE revoked
       /\ clear' = IF op[o].alone /\ (Blocking(o) \/ op[o].found \/ op[o].was)
                   THEN clear \union {s} ELSE clear
  /\ op' = [op EXCEPT ![o] = IF op[o].kind = "add" THEN [@ EXCEPT !.at = "row"] ELSE Rest(o)]
  /\ UNCHANGED <<store, begun, wrote>>

\* save_model saves a row itself when it finds no active one, whatever the
\* deployment: another operator may have revoked it in between.
SaveRow(o) ==
  /\ At(o, "row")
  /\ rows' = rows \union {On(o)}
  /\ IF Durable(On(o)) \/ deployment # "tiered"
     THEN op' = [op EXCEPT ![o] = Rest(o)] /\ UNCHANGED clear
     ELSE Meets(o, On(o), Rest(o)) /\ clear' = clear \ {On(o)}
  /\ UNCHANGED <<kept, left, begun, told, wrote, revoked>>

\* A backend raises: the rest of the batch is not done.
StoreFails(o) ==
  /\ "store_error" \in Faults /\ deployment # "memory"
  /\ At(o, "store") \/ At(o, "revoke")
  /\ op' = [op EXCEPT ![o] = Idle]
  /\ UNCHANGED <<store, begun, history>>

\* Or it has done what it was asked, and raises for want of its reply.
ReplyLost(o) ==
  /\ "store_error" \in Faults /\ deployment # "memory"
  /\ \/ At(o, "store") /\ Blocking(o) /\ Written(o)
     \/ At(o, "store") /\ ~Blocking(o) /\ NoKey(On(o)) /\ UNCHANGED <<rows, wrote>>
     \/ At(o, "revoke") /\ rows' = rows \ {On(o)} /\ UNCHANGED <<kept, left, wrote>>
  /\ Meets(o, On(o), Idle)
  /\ clear' = clear \ {On(o)}
  /\ UNCHANGED <<begun, told, revoked>>

-----------------------------------------------------------------------------
(* Lookups and the clock.                                                    *)

\* is_blocked of the in-process store drops an expired key.
DropExpired(s) ==
  /\ deployment = "memory" /\ s \in kept /\ left[s] = 0
  /\ NoKey(s)
  /\ UNCHANGED <<rows, op, begun, history>>

\* is_blocked of the tiers reads a row its cache has not, or all of them.
ReadRow(s) ==
  /\ deployment = "tiered" /\ s \in rows /\ s \notin reading
  /\ reading' = reading \union {s}
  /\ MeetsAll(s)
  /\ UNCHANGED <<store, begun, history>>

\* And caches it, unless Redis raises; another lookup may still be about to.
CacheAgain(s) ==
  /\ s \in reading
  /\ \/ PutKey(s, CacheTtl) /\ reading' \in {reading, reading \ {s}}
     \/ "store_error" \in Faults /\ reading' = reading \ {s} /\ UNCHANGED <<kept, left>>
  /\ MeetsAll(s)
  /\ UNCHANGED <<rows, begun, history>>

\* Redis forgets a key at its expiry.
Tick ==
  /\ \E s \in Scopes : left[s] \notin {0, Forever}
  /\ left' = [s \in Scopes |-> IF left[s] \in {0, Forever} THEN left[s] ELSE left[s] - 1]
  /\ kept' = IF deployment = "memory" THEN kept ELSE {s \in kept : left'[s] # 0}
  /\ UNCHANGED <<rows, op, begun, history>>

-----------------------------------------------------------------------------
(* The block manager page.                                                   *)

Enforced(s) == left[s] # 0 \/ Durable(s)

\* active_blocks and active_temp_blocks as one round trip sees them.
Permanent(s) ==
  CASE deployment = "memory" -> left[s] = Forever
    [] deployment = "redis"  -> FALSE
    [] deployment = "tiered" -> s \in rows

\* The in-process store is read under its lock; of Redis all keys are scanned.
OpenPage(s) ==
  /\ page.at = "idle" /\ s \in Listed
  /\ page' = [at |-> IF deployment = "memory" THEN "list" ELSE "scan", of |-> s,
              temp |-> IF deployment = "memory" THEN left[s] \notin {0, Forever} ELSE s \in kept,
              steady |-> Enforced(s), ever |-> Enforced(s), renewed |-> FALSE]

\* The scan may miss a key that was not there throughout.
ReadKey ==
  /\ page.at = "scan"
  /\ \E there \in {page.temp, page.of \in kept} :
       page' = [page EXCEPT !.at = IF deployment = "redis" THEN "list" ELSE "rows", !.temp = there]

\* A defect: the key of a permanent block counts as a temporary one.
SubtractRows_Not ==
  /\ page.at = "rows"
  /\ page' = [page EXCEPT !.at = "list"]

\* The cached keys of permanent blocks are left out.
SubtractRows ==
  /\ page.at = "rows"
  /\ page' = [page EXCEPT !.at = "list", !.temp = @ /\ page.of \notin rows]

\* The permanent blocks are read and the page is answered; or a backend raises before,
\* and the page says so.
ClosePage ==
  /\ page.at = "list" \/ (page.at \in {"scan", "rows"} /\ "store_error" \in Faults)
  /\ page' = NoPage

PageStep ==
  /\ (\E s \in Scopes : OpenPage(s)) \/ ReadKey \/ SubtractRows \/ ClosePage
  /\ UNCHANGED <<deployment, store, reading, op, begun, history>>

\* What the other steps do meanwhile to the scope of the page.
Watches == \E s \in Scopes :
  /\ s = page.of
  /\ page' = IF page.at = "idle" THEN page
             ELSE [page EXCEPT !.temp = IF page.at = "scan" THEN @ /\ s \in kept' ELSE @,
                     !.steady = @ /\ Enforced(s)' /\ (Permanent(s) => Permanent(s)'),
                     !.ever = @ \/ Enforced(s)',
                     !.renewed = @ \/ (~Permanent(s) /\ Permanent(s)')]

Step(o) ==
  \/ WriteBlock(o) \/ CacheBlock(o) \/ EraseKey(o) \/ RevokeRow(o)
  \/ Emit(o) \/ SaveRow(o) \/ StoreFails(o) \/ ReplyLost(o)

CallStep ==
  /\ \/ \E o \in Operators, b \in Batches :
          \/ \E ttl \in {Ttl, Forever} : Begin(o, "block", ttl, b)
          \/ Begin(o, "add", Forever, b)
          \/ Begin(o, "unblock", Forever, b)
     \/ \E o \in Operators : Step(o)
     \/ \E s \in Scopes : DropExpired(s)
     \/ Tick
  /\ UNCHANGED reading

Next ==
  \/ /\ CallStep \/ \E s \in Scopes : ReadRow(s) \/ CacheAgain(s)
     /\ UNCHANGED deployment /\ Watches
  \/ PageStep

Spec == Init /\ [][Next]_vars

-----------------------------------------------------------------------------
(* Properties.                                                               *)

Lives  == 0..Ttl \union 0..CacheTtl \union {Forever}
Places == {"idle", "store", "cache", "revoke", "emit", "row"}
Kinds  == {"block", "add", "unblock"}

Calls == [at : Places, kind : Kinds, ttl : {Ttl, Forever}, todo : Seq(Scopes),
          found : BOOLEAN, alone : BOOLEAN, was : BOOLEAN]

\* The type of every variable; outside memory a key is kept while it is in force,
\* and only there it may have no end.
TypeOK ==
  /\ deployment \in {"memory", "redis", "tiered"}
  /\ kept \subseteq Scopes /\ left \in [Scopes -> Lives] /\ rows \subseteq Scopes
  /\ reading \subseteq Scopes /\ op \in [Operators -> Calls] /\ begun \in Nat
  /\ \A o \in Operators : op[o].at # "idle" => op[o].todo # <<>>
  /\ told \in [Scopes -> {"none", "temp", "permanent", "revoked"}]
  /\ wrote \in [Scopes -> Nat] /\ revoked \in [Scopes -> Nat] /\ clear \subseteq Scopes
  /\ deployment # "memory" => \A s \in Scopes : left[s] # Forever
  /\ \A s \in Scopes : left[s] # 0 => s \in kept
  /\ page \in [at : {"idle", "scan", "rows", "list"}, of : Scopes, temp : BOOLEAN,
               steady : BOOLEAN, ever : BOOLEAN, renewed : BOOLEAN]

\* api.py:75-111, 114-134.  If the last call on a scope met no other one, no lookup that
\* had still to cache what it read, and no error, the trail has its last word: what it
\* says revoked is not enforced, what it says blocked for good is (unless Redis alone
\* has let it lapse), and nothing is enforced unannounced.
TrailHasTheLastWord ==
  \A s \in clear :
    /\ told[s] = "revoked" => ~Enforced(s)
    /\ told[s] = "permanent" /\ deployment # "redis" => Enforced(s)
    /\ Enforced(s) => told[s] \in {"temp", "permanent"}

\* memory.py:53-59, redis.py:112-116.  Whoever revokes and however often, a store
\* of one tier has no block revoked twice on the trail.
RevokedOncePerBlock ==
  deployment # "tiered" => \A s \in Scopes : revoked[s] <= wrote[s]

\* admin.py:270-291, tiered.py:146-172.  What the block manager page shows, put together
\* while others write: nothing that was not in force meanwhile; a scope both permanent and
\* temporary only if a permanent block began meanwhile; and all that was in force all the
\* time, unless it was a permanent block that ended meanwhile.
PageShowsWhatIsEnforced ==
  page.at = "list" =>
    LET permanent == Permanent(page.of) IN
    /\ page.temp \/ permanent => page.ever
    /\ page.temp /\ permanent => page.renewed
    /\ page.steady => page.temp \/ permanent

Longer == IF Ttl > CacheTtl THEN Ttl ELSE CacheTtl

\* What the calls under way ask of the store.
Asks(o) ==
  IF At(o, "row") \/ (At(o, "store") /\ Blocking(o)) THEN {<<On(o), op[o].ttl>>}
  ELSE IF At(o, "store") \/ At(o, "revoke") THEN {<<On(o), 0>>} ELSE {}

Ledger == INSTANCE BlockLedger WITH
  Terms <- {Ttl, Forever}, Lease <- CacheTtl, Longest <- Longer,
  asked <- UNION {Asks(o) : o \in Operators},
  force <- [s \in Scopes |-> IF Durable(s) THEN Forever ELSE left[s]],
  copied <- {s \in Scopes : left[s] # 0},
  knows <- reading \union {On(o) : o \in {p \in Operators : At(p, "cache")}}

\* stores/: every deployment keeps the ledger of blocks.  A block is enforced because a
\* call asks for it and for as long; a call replaces another's block, but no permanent one
\* of the tiers, which lasts until an unblock reaches its row; what then is still cached,
\* or is cached by one who had read the row before, lasts the cache's TTL.
KeepsTheLedger == Ledger!Spec
=============================================================================
