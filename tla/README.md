# A verification of sec-audit

TLA+ models of the parts of `sec-audit` whose correctness depends on the order of
steps, on what fails half way, or on a precedence that is easy to get wrong. TLC checks
them on small instances; TLAPS proves their safety properties for every instance.

## The system

`sec-audit` records security-relevant events of a Django application and, with
`django-sec-audit-enforcement`, acts on them. Five packages under `packages/`:

| package | role |
|---|---|
| `sec-audit` (core) | event type, projection, scrubbing, client address, context variable |
| `sec-audit-logging` | pipeline of filters and enrichers, JSONL formatting and sinks, Loki files |
| `sec-audit-rules` | rule engine, built-in rules, counter and history stores, action resolution |
| `django-sec-audit` | audit middleware, signal receivers, the dispatch of events to consumers |
| `django-sec-audit-enforcement` | block stores, enforcer, ingress middleware, admin and API |

The audit middleware binds a request's ids to a context variable. The enforcement
middleware asks the block store whether any of the request's scopes (user, session,
address) is blocked, then runs the rules marked safe on a synthetic event, and denies
the request or lets it through. The view and the audit middleware record events; each
is given to the logger and then to the registered consumer, which runs the rule engine
on it and has the enforcer block the scopes of the matches. Enforcement emits events of
its own through the same dispatch; the engine ignores them. Operators block and unblock
through the API and the admin, on the same store.

### Components

| component | state | operations | what is hard | correct when | module |
|---|---|---|---|---|---|
| Tiered block store | rows of permanent bans, Redis keys with a TTL, the warm sentinel | `block`, `unblock`, `first_active`, `get_active`, the re-warm, listings | two backends without a transaction; expiry, eviction, flush, errors, crashes; callers interleave at every round trip | no ban in force is overlooked, no revoked ban outlives its revocation, nothing is enforced that was never banned | `TieredBlockStore`, `BlockManagement` |
| In-process block store | locked dictionary | the same | overwriting entries, lazy expiry | enforced is what a call asks for, for as long, until one asks for its end | `BlockManagement` |
| API, admin | through the store | block, unblock, batches, add form | two store calls and an event per call; operators overtake each other | the trail has the last word on a scope | `BlockManagement` |
| Enforcement middleware | none | check, safe rules, deny | which failures fail open or closed, and what is emitted | a request is denied for a reason, an outage on fail-closed paths only; a denial sticks | `EnforcementPipeline` |
| Enforcer and emitter | none | apply a match: block each scope, emit | a store that raises half way | the trail agrees with the store | `EnforcementPipeline` |
| Rule engine | none | evaluate an event | applied by a sink or by the caller; reentrant dispatch | one application, one history entry | `EnforcementPipeline` |
| Rule events, scope registry, actions | none | derive scopes, resolve an action | names differ between ingress and events; precedence of settings | whoever is blocked stays out; no block for ever by accident | `RuleDecisions` |
| Client address | none | `resolve_client_ip` | forged headers, number of proxies | the address a trusted proxy vouches for | `ClientAddress` |
| Counter stores | counters with an expiry, LRU order | `incr`, `get_int`, `delete` | lazy expiry against the window, sweep, eviction, Redis errors | only recent failures count | `LoginCounters` |
| Login rules | a counter per address | failure, success, throttle | fixed windows, interleaved logins | blame recent failures only; bounded misses | `LoginCounters` |
| Other built-in rules | through counters and history | `evaluate` | thresholds, distinct counts | count only an actor's own requests | `RuleDecisions` |
| Event history | event lists per scope | `append`, `query` | out of order appends, caps, eviction, partial append | newest events of the window | `EventHistory` |
| Audit middleware and dispatch | context variable, session ids, consumers | request, record, dispatch | exceptions anywhere, nested context, suppressed logging | one id per request, every response reaches the rules | `AuditRequest` |
| Queued log sink | queue, listener thread, locks | emit, close | lazy start against close, shutdown holding the lock, a listener that dies | no record lost, out of order or twice; no deadlock | `RecordQueue` |
| Body capture, events, scrubbing, projection, formatting | none | conversions in a row | limits against redaction, fallbacks, repeated passes | no secret in a line but for named exceptions, nothing else lost | `AuditRecord` |
| Configuration, checks, integrations, demo | settings | parse, check | - | not part of the models | - |

## The modules

| module | what it is |
|---|---|
| `TieredBlockStore` | `stores/tiered.py` over `stores/redis.py` and `stores/postgres.py`, one action per round trip |
| `BlockLedger` | abstract: how long each scope is still blocked, and who may change that |
| `BlockManagement` | `api.py` and `admin.py` over each store a deployment may have |
| `EnforcementPipeline` | `middleware.py`, `consumer.py`, `runtime.py`, `enforcer.py` and the control of `rules/engine.py` |
| `Subsequence` | what is left of a sequence without some of its elements; used by `ClientAddress`, `LoginCounters`, `EventHistory`, `AuditTrail` and `AuditRecord` |
| `ClientAddress`, `RuleDecisions` | `core/ip.py`; `scopes.py`, `rules/events.py`, `rules/builtins`, `enforcement/actions.py` |
| `LoginCounters` | `rules/builtins/brute_force.py` over `rules/stores/counters.py` and `rules/stores/redis.py` |
| `RuleStores` | what the counters and the history share: the backend, its faults and the clock |
| `EventHistory` | `rules/stores/history.py`, the history of `rules/stores/redis.py` and the reader of `rules/base.py` |
| `AuditRequest` | the audit middleware, `context.py`, `sessions.py`, the auth and model events, the dispatch |
| `RecordQueue` | `_sinks/queue.py` and the lock of `_sinks/_file_base.py` |
| `AuditTrail` | composes the two: requests that log into the queued handler |
| `AuditRecord` | `logging/body.py`, `core/events.py`, `core/scrubbers.py`, `core/projection.py`, `emission.py`, `formatters.py` |
| `...Proofs` | the theorems and their proofs |
| `MC...` | the instances TLC checks |

Each module stands at one boundary of the next. The pipeline sees the block store as a
set of blocked scopes that may raise on any call, and takes the matches of the rules as a
choice; `RuleDecisions` says which matches there are and whom they block; the counters
and the history say what those rules count; the block store says what the set of
blocked scopes may look like to a reader, and `BlockManagement` what operators make
of it. `MCEnforcementPipeline` and `MCRuleStores` put modules about one process side by
side in one instance, each behaviour exercising one of them.

### TieredBlockStore

`pg`, `redis` and `warm` are the rows, the block keys and the sentinel. A worker
makes one call at a time: `pc` is the backend call it makes next and the other
locals are the Python locals of that call. `block()` is `BlockTemp`, or
`BlockPermanent`, `CacheBan`, `ClearAfterBan`; `unblock()` is `Unblock`, `Revoke`,
`ClearAfterRevoke`; a lookup is `Lookup` (the MGET), `ReadWarm`, then either
`Fetch`/`Verify` and `CacheHit`, or the re-warm `ListBans`, `CacheListed` per ban,
`MarkWarm` and the second MGET `Recheck`, and `Return`. Entries are abstracted to
their scope and kind, the sentinel to the set of scopes for which a reader goes on
to ask Postgres: the embedded members or, past `EmbedCap` (`_WARM_EMBED_CAP`), all
scopes of the listed types. The faults are actions with a switch each: a key or the
sentinel expires or is evicted, Redis is flushed, a backend raises (swallowed
where the code swallows it), a process dies between two calls. A backend error after
the call took effect is the same as the call followed by an error or a crash of
the next one.

Six history variables serve the properties: `ever` the scopes once banned,
`owed` the bans in force since a lookup began, `slipped` the keys Redis lost
while that lookup re-warmed, `missed` the bans whose invalidation was lost or
overtaken by an older listing, `recached` the revocations a write-through overtook,
`harmed` whether anything but the sentinel was ever lost or failed.

### BlockLedger and BlockManagement

The ledger is what an operator may believe: `force[s]` is how long `s` is still blocked.
`asked` is its input, the scopes and terms of the calls under way: `Impose` sets only what is
asked for, with two differences a store may make: a ban of the tiers (it is on record) is not
replaced by a shorter block, and a permanent block of Redis alone gets the lease. An unblock
asked for ends all but a record (`Withdraw`), then the record (`Lift`). `copied` is what is
kept of a scope and ends by itself, `knows` the scopes whose ban somebody has learnt of:
only they make a copy of it (`Copy`), even after it was lifted. `Tick` is the rest.

`BlockManagement` is the code: `deployment` says whether the store is the
dictionary, Redis alone, or Redis with Postgres; `kept` and `left` are its keys and their
time, `rows` the unrevoked rows. An operator works through a batch (`todo`); each scope
is `WriteBlock` and, for a permanent block of the tiers, `CacheBlock`, or `EraseKey`
and, of the tiers, `RevokeRow`; then `Emit`, and after the add form `SaveRow`. A backend
that raises has done nothing (`StoreFails`) or what it was asked (`ReplyLost`). Lookups are
`DropExpired` of the dictionary, and of the tiers `ReadRow` and `CacheAgain`, two round trips
with `reading` in between: which lookups read which rows is `TieredBlockStore`'s. The block
manager page is read in several round trips too: `OpenPage` begins the scan of the keys,
`ReadKey` ends it (a key that came or went meanwhile may be seen or not), `SubtractRows`
takes out the cached permanent blocks, `ClosePage` reads the permanent ones and answers.
`page` follows one page and one scope of it; `Watches` keeps up what the other
steps do to that scope meanwhile (`steady`, `ever`, `renewed`).
`told`, `wrote` and `revoked` are what the trail said; `clear` are the scopes whose last
call met no other one, no lookup about to cache what it had read, and failed nowhere.

### EnforcementPipeline

One record per worker holds its request: the step it is at, its candidate scopes,
the matches returned and still to apply, whether it is denied, and history for the
properties. Paths of scopes and their types are constants; so is the action each
rule's match resolves to. `viaSink` is the setting `apply_via_sink`, chosen at the
start and never changed: the sink applies the matches inside `evaluate()`, or the
caller does afterwards. `WriteFails` shows where the exception of
the store lands: in `persist()` (that match only), in the consumer (that event) or
in the middleware (the request proceeds). `Impose` and `Lift` are operators, other
requests and expiry: they are what another thread can do to this request, since
threads share nothing but the store.

### ClientAddress and RuleDecisions

A visit is a host with its proxies, the header it forged, its user and session and what
it does. `Sent` is what the application gets, `ResolveClientIp` what the code makes of it.
`Visit` is the ingress check under the identity of `ingress_summary`; `SafeRules` is
`repeated_route` before the view; `Save` and `Answer` record the events of a model change
and of the response, through `LogAttributes` and `FromMapping`, to `repeated_client_error`,
`resource_enumeration` and `sensitive_field_change`, whose matches become bans by
`ResolveRuleAction`, `BlockScopes` and `BlockTtl`. A model event's address is the one
django-auditlog keeps, the first entry of `X-Forwarded-For` (`RemoteAddr`); its user is known
only if authenticated before the view. `struck` says, independently of the
code's names for it, whom a match was about: the host the trusted proxies vouch for
(`Responsible`), the user, the session. Blocks and counters do not expire here and no
store fails: those are the subjects of the other modules.

### LoginCounters

Every store method is one action, because the in-process store holds a lock and the
Redis one is a single script or command. `now` is the clock in ticks. `backend` is the
store in use, chosen at the start. The history per address is the number of failures in
each tick not cleared by a login (`seen`), those the rule got a count for without a
match (`quiet`), and for each key the other keys used since (`touched`). A Redis error
of `incr` comes before the effect (`RedisIncrFails`) or after it (`RedisIncr` with its
reply lost: the failure is counted); either way the rule is told of one. A delete with
its reply lost is a delete, one that is not heard changes nothing (`RedisUnheard`).

### EventHistory

A worker starts with an event (`Start`: the clock and the scope keys), may query the
history while its rules run (`Answer`), and appends the event when they are done:
`AppendMemory` in one step under the lock, or `AppendRedis` once per scope key, each a
script that may fail. In between other workers do the same, so rows reach a key in
another order than their times. The history store is the choice made at the start for
the counters too (`RuleStores`). A row is its `recorded_at`. The history variables are
every row ever appended to a key (`logged`), how many of them an eviction took
(`evicted`) and the keys inserted since the key was (`younger`). A query that fails
answers nothing and changes nothing; it is left out. An append whose reply is lost is an
append, for the code goes on to the next key either way.

### AuditRequest, RecordQueue and AuditTrail

A worker serves one request at a time on its own copy of the Django session. `Prepare`
mints the session id if there is none and binds the context; `PrepareFails` leaves it
unbound, before or after the minting. `Ingress` is the check of the session scope. The
view records login and model events and answers or raises; `Respond` decides whether the
response is logged, given to the rules, both or neither; `Finish` restores the context
and saves the session, writing its copy over what others wrote, or does not: an unmodified
session is not saved, nor one after a server error, and a save may fail.
`Dispatch` is the consumer, which may ban the session an event names. Ids are numbers `uuid4`
returns in turn. A failed login without a request carries the ids of the bound context, or
none. `struck` and `lost` are, for each client, the ids under which its session was
banned and those its session lost: not saved, or written over. `due` says on arrival
whether the request's session was banned under an id it had kept.

Recording an event first gives it to the logger: in one step, or, into the queued handler,
`Enter` (take the handler's lock, start the listener) and `Put`. The listener takes a
record and writes it, or dies of an error of the file's lock. `Close` is `close()` by
application code, or by `logging.shutdown`, which holds the handler's lock all the time;
`Join` waits for the listener, `Reset` ends it. The sentinel a listener that died leaves
in the queue ends the next one.

### AuditRecord

A value is a tree; a text and a key are sequences of symbols of which two in a row are a
secret. `Capture`, `Build`, `Emit` and `Format` are the stations of a record, with the
limits as constants. `Scrub` and `Project` do what the Python functions do: which keys
are hidden, which values replaced, what is cut where, what is an error. Python's
recursion is a recursive function over the nodes of the tree (`Nodes`, found level by
level): `ScrubStep` and `ProjectStep` say what becomes of a node, given what becomes of
its members. `Height` bounds the levels of the values the model is given; Python has no
such bound.

The properties state the outcome by another definition: `HiddenKeys` and `ShownKeys` are
names the settings hide or show, listed by hand, and `NamesAssumption` says only that
they do. `SourcesAssumption` is what a record may be made of: trees whose mappings have
one entry for a key, where the patterns find each secret (the symbol `s`) and bytes
alone hold `b`; a body as `json.loads` returns it, or none. Event attributes and
additions may hold any kind of leaf, `str`-able objects (a `Path`, a `UUID`) and enums
included; an enum stands for a member whose value is a text. Where the code has a mark
take the place of an entry of the mark's own name, both are kept here, so less is
hidden.

## What is checked

| run | question | outcome |
|---|---|---|
| `tiered_faults` | losses, errors and crashes, two workers: what may a lookup overlook, what may Redis hold; does interleaving alone ever hide a ban; the inductive invariant | holds |
| `tiered_liveness` | calls end, lost invalidations heal, stale keys go | holds |
| `tiered_eviction` | "an evicting policy never unbans an actor" | violated |
| `tiered_recached` | unblock "clears both tiers" | violated |
| `management` | two operators, each deployment: may the trail be believed, does a page put together meanwhile show what is enforced, does every store keep the ledger | holds |
| `pipeline_requests` | every fault, matches applied by sink or caller: denials, trail, history, an answer; whom a match shuts out and for how long; what of an event is in its line | holds |
| `pipeline_fail_closed` | "a store outage denies the request" on a fail-closed path | violated |
| `decisions_block_rules` | block_rules "sets the temp-block TTL (seconds) per rule name" | violated |
| `rule_stores` | whom do the login rules blame and throttle, how many failures escape, what is evicted; what may a rule miss of its window | holds |
| `counters_stale` | "never returns a stale value" | violated |
| `audit_trail` | ids, rules and bans of requests that fail anywhere; the queued handler closed while requests log | holds |
| `audit_session_ban` | "the ingress check keys the session dimension on the audit-session id that egress emits" | violated |

The violated ones are disagreements between a sentence of the repository and its
code, each listed in `PROJECT.json` with the sentence and the line. What the runs say:

- A revoked ban can stay in Redis until its key expires when a lookup or a second
  `block()` writes it through between the two steps of `unblock()`; the proved
  `StaleOnlyIfRecached` says this is the only way.
- A ban in force is overlooked only by a lookup whose own re-warm lost the key, or
  after an invalidation that failed, died or was overtaken by an older listing; the
  proved `NoBanOverlooked` says there is no other way, whatever expires or fails.
- `DeniedForAReason` goes both ways: a check that fails is on record and denies on a
  fail-closed path, and on other paths an outage denies nobody.
- On a fail-closed path only an outage seen by the block check denies; one that
  starts later lets the request through and even withdraws a denial.
- A store that raises on the second scope of a match loses the `block_applied` event of
  the first, whatever `events.md` says; `TrailMatchesTheStore` says there is no other way: a
  block is unannounced only if the store raised on the same match.
- The in-process counter adds to an expired entry until the sweep, every 256
  writes, has removed it.
- `block_rules` has no effect on a rule with a default action, the example of
  `configuration.md` included, because the merged default is looked at first.
- With the default empty `sensitive_key_allowlist` the session id of a response event is
  redacted, and a session ban made of it stops nobody. `Allowlisted` and the setup's
  `listed` are this setting; the other runs hold with it on, or except it by name.
- Every deployment keeps the ledger: whatever calls, lookups and errors interleave, no
  block appears, changes or ends that no call under way asked for. The exceptions are
  the ledger's own: Redis alone lets a permanent block lapse with the cache's TTL; in
  the tiers who has learnt of a ban may copy it into Redis after it was lifted, for that
  TTL.
- The trail has the last word on a scope only if the last call on it met no other one: a
  batch stopped half way, a raw row saved by the add form, two overlapping calls, or a
  lookup that read the row before an unblock and caches it after, end in a trail that
  differs from the store. Only in the tiers can one block be announced as revoked twice.
- A page of the block manager shows nothing that was not in force at some time while it
  was put together, and all that was throughout; a permanent block imposed or lifted
  meanwhile can be listed twice or not at all.
- Whoever a blocking match was about stays out with the exceptions `ShutOutStaysOut`
  names: the session of a response event that was redacted, the user on the sink's path,
  the user of a model event who is authenticated only by the view, and the host of a
  model event.
- The last of these is a disagreement. The address of a model event is the one auditlog keeps,
  which the client chooses, and a `sensitive_field_change` entry with scope `ip` bans it: any
  address the client writes. `architecture.md:44-45` ("a spoofed `X-Forwarded-For` can't
  become a ban key"), the docstring of the enforcement's `scopes.py` and that of the rules'
  (`scopes.py:10-12`, "a rule that fires on `ip` bans the same `ip` the ingress check reads")
  hold for the other rules, which is what `OnlyOwnRequestsCount` says.
- A banned session is denied from its next request on (`operations.md:232`) unless it
  lost the id it was banned under. That is a disagreement too: two first requests of a
  session mint an id each and one is written over, and an id minted by a request that
  ends in a server error is never saved. The next request mints another id, and the ban
  stops nobody. `BannedSessionIsDenied` says there is no other way. It counts sessions
  by client.
- `formatters.py:135-138` and `148-152` promise that no path leaks a secret. What does:
  an object or an enum in additions made by hand, which `scrub` leaves alone and the
  projection makes a text of; an enum in additions of `emit_event` whose text the limit
  cuts before the second pass sees it; and the three ids restored from the event as they
  are, unscrubbed. `OnlySecretsAreRedacted` excepts exactly these (`Escapes`,
  `Restored`); bytes and hidden names are excepted nowhere.
- Failures whose count Redis lost on its way go unmatched in any number; of the others
  fewer than two thresholds in a window (`FewGoUnmatched`).
- A `persist_block` entry of `rule_actions` without scopes, or a severe `block`, does ban
  an address for ever (`ForEverIsDeliberate`); `configuration.md` asks the operator to
  preserve "never `ip`", the code does not see to it.
- An error of `flock` ends the listener of the queued handler; its queue is written after
  the next `close()` and start only. Order and completeness hold all the same.

Two sentences of the documentation the models take no run for: `how-to-use.md` of
`django-sec-audit` says the first `X-Forwarded-For` entry is used when
`trusted_proxy_count` is unset, and `ip.py` uses `REMOTE_ADDR`; `configuration.md` calls
`observe` the default of a rule without an entry, and `resolve_rule_action` first
asks `block_rules` and the match's own decision.

### Bounds

- Tiered store: two workers and two scopes. A race needs a writer and a reader, or two
  writers of one scope; a third worker adds a second instance of the same step. Two
  scopes of one type with `EmbedCap` 1 reach the embedded and the truncated sentinel,
  and the second scope is tried after the first. There is no bound on the number of
  calls. A flush leaves the store where the loss of each key and of the sentinel leaves
  it, so it is switched on in the small run of `tiered_liveness` only.
- Block management: two operators, two scopes, batches of one and of both, `CallCap` 3
  calls, so that a third call may come between or after two overlapping ones. `Ttl` 1
  and `CacheTtl` 2 differ, so that one key can be shortened or lengthened by the other. One
  page at a time, followed for one scope (`Listed`): a page reads each scope apart.
- Pipeline: one worker, `EventCap` events per request. Two events are needed to see
  state carried from one to the next; workers share only the store, whose other
  users are `Impose` and `Lift`. Three rules, so that a block, an alert and a
  block of a narrower scope occur in every order of one request; two scopes, so that a
  match can fail half way.
- Decisions: three visits (`VisitCap`) and thresholds of two, so that the third visitor
  meets the ban of the first two; two hosts that forge each other's address, up to two
  proxies, each configured or not; settings for each branch of the resolution.
- Records: one or two attributes, each a tree of up to three levels with every kind of
  leaf at every level, emitted or made by hand, keys of up to four symbols, limits of
  three; `Height` 4 holds the deepest of them, a body within its attribute.
- Counters: `MaxNow` 5 with windows of 3 ticks covers two full windows and
  one that straddles them; `Burst` is the failures per tick. The crowd has three
  addresses for two keys and two ticks.
- History: the clock stops at `HistoryEnds` 3; two threads, two keys and room for one of
  them in memory; up to `EventCap` 3 rows per key for a cap of 2, so that a row is
  crowded out; three ticks with windows of 2, so that an append prunes, a key expires
  and a slow reader asks for what is gone. `Slack` is the 60 seconds the life of a Redis
  key exceeds its window by; a reader may lag behind by more.
- Audit trail: two threads, one browser, so that both work on one session; two requests
  with one event each where anything may fail; three without faults, so that two mint an
  id each for one session and a third follows; and three with the queued handler, two
  closes (`CloseCap`) and up to three records (`PutCap`), so that a record is put
  before, during and after a close and a leftover sentinel ends a later listener.

`CHECK_DEADLOCK FALSE` stands where the bounds, or an application that logs nothing more,
end a behaviour: `Management.cfg`, `Audit_trail.cfg`, `Audit_session_ban.cfg`.

### Fairness

`FairSpec` of the block store lets every call that is under way take its next step
(a thread of the server is scheduled) and every key and the sentinel expire in the
end (both are always written with a TTL). That of the pipeline lets a request
under way take its next step. That of the audit trail does the same for requests, for
the listener and for a `close()` under way; a thread that waits for the handler's lock
gets it if it is free again and again (strong fairness of `LogEnter`), which Python's
locks give a thread that blocks on them. Starting a call, a request, a `close()` or a
fault is never assumed. The others need no fairness.

## What is proved

All for every value of the constants, from the assumptions each module names.

| module | theorem | property |
|---|---|---|
| `TieredBlockStoreProofs` | `TypeCorrect` | `TypeOK` |
| | `Invariance` | `IInv` |
| | `NothingInventedHolds` | `NothingInvented` |
| | `StaleOnlyIfRecachedHolds` | `StaleOnlyIfRecached` |
| | `NoBanOverlookedHolds` | `NoBanOverlooked` |
| | `NoBanLostInARaceHolds` | `NoBanLostInARace` |
| `BlockManagementProofs` | `TypeCorrect` | `TypeOK` |
| | `LedgerKept` | `KeepsTheLedger` (refinement of `BlockLedger`) |
| | `PageHolds` | `PageShowsWhatIsEnforced` |
| | `RevokedOnce` | `RevokedOncePerBlock` |
| | `LastWord` | `TrailHasTheLastWord` |
| `EnforcementProofs` | `TypeCorrect` | `TypeOK` |
| | `TrailKept` | `TrailMatchesTheStore` |
| | `DenialsHaveReasons` | `DeniedForAReason` |
| | `NothingLetThrough` | `LetThroughOnlyOnError` |
| | `CountedOnce` | `HistoryCountsEventsOnce` |
| | `NeverTwice` | `AppliedOnce` |
| | `NeverForEverByAccident` | `ForEverIsDeliberate` |
| | `AddressIsResponsible` | (of `ClientAddress`) |
| | `ShutOutHolds` | `ShutOutStaysOut` |
| | `OwnRequestsHold` | `OnlyOwnRequestsCount` |
| `LoginCountersProofs` | `TypesHold` | `TypeOK` |
| | `AlarmsAreRecent` | `AlarmIsRecent` |
| | `ThrottlesAreRecent` | `ThrottleIsRecent` |
| | `OnlyTheColdestGo` | `EvictsTheColdest` (action property) |
| | `FewUnmatched` | `FewGoUnmatched`, where no counter is evicted |
| `EventHistoryProofs` | `TypesHold` | `TypeOK` |
| | `SeenUnlessCrowdedOutHolds` | `SeenUnlessCrowdedOut` |
| | `EvictsTheFirstInsertedHolds` | `EvictsTheFirstInserted` (action property) |
| `AuditTrailProofs` | `TypesHold` | `TypeOK` |
| | `WrittenInOrderHolds` | `WrittenInOrder` |
| | `CloseFlushesHolds` | `CloseFlushes` |
| | `ResponsesReported` | `ResponsesAreReported` |
| | `BannedSessionsDenied` | `BannedSessionIsDenied`, under `Allowlisted` |
| | `OneRequestOneIdHolds` | `OneRequestOneId` |
| `AuditRecordProofs` | `SecretsStayOut` | `OnlySecretsAreRedacted` |

**Block store.** `NoBanOverlooked` speaks of the moment a lookup answers, so it is not
inductive. The invariant `IInv` says what must hold on the way there:

- `OwedInForce`: what a lookup owes has its row and nobody is about to revoke it;
- `LackingIsMissed`: a row absent from the sentinel, or from a listing on its way
  into the sentinel, is either being announced by its `block()` or missed;
- `OwedIsMissed`: for a ban owed to a lookup the announcement is over, so it is missed;
- `OwedIsAhead`: every owed ban is missed, lost during the re-warm, or still ahead
  of the lookup, among the candidates to ask Postgres about or the bans to cache.

With these the answer `None` leaves only the two exceptions. The proof has one
lemma per part, one step per action. `StaleOnlyIfRecached` needs its own
strengthening: whoever holds a revoked ban and is about to write it was seen by the
revocation (`HeldIsRecached`). `NoBanLostInARace` has another: while nothing is harmed
a row without a key belongs to a call about to write or to revoke it (`KeysKept`), so a
lookup that owes a ban has found it with its first MGET (`OwedFound`). TLC checks
`IInv` in `tiered_faults` as well.

**Ledger.** Each step of `BlockManagement` is a step of `BlockLedger` or leaves its variables
alone: `force` is the key's time or, with a row in the tiers, for ever; `copied` are the keys
with time left; `knows` are the rows read by a lookup and those a block is about to write
through; `asked` comes from the calls under way. A `RevokeRow` is a `Lift` whose `copied` was
left by whoever wrote a key since. Type correctness carries what this rests on: outside the
dictionary every key has an end, only a scope with a key has time left, and whoever is in a
call has a scope to call about.

On top of these, `PageHolds` needs that outside memory a key that is kept is one in
force (`KeptInForce`), and `PageInv`, what the page's half answer says of the time since
it was begun at each of its steps. `RevokedOnce` is an account: the signals of
revocation, the calls that found their row and have yet to announce it, and the rows
kept never exceed the rows written. `LastWord` follows a scope on which one call works
alone, no lookup being about to cache its row: what the call has announced so far agrees
with what it has done (`CallAgrees`), and on a scope no call is at, the last entry of
the trail says whether its row is there.

**Pipeline.** Workers share only `blocks`, which no property of a request reads, so the
invariant is one predicate `Good` of a single request and the setting `viaSink`: what is
true at each label of who has applied which matches, what was written, built and told,
what was appended, on which matches the store raised, and whether the verdict stands and
why. Each action maps a good request to a good one (`...Moves`), and one lemma lifts
that to all workers.

**Decisions.** Every ban is what its rule's action makes of it under the settings, and
the settings never change (`BansFollow`); the rest is the case split over where an
action comes from. `AddressIsResponsible` says of the resolver what the deployment means
by it: whatever a client writes in front, the part of the header the hops wrote is its
end (`WithoutConcat`), and the walk from there stops at the first address that is no
trusted proxy. It rests on `VisitsAssumption`: who visits is no trusted proxy itself, and
every hop on the way is one. With it,

- `ShutOutStaysOut` follows from `StruckBanned`, everyone a rule has struck has a ban of
  the type and the value of their own scope, and from bans only ever growing;
- `OnlyOwnRequestsCount` follows from `CountsOwn`, a counter counts no more visits than
  its address has made, the one under way not before the rule counted it, and
  `RowsOwn`, every row of the history is of a visit; a ban of `sensitive_field_change`
  needs only a change that auditlog attributes to the address (`ChangesBy`).

**Counters.** `CountInv`: a live counter counts no more than the failures since it was
created, and it was created no longer than its window ago. With it an alarm or a
throttle is about recent failures only. `QuietInv` is its opposite, for
`FewGoUnmatched`: the failures a rule got a count for and stayed silent about are those
of two windows at most, each below the threshold. This is proved where no counter is
evicted, in Redis or with no more addresses than the store keeps counters for
(`NoCrowd`): an evicted counter begins anew, as the property's own comment says.
`EvictsTheColdest` needs the order of the dictionary to be the order in which the keys
were last touched.

**Event history.** The invariant `HInv` says of each key how its rows relate to all that
was ever appended, by counting the rows of each time:

- `Sound`, in Redis: both are sorted, the rows never exceed what was appended, and those of
  a time are all there, each for itself, unless they were let go (`LetGo`): more than the cap
  stand from that time on, a later append has pruned past them, or the key's life is over;
- `Latest`, in the dictionary: the rows are exactly the last of those appended since the
  key was inserted, up to the cap;
- `OrderOK`: the keys stand in the order they were inserted in, and each knows those behind.

A rule that is not behind the store's window (`Overtaken`) and not crowded out meets none of
the three ways to lose a row, so its query holds every row due: `SeenUnlessCrowdedOut`.
A key the dictionary drops has the keys it keeps behind it: `EvictsTheFirstInserted`. The
theorems assume `HistoryAssumption`: threads and keys are finitely many, the caps are not
zero, and a rule asks for no longer a window than the store keeps. The one rule of `src/`
that reads the history asks for 300 seconds by default, a reader without requirements for
900, and Redis keeps 3600, which no setting changes; a rule that asks for more than that
finds only what is left.

**Audit trail.** `WrittenInOrder` becomes inductive with what the queue may hold: the
records put are those handled, the one in hand and those queued, with the sentinel taken
out (`Subsequence`'s `Without`). `CloseInv` adds that exactly one sentinel is ahead once
the close was promised. `ReportInv` says how far each request has come with its report;
`BanInv` that an id a session was struck under is banned, and is stored, in the hands of a
request that has yet to save it, or lost (`Kept`); that a request works with its own session
id only, and that its context is bound just while it is prepared; `IdInv` that ids not yet
drawn are in nobody's hands, that no two requests share one, and that what the trail says
of a request carries its id.

**Records.** `OnItsWay` says of each stage what the event, the additions and the line are
in terms of what the record is made of, so the property becomes one of operators; its two
halves are proved apart.

- No secret shows. `Layers` says of each level of a tree in which class its nodes are,
  `Tree` the same of the whole: data as it comes in, scrubbed data, JSON. Each class has
  four ranks (`Ranks`), by how much is known of the texts in it: nothing; that the
  patterns find each secret; that the limit cuts no enum with one either; that only
  texts hold one. Scrubbing takes the first class to the second (`ScrubLayers`),
  projecting the second to the third (`ProjectLayers`), and JSON is data again
  (`JsonIsData`), of the rank `Again`, so that a second pass does no harm. `GateIs` and
  `GateWorks` put them together for a mapping of attributes; the rest follows where each
  entry of a line comes from: the body with its allowlist (`CapturedTree`), the event
  (`EventIs`), the additions, once or twice through the gate (`SentIs`). There the rank
  is one of the single addition: `Known` unless a secret may escape from it
  (`KnownByHand`, `KnownEmitted`).
- Nothing else is lost. From the bottom level up, every node of a plain value is left alone
  by `Scrub` and `Project` (`PlainLevels`), so that passing twice changes nothing either.

The prover does not unfold a recursive function. `ScrubsExists` and `ProjectsExists`
therefore show that functions with these equations exist, built up from the leaves, and
`ScrubsAgree` and `ProjectsAgree` that two of them agree wherever they matter; `ScrubIs` and
`ProjectIs`, what becomes of a node given what becomes of its members, is all that the other
lemmas use.

**Sequences.** Induction over data is brought down to a set of naturals that holds 0 and
every successor (`SetInduction`, from the well-foundedness of `<` in the library). So what
`Without` does is proved for every sequence: which elements are left, where they stood
(`Places`), and how it distributes over `Append` and concatenation. `Without` is a
recursive function for that reason: the prover cannot expand `SelectSeq`. The levels of a
tree are treated the same way.

Only model-checked are the liveness properties (`EveryCallReturns`, `BanIsEnforcedInTheEnd`,
`RevocationIsHeard`, `EveryRequestIsAnswered`, `PutIsWritten`, `EveryRequestEnds`), out of
the prover's reach. `StoresTypeOK` is an invariant of the instance `MCRuleStores`, which
puts the counters and the history side by side; its parts are proved for each of them, as
`TypesHold` of `LoginCountersProofs` and of `EventHistoryProofs`.

## What is not modelled

- Of the block store: rows with `expires_at`, which only the add form of a deployment of
  Redis alone writes (`admin.py:363`), where no lookup reads rows; a malformed sentinel,
  which raises; the rollback of an outer transaction around a permanent block, whose row
  counts as committed; two processes with in-process stores of their own.
- Of the pipeline: a crash of the process within a request, after which nobody
  answers; the text of events.
- Of the decisions: custom rules and scope definitions, `block_precedence`,
  `default_action`, which `django-sec-audit-enforcement` never sets, and
  `SeverityEnforcementPolicy`, which it never uses. `request_body_threshold` and
  `suspicious_proxy_header` cannot match there: the synthetic event has no body and no
  event has the headers they read.
- Of the counters: `set` and `expire`, which nothing calls; Redis evicting a counter; a
  client of Redis that repeats an `INCR` by itself after a lost reply, which counts one
  failure twice.
- Of the history: the content of a summary but for what `resource_enumeration` reads,
  failing queries, a reader that merges several keys of one scope.
- Of the audit middleware: the ids of `audit.enforcement.*` events, which carry none (so
  `OneRequestOneId` is about those of the view and of the response); a logout, which flushes
  the session and its id with it; the lazy build of the runtimes, done under a lock; route and
  DRF names; the text of a record.
- Of the sink: rotation, done by the standard library under the file's lock; a queue or
  a listener handed in from outside, which `close()` leaves alone; two calls of
  `close()` at once.
- The parsing of settings, the system checks, the migration, diagnostics, the Loki and
  Wazuh integrations, the demo: run once and in order, or pure I/O.

## Plan

Left for later: the validation of matches by the engine
and a reader that merges several keys of one scope, the largest parts of modelled
components still missing.
