---------------------------- MODULE LoginCounters ----------------------------
(***************************************************************************)
(* The failure counters of the brute-force rules (rules/builtins/          *)
(* brute_force.py) over either counter store: the in-process one, an LRU   *)
(* dictionary with lazy expiry (rules/stores/counters.py), or Redis, with  *)
(* an atomic increment and an expiry of its own (rules/stores/redis.py).   *)
(*                                                                         *)
(* Every method of a store is one action: the first holds a lock, the      *)
(* second is one round trip.  A counter is named by its client address.    *)
(***************************************************************************)
EXTENDS Naturals, Sequences, FiniteSets, Subsequence, RuleStores

CONSTANTS
  Ips,            \* client addresses
  Threshold,      \* threshold of both rules
  Window,         \* window_seconds, in ticks
  MaxKeys,        \* rule_engine_max_keys (memory)
  PruneInterval,  \* _prune_interval (memory)
  MaxNow,         \* bound: the clock stops there
  Burst           \* bound: failures of one address in one tick

ASSUME CountersAssumption ==
  /\ Faults \subseteq {"redis_error"}
  /\ Threshold \in Nat \ {0} /\ Window \in Nat \ {0} /\ MaxKeys \in Nat \ {0}
  /\ PruneInterval \in Nat \ {0} /\ MaxNow \in Nat /\ Burst \in Nat

VARIABLES
  values,   \* the counters kept: [count, expires]
  order,    \* their keys, least recently used first (memory)
  writes,   \* _writes_since_prune (memory)
  \* History, read by the properties only.
  alarm,    \* the address whose failure the rule just matched, if any
  seen,     \* failures per tick since a login of the address cleared them
  quiet,    \* those of them that the rule got a count for and did not match
  touched   \* the other keys used since the key was

store   == <<values, order, writes>>
history == <<alarm, seen, quiet, touched>>
vars    == <<backend, now, store, history>>

-----------------------------------------------------------------------------
Kept == DOMAIN values

\* An entry is expired from the tick it expires at on.
Expired(ip) == ip \in Kept /\ values[ip].expires <= now

Keep(keys) == [k \in keys |-> values[k]]

\* Moving a key to the most recently used end.
Use(ip, o)       == Append(Without(o, {ip}), ip)

\* The history after a use of key ip.
Touch(ip) ==
  touched' = [k \in Ips |-> IF k = ip THEN {} ELSE touched[k] \union {ip}]

\* The sweep of every PruneInterval-th write.
Swept  == IF writes + 1 >= PruneInterval THEN {k \in Kept : Expired(k)} ELSE {}

Init ==
  /\ StoresStart
  /\ values = <<>> /\ order = <<>> /\ writes = 0
  /\ alarm = {}
  /\ seen = [ip \in Ips |-> [t \in 0..MaxNow |-> 0]]
  /\ quiet = [ip \in Ips |-> [t \in 0..MaxNow |-> 0]]
  /\ touched = [ip \in Ips |-> {}]

-----------------------------------------------------------------------------
(* Defects of the definitions below, each used by one mutant.                *)

\* A new counter starts at zero.
RedisCount_FromZero(ip) ==
  IF ip \in Kept /\ ~Expired(ip) THEN [values[ip] EXCEPT !.count = @ + 1]
  ELSE [count |-> 0, expires |-> now + Window]

\* Every increment pushes the expiry out.
RedisCount_Slides(ip) ==
  [count |-> IF ip \in Kept /\ ~Expired(ip) THEN values[ip].count + 1 ELSE 1,
   expires |-> now + Window]

\* An increment of a kept counter leaves its place in the order.
UseOnIncr_Stays(ip, o) == IF ip \in Kept THEN o ELSE Append(o, ip)

\* The throttle's read takes the counter out.
DropsOnRead_Always(ip) == {ip} \intersect Kept

\* The throttle reads a counter whatever its expiry.
CountOf_Stale(ip) == IF ip \in Kept THEN values[ip].count ELSE 0

-----------------------------------------------------------------------------
(* incr() of either store.                                                   *)

\* Redis has dropped an expired counter and sets the expiry of a new one only.
RedisCount(ip) ==
  IF ip \in Kept /\ ~Expired(ip) THEN [values[ip] EXCEPT !.count = @ + 1]
  ELSE [count |-> 1, expires |-> now + Window]

\* The dictionary counts on whatever entry the sweep has left.
MemoryCount(ip) ==
  IF ip \in Kept \ Swept THEN [values[ip] EXCEPT !.count = @ + 1]
  ELSE [count |-> 1, expires |-> now + Window]

UseOnIncr(ip, o) == Use(ip, o)

\* What the login rule concludes from a count.
Conclude(ip, count) ==
  /\ alarm' = IF count >= Threshold THEN {ip} ELSE {}
  /\ seen' = [seen EXCEPT ![ip][now] = @ + 1]

\* The history of the failures that the rule got a count for and did not match.
Unmatched(ip, count) ==
  quiet' = IF count >= Threshold THEN quiet ELSE [quiet EXCEPT ![ip][now] = @ + 1]

\* The script runs. When its reply is lost, the failure is counted and the rule told of one.
RedisIncr(ip) ==
  /\ backend = "redis"
  /\ values' = [k \in Kept \union {ip} |-> IF k = ip THEN RedisCount(ip) ELSE values[k]]
  /\ \/ Conclude(ip, RedisCount(ip).count) /\ Unmatched(ip, RedisCount(ip).count)
     \/ "redis_error" \in Faults /\ Conclude(ip, 1) /\ UNCHANGED quiet
  /\ UNCHANGED <<order, writes>>

\* A Redis that is not reached counts nothing, and the rule is told of one.
RedisIncrFails(ip) ==
  /\ backend = "redis" /\ "redis_error" \in Faults
  /\ Conclude(ip, 1)
  /\ UNCHANGED <<store, quiet>>

MemoryIncr(ip) ==
  /\ backend = "memory"
  /\ LET used   == UseOnIncr(ip, Without(order, Swept))
         excess == IF Len(used) > MaxKeys THEN Len(used) - MaxKeys ELSE 0
         kept   == SubSeq(used, excess + 1, Len(used)) IN
       /\ order' = kept
       /\ values' = [k \in {kept[i] : i \in DOMAIN kept} |->
                       IF k = ip THEN MemoryCount(ip) ELSE values[k]]
  /\ writes' = IF writes + 1 >= PruneInterval THEN 0 ELSE writes + 1
  /\ Conclude(ip, MemoryCount(ip).count) /\ Unmatched(ip, MemoryCount(ip).count)

-----------------------------------------------------------------------------
(* The rules.                                                                *)

\* BruteForceLoginRule, auth.login.failed.
LoginFailed(ip) ==
  /\ seen[ip][now] < Burst
  /\ RedisIncr(ip) \/ RedisIncrFails(ip) \/ MemoryIncr(ip)
  /\ Touch(ip)
  /\ UNCHANGED now

\* BruteForceLoginRule, auth.login.success: the counter is deleted.
LoginClears(ip) ==
  /\ values' = Keep(Kept \ {ip}) /\ order' = Without(order, {ip})
  /\ alarm' = {}
  /\ seen' = [seen EXCEPT ![ip] = [t \in 0..MaxNow |-> 0]]
  /\ quiet' = [quiet EXCEPT ![ip] = [t \in 0..MaxNow |-> 0]]
  /\ UNCHANGED <<now, writes, touched>>

\* A Redis that is not reached keeps the counter, and answers a read with no failures. A
\* delete whose reply alone is lost is one that took effect: delete() tells nobody.
RedisUnheard ==
  /\ backend = "redis" /\ "redis_error" \in Faults
  /\ alarm' = {}
  /\ UNCHANGED <<now, store, seen, quiet, touched>>

LoginSucceeded(ip) == LoginClears(ip) \/ (ip \in Kept /\ RedisUnheard)

\* What get_int() answers, and the entry it drops on the way.
CountOf(ip)     == IF ip \in Kept /\ ~Expired(ip) THEN values[ip].count ELSE 0
DropsOnRead(ip) == IF Expired(ip) THEN {ip} ELSE {}

Throttled(ip) == CountOf(ip) >= Threshold

\* LoginThrottleRule: get_int(), a use of the key.
ReadCounter(ip) ==
  /\ ip \in Kept
  /\ values' = Keep(Kept \ DropsOnRead(ip))
  /\ order' = IF backend = "redis" THEN order
              ELSE IF DropsOnRead(ip) # {} THEN Without(order, {ip}) ELSE Use(ip, order)
  /\ alarm' = {} /\ Touch(ip)
  /\ UNCHANGED <<now, writes, seen, quiet>>

Throttle(ip) == ReadCounter(ip) \/ (ip \in Kept /\ RedisUnheard)

Tick ==
  /\ now < MaxNow /\ now' = now + 1
  /\ alarm' = {}
  /\ UNCHANGED <<store, seen, quiet, touched>>

LoginStep(ips) == \E ip \in ips : LoginFailed(ip) \/ LoginSucceeded(ip) \/ Throttle(ip)

Next == (LoginStep(Ips) \/ Tick) /\ UNCHANGED backend

Spec == Init /\ [][Next]_vars

-----------------------------------------------------------------------------
(* Properties.                                                               *)

Entries == [count : Nat \ {0}, expires : 1..(MaxNow + Window)]

\* The type of every variable.
TypeOK ==
  /\ backend \in {"memory", "redis"}
  /\ now \in 0..MaxNow /\ writes \in 0..(PruneInterval - 1)
  /\ Kept \subseteq Ips /\ \A ip \in Kept : values[ip] \in Entries
  /\ order \in Seq(Ips)
  /\ alarm \subseteq Ips /\ touched \in [Ips -> SUBSET Ips]
  /\ seen \in [Ips -> [0..MaxNow -> 0..Burst]]
  /\ quiet \in [Ips -> [0..MaxNow -> 0..Burst]]

\* The failures f counts per tick, each by its tick and its number in the tick.
Failures(f) == {x \in (0..now) \X (1..Burst) : x[2] <= f[x[1]]}

\* How many of them came in the last Window ticks.
Recent(f) == Cardinality({x \in Failures(f) : now < x[1] + Window})

\* Failures of the last Window ticks alone are behind an alarm.
BlamesRecent == \A ip \in alarm : Recent(seen[ip]) >= Threshold

\* redis.py:30-32, "a fixed window is not reset on every hit".  Over Redis the rule
\* blames an address only for failures of the last Window ticks that no login has
\* cleared.
AlarmIsRecent == backend = "redis" => BlamesRecent

\* brute_force.py:68-78.  Over either store, an address is throttled only for such
\* failures.
ThrottleIsRecent == \A ip \in Ips : Throttled(ip) => Recent(seen[ip]) >= Threshold

\* brute_force.py:28-41, redis.py:93-100.  However the failures straddle the windows and
\* whenever the throttle reads the counter, fewer than two thresholds of those the rule got
\* a count for in any Window ticks go unmatched, if no counter is evicted; those whose
\* count Redis lost on its way it passes over in any number.
FewGoUnmatched == \A ip \in Ips : Recent(quiet[ip]) <= 2 * (Threshold - 1)

\* counters.py:67-69, 141-143.  A live counter is evicted only when MaxKeys other
\* counters have been used since.
EvictsTheColdest ==
  [][\A ip \in Kept :
       ip \notin DOMAIN values' /\ ~Expired(ip) /\ seen'[ip] = seen[ip]
         => Cardinality(touched'[ip]) >= MaxKeys]_vars

-----------------------------------------------------------------------------
(* What a comment promises and the code does not keep.                       *)

\* counters.py:129-131: deferring the sweep "never returns a stale value".  incr()
\* counts on an expired entry, and the rule blames an address for old failures.
NeverStale == backend = "memory" => BlamesRecent

=============================================================================
