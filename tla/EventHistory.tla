---------------------------- MODULE EventHistory ----------------------------
(***************************************************************************)
(* The event history the rules correlate over (rules/stores/history.py,    *)
(* rules/stores/redis.py) and its reader (ScopedHistoryReader in           *)
(* rules/base.py).  The engine reads the clock when it starts with an      *)
(* event, the rules query the history at that time, and the event is       *)
(* appended under each of its scope keys when they are done; the threads   *)
(* overtake each other in between.                                         *)
(*                                                                         *)
(* An append to the in-process store is one step under its lock.  To Redis *)
(* it is one atomic script per scope key, each of which may fail.  A row   *)
(* is abstracted to its recorded_at; equal rows are different events.      *)
(***************************************************************************)
EXTENDS Naturals, Sequences, FiniteSets, SequencesExt, Subsequence, RuleStores

CONSTANTS
  Workers,         \* the threads evaluating events
  Keys,            \* scope keys, as "ip:..." or "user:..."
  HistoryMaxKeys,  \* history_max_keys (memory)
  MaxEvents,       \* history_max_events_per_key
  StoreWindow,     \* history_max_window_seconds, in ticks (redis)
  Slack,           \* what the life of a Redis key exceeds it by
  RuleWindow,      \* window_seconds of a rule's context requirements
  RuleLimit,       \* max_events of a rule's context requirements
  HistoryEnds,     \* bound: the clock stops there
  EventCap         \* bound: the number of rows appended to a key

\* A rule asks for no longer a window than Redis keeps: 300 or 900 seconds of 3600.
HistoryAssumption ==
  /\ IsFiniteSet(Workers) /\ IsFiniteSet(Keys)
  /\ HistoryMaxKeys \in Nat \ {0} /\ MaxEvents \in Nat \ {0} /\ RuleLimit \in Nat \ {0}
  /\ StoreWindow \in Nat /\ RuleWindow \in 0..StoreWindow /\ Slack \in Nat
  /\ Faults \subseteq {"redis_error"} /\ HistoryEnds \in Nat /\ EventCap \in Nat

VARIABLES
  rows,      \* the rows of each key, in the order of the store
  inserted,  \* the keys of the dictionary, in the order of insertion (memory)
  expires,   \* when the key expires (redis)
  task,      \* the event each worker evaluates or appends
  \* History, read by the properties only.
  logged,    \* every row ever appended to a key, in the order of the store
  evicted,   \* how many of them went with their key (memory)
  younger    \* the keys inserted since the key was (memory)

historyStore == <<rows, inserted, expires>>
historyLogs  == <<logged, evicted, younger>>
historyVars  == <<backend, now, historyStore, task, historyLogs>>

Idle == [pc |-> "idle", at |-> 0, keys |-> {}]

HistoryInit ==
  /\ StoresStart
  /\ rows = [k \in Keys |-> <<>>] /\ inserted = <<>> /\ expires = [k \in Keys |-> 0]
  /\ task = [w \in Workers |-> Idle]
  /\ logged = [k \in Keys |-> <<>>]
  /\ evicted = [k \in Keys |-> 0] /\ younger = [k \in Keys |-> {}]

\* The times a window that ends at the time at leaves behind.
Before(at, window) == {t \in 0..HistoryEnds : t + window <= at}

-----------------------------------------------------------------------------
(* Defects of the definitions below, each used by one mutant.                *)

\* The key inserted last goes.
KeptKeys_First(o) == IF Len(o) > HistoryMaxKeys THEN SubSeq(o, 1, HistoryMaxKeys) ELSE o

-----------------------------------------------------------------------------
(* The stores.                                                               *)

Newest(n, r) == IF Len(r) > n THEN SubSeq(r, Len(r) - n + 1, Len(r)) ELSE r

\* A sorted set with a row added.
Ranked(r, at) ==
  Without(r, (at + 1)..HistoryEnds) \o <<at>> \o Without(r, 0..at)

\* A defect: two events of one time are one member of the set.
Recorded_Dedup(r, at) ==
  LET kept == Without(r, Before(at, StoreWindow))
  IN  IF at \in Range(kept) THEN kept ELSE Newest(MaxEvents, Ranked(kept, at))

\* The script: prune the window, add the row, trim to the cap.
Recorded(r, at) ==
  Newest(MaxEvents, Ranked(Without(r, Before(at, StoreWindow)), at))

\* When the key of a row just appended expires.
Life == now + StoreWindow + Slack

\* The keys the dictionary keeps, out of those inserted in the order o.
KeptKeys(o) == Newest(HistoryMaxKeys, o)

\* query() with the window and limit events() gives it, at the reader's time.
Answer(w, k) ==
  Newest(RuleLimit, Without(rows[k], Before(task[w].at, RuleWindow)))

-----------------------------------------------------------------------------
(* The engine.                                                               *)

Pending(k) == {w \in Workers : k \in task[w].keys}

\* _build_evaluation_context(): the clock and the scope keys of the event.
Start(w, keys) ==
  /\ task[w].pc = "idle"
  /\ \A k \in keys : Len(logged[k]) + Cardinality(Pending(k)) < EventCap
  /\ task' = [task EXCEPT ![w] = [pc |-> "evaluate", at |-> now, keys |-> keys]]
  /\ UNCHANGED <<now, historyStore, historyLogs>>

\* An event of no scope leaves the history alone.
AppendNothing(w) ==
  /\ task[w].pc = "evaluate" /\ task[w].keys = {}
  /\ task' = [task EXCEPT ![w] = Idle]
  /\ UNCHANGED <<now, historyStore, historyLogs>>

\* The keys new to the dictionary are inserted in some order; it then drops the
\* keys inserted first.
AppendMemory(w) ==
  /\ backend = "memory" /\ task[w].pc = "evaluate" /\ task[w].keys # {}
  /\ logged' = [k \in Keys |-> IF k \in task[w].keys THEN Append(logged[k], task[w].at)
                               ELSE logged[k]]
  /\ \E new \in SetToSeqs(task[w].keys \ Range(inserted)) :
       LET all  == inserted \o new
           kept == KeptKeys(all)
           gone == Range(all) \ Range(kept)
           full == [k \in Keys |->
                      IF k \in task[w].keys
                      THEN Newest(MaxEvents, Append(rows[k], task[w].at)) ELSE rows[k]] IN
         /\ inserted' = kept
         /\ rows' = [k \in Keys |-> IF k \in gone THEN <<>> ELSE full[k]]
         /\ evicted' = [k \in Keys |-> IF k \in gone THEN Len(logged'[k]) ELSE evicted[k]]
         /\ younger' = [k \in Keys |->
              IF k \in Range(new) THEN {new[i] : i \in {j \in DOMAIN new :
                                         \E h \in DOMAIN new : h < j /\ new[h] = k}}
              ELSE younger[k] \union Range(new)]
  /\ task' = [task EXCEPT ![w] = Idle]
  /\ UNCHANGED <<now, expires>>

\* One script per key, in any order; a key that fails is skipped. A script whose reply alone
\* is lost has taken effect: append() tells nobody.
AppendRedis(w, k) ==
  /\ backend = "redis" /\ task[w].pc \in {"evaluate", "append"} /\ k \in task[w].keys
  /\ \/ /\ rows' = [rows EXCEPT ![k] = Recorded(@, task[w].at)]
        /\ expires' = [expires EXCEPT ![k] = Life]
        /\ logged' = [logged EXCEPT ![k] = Ranked(@, task[w].at)]
     \/ "redis_error" \in Faults /\ UNCHANGED <<rows, expires, logged>>
  /\ task' = [task EXCEPT ![w] =
       IF task[w].keys = {k} THEN Idle
       ELSE [task[w] EXCEPT !.pc = "append", !.keys = task[w].keys \ {k}]]
  /\ UNCHANGED <<now, inserted, evicted, younger>>

HistoryTick ==
  /\ now < HistoryEnds /\ now' = now + 1
  /\ rows' = [k \in Keys |-> IF backend = "redis" /\ expires[k] <= now + 1 THEN <<>> ELSE rows[k]]
  /\ UNCHANGED <<inserted, expires, task, historyLogs>>

EngineStep ==
  \E w \in Workers :
     \/ \E keys \in SUBSET Keys : Start(w, keys)
     \/ AppendNothing(w)
     \/ AppendMemory(w)
     \/ \E k \in Keys : AppendRedis(w, k)

HistoryNext == (EngineStep \/ HistoryTick) /\ UNCHANGED backend

HistorySpec == HistoryInit /\ [][HistoryNext]_historyVars

-----------------------------------------------------------------------------
(* Properties.                                                               *)

Tasks == [pc : {"idle", "evaluate", "append"}, at : 0..HistoryEnds, keys : SUBSET Keys]

\* The type of every variable, and the caps on rows and keys.
HistoryTypeOK ==
  /\ backend \in {"memory", "redis"} /\ now \in 0..HistoryEnds
  /\ \A k \in Keys : rows[k] \in Seq(0..HistoryEnds) /\ Len(rows[k]) <= MaxEvents
  /\ inserted \in Seq(Keys) /\ IsInjective(inserted) /\ Len(inserted) <= HistoryMaxKeys
  /\ expires \in [Keys -> Nat] /\ task \in [Workers -> Tasks]
  /\ \A k \in Keys : logged[k] \in Seq(0..HistoryEnds)
  /\ evicted \in [Keys -> 0..EventCap] /\ younger \in [Keys -> SUBSET Keys]

\* As many rows as a query may return come after the i-th logged one of key k, or
\* as many of the same time stand beside it.
Crowded(k, i) ==
  LET later == {j \in DOMAIN logged[k] \ {i} :
                  j > i \/ (backend = "redis" /\ logged[k][j] = logged[k][i])}
  IN  Cardinality(later) >= MaxEvents \/ Cardinality(later) >= RuleLimit

\* The reader's clock is so old that Redis has let go of the rows of time at: an
\* append of a later event pruned them, or the life of the key ended.
Overtaken(w, k, at) ==
  /\ backend = "redis"
  /\ \/ \E t \in Range(logged[k]) : task[w].at < t /\ at + StoreWindow <= t
     \/ task[w].at + Slack < now /\ at + StoreWindow + Slack <= now

\* The rows of time at under key k that worker w should find.
Due(w, k, at) ==
  {i \in DOMAIN logged[k] :
     logged[k][i] = at /\ i > evicted[k] /\ ~Crowded(k, i) /\ ~Overtaken(w, k, at)}

\* base.py:120-158.  Whatever order the threads append in, a rule sees every row of
\* its window, those of the same instant each for itself, unless the cap took it,
\* its key was evicted, or the rule lags behind the store's own window.
SeenUnlessCrowdedOut ==
  \A w \in Workers : task[w].pc = "evaluate" =>
    \A k \in task[w].keys, at \in 0..HistoryEnds :
      at + RuleWindow > task[w].at =>
        Cardinality({i \in DOMAIN Answer(w, k) : Answer(w, k)[i] = at})
          >= Cardinality(Due(w, k, at))

\* history.py:88-91.  A key is evicted only for keys inserted after it,
\* HistoryMaxKeys of them.
EvictsTheFirstInserted ==
  [][\A k \in Keys : evicted'[k] # evicted[k] => Cardinality(younger'[k]) >= HistoryMaxKeys]_historyVars
=============================================================================
