--------------------------- MODULE RuleDecisions ---------------------------
(***************************************************************************)
(* Whom a rule's match shuts out: the identity of a visitor at ingress     *)
(* (ENF scopes.py, middleware.py) and in the events of the request (DJ     *)
(* events.py, RULES events.py), the built-in rules that read it, the       *)
(* action a match resolves to (actions.py, ENF config.py) and the scopes   *)
(* and lifetime of the blocks it imposes (enforcer.py).                    *)
(*                                                                         *)
(* Blocks and counters do not expire and no store fails: those are the     *)
(* subjects of other modules.                                              *)
(***************************************************************************)
EXTENDS ClientAddress, FiniteSets

CONSTANTS
  Setups,      \* settings: see Setup
  Threshold,   \* of the counting rules
  DefaultTtl,  \* default_temp_ttl
  VisitCap     \* bound: visits

ASSUME DecisionsAssumption ==
  /\ DefaultTtl \in Nat \ {0} /\ Threshold \in Nat \ {0}
  /\ \A s \in Setups : s.entry.ttl \in Nat /\ s.blockTtl \in Nat

\* Whoever visits is not itself a trusted proxy, and all it comes through are: that is what
\* trusted_proxy_cidrs is for. What it forged may be anything.
ASSUME VisitsAssumption ==
  /\ Trusted \subseteq Addresses /\ Nobody \notin Addresses /\ Blank \notin Addresses
  /\ \A s \in Setups :
       /\ s.count \in Nat
       /\ \A v \in s.visits :
            /\ v.host \in Addresses \ Trusted /\ v.chain \in Seq(Trusted)
            /\ v.forged \in Seq(STRING) /\ v.what \in {"ok", "error", "change"}

VARIABLES
  setup,    \* the settings
  phase,    \* of the current visit: "idle", "safe", "view", "respond"
  visit,    \* the current visit
  counts,   \* the counter store: a set of keys with their counts
  history,  \* rule_attrs in the event history: [ip, route, path]
  bans,     \* the blocks imposed: [type, value, ttl, rule], ttl 0 for ever
  past,     \* the visits so far
  struck    \* whom blocking matches were about, as [type, value] of their visits

decisionVars == <<setup, phase, visit, counts, history, bans, past, struck>>

\* A setup: trusted_proxy_count, emit_session_id, whether session.id is in
\* sensitive_key_allowlist, apply_via_sink, the rule_actions entry of one rule in place
\* of its default, the TTL that block_rules gives every rule (0: none), the decision of
\* resource_enumeration, whether its matches reach block_severity; and the visits.
NoEntry == [rule |-> "none", action |-> "observe", ttl |-> 0, scopes |-> {}]

\* A visit: the host, its proxies and what it forged; its user and whether the user is
\* known before the view; its session; what it does and on which path of which route.
NoVisit ==
  [host |-> Nobody, chain |-> <<>>, forged |-> <<>>, user |-> Nobody, early |-> FALSE,
   session |-> Nobody, what |-> "ok", route |-> "r", path |-> "a"]

-----------------------------------------------------------------------------
(* Who a visitor is.                                                         *)

Address(v) == ResolveClientIp(Sent(v), setup.count)

Session(v) == IF setup.emit THEN v.session ELSE Nobody

Identity(user, session, ip) == [user |-> user, session |-> session, ip |-> ip]

IngressSummary(v) ==
  Identity(IF v.early THEN v.user ELSE Nobody, Session(v), Address(v))

\* What the audit middleware knows of a request: its session id went through scrub(), its
\* user is final after the view.
RequestInfo(v) ==
  [srcip |-> Address(v), user |-> v.user, route |-> v.route, path |-> v.path,
   session |-> IF Session(v) # Nobody /\ ~setup.listed THEN "redacted" ELSE Session(v)]

\* django-auditlog (its middleware): the first entry of X-Forwarded-For, whoever wrote it,
\* and without the header REMOTE_ADDR.
RemoteAddr(v) ==
  LET meta == Sent(v) IN
  CASE meta.header = <<>> -> meta.remote
    [] meta.header # <<>> /\ meta.header[1] = Blank -> Nobody
    [] OTHER -> meta.header[1]

\* What a model event knows: the context's session id, and what auditlog knew of the request
\* before the view.
LogEntry(v) ==
  [srcip |-> RemoteAddr(v), user |-> IF v.early THEN v.user ELSE Nobody,
   route |-> Nobody, path |-> Nobody, session |-> Session(v)]

\* The attributes of an event; without a session id in its data the context's.
LogAttributes(v, type, data) ==
  [type |-> type, source |-> data.srcip, user |-> data.user, route |-> data.route,
   path |-> data.path, session |-> IF data.session = Nobody THEN Session(v) ELSE data.session]

\* A defect: source.address has no alias.
FromMapping_NoAddress(event) ==
  [event |-> event, summary |-> Identity(event.user, event.session, Nobody)]

\* An event for the rules, which reads user.id, session.id and source.address under
\* the names the scopes are extracted by.
FromMapping(event) ==
  [event |-> event, summary |-> Identity(event.user, event.session, event.source)]

\* What a match carries for the sink, which does not know the user.
SinkSummary(rec) == Identity(Nobody, rec.summary.session, rec.event.source)

\* The scope of a type in a summary, if it has one.
ScopeKeys(summary, type) ==
  IF summary[type] = Nobody THEN {} ELSE {[type |-> type, value |-> summary[type]]}

\* The scopes of the types a block may have, a route none of them.
BlockScopes(summary, types) ==
  UNION {ScopeKeys(summary, t) : t \in types \intersect {"user", "session", "ip"}}

-----------------------------------------------------------------------------
(* The rules.                                                                *)

Count(key) ==
  IF \E c \in counts : c.key = key THEN (CHOOSE c \in counts : c.key = key).n ELSE 0

Incremented(key) ==
  {c \in counts : c.key # key} \union {[key |-> key, n |-> Count(key) + 1]}

ErrorKey(event) == [rule |-> "repeated_client_error", source |-> event.source, path |-> "any"]
RouteKey(v)     == [rule |-> "repeated_route", source |-> Address(v), path |-> v.path]

\* repeated_client_error.
ErrorsRepeat(event) ==
  /\ event.type = "error" /\ event.source # Nobody
  /\ Count(ErrorKey(event)) + 1 >= Threshold

\* An event in the history of its address, with the attributes resource_enumeration adds.
HistoryRow(rec) ==
  [ip |-> rec.summary.ip, route |-> rec.event.route, path |-> rec.event.path]

\* resource_enumeration: paths of one route visited from one address.
Enumerates(rec) ==
  LET row == HistoryRow(rec) IN
  /\ rec.event.type \in {"ok", "error"}
  /\ Cardinality({row.path} \union
       {h.path : h \in {g \in history : g.ip = row.ip /\ g.route = row.route}})
     >= Threshold

\* sensitive_field_change: every update of these visits changes a sensitive field.
ChangesSensitive(rec) == rec.event.type = "model.update"

Matching(rec) ==
  {r \in {"repeated_client_error", "resource_enumeration", "sensitive_field_change"} :
     CASE r = "repeated_client_error" -> ErrorsRepeat(rec.event)
       [] r = "resource_enumeration" -> Enumerates(rec)
       [] r = "sensitive_field_change" -> ChangesSensitive(rec)}

Decision(rule) ==
  CASE rule = "repeated_route" -> "temp_block"
    [] rule = "resource_enumeration" -> setup.decision
    [] OTHER -> "none"

-----------------------------------------------------------------------------
(* What a match resolves to.                                                 *)

RuleAction(action, ttl, scopes) == [action |-> action, ttl |-> ttl, scopes |-> scopes]

DefaultRuleActions(rule) ==
  IF rule = "sensitive_field_change"
  THEN RuleAction("persist_block", 0, {"user", "session"})
  ELSE RuleAction("temp_block", 0, {"ip"})

\* The settings override the defaults; resource_enumeration has none.
IsConfigured(rule) == rule = setup.entry.rule \/ rule # "resource_enumeration"

ConfiguredAction(rule) ==
  IF rule = setup.entry.rule
  THEN RuleAction(setup.entry.action, setup.entry.ttl,
             IF setup.entry.scopes = {} THEN {"ip"} ELSE setup.entry.scopes)
  ELSE DefaultRuleActions(rule)

\* A defect: a permanent block of a rule's own blocks what any of its blocks does.
DecidedAction_IpForAll(rule) ==
  IF Decision(rule) = "none" THEN RuleAction("observe", 0, {"ip"})
  ELSE RuleAction(Decision(rule), 0, {"ip"})

\* Without an entry the match decides, a permanent block never for an address.
DecidedAction(rule) ==
  CASE Decision(rule) = "persist_block" -> RuleAction("persist_block", 0, {"user", "session"})
    [] Decision(rule) = "none" -> RuleAction("observe", 0, {"ip"})
    [] OTHER -> RuleAction(Decision(rule), 0, {"ip"})

ResolveRuleAction(rule) ==
  IF IsConfigured(rule) THEN ConfiguredAction(rule)
  ELSE IF setup.blockTtl > 0 THEN RuleAction("temp_block", setup.blockTtl, {"ip"})
  ELSE DecidedAction(rule)

IsBlocking(action) == action.action \in {"block", "temp_block", "persist_block"}

\* A "block" is temporary but for a match of enough severity; 0 is for ever.
BlockTtl(rule, action) ==
  IF action.action = "persist_block" \/ (action.action = "block" /\ setup.severe) THEN 0
  ELSE IF action.ttl > 0 THEN action.ttl ELSE DefaultTtl

\* The blocks of a match of rule.
Imposed(rule, summary) ==
  LET action == ResolveRuleAction(rule) IN
  IF ~IsBlocking(action) THEN {}
  ELSE {[type |-> s.type, value |-> s.value, ttl |-> BlockTtl(rule, action), rule |-> rule] :
          s \in BlockScopes(summary, action.scopes)}

-----------------------------------------------------------------------------
(* Whom it is about, whatever the code makes of it.                          *)

\* The last host a request came from that the configured proxies vouch for.
Responsible(v) ==
  LET hops == <<v.host>> \o v.chain IN
  IF setup.count > 0 /\ Len(v.chain) >= setup.count
  THEN hops[Len(hops) - setup.count] ELSE hops[Len(hops)]

\* Who v is at ingress.
Visitor(v) ==
  Identity(IF v.early THEN v.user ELSE Nobody, Session(v), Responsible(v))

\* Who a blocking match of rule at v's event should shut out: not a session the event has
\* no id of, the user only if known by then and with the event at hand, the host only where
\* it was resolved.
Owed(rule, v, type, sink) ==
  LET action == ResolveRuleAction(rule)
      types  == action.scopes
                  \ ((IF type # "model.update" /\ type # "pre" /\ ~setup.listed
                      THEN {"session"} ELSE {})
                     \union (IF sink THEN {"user"} ELSE {})
                     \union (IF type = "model.update" THEN {"ip"} ELSE {})) IN
  IF ~IsBlocking(action) THEN {}
  ELSE BlockScopes([user |-> IF type \in {"pre", "model.update"} /\ ~v.early THEN Nobody
                             ELSE v.user,
                    session |-> Session(v), ip |-> Responsible(v)], types)

-----------------------------------------------------------------------------
(* A visit.                                                                  *)

DecisionInit ==
  /\ setup \in Setups /\ phase = "idle" /\ visit = NoVisit
  /\ counts = {} /\ history = {} /\ bans = {} /\ past = <<>> /\ struck = {}

IsBanned(summary) ==
  \E s \in BlockScopes(summary, {"user", "session", "ip"}), b \in bans :
    b.type = s.type /\ b.value = s.value

Visit(v) ==
  /\ phase = "idle" /\ Len(past) < VisitCap
  /\ visit' = v /\ past' = Append(past, v)
  /\ phase' = IF IsBanned(IngressSummary(v)) THEN "idle"
              ELSE IF setup.sink THEN "view" ELSE "safe"
  /\ UNCHANGED <<setup, counts, history, bans, struck>>

\* The safe rule before the view, repeated_route. A blocking match denies the visit even
\* if its action has found nobody to block.
SafeRules ==
  /\ phase = "safe"
  /\ counts' = IF Address(visit) = Nobody THEN counts ELSE Incremented(RouteKey(visit))
  /\ LET fires == Address(visit) # Nobody /\ Count(RouteKey(visit)) + 1 >= Threshold IN
       /\ bans' = bans \union
            (IF fires THEN Imposed("repeated_route", IngressSummary(visit)) ELSE {})
       /\ struck' = struck \union
            (IF fires THEN Owed("repeated_route", visit, "pre", FALSE) ELSE {})
       /\ phase' = IF fires /\ IsBlocking(ResolveRuleAction("repeated_route")) THEN "idle"
                   ELSE "view"
  /\ UNCHANGED <<setup, visit, history, past>>

\* An event is recorded: its matches are applied, by the consumer or the sink.
Recorded(rec) ==
  LET summary == IF setup.sink THEN SinkSummary(rec) ELSE rec.summary IN
  /\ bans' = bans \union UNION {Imposed(r, summary) : r \in Matching(rec)}
  /\ struck' = struck \union
       UNION {Owed(r, visit, rec.event.type, setup.sink) : r \in Matching(rec)}
  /\ counts' = IF rec.event.type = "error" /\ rec.event.source # Nobody
               THEN Incremented(ErrorKey(rec.event)) ELSE counts
  /\ history' = IF rec.event.route = Nobody THEN history ELSE history \union {HistoryRow(rec)}
  /\ UNCHANGED <<setup, visit, past>>

\* The view updates a sensitive field.
Save ==
  /\ phase = "view" /\ visit.what = "change" /\ phase' = "respond"
  /\ Recorded(FromMapping(LogAttributes(visit, "model.update", LogEntry(visit))))

Answer ==
  /\ phase = "respond" \/ (phase = "view" /\ visit.what # "change")
  /\ phase' = "idle"
  /\ LET type == IF visit.what = "change" THEN "ok" ELSE visit.what IN
       Recorded(FromMapping(LogAttributes(visit, type, RequestInfo(visit))))

DecisionNext == (\E v \in setup.visits : Visit(v)) \/ SafeRules \/ Save \/ Answer

-----------------------------------------------------------------------------
(* Properties.                                                               *)

\* ENF scopes.py:19-42, runtime.py:70-88, RULES events.py:131-166.  Whomever a blocking
\* match was about, by the scopes of its action, gets no later request past ingress,
\* however events name him; but for a session the response event has redacted, the user
\* on the sink's path or of a model event he is known too late for, and the host of one.
ShutOutStaysOut ==
  phase \in {"safe", "view"} =>
    \A t \in {"user", "session", "ip"} :
      [type |-> t, value |-> Visitor(visit)[t]] \notin struck

Visits(ip) == {i \in DOMAIN past : Responsible(past[i]) = ip}

\* The changes of sensitive fields that auditlog attributes to ip.
ChangesBy(ip) == {i \in DOMAIN past : past[i].what = "change" /\ RemoteAddr(past[i]) = ip}

Earned(b) ==
  IF b.rule = "sensitive_field_change" THEN ChangesBy(b.value) # {}
  ELSE Cardinality(Visits(b.value)) >= Threshold

\* core ip.py:49-114, ENF scopes.py:3-11, architecture.md:44-45.  Whatever its header claims,
\* a request counts against the host its proxies vouch for: a counting rule blocks an
\* address only after as many requests of its own as the threshold.  One rule is not in
\* the promise's reach: a change of a sensitive field blocks the address it names itself.
OnlyOwnRequestsCount == \A b \in bans : b.type = "ip" => Earned(b)

\* actions.py:33-104, enforcer.py:77-149.  A block for ever is one that the settings or the
\* rule decided to be permanent or severe; of an address, only if an entry of the
\* settings or severity says so.
ForEverIsDeliberate ==
  \A b \in bans :
    LET entry    == setup.entry.rule = b.rule
        decided  == IF entry THEN setup.entry.action
                    ELSE IF b.rule = "sensitive_field_change" THEN "persist_block"
                    ELSE Decision(b.rule) IN
    b.ttl = 0 =>
      /\ decided = "persist_block" \/ (decided = "block" /\ setup.severe)
      /\ b.type = "ip" =>
           \/ entry /\ (setup.entry.scopes = {} \/ "ip" \in setup.entry.scopes)
           \/ decided = "block" /\ setup.severe

-----------------------------------------------------------------------------
(* What the documentation promises and the code does not keep.               *)

\* configuration.md:89-94: block_rules "sets the temp-block TTL (seconds) per rule name".
\* A rule with an entry, the defaults' included, is resolved without a look at it.
BlockRulesSetTheTtl ==
  setup.blockTtl > 0 =>
    \A b \in bans : b.ttl \in {0, setup.blockTtl} \/ b.rule = setup.entry.rule
=============================================================================
