----------------------- MODULE MCEnforcementPipeline -----------------------
(* Small instances of EnforcementPipeline: an ip and a user scope, a rule    *)
(* that blocks both, one that alerts and one that blocks the user only; of   *)
(* RuleDecisions, which says whom such a rule blocks, and of AuditRecord,    *)
(* which says what of an event is in its line of the log.                    *)
EXTENDS EnforcementPipeline, RuleDecisions, AuditRecord, TLC

CONSTANTS ip, user, brute, enum, throttle, w1

MCScopes == {ip, user}
MCTypeOf == (ip :> "ip") @@ (user :> "user")
MCPaths  == {<<ip>>, <<user, ip>>}

MCRules  == {brute, enum, throttle}
MCOrder  == <<throttle, enum, brute>>
MCSafe   == {throttle, enum}
MCAction ==
  (brute    :> [kind |-> "block", types |-> {"ip", "user"}]) @@
  (enum     :> [kind |-> "alert", types |-> {"ip"}]) @@
  (throttle :> [kind |-> "block", types |-> {"user"}])

-----------------------------------------------------------------------------
(* Visits: two hosts, proxies p and q, a session and a user for each host.   *)

MCTrusted   == {"p", "q"}
MCAddresses == {"c", "d", "p", "q"}

Of(host) == IF host = "c" THEN [user |-> "uc", early |-> TRUE, session |-> "sc"]
            ELSE [user |-> "ud", early |-> FALSE, session |-> "sd"]
Other(host) == IF host = "c" THEN "d" ELSE "c"

Does(host, what, route, path, chain, forged) ==
  [host |-> host, chain |-> chain, forged |-> forged, what |-> what, route |-> route,
   path |-> path, user |-> Of(host).user, early |-> Of(host).early,
   session |-> Of(host).session]

\* Ways to the application, honest and not.
Ways(host) ==
  {<<chain, forged>> : chain \in {<<>>, <<"p">>, <<"p", "q">>},
                       forged \in {<<>>, <<Other(host)>>, <<Other(host), "q">>}}
    \union {<<<<"p">>, <<"junk", "blank">>>>}

OnAllWays ==
  UNION {{Does(h, "error", "r", "a", w[1], w[2]) : w \in Ways(h)} : h \in {"c", "d"}}

OfAllKinds ==
  UNION {{Does(h, "error", "r", "a", <<"p">>, <<>>), Does(h, "ok", "r", "b", <<"p">>, <<>>),
          Does(h, "ok", "r2", "c", <<"p">>, <<>>),
          Does(h, "change", "r", "a", <<"p">>, IF h = "c" THEN <<"d">> ELSE <<>>)} :
           h \in {"c", "d"}}

Setup(count, entry, visits) ==
  [count |-> count, emit |-> TRUE, listed |-> TRUE, sink |-> FALSE, entry |-> entry,
   blockTtl |-> 0, decision |-> "none", severe |-> FALSE, visits |-> visits]

RuleEntry(rule, action, ttl, scopes) ==
  [rule |-> rule, action |-> action, ttl |-> ttl, scopes |-> scopes]

MCEntries ==
  {NoEntry,
   RuleEntry("repeated_client_error", "persist_block", 0, {}),
   RuleEntry("repeated_client_error", "block", 60, {"user", "session", "ip"}),
   RuleEntry("repeated_route", "block", 60, {"user", "session"}),
   RuleEntry("repeated_route", "alert", 0, {}),
   RuleEntry("sensitive_field_change", "temp_block", 0, {"user", "ip"})}

MCSetups ==
  {Setup(n, e, OnAllWays) : n \in 0..2,
     e \in {NoEntry, RuleEntry("repeated_route", "observe", 0, {})}}
    \union
  {[Setup(1, e, OfAllKinds) EXCEPT !.emit = b[1], !.listed = b[2], !.sink = b[3], !.severe = b[4]] :
     e \in MCEntries,
     b \in {<<TRUE, TRUE, FALSE, TRUE>>, <<TRUE, FALSE, FALSE, FALSE>>, <<FALSE, FALSE, FALSE, TRUE>>,
            <<TRUE, TRUE, TRUE, FALSE>>}}
    \union
  {[Setup(1, RuleEntry("repeated_route", "observe", 0, {}), OfAllKinds) EXCEPT
      !.decision = d, !.blockTtl = t, !.severe = b] :
     d \in {"alert", "temp_block", "persist_block", "block"}, t \in {0, 60}, b \in BOOLEAN}

-----------------------------------------------------------------------------
(* Records of up to two levels. Denied is the name <<"p", "w">>, and a stray *)
(* empty one; <<"p", "w", "x">> is allowed.                                  *)

MCSensitiveNames == {<<"p", "w">>, <<"-">>}
MCAllowedNames   == {<<"p", "w", "-", "x">>}
MCHiddenKeys == {<<"p", "w">>, <<"x", "p", "-", "w">>, <<"p", "w", "x", "x">>}
MCShownKeys  == {<<"x">>, <<"w", "p">>, <<"-">>, <<"p", "w", "x">>}
MCBodyFields == {<<"x">>, <<"p", "w">>}

Bytes  == Node("bytes", <<"b">>, <<>>)
Plains == {Text(<<"a", "a">>), None}
Odd    == {Text(<<"a", "s", "s">>), Text(<<"a", "a", "a", "a">>), Text(<<"a", "a", "s", "s">>),
           Bytes, Node("set", <<>>, <<>>), Node("loop", <<>>, <<>>)}
Objects == {Node("object", <<"s", "s">>, <<>>), Node("enum", <<"s", "s">>, <<>>),
            Node("enum", <<"a", "a", "s", "s">>, <<>>)}
Leaves == Plains \union Odd \union Objects

Holding(values) ==
  {Node("list", <<>>, <<Entry(<<>>, v), Entry(<<>>, Text(<<"a">>))>>) : v \in values}
    \union {MapOf(<<Entry(k, v)>>) : k \in MCHiddenKeys \union MCShownKeys, v \in values}

Long  == Node("list", <<>>, [i \in 1..4 |-> Entry(<<>>, Text(<<"a">>))])
Trees == Leaves \union Holding(Leaves) \union {Long}

Attributes ==
  LET names == MCHiddenKeys \union MCShownKeys \union {<<"event_type">>, NumberKey}
      With(k, v, id) == MapOf(<<Entry(k, v), Entry(<<"session.id">>, id)>>) IN
  {With(k, v, Text(<<"s", "s">>)) : k \in names, v \in Leaves}
    \union {With(<<"x">>, v, Text(<<"s", "s">>)) : v \in Trees \union Holding(Trees)}
    \union {With(k, v, Text(<<"a">>)) : k \in names, v \in Plains \union Holding(Plains)}

MCBodies ==
  [wanted : BOOLEAN, json : BOOLEAN, large : BOOLEAN,
   declared : {"none", "malformed", "negative", "large", "fits"},
   data : {Error, NoBody, Long} \union
          {MapOf(<<Entry(<<"u">>, Text(<<"a">>)), Entry(k, v)>>) :
             k \in {<<"x">>, <<"p", "w">>, <<"u", "u">>}, v \in {Text(<<"a">>), Text(<<"s", "s">>)}}]

Few == MapOf(<<Entry(<<"x">>, Text(<<"a">>)), Entry(<<"request_id">>, Text(<<"a">>))>>)

MCSources ==
  [fields : Attributes, body : {Unread}, additions : {Few}, emitted : {TRUE}]
    \union [fields : {Few}, body : {Unread}, additions : Attributes, emitted : BOOLEAN]
    \union [fields : {Few}, body : MCBodies, additions : {Few}, emitted : {TRUE}]

-----------------------------------------------------------------------------
(* Either requests run, or visits are decided, or a record is made.          *)

NoSource == [fields |-> Few, body |-> Unread, additions |-> Few, emitted |-> TRUE]

NoRecord   == source = NoSource /\ stage = "idle" /\ event = Few /\ more = Few /\ line = NoLine
NoDecision ==
  /\ setup = Setup(0, NoEntry, {}) /\ phase = "none" /\ visit = NoVisit
  /\ counts = {} /\ history = {} /\ bans = {} /\ past = <<>> /\ struck = {}

MCInit ==
  \/ Init /\ NoRecord /\ NoDecision
  \/ Init /\ viaSink /\ NoRecord /\ DecisionInit
  \/ Init /\ viaSink /\ NoDecision /\ RecordInit

\* A record is finished, or all visits are over.
Over ==
  /\ stage = "done" \/ (phase = "idle" /\ Len(past) = VisitCap)
  /\ UNCHANGED <<vars, recordVars, decisionVars>>

MCNext ==
  \/ stage = "idle" /\ phase = "none" /\ Next /\ UNCHANGED <<recordVars, decisionVars>>
  \/ DecisionNext /\ UNCHANGED <<vars, recordVars>>
  \/ RecordNext /\ UNCHANGED <<vars, decisionVars>>
  \/ Over

MCSpec == MCInit /\ [][MCNext]_<<vars, recordVars, decisionVars>>

PipelineSpec ==
  /\ Init /\ NoRecord /\ NoDecision
  /\ [][Next /\ UNCHANGED <<recordVars, decisionVars>>]_<<vars, recordVars, decisionVars>>

DecisionsSpec ==
  /\ Init /\ NoRecord /\ DecisionInit
  /\ [][Over \/ (DecisionNext /\ UNCHANGED <<vars, recordVars>>)]_<<vars, recordVars, decisionVars>>

MCFairSpec == MCSpec /\ \A w \in Workers : WF_vars(Serve(w))
=============================================================================
