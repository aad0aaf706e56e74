-------------------------- MODULE EnforcementProofs --------------------------
(* The safety of EnforcementPipeline and of RuleDecisions: for every set of  *)
(* scopes, rules, workers and paths, every resolution of the rules and every *)
(* combination of faults; and for every set of settings, visits, addresses   *)
(* and trusted proxies, whatever a header claims.                            *)
EXTENDS EnforcementPipeline, RuleDecisions, SubsequenceProofs, FiniteSetTheorems, TLAPS

-----------------------------------------------------------------------------
(* EnforcementPipeline.                                                      *)

-----------------------------------------------------------------------------
(* The inductive invariant: what holds of the request of a worker between    *)
(* any two steps.                                                            *)

\* What a match wrote is announced, or being announced, or the store raised on it.
Announced(r) ==
  /\ r.told \subseteq r.wrote /\ r.match \X r.built \subseteq r.wrote
  /\ r.at # "block" => r.match = {} /\ r.built = {}
  /\ \A m \in r.wrote \ r.told : m[1] \in r.torn \/ (m[1] \in r.match /\ m[2] \in r.built)

\* A denial has its reason, and an outage of a fail-closed path is one.
Reasoned(r) ==
  /\ r.at \in {"check", "evaluate", "view"} \/ r.stage = "egress" => ~r.denied
  /\ r.stage = "ingress" /\ r.at \in {"check", "evaluate", "apply", "block"} =>
       "ingress" \notin r.erred
  /\ r.left \subseteq r.found
  /\ r.stage = "ingress" /\ r.at = "block" => \E rule \in r.found : Blocks(rule)
  /\ "check" \in r.erred =>
       "evaluation_failed" \in r.events /\ (r.closed => r.at = "done" /\ r.denied)
  /\ r.denied =>
       \/ "blocked" \in r.events
       \/ r.closed /\ "check" \in r.erred
       \/ "ingress" \notin r.erred /\ \E rule \in r.found : Blocks(rule)

\* The event whose append to the history is still to come.
Pending(r) ==
  IF r.stage = "egress" /\ (r.at = "evaluate" \/ (r.at \in {"apply", "block"} /\ r.pass = "sink"))
  THEN 1 ELSE 0

CountedAtMostOnce(r) ==
  /\ r.at = "check" => r.stage = "ingress"
  /\ r.appended + Pending(r) <= r.recorded
  /\ "engine" \notin r.erred => r.appended + Pending(r) = r.recorded

\* Before the view the matches are applied by the caller alone, and a blocking one is
\* still to be applied, or being applied, or has denied the request.
Denies(r, sink) ==
  r.stage = "ingress" =>
    /\ r.at \in {"check", "evaluate"} => r.found = {}
    /\ r.at = "evaluate" => sink = FALSE
    /\ r.at \in {"apply", "block"} => r.pass = "caller"
    /\ r.at = "apply" /\ ~r.denied => \A rule \in r.found : Blocks(rule) => rule \in r.left
    /\ r.at = "view" /\ "ingress" \notin r.erred => \A rule \in r.found : ~Blocks(rule)

Once(r) ==
  \A rule \in Rules : r.applied[rule] <= 1 /\ (rule \in r.left => r.applied[rule] = 0)

Good(r, sink) == Announced(r) /\ Reasoned(r) /\ CountedAtMostOnce(r) /\ Denies(r, sink) /\ Once(r)

IInv == TypeOK /\ \A w \in Workers : Good(req[w], viaSink)

\* A step of w that leaves its request good.
Moves(w) ==
  /\ blocks' \subseteq Scopes
  /\ \E after \in Requests : Good(after, viaSink) /\ req' = [req EXCEPT ![w] = after]

-----------------------------------------------------------------------------
(* The helpers.                                                              *)

\* Enforcement's own events never count.
LEMMA EmittingEvents ==
  ASSUME NEW r \in Requests, NEW types \in SUBSET Emitted
  PROVE  /\ Emitting(r, types) \in Requests
         /\ Emitting(r, types) = [r EXCEPT !.events = r.events \union types]
<1>1. {t \in types : ~Internal(t)} = {}
  BY DEF Emitted, Internal
<1>2. Cardinality({t \in types : ~Internal(t)}) = 0
  BY <1>1, FS_EmptySet
<1>3. r.appended + 0 = r.appended
  BY DEF Requests
<1>4. Emitting(r, types) = [r EXCEPT !.events = r.events \union types]
  BY <1>2, <1>3 DEF Emitting, Requests
<1>5. [r EXCEPT !.events = r.events \union types] \in Requests
  BY DEF Requests
<1>6. QED
  BY <1>4, <1>5

LEMMA AfterCheckType ==
  AfterCheck \in {"evaluate", "view"} /\ (TypeOK /\ AfterCheck = "evaluate" => viaSink = FALSE)
BY DEF AfterCheck, TypeOK

LEMMA OnPathType == ASSUME NEW p \in Seq(Scopes) PROVE OnPath(p) \subseteq Scopes
BY DEF OnPath

LEMMA MatchedHolds ==
  /\ {} \in Matched
  /\ \A a, b \in Matched : a \union b \in Matched
  /\ \A m \in SUBSET Rules, b \in SUBSET Scopes : m \X b \in Matched
BY DEF Matched

LEMMA FreshGood ==
  ASSUME NEW p \in Seq(Scopes), NEW c \in BOOLEAN, NEW sink
  PROVE  Fresh(p, c) \in Requests /\ Good(Fresh(p, c), sink)
<1>1. Fresh(p, c) \in Requests
  BY PipelineAssumption, MatchedHolds DEF Fresh, Requests, Labels
<1>2. QED
  BY <1>1 DEF Fresh, Good, Announced, Reasoned, CountedAtMostOnce, Pending, Denies, Once

LEMMA IdleGood ==
  ASSUME NEW sink PROVE Idle \in Requests /\ Good(Idle, sink)
<1>1. <<>> \in Seq(Scopes)
  OBVIOUS
<1>2. Fresh(<<>>, FALSE) \in Requests
  BY <1>1, FreshGood
<1>3. Idle \in Requests
  BY <1>2 DEF Idle, Requests, Labels
<1>4. QED
  BY <1>3 DEF Idle, Fresh, Good, Announced, Reasoned, CountedAtMostOnce, Pending, Denies, Once

-----------------------------------------------------------------------------
(* The steps of a request, one lemma for each action.                        *)

LEMMA ArriveMoves ==
  ASSUME TypeOK, NEW w \in Workers, NEW p \in Paths, NEW c \in BOOLEAN, Arrive(w, p, c)
  PROVE  Moves(w)
<1>1. p \in Seq(Scopes)
  BY PipelineAssumption
<1>2. Fresh(p, c) \in Requests /\ Good(Fresh(p, c), viaSink)
  BY <1>1, FreshGood
<1>3. QED
  BY <1>2 DEF Arrive, Moves, TypeOK

LEMMA RuntimeUnavailableMoves ==
  ASSUME TypeOK, NEW w \in Workers, Good(req[w], viaSink), RuntimeUnavailable(w)
  PROVE  Moves(w)
<1> DEFINE after == [req[w] EXCEPT !.at = "view"]
<1>1. req[w] \in Requests /\ req[w].at = "check"
  BY DEF TypeOK, RuntimeUnavailable, At
<1>2. after \in Requests
  BY <1>1 DEF Requests, Labels
<1>3. Good(after, viaSink)
  BY <1>1 DEF Requests, Good, Announced, Reasoned, CountedAtMostOnce, Pending, Denies, Once
<1>4. QED
  BY <1>2, <1>3 DEF RuntimeUnavailable, Moves, TypeOK

LEMMA CheckBlocksMoves ==
  ASSUME TypeOK, NEW w \in Workers, Good(req[w], viaSink), CheckBlocks(w)
  PROVE  Moves(w)
<1> DEFINE told   == Emitting(req[w], {"blocked"})
           denied == [told EXCEPT !.denied = TRUE, !.at = "done"]
           passed == [req[w] EXCEPT !.at = AfterCheck]
<1>1. req[w] \in Requests /\ req[w].at = "check"
  BY DEF TypeOK, CheckBlocks, At
<1>2. told \in Requests /\ told = [req[w] EXCEPT !.events = req[w].events \union {"blocked"}]
  BY <1>1, EmittingEvents DEF Emitted
<1>3. denied \in Requests /\ Good(denied, viaSink)
  <2> HIDE DEF told
  <2>1. denied \in Requests
    BY <1>2 DEF Requests, Labels
  <2>2. Good(denied, viaSink)
    BY <1>1, <1>2 DEF Requests, Good, Announced, Reasoned, CountedAtMostOnce, Pending, Denies, Once
  <2>3. QED
    BY <2>1, <2>2
<1>4. passed \in Requests
  BY <1>1, AfterCheckType DEF Requests, Labels
<1>5. Good(passed, viaSink)
  <2>1. Announced(passed) /\ Once(passed)
    BY <1>1, AfterCheckType DEF Requests, Good, Announced, Once
  <2>2. Reasoned(passed)
    BY <1>1, AfterCheckType DEF Requests, Good, Reasoned
  <2>3. CountedAtMostOnce(passed)
    BY <1>1, AfterCheckType DEF Requests, Good, CountedAtMostOnce, Pending
  <2>4. Denies(passed, viaSink)
    BY <1>1, AfterCheckType DEF Requests, Good, Denies
  <2>5. QED
    BY <2>1, <2>2, <2>3, <2>4 DEF Good
<1>6. req' = [req EXCEPT ![w] = denied] \/ req' = [req EXCEPT ![w] = passed]
  BY DEF CheckBlocks
<1>7. QED
  BY <1>3, <1>4, <1>5, <1>6 DEF CheckBlocks, Moves, TypeOK

LEMMA CheckFailsMoves ==
  ASSUME TypeOK, NEW w \in Workers, Good(req[w], viaSink), CheckFails(w)
  PROVE  Moves(w)
<1> DEFINE told  == Emitting(req[w], {"evaluation_failed"})
           after == [told EXCEPT !.erred = told.erred \union {"check"}, !.denied = req[w].closed,
                                 !.at = IF req[w].closed THEN "done" ELSE AfterCheck]
<1>1. req[w] \in Requests /\ req[w].at = "check"
  BY DEF TypeOK, CheckFails, At
<1>2. /\ told \in Requests
      /\ told = [req[w] EXCEPT !.events = req[w].events \union {"evaluation_failed"}]
  BY <1>1, EmittingEvents DEF Emitted
<1>3. after \in Requests /\ Good(after, viaSink)
  <2> HIDE DEF told
  <2>1. after \in Requests
    BY <1>1, <1>2, AfterCheckType DEF Requests, Labels
  <2>2. Announced(after) /\ Once(after)
    BY <1>1, <1>2, AfterCheckType DEF Requests, Good, Announced, Once
  <2>3. Reasoned(after)
    <3>1. Reasoned(req[w]) /\ req[w].stage = "ingress" /\ "ingress" \notin req[w].erred
      BY <1>1 DEF Requests, Good, Reasoned, CountedAtMostOnce
    <3>2. /\ after.stage = "ingress" /\ after.denied = req[w].closed /\ after.closed = req[w].closed
          /\ after.erred = req[w].erred \union {"check"} /\ "evaluation_failed" \in after.events
          /\ after.at = (IF req[w].closed THEN "done" ELSE AfterCheck)
          /\ after.left = req[w].left /\ after.found = req[w].found
      BY <1>1, <1>2, <3>1 DEF Requests
    <3>3. after.closed \in BOOLEAN /\ "ingress" \notin after.erred
      BY <1>1, <3>1, <3>2 DEF Requests
    <3> HIDE DEF after
    <3>4. QED
      BY <3>1, <3>2, <3>3, AfterCheckType DEF Reasoned
  <2>4. CountedAtMostOnce(after)
    BY <1>1, <1>2, AfterCheckType DEF Requests, Good, CountedAtMostOnce, Pending
  <2>5. Denies(after, viaSink)
    BY <1>1, <1>2, AfterCheckType DEF Requests, Good, Denies
  <2>6. QED
    BY <2>1, <2>2, <2>3, <2>4, <2>5 DEF Good
<1>4. req' = [req EXCEPT ![w] = after]
  BY DEF CheckFails
<1>5. QED
  BY <1>3, <1>4 DEF CheckFails, Moves, TypeOK

LEMMA EvaluateMoves ==
  ASSUME TypeOK, NEW w \in Workers, Good(req[w], viaSink), Evaluate(w)
  PROVE  Moves(w)
<1>1. req[w] \in Requests /\ req[w].at = "evaluate"
  BY DEF TypeOK, Evaluate, At
<1>2. PICK hits \in SUBSET (IF req[w].stage = "ingress" THEN Safe ELSE Rules) :
        req' = [req EXCEPT
          ![w].found = hits, ![w].left = hits, ![w].at = "apply",
          ![w].wrote = {}, ![w].told = {}, ![w].torn = {}, ![w].applied = [r \in Rules |-> 0],
          ![w].pass = IF viaSink THEN "sink" ELSE "caller",
          ![w].appended = IF req[w].stage = "egress" /\ ~viaSink THEN @ + 1 ELSE @]
  BY DEF Evaluate
<1> DEFINE pass  == IF viaSink THEN "sink" ELSE "caller"
           count == IF req[w].stage = "egress" /\ pass = "caller" THEN req[w].appended + 1
                    ELSE req[w].appended
           after == [req[w] EXCEPT !.found = hits, !.left = hits, !.at = "apply",
                       !.wrote = {}, !.told = {}, !.torn = {},
                       !.applied = [r \in Rules |-> 0], !.pass = pass, !.appended = count]
<1>3. pass \in {"sink", "caller"} /\ (viaSink = FALSE => pass = "caller")
  OBVIOUS
<1>4. hits \subseteq Rules
  BY PipelineAssumption
<1>5. req' = [req EXCEPT ![w] = after]
  BY <1>2 DEF TypeOK
<1>6. count \in Nat
  BY <1>1 DEF Requests
<1> HIDE DEF pass
<1>7. after \in Requests
  BY <1>1, <1>3, <1>4, <1>6, MatchedHolds DEF Requests, Labels
<1>8. Good(after, viaSink)
  <2>1. Announced(after)
    BY <1>1, <1>3 DEF Requests, Good, Announced
  <2>2. Reasoned(after)
    BY <1>1, <1>3 DEF Requests, Good, Reasoned
  <2>3. CountedAtMostOnce(after)
    BY <1>1, <1>3 DEF Requests, Good, CountedAtMostOnce, Pending
  <2>4. Denies(after, viaSink)
    BY <1>1, <1>3 DEF Requests, Good, Denies
  <2>5. Once(after)
    BY <1>1, <1>3 DEF Requests, Good, Once
  <2>6. QED
    BY <2>1, <2>2, <2>3, <2>4, <2>5 DEF Good
<1>9. QED
  BY <1>5, <1>7, <1>8 DEF Evaluate, Moves, TypeOK

LEMMA EvaluateFailsMoves ==
  ASSUME TypeOK, NEW w \in Workers, Good(req[w], viaSink), EvaluateFails(w)
  PROVE  Moves(w)
<1> DEFINE after == [req[w] EXCEPT !.erred = req[w].erred \union {"engine"}, !.at = "view"]
<1>1. req[w] \in Requests /\ req[w].at = "evaluate"
  BY DEF TypeOK, EvaluateFails, At
<1>2. req' = [req EXCEPT ![w] = after]
  BY DEF EvaluateFails, TypeOK
<1>3. after \in Requests
  BY <1>1 DEF Requests, Labels
<1>4. Good(after, viaSink)
  <2>1. Announced(after)
    BY <1>1 DEF Requests, Good, Announced
  <2>2. Reasoned(after)
    BY <1>1 DEF Requests, Good, Reasoned
  <2>3. CountedAtMostOnce(after)
    BY <1>1 DEF Requests, Good, CountedAtMostOnce, Pending
  <2>4. Denies(after, viaSink)
    BY <1>1 DEF Requests, Good, Denies
  <2>5. Once(after)
    BY <1>1 DEF Requests, Good, Once
  <2>6. QED
    BY <2>1, <2>2, <2>3, <2>4, <2>5 DEF Good
<1>5. QED
  BY <1>2, <1>3, <1>4 DEF EvaluateFails, Moves, TypeOK

LEMMA SurfaceMoves ==
  ASSUME TypeOK, NEW w \in Workers, Good(req[w], viaSink), Surface(w)
  PROVE  Moves(w)
<1>1. req[w] \in Requests /\ req[w].at = "apply"
  BY DEF TypeOK, Surface, At
<1>2. PICK rule \in Rules :
        /\ Turn(w, rule) /\ ~Blocks(rule)
        /\ req' = [req EXCEPT ![w] =
             [Emitting(req[w], IF Action[rule].kind = "alert" THEN {"alert"} ELSE {}) EXCEPT
               !.applied[rule] = @ + 1, !.left = @ \ {rule}]]
  BY DEF Surface
<1> DEFINE types == IF Action[rule].kind = "alert" THEN {"alert"} ELSE {}
           told  == Emitting(req[w], types)
           times == [told.applied EXCEPT ![rule] = told.applied[rule] + 1]
           after == [told EXCEPT !.applied = times, !.left = told.left \ {rule}]
<1>3. types \in SUBSET Emitted
  BY DEF Emitted
<1>4. told \in Requests /\ told = [req[w] EXCEPT !.events = req[w].events \union types]
  BY <1>1, <1>3, EmittingEvents
<1>5. req' = [req EXCEPT ![w] = after]
  BY <1>2
<1>6. rule \in req[w].left /\ ~Blocks(rule)
  BY <1>2 DEF Turn
<1> HIDE DEF told, types
<1>7. after \in Requests
  <2>1. times \in [Rules -> Nat]
    BY <1>4 DEF Requests
  <2> HIDE DEF times
  <2>2. QED
    BY <1>4, <2>1 DEF Requests
<1>8. Good(after, viaSink)
  <2>1. Announced(after)
    BY <1>1, <1>4, <1>6 DEF Requests, Good, Announced
  <2>2. Reasoned(after)
    BY <1>1, <1>4, <1>6 DEF Requests, Good, Reasoned
  <2>3. CountedAtMostOnce(after)
    BY <1>1, <1>4, <1>6 DEF Requests, Good, CountedAtMostOnce, Pending
  <2>4. Denies(after, viaSink)
    BY <1>1, <1>4, <1>6 DEF Requests, Good, Denies
  <2>5. Once(after)
    BY <1>1, <1>4, <1>6 DEF Requests, Good, Once
  <2>6. QED
    BY <2>1, <2>2, <2>3, <2>4, <2>5 DEF Good
<1>9. QED
  BY <1>5, <1>7, <1>8 DEF Surface, Moves, TypeOK

LEMMA StartBlockingMoves ==
  ASSUME TypeOK, NEW w \in Workers, Good(req[w], viaSink), StartBlocking(w)
  PROVE  Moves(w)
<1>1. req[w] \in Requests /\ req[w].at = "apply"
  BY DEF TypeOK, StartBlocking, At
<1>2. PICK rule \in Rules :
        /\ Turn(w, rule) /\ Blocks(rule)
        /\ req' = [req EXCEPT ![w].applied[rule] = @ + 1, ![w].at = "block",
                      ![w].left = @ \ {rule}, ![w].match = {rule},
                      ![w].targets = Targets(req[w], rule)]
  BY DEF StartBlocking
<1> DEFINE targets == Targets(req[w], rule)
           times   == [req[w].applied EXCEPT ![rule] = req[w].applied[rule] + 1]
           after   == [req[w] EXCEPT !.applied = times,
                         !.at = "block", !.left = req[w].left \ {rule}, !.match = {rule},
                         !.targets = targets]
<1>3. targets \subseteq Scopes
  BY <1>1, OnPathType DEF Targets, Requests
<1>4. req' = [req EXCEPT ![w] = after]
  BY <1>2 DEF TypeOK
<1>5. rule \in req[w].left /\ Blocks(rule)
  BY <1>2 DEF Turn
<1> HIDE DEF targets
<1>6. after \in Requests
  <2>1. times \in [Rules -> Nat]
    BY <1>1 DEF Requests
  <2> HIDE DEF times
  <2>2. QED
    BY <1>1, <1>3, <2>1 DEF Requests, Labels
<1>7. Good(after, viaSink)
  <2>1. Announced(after)
    BY <1>1, <1>5 DEF Requests, Good, Announced
  <2>2. Reasoned(after)
    BY <1>1, <1>5 DEF Requests, Good, Reasoned
  <2>3. CountedAtMostOnce(after)
    BY <1>1, <1>5 DEF Requests, Good, CountedAtMostOnce, Pending
  <2>4. Denies(after, viaSink)
    BY <1>1, <1>5 DEF Requests, Good, Denies
  <2>5. Once(after)
    BY <1>1, <1>5 DEF Requests, Good, Once
  <2>6. QED
    BY <2>1, <2>2, <2>3, <2>4, <2>5 DEF Good
<1>8. QED
  BY <1>4, <1>6, <1>7 DEF StartBlocking, Moves, TypeOK

LEMMA WriteBlockMoves ==
  ASSUME TypeOK, NEW w \in Workers, Good(req[w], viaSink), WriteBlock(w)
  PROVE  Moves(w)
<1>1. req[w] \in Requests /\ req[w].at = "block"
  BY DEF TypeOK, WriteBlock, At
<1>2. PICK s \in Scopes :
        /\ blocks' = blocks \union {s}
        /\ req' = [req EXCEPT ![w].wrote = @ \union (req[w].match \X {s}),
                              ![w].built = @ \union {s}, ![w].targets = @ \ {s}]
  BY DEF WriteBlock
<1> DEFINE after == [req[w] EXCEPT !.wrote = req[w].wrote \union (req[w].match \X {s}),
                       !.built = req[w].built \union {s}, !.targets = req[w].targets \ {s}]
<1>3. req' = [req EXCEPT ![w] = after]
  BY <1>2 DEF TypeOK
<1>4. after \in Requests
  <2>1. req[w].wrote \union (req[w].match \X {s}) \in Matched
    BY <1>1, MatchedHolds DEF Requests
  <2>2. req[w].built \union {s} \in SUBSET Scopes /\ req[w].targets \ {s} \in SUBSET Scopes
    BY <1>1 DEF Requests
  <2>3. QED
    BY <1>1, <2>1, <2>2 DEF Requests
<1>5. Good(after, viaSink)
  <2>1. Announced(after)
    BY <1>1 DEF Requests, Good, Announced
  <2>2. Reasoned(after)
    BY <1>1 DEF Requests, Good, Reasoned
  <2>3. CountedAtMostOnce(after)
    BY <1>1 DEF Requests, Good, CountedAtMostOnce, Pending
  <2>4. Denies(after, viaSink)
    BY <1>1 DEF Requests, Good, Denies
  <2>5. Once(after)
    BY <1>1 DEF Requests, Good, Once
  <2>6. QED
    BY <2>1, <2>2, <2>3, <2>4, <2>5 DEF Good
<1>6. QED
  BY <1>2, <1>3, <1>4, <1>5 DEF Moves, TypeOK

LEMMA WriteFailsMoves ==
  ASSUME TypeOK, NEW w \in Workers, Good(req[w], viaSink), WriteFails(w)
  PROVE  Moves(w)
<1> DEFINE failed(reached) == [req[w] EXCEPT !.erred = req[w].erred \union {req[w].stage},
                                 !.wrote = req[w].wrote \union (req[w].match \X reached),
                                 !.torn = req[w].torn \union req[w].match,
                                 !.match = {}, !.built = {}, !.targets = {}]
<1>1. req[w] \in Requests /\ req[w].at = "block"
  BY DEF TypeOK, WriteFails, At
<1>2. PICK reached \in SUBSET Scopes :
        /\ blocks' = blocks \union reached
        /\ req' = [req EXCEPT ![w] =
             IF req[w].pass = "sink" THEN [failed(reached) EXCEPT !.at = "apply"]
             ELSE IF req[w].stage = "ingress"
             THEN [Emitting(failed(reached), {"evaluation_failed"}) EXCEPT
                     !.left = {}, !.denied = FALSE, !.at = "view"]
             ELSE [failed(reached) EXCEPT !.left = {}, !.at = "view"]]
  BY DEF WriteFails
<1> DEFINE lost    == failed(reached)
           told    == Emitting(lost, {"evaluation_failed"})
           sink    == [lost EXCEPT !.at = "apply"]
           ingress == [told EXCEPT !.left = {}, !.denied = FALSE, !.at = "view"]
           egress  == [lost EXCEPT !.left = {}, !.at = "view"]
<1> DEFINE wrote == req[w].wrote \union (req[w].match \X reached)
           torn  == req[w].torn \union req[w].match
           erred == req[w].erred \union {req[w].stage}
<1>a. /\ wrote \in Matched /\ torn \in SUBSET Rules
      /\ erred \in SUBSET {"check", "engine", "ingress", "egress"}
  BY <1>1, MatchedHolds DEF Requests
<1>b. /\ lost = [req[w] EXCEPT !.erred = erred, !.wrote = wrote, !.torn = torn,
                              !.match = {}, !.built = {}, !.targets = {}]
      /\ \A m \in wrote : m \in req[w].wrote \/ m[1] \in req[w].match
  OBVIOUS
<1>c. /\ lost.told = req[w].told /\ lost.wrote = wrote /\ lost.torn = torn
      /\ lost.match = {} /\ lost.built = {}
  BY <1>1 DEF Requests
<1>d. Announced(lost)
  <2>1. Announced(req[w])
    BY DEF Good
  <2>2. lost.match \X lost.built = {} /\ lost.told \subseteq lost.wrote
    BY <1>c, <2>1 DEF Announced
  <2>3. ASSUME NEW m \in lost.wrote \ lost.told PROVE m[1] \in lost.torn
    BY <1>b, <1>c, <2>1 DEF Announced
  <2> HIDE DEF failed
  <2>4. QED
    BY <1>c, <2>2, <2>3 DEF Announced
<1>e. lost.denied = req[w].denied /\ lost.at = "block" /\ lost.stage = req[w].stage
  BY <1>1 DEF Requests
<1>3. lost \in Requests
  <2> HIDE DEF wrote, torn, erred
  <2>1. QED
    BY <1>1, <1>a, <1>b DEF Requests
<1>4. told \in Requests /\ told = [lost EXCEPT !.events = lost.events \union {"evaluation_failed"}]
  <2> HIDE DEF lost
  <2>1. QED
    BY <1>3, EmittingEvents DEF Emitted
<1>5. \/ req[w].pass = "sink" /\ req' = [req EXCEPT ![w] = sink]
      \/ req[w].pass = "caller" /\ req[w].stage = "ingress" /\ req' = [req EXCEPT ![w] = ingress]
      \/ req[w].pass = "caller" /\ req[w].stage = "egress" /\ req' = [req EXCEPT ![w] = egress]
  BY <1>1, <1>2 DEF Requests
<1>6. CASE req[w].pass = "sink"
  <2>1. sink \in Requests
    BY <1>3 DEF Requests, Labels
  <2>2. Good(sink, viaSink)
    <3>1. Announced(sink)
      BY <1>1, <1>3, <1>6 DEF Requests, Good, Announced
    <3>2. Reasoned(sink)
      <4>1. Reasoned(req[w]) /\ req[w].stage = "egress" /\ ~req[w].denied
        BY <1>1, <1>6 DEF Requests, Good, Reasoned, Denies
      <4>2. /\ sink.stage = "egress" /\ ~sink.denied /\ sink.at = "apply"
            /\ sink.erred = req[w].erred \union {"egress"} /\ sink.events = req[w].events
            /\ sink.left = req[w].left /\ sink.found = req[w].found /\ sink.closed = req[w].closed
        BY <1>1, <4>1 DEF Requests
      <4> HIDE DEF sink
      <4>3. QED
        BY <1>1, <4>1, <4>2 DEF Reasoned
    <3>3. CountedAtMostOnce(sink)
      BY <1>1, <1>3, <1>6 DEF Requests, Good, CountedAtMostOnce, Pending
    <3>4. Denies(sink, viaSink)
      BY <1>1, <1>3, <1>6 DEF Requests, Good, Denies
    <3>5. Once(sink)
      BY <1>1, <1>3, <1>6 DEF Requests, Good, Once
    <3>6. QED
      BY <3>1, <3>2, <3>3, <3>4, <3>5 DEF Good
  <2>3. QED
    BY <1>2, <1>5, <1>6, <2>1, <2>2 DEF Moves, TypeOK
<1>7. CASE req[w].pass = "caller" /\ req[w].stage = "ingress"
  <2>1. CountedAtMostOnce(lost) /\ Denies(lost, viaSink) /\ Once(lost)
    <3>1. CountedAtMostOnce(lost)
      BY <1>1, <1>3, <1>7 DEF Requests, Good, CountedAtMostOnce, Pending
    <3>2. Denies(lost, viaSink)
      BY <1>1, <1>3, <1>7 DEF Requests, Good, Denies
    <3>3. Once(lost)
      BY <1>1, <1>3, <1>7 DEF Requests, Good, Once
    <3>4. QED
      BY <3>1, <3>2, <3>3
  <2>2. lost.at = "block" /\ lost.stage = "ingress" /\ "ingress" \in lost.erred /\ lost.built = {}
    BY <1>1, <1>7 DEF Requests
  <2>3. ingress \in Requests
    <3>1. told \in Requests
      BY <1>4
    <3> HIDE DEF told
    <3>2. QED
      BY <3>1 DEF Requests, Labels
  <2>4. Good(ingress, viaSink)
    <3>0. /\ ~(req[w].closed /\ "check" \in req[w].erred)
          /\ req[w].closed \in BOOLEAN
          /\ ("check" \in req[w].erred => "evaluation_failed" \in req[w].events)
          /\ lost.closed = req[w].closed /\ lost.events = req[w].events
          /\ ("check" \in lost.erred <=> "check" \in req[w].erred)
      BY <1>1, <1>7 DEF Requests, Good, Reasoned
    <3> HIDE DEF told, lost
    <3>a. /\ ingress.told = lost.told /\ ingress.wrote = lost.wrote /\ ingress.torn = lost.torn
          /\ ingress.match = lost.match /\ ingress.built = lost.built /\ ingress.at = "view"
          /\ ingress.denied = FALSE /\ ingress.left = {} /\ ingress.stage = "ingress"
          /\ ingress.erred = lost.erred /\ ingress.closed = lost.closed
          /\ ingress.events = lost.events \union {"evaluation_failed"}
      BY <1>3, <1>4, <2>2 DEF Requests
    <3>1. Announced(ingress)
      <4> HIDE DEF ingress
      <4>1. QED
        BY <1>c, <1>d, <3>a DEF Announced
    <3>2. Reasoned(ingress)
      <4> HIDE DEF ingress
      <4>1. QED
        BY <3>0, <3>a DEF Reasoned
    <3>3. CountedAtMostOnce(ingress)
      BY <1>3, <1>4, <2>1, <2>2 DEF Requests, Good, CountedAtMostOnce, Pending
    <3>4. Denies(ingress, viaSink)
      BY <1>3, <1>4, <2>1, <2>2 DEF Requests, Good, Denies
    <3>5. Once(ingress)
      BY <1>3, <1>4, <2>1, <2>2 DEF Requests, Good, Once
    <3>6. QED
      BY <3>1, <3>2, <3>3, <3>4, <3>5 DEF Good
  <2>5. QED
    BY <1>2, <1>5, <1>7, <2>3, <2>4 DEF Moves, TypeOK
<1>8. CASE req[w].pass = "caller" /\ req[w].stage = "egress"
  <2>1. egress \in Requests
    BY <1>3 DEF Requests, Labels
  <2>2. Good(egress, viaSink)
    <3>1. Announced(egress)
      <4>1. /\ egress.told = lost.told /\ egress.wrote = lost.wrote /\ egress.torn = lost.torn
            /\ egress.match = lost.match /\ egress.built = lost.built
        BY <1>3 DEF Requests
      <4> HIDE DEF egress, failed
      <4>2. QED
        BY <1>c, <1>d, <4>1 DEF Announced
    <3>2. Reasoned(egress)
      BY <1>1, <1>3, <1>8 DEF Requests, Good, Reasoned
    <3>3. CountedAtMostOnce(egress)
      BY <1>1, <1>3, <1>8 DEF Requests, Good, CountedAtMostOnce, Pending
    <3>4. Denies(egress, viaSink)
      BY <1>1, <1>3, <1>8 DEF Requests, Good, Denies
    <3>5. Once(egress)
      BY <1>1, <1>3, <1>8 DEF Requests, Good, Once
    <3>6. QED
      BY <3>1, <3>2, <3>3, <3>4, <3>5 DEF Good
  <2>3. QED
    BY <1>2, <1>5, <1>8, <2>1, <2>2 DEF Moves, TypeOK
<1>9. QED
  BY <1>5, <1>6, <1>7, <1>8

LEMMA AnnounceMoves ==
  ASSUME TypeOK, NEW w \in Workers, Good(req[w], viaSink), Announce(w)
  PROVE  Moves(w)
<1> DEFINE shown  == IF req[w].built = {} THEN {} ELSE {"block_applied"}
           told   == Emitting(req[w], shown)
           denies == req[w].denied \/ (req[w].stage = "ingress" /\ req[w].pass = "caller")
           after  == [told EXCEPT !.told = told.told \union (req[w].match \X req[w].built),
                                  !.match = {}, !.built = {}, !.denied = denies, !.at = "apply"]
<1>1. req[w] \in Requests /\ req[w].at = "block"
  BY DEF TypeOK, Announce, At
<1>2. shown \in SUBSET Emitted
  BY DEF Emitted
<1>3. told \in Requests /\ told = [req[w] EXCEPT !.events = req[w].events \union shown]
  BY <1>1, <1>2, EmittingEvents
<1>4. told.denied = req[w].denied
  <2> HIDE DEF told
  <2>1. QED
    BY <1>1, <1>3 DEF Requests
<1>5. req' = [req EXCEPT ![w] = after]
  BY <1>4 DEF Announce
<1>6. denies \in BOOLEAN
  OBVIOUS
<1>7. req[w].stage = "ingress" => denies = TRUE
  BY <1>1 DEF Good, Denies
<1> HIDE DEF told, shown, denies
<1> DEFINE announced == told.told \union (req[w].match \X req[w].built)
<1>a. announced \in Matched
  BY <1>1, <1>3, MatchedHolds DEF Requests
<1>b. /\ after.told = announced /\ after.wrote = req[w].wrote /\ after.torn = req[w].torn
      /\ after.match = {} /\ after.built = {} /\ after.at = "apply"
      /\ after.denied = denies /\ after.left = req[w].left /\ after.found = req[w].found
      /\ after.stage = req[w].stage /\ after.closed = req[w].closed
      /\ after.erred = req[w].erred /\ after.events = req[w].events \union shown
      /\ told.told = req[w].told
  BY <1>1, <1>3 DEF Requests
<1>c. after = [told EXCEPT !.told = announced, !.match = {}, !.built = {}, !.denied = denies,
                           !.at = "apply"]
  OBVIOUS
<1>8. after \in Requests
  <2> HIDE DEF announced, after
  <2>1. QED
    BY <1>3, <1>6, <1>a, <1>c DEF Requests, Labels
<1>9. Good(after, viaSink)
  <2>1. Announced(after)
    <3>1. Announced(req[w])
      BY DEF Good
    <3>2. after.told \subseteq after.wrote /\ after.match \X after.built \subseteq after.wrote
      BY <1>b, <3>1 DEF Announced
    <3>3. ASSUME NEW m \in after.wrote \ after.told PROVE m[1] \in after.torn
      <4>1. m \in req[w].wrote \ req[w].told /\ m \notin req[w].match \X req[w].built
        BY <1>b
      <4>2. m \in Rules \X Scopes
        BY <1>1, <4>1 DEF Requests, Matched
      <4>3. m = <<m[1], m[2]>>
        BY <4>2
      <4>4. ~(m[1] \in req[w].match /\ m[2] \in req[w].built)
        BY <4>1, <4>3
      <4>5. QED
        BY <1>b, <3>1, <4>1, <4>4 DEF Announced
    <3> HIDE DEF after
    <3>4. QED
      BY <1>b, <3>2, <3>3 DEF Announced
  <2>2. Reasoned(after)
    <3>1. Reasoned(req[w])
      BY DEF Good
    <3>2. denies => req[w].denied \/ req[w].stage = "ingress"
      BY <1>1, <1>6 DEF denies
    <3>3. req[w].stage = "egress" => ~denies
      BY <1>1, <3>1, <3>2 DEF Reasoned, Requests
    <3>4. ~(req[w].closed /\ "check" \in req[w].erred)
      BY <1>1, <3>1 DEF Reasoned
    <3> HIDE DEF after
    <3>5. QED
      BY <1>1, <1>b, <3>1, <3>2, <3>3, <3>4 DEF Reasoned, Requests
  <2>3. CountedAtMostOnce(after)
    BY <1>1, <1>3, <1>7 DEF Requests, Good, CountedAtMostOnce, Pending
  <2>4. Denies(after, viaSink)
    BY <1>1, <1>3, <1>7 DEF Requests, Good, Denies
  <2>5. Once(after)
    BY <1>1, <1>3, <1>7 DEF Requests, Good, Once
  <2>6. QED
    BY <2>1, <2>2, <2>3, <2>4, <2>5 DEF Good
<1>10. QED
  BY <1>5, <1>8, <1>9 DEF Announce, Moves, TypeOK

LEMMA EndPassMoves ==
  ASSUME TypeOK, NEW w \in Workers, Good(req[w], viaSink), EndPass(w)
  PROVE  Moves(w)
<1> DEFINE count == IF req[w].pass = "sink" THEN req[w].appended + 1 ELSE req[w].appended
           over  == [req[w] EXCEPT !.at = "view", !.appended = count]
           on    == [req[w] EXCEPT !.at = IF req[w].denied THEN "done" ELSE "view"]
<1>1. req[w] \in Requests /\ req[w].at = "apply" /\ req[w].left = {}
  BY DEF TypeOK, EndPass, At
<1>2. req[w].stage = "ingress" => req[w].pass = "caller"
  BY <1>1 DEF Good, Denies
<1>3. \/ req[w].stage = "egress" /\ req' = [req EXCEPT ![w] = over]
      \/ req[w].stage = "ingress" /\ req' = [req EXCEPT ![w] = on]
  BY <1>1, <1>2 DEF EndPass, Requests
<1>4. CASE req[w].stage = "egress"
  <2>1. over \in Requests
    <3>1. count \in Nat
      BY <1>1 DEF Requests
    <3> HIDE DEF count
    <3>2. QED
      BY <1>1, <3>1 DEF Requests, Labels
  <2>2. Good(over, viaSink)
    <3>1. Announced(over)
      BY <1>1, <1>4 DEF Requests, Good, Announced
    <3>2. Reasoned(over)
      BY <1>1, <1>4 DEF Requests, Good, Reasoned
    <3>3. CountedAtMostOnce(over)
      BY <1>1, <1>4 DEF Requests, Good, CountedAtMostOnce, Pending
    <3>4. Denies(over, viaSink)
      BY <1>1, <1>4 DEF Requests, Good, Denies
    <3>5. Once(over)
      BY <1>1, <1>4 DEF Requests, Good, Once
    <3>6. QED
      BY <3>1, <3>2, <3>3, <3>4, <3>5 DEF Good
  <2>3. QED
    BY <1>3, <1>4, <2>1, <2>2 DEF EndPass, Moves, TypeOK
<1>5. CASE req[w].stage = "ingress"
  <2>1. on \in Requests
    BY <1>1 DEF Requests, Labels
  <2>2. Good(on, viaSink)
    <3>1. Announced(on)
      BY <1>1, <1>5 DEF Requests, Good, Announced
    <3>2. Reasoned(on)
      BY <1>1, <1>5 DEF Requests, Good, Reasoned
    <3>3. CountedAtMostOnce(on)
      BY <1>1, <1>5 DEF Requests, Good, CountedAtMostOnce, Pending
    <3>4. Denies(on, viaSink)
      BY <1>1, <1>5 DEF Requests, Good, Denies
    <3>5. Once(on)
      BY <1>1, <1>5 DEF Requests, Good, Once
    <3>6. QED
      BY <3>1, <3>2, <3>3, <3>4, <3>5 DEF Good
  <2>3. QED
    BY <1>3, <1>5, <2>1, <2>2 DEF EndPass, Moves, TypeOK
<1>6. QED
  BY <1>3, <1>4, <1>5

LEMMA RecordEventMoves ==
  ASSUME TypeOK, NEW w \in Workers, Good(req[w], viaSink), NEW p \in Paths, RecordEvent(w, p)
  PROVE  Moves(w)
<1> DEFINE after == [req[w] EXCEPT !.recorded = req[w].recorded + 1, !.stage = "egress",
                                   !.path = p, !.at = "evaluate"]
<1>1. req[w] \in Requests /\ req[w].at = "view" /\ req[w].recorded < EventCap
  BY DEF TypeOK, RecordEvent, At
<1>2. req' = [req EXCEPT ![w] = after]
  BY DEF RecordEvent, TypeOK
<1>3. req[w].recorded + 1 \in 0..EventCap /\ p \in Seq(Scopes)
  BY <1>1, PipelineAssumption DEF Requests
<1>4. after \in Requests
  BY <1>1, <1>3 DEF Requests, Labels
<1>5. Good(after, viaSink)
  <2>1. Announced(after)
    BY <1>1 DEF Requests, Good, Announced
  <2>2. Reasoned(after)
    BY <1>1 DEF Requests, Good, Reasoned
  <2>3. CountedAtMostOnce(after)
    BY <1>1 DEF Requests, Good, CountedAtMostOnce, Pending
  <2>4. Denies(after, viaSink)
    BY <1>1 DEF Requests, Good, Denies
  <2>5. Once(after)
    BY <1>1 DEF Requests, Good, Once
  <2>6. QED
    BY <2>1, <2>2, <2>3, <2>4, <2>5 DEF Good
<1>6. QED
  BY <1>2, <1>4, <1>5 DEF RecordEvent, Moves, TypeOK

LEMMA RespondMoves ==
  ASSUME TypeOK, NEW w \in Workers, Good(req[w], viaSink), Respond(w)
  PROVE  Moves(w)
<1> DEFINE after == [req[w] EXCEPT !.at = "done"]
<1>1. req[w] \in Requests /\ req[w].at = "view"
  BY DEF TypeOK, Respond, At
<1>2. req' = [req EXCEPT ![w] = after]
  BY DEF Respond, TypeOK
<1>3. after \in Requests
  BY <1>1 DEF Requests, Labels
<1>4. Good(after, viaSink)
  <2>1. Announced(after)
    BY <1>1 DEF Requests, Good, Announced
  <2>2. Reasoned(after)
    BY <1>1 DEF Requests, Good, Reasoned
  <2>3. CountedAtMostOnce(after)
    BY <1>1 DEF Requests, Good, CountedAtMostOnce, Pending
  <2>4. Denies(after, viaSink)
    BY <1>1 DEF Requests, Good, Denies
  <2>5. Once(after)
    BY <1>1 DEF Requests, Good, Once
  <2>6. QED
    BY <2>1, <2>2, <2>3, <2>4, <2>5 DEF Good
<1>5. QED
  BY <1>2, <1>3, <1>4 DEF Respond, Moves, TypeOK

-----------------------------------------------------------------------------
(* The theorems.                                                             *)

LEMMA InvInit == Init => IInv
BY IdleGood DEF Init, IInv, TypeOK

\* What one worker does leaves the other requests as they are.
LEMMA MovesKeep ==
  ASSUME IInv, NEW w \in Workers, Moves(w), viaSink' = viaSink
  PROVE  IInv'
<1>1. PICK after \in Requests : Good(after, viaSink) /\ req' = [req EXCEPT ![w] = after]
  BY DEF Moves
<1>2. TypeOK'
  BY <1>1 DEF IInv, TypeOK, Moves
<1>3. ASSUME NEW v \in Workers PROVE Good(req'[v], viaSink)
  <2>1. CASE v = w
    BY <1>1, <2>1 DEF IInv, TypeOK
  <2>2. CASE v # w
    <3>1. req'[v] = req[v]
      BY <1>1, <2>2 DEF IInv, TypeOK
    <3>2. QED
      BY <3>1 DEF IInv
  <2>3. QED
    BY <2>1, <2>2
<1>4. QED
  BY <1>2, <1>3 DEF IInv

LEMMA StepMoves ==
  ASSUME IInv, NEW w \in Workers, Step(w) PROVE Moves(w)
<1>1. TypeOK /\ Good(req[w], viaSink)
  BY DEF IInv
<1>2. CASE RuntimeUnavailable(w)
  BY <1>1, <1>2, RuntimeUnavailableMoves
<1>3. CASE CheckBlocks(w)
  BY <1>1, <1>3, CheckBlocksMoves
<1>4. CASE CheckFails(w)
  BY <1>1, <1>4, CheckFailsMoves
<1>5. CASE Evaluate(w)
  BY <1>1, <1>5, EvaluateMoves
<1>6. CASE EvaluateFails(w)
  BY <1>1, <1>6, EvaluateFailsMoves
<1>7. CASE Surface(w)
  BY <1>1, <1>7, SurfaceMoves
<1>8. CASE StartBlocking(w)
  BY <1>1, <1>8, StartBlockingMoves
<1>9. CASE WriteBlock(w)
  BY <1>1, <1>9, WriteBlockMoves
<1>10. CASE WriteFails(w)
  BY <1>1, <1>10, WriteFailsMoves
<1>11. CASE Announce(w)
  BY <1>1, <1>11, AnnounceMoves
<1>12. CASE EndPass(w)
  BY <1>1, <1>12, EndPassMoves
<1>13. CASE \E p \in Paths : RecordEvent(w, p)
  BY <1>1, <1>13, RecordEventMoves
<1>14. CASE Respond(w)
  BY <1>1, <1>14, RespondMoves
<1>15. CASE Finish(w)
  BY <1>1, <1>15, IdleGood DEF Finish, Moves, TypeOK
<1>16. QED
  BY <1>2, <1>3, <1>4, <1>5, <1>6, <1>7, <1>8, <1>9, <1>10, <1>11, <1>12, <1>13, <1>14,
     <1>15 DEF Step

LEMMA InvStep == IInv /\ [Next]_vars => IInv'
<1> SUFFICES ASSUME IInv, [Next]_vars PROVE IInv'
  OBVIOUS
<1>1. ASSUME NEW w \in Workers, Serve(w) PROVE IInv'
  BY <1>1, StepMoves, MovesKeep DEF Serve
<1>2. ASSUME NEW w \in Workers, NEW p \in Paths, NEW c \in BOOLEAN, Arrive(w, p, c),
             UNCHANGED viaSink
      PROVE  IInv'
  <2>1. Moves(w)
    BY <1>2, ArriveMoves DEF IInv
  <2>2. QED
    BY <1>2, <2>1, MovesKeep
<1>3. ASSUME NEW s \in Scopes, Impose(s) \/ Lift(s), UNCHANGED viaSink PROVE IInv'
  BY <1>3 DEF IInv, TypeOK, Impose, Lift
<1>4. ASSUME UNCHANGED vars PROVE IInv'
  BY <1>4 DEF IInv, TypeOK, vars
<1>5. QED
  BY <1>1, <1>2, <1>3, <1>4 DEF Next

\* The inductive invariant holds in every reachable state.
THEOREM Invariance == Spec => []IInv
BY InvInit, InvStep, PTL DEF Spec

\* Type correctness.
THEOREM TypeCorrect == Spec => []TypeOK
<1>1. IInv => TypeOK
  BY DEF IInv
<1>2. QED
  BY <1>1, Invariance, PTL

\* enforcer.py:77-103.  No block is announced that was not written, and one is left
\* unannounced only if the store raised on the match it is of.
THEOREM TrailKept == Spec => []TrailMatchesTheStore
<1>1. IInv => TrailMatchesTheStore
  BY DEF IInv, Good, Announced, TrailMatchesTheStore
<1>2. QED
  BY <1>1, Invariance, PTL

\* middleware.py:41-48, 61-76, 89-99.  A fail-closed path denies when its check fails, and
\* nobody is denied but for that, a block in force or a blocking match.
THEOREM DenialsHaveReasons == Spec => []DeniedForAReason
<1>1. IInv => DeniedForAReason
  BY DEF IInv, Good, Reasoned, DeniedForAReason, At
<1>2. QED
  BY <1>1, Invariance, PTL

\* middleware.py:89-99.  Whatever rules there are and whatever they resolve to, a
\* blocking match before the view denies the request unless the store raised.
THEOREM NothingLetThrough == Spec => []LetThroughOnlyOnError
<1>1. IInv => LetThroughOnlyOnError
  BY DEF IInv, TypeOK, Good, Denies, LetThroughOnlyOnError, At
<1>2. QED
  BY <1>1, Invariance, PTL

\* engine.py:101-110, runtime.py:70-88.  The history counts each recorded event once.
THEOREM CountedOnce == Spec => []HistoryCountsEventsOnce
<1>1. IInv => HistoryCountsEventsOnce
  <2> SUFFICES ASSUME IInv, NEW w \in Workers
               PROVE  /\ req[w].appended <= req[w].recorded
                      /\ At(w, "done") /\ "engine" \notin req[w].erred =>
                           req[w].appended = req[w].recorded
    BY DEF HistoryCountsEventsOnce
  <2>1. req[w] \in Requests /\ CountedAtMostOnce(req[w])
    BY DEF IInv, TypeOK, Good
  <2>2. Pending(req[w]) \in {0, 1} /\ (req[w].at = "done" => Pending(req[w]) = 0)
    BY <2>1 DEF Pending
  <2>3. req[w].appended \in Nat /\ req[w].recorded \in Nat
    BY <2>1 DEF Requests
  <2>4. QED
    BY <2>1, <2>2, <2>3 DEF CountedAtMostOnce, At
<1>2. QED
  BY <1>1, Invariance, PTL

\* middleware.py:78, runtime.py:74.  No match is applied by the sink and by its caller.
THEOREM NeverTwice == Spec => []AppliedOnce
<1>1. IInv => AppliedOnce
  BY DEF IInv, TypeOK, Good, Once, AppliedOnce
<1>2. QED
  BY <1>1, Invariance, PTL

-----------------------------------------------------------------------------
(* RuleDecisions: no block lasts for ever by accident, only an actor's own   *)
(* requests count against it, and whoever is shut out stays out.             *)

DecisionSpec == DecisionInit /\ [][DecisionNext]_decisionVars

RuleNames ==
  {"repeated_client_error", "repeated_route", "resource_enumeration", "sensitive_field_change"}

\* A ban is what its rule's action, under the settings, makes of it.
FollowsItsAction(b) ==
  LET action == ResolveRuleAction(b.rule) IN
  /\ b.rule \in RuleNames /\ IsBlocking(action)
  /\ b.ttl = BlockTtl(b.rule, action) /\ b.type \in action.scopes

BansFollow == setup \in Setups /\ \A b \in bans : FollowsItsAction(b)

\* What a match imposes follows from its rule's action.
LEMMA ImposedFollow ==
  ASSUME NEW rule \in RuleNames, NEW summary, NEW b \in Imposed(rule, summary)
  PROVE  FollowsItsAction(b)
<1> DEFINE action == ResolveRuleAction(rule)
<1>1. IsBlocking(action)
  BY DEF Imposed
<1>2. PICK s \in BlockScopes(summary, action.scopes) :
        b = [type |-> s.type, value |-> s.value, ttl |-> BlockTtl(rule, action), rule |-> rule]
  BY <1>1 DEF Imposed
<1>3. s.type \in action.scopes
  <2> HIDE DEF action
  <2>1. PICK t \in action.scopes \intersect {"user", "session", "ip"} : s \in ScopeKeys(summary, t)
    BY DEF BlockScopes
  <2>2. s = [type |-> t, value |-> summary[t]]
    BY <2>1 DEF ScopeKeys
  <2>3. QED
    BY <2>1, <2>2
<1> HIDE DEF action
<1>4. b.rule = rule /\ b.ttl = BlockTtl(rule, action) /\ b.type = s.type
  BY <1>2
<1>5. QED
  BY <1>1, <1>3, <1>4 DEF FollowsItsAction, action

\* The bans of a recorded event follow from the actions of the rules it matched.
LEMMA RecordedFollow ==
  ASSUME BansFollow, NEW rec, Recorded(rec) PROVE BansFollow'
<1> DEFINE summary == IF setup.sink THEN SinkSummary(rec) ELSE rec.summary
<1>1. setup' = setup /\ bans' = bans \union UNION {Imposed(r, summary) : r \in Matching(rec)}
  BY DEF Recorded
<1>2. Matching(rec) \subseteq RuleNames
  BY DEF Matching, RuleNames
<1>3. \A b \in bans' : FollowsItsAction(b)
  <2> HIDE DEF summary
  <2>1. QED
    BY <1>1, <1>2, ImposedFollow DEF BansFollow
<1>4. QED
  BY <1>1, <1>3 DEF BansFollow, FollowsItsAction, ResolveRuleAction, IsConfigured, ConfiguredAction,
     DecidedAction, Decision, BlockTtl

\* Every step keeps the bans explained by the actions.
LEMMA FollowStep == BansFollow /\ [DecisionNext]_decisionVars => BansFollow'
<1> SUFFICES ASSUME BansFollow, [DecisionNext]_decisionVars PROVE BansFollow'
  OBVIOUS
<1>1. ASSUME NEW v \in setup.visits, Visit(v) PROVE BansFollow'
  BY <1>1 DEF Visit, BansFollow, FollowsItsAction, ResolveRuleAction, IsConfigured,
     ConfiguredAction, DecidedAction, Decision, BlockTtl
<1>2. ASSUME SafeRules PROVE BansFollow'
  <2>1. setup' = setup
    BY <1>2 DEF SafeRules
  <2>2. \A b \in bans' : b \in bans \/ b \in Imposed("repeated_route", IngressSummary(visit))
    BY <1>2 DEF SafeRules
  <2>3. \A b \in bans' : FollowsItsAction(b)
    BY <2>2, ImposedFollow DEF BansFollow, RuleNames
  <2>4. QED
    BY <2>1, <2>3 DEF BansFollow, FollowsItsAction, ResolveRuleAction, IsConfigured,
       ConfiguredAction, DecidedAction, Decision, BlockTtl
<1>3. ASSUME Save PROVE BansFollow'
  BY <1>3, RecordedFollow DEF Save
<1>4. ASSUME Answer PROVE BansFollow'
  BY <1>4, RecordedFollow DEF Answer
<1>5. ASSUME UNCHANGED decisionVars PROVE BansFollow'
  BY <1>5 DEF decisionVars, BansFollow, FollowsItsAction, ResolveRuleAction, IsConfigured,
     ConfiguredAction, DecidedAction, Decision, BlockTtl
<1>6. QED
  BY <1>1, <1>2, <1>3, <1>4, <1>5 DEF DecisionNext

\* actions.py:33-104, enforcer.py:77-149.  Whatever the settings, a block without an end
\* is decided by a setting, a rule or the severity of the match, and is of an address
\* only if a setting or the severity says so.
THEOREM NeverForEverByAccident == DecisionSpec => []ForEverIsDeliberate
<1>1. DecisionInit => BansFollow
  BY DEF DecisionInit, BansFollow
<1>2. BansFollow => ForEverIsDeliberate
  <2> SUFFICES ASSUME BansFollow, NEW b \in bans, b.ttl = 0
               PROVE  LET entry   == setup.entry.rule = b.rule
                          decided == IF entry THEN setup.entry.action
                                     ELSE IF b.rule = "sensitive_field_change" THEN "persist_block"
                                     ELSE Decision(b.rule) IN
                      /\ decided = "persist_block" \/ (decided = "block" /\ setup.severe)
                      /\ b.type = "ip" =>
                           \/ entry /\ (setup.entry.scopes = {} \/ "ip" \in setup.entry.scopes)
                           \/ decided = "block" /\ setup.severe
    BY DEF ForEverIsDeliberate
  <2> DEFINE action == ResolveRuleAction(b.rule)
  <2>1. /\ b.rule \in RuleNames /\ b.type \in action.scopes
        /\ BlockTtl(b.rule, action) = 0 /\ setup \in Setups
    BY DEF BansFollow, FollowsItsAction
  <2>2. action.ttl \in Nat
    BY <2>1, DecisionsAssumption DEF ResolveRuleAction, ConfiguredAction, DefaultRuleActions,
       DecidedAction, RuleAction
  <2>3. action.action = "persist_block" \/ (action.action = "block" /\ setup.severe)
    <3> HIDE DEF action
    <3>1. QED
      BY <2>1, <2>2, DecisionsAssumption DEF BlockTtl
  <2>4. CASE b.rule = setup.entry.rule
    BY <2>1, <2>3, <2>4 DEF ResolveRuleAction, IsConfigured, ConfiguredAction, RuleAction
  <2>5. CASE b.rule # setup.entry.rule /\ b.rule # "resource_enumeration"
    BY <2>1, <2>3, <2>5 DEF ResolveRuleAction, IsConfigured, ConfiguredAction,
       DefaultRuleActions, RuleAction
  <2>6. CASE b.rule # setup.entry.rule /\ b.rule = "resource_enumeration"
    BY <2>1, <2>3, <2>6 DEF ResolveRuleAction, IsConfigured, DecidedAction, Decision, RuleAction
  <2>7. QED
    BY <2>4, <2>5, <2>6
<1>3. QED
  BY <1>1, <1>2, FollowStep, PTL DEF DecisionSpec

-----------------------------------------------------------------------------
(* The address a request is attributed to.                                   *)

\* The last k parts are the first k hops.
EndsWith(parts, hops, k) ==
  \E n \in Nat : Len(parts) = n + k /\ \A i \in 1..k : parts[n + i] = hops[i]

\* What the application reads of the header ends with the hops before the last proxy,
\* whatever the host forged in front of them.
LEMMA PartsEndWithTheHops ==
  ASSUME setup \in Setups, NEW v \in setup.visits,
         NEW hops, hops = <<v.host>> \o v.chain, NEW parts, parts = Without(Sent(v).header, {Blank})
  PROVE  /\ hops \in Seq(Addresses) /\ Len(hops) = Len(v.chain) + 1 /\ hops[1] \notin Trusted
         /\ \A i \in 2..Len(hops) : hops[i] \in Trusted
         /\ EndsWith(parts, hops, Len(v.chain))
<1> DEFINE chain == v.chain
           S == STRING \union Addresses
           seen == SubSeq(hops, 1, Len(hops) - 1)
           front == Without(v.forged, {Blank})
<1>1. /\ v.host \in Addresses \ Trusted /\ chain \in Seq(Trusted) /\ v.forged \in Seq(STRING)
      /\ Trusted \subseteq Addresses /\ Blank \notin Addresses
  BY VisitsAssumption
<1>2. Sent(v).header = v.forged \o seen BY DEF Sent
<1> HIDE DEF chain
<1>3. /\ hops \in Seq(Addresses) /\ Len(hops) = Len(chain) + 1 /\ hops[1] = v.host
      /\ \A i \in 2..Len(hops) : hops[i] = chain[i - 1]
  <2> DEFINE first == <<v.host>>
  <2>1. first \in Seq(Addresses) /\ Len(first) = 1 /\ first[1] = v.host /\ chain \in Seq(Addresses)
    BY <1>1
  <2>2. hops = first \o chain BY DEF chain
  <2> HIDE DEF first
  <2>3. first \o chain \in Seq(Addresses) BY <2>1, ConcatAt
  <2>4. Len(first \o chain) = Len(first) + Len(chain) BY <2>1, ConcatAt
  <2>5. \A i \in 1..Len(first) : (first \o chain)[i] = first[i] BY <2>1, ConcatAt
  <2>6. \A i \in 1..Len(chain) : (first \o chain)[Len(first) + i] = chain[i] BY <2>1, ConcatAt
  <2>7. Len(chain) \in Nat /\ 1 \in 1..Len(first) BY <2>1
  <2>8. ASSUME NEW i \in 2..Len(hops) PROVE hops[i] = chain[i - 1]
    <3>1. i - 1 \in 1..Len(chain) /\ Len(first) + (i - 1) = i BY <2>1, <2>2, <2>4, <2>7
    <3>2. (first \o chain)[Len(first) + (i - 1)] = chain[i - 1] BY <2>6, <3>1
    <3> QED BY <2>2, <3>1, <3>2
  <2>9. hops \in Seq(Addresses) BY <2>2, <2>3
  <2>10. Len(hops) = Len(chain) + 1 BY <2>1, <2>2, <2>4, <2>7
  <2>11. hops[1] = v.host BY <2>1, <2>2, <2>5, <2>7
  <2> QED BY <2>8, <2>9, <2>10, <2>11
<1>4. \A i \in 2..Len(hops) : hops[i] \in Trusted BY <1>1, <1>3
<1>5. seen \in Seq(Addresses) /\ Len(seen) = Len(chain) /\ \A i \in 1..Len(chain) : seen[i] = hops[i]
  BY <1>1, <1>3
<1> HIDE DEF seen, S
<1>6. v.forged \in Seq(S) /\ seen \in Seq(S) BY <1>1, <1>5 DEF S
<1>7. Without(seen, {Blank}) = seen
  <2>1. \A i \in 1..Len(seen) : seen[i] \notin {Blank} BY <1>1, <1>5
  <2> QED BY <1>6, <2>1, WithoutNone
<1>8. parts = front \o seen /\ front \in Seq(S)
  <2> DEFINE forged == v.forged
             T == {Blank}
  <2>1. forged \in Seq(S) /\ seen \in Seq(S) BY <1>6
  <2>2. parts = Without(forged \o seen, T) BY <1>2
  <2> HIDE DEF forged, T
  <2>3. Without(forged \o seen, T) = Without(forged, T) \o Without(seen, T)
    BY <2>1, WithoutConcat
  <2>4. Without(forged, T) \in Seq(S) BY <2>1, WithoutPlaces
  <2> QED BY <1>7, <2>2, <2>3, <2>4 DEF forged, T
<1> HIDE DEF front
<1>9. /\ Len(front) \in Nat /\ Len(parts) = Len(front) + Len(chain)
      /\ \A i \in 1..Len(chain) : parts[Len(front) + i] = hops[i]
  <2>1. Len(front) \in Nat BY <1>8
  <2>2. /\ Len(front \o seen) = Len(front) + Len(seen)
        /\ \A i \in 1..Len(seen) : (front \o seen)[Len(front) + i] = seen[i]
    BY <1>6, <1>8, ConcatAt
  <2> QED BY <1>5, <1>8, <2>1, <2>2
<1> QED BY <1>1, <1>3, <1>4, <1>9 DEF chain, EndsWith

\* ip.py:49-114.  Whatever a host forges, the address its request is attributed to is the
\* last one the configured proxies vouch for.
THEOREM AddressIsResponsible ==
  ASSUME setup \in Setups, NEW v \in setup.visits
  PROVE  Address(v) = Responsible(v) /\ Responsible(v) \in Addresses
<1> DEFINE hops  == <<v.host>> \o v.chain
           parts == Without(Sent(v).header, {Blank})
           count == setup.count
           L == Len(v.chain)
           claimed == ClientFromForwardedFor(Sent(v).header, count)
           remote == hops[L + 1]
<1>0. hops = <<v.host>> \o v.chain /\ parts = Without(Sent(v).header, {Blank}) OBVIOUS
<1> HIDE DEF hops, parts
<1>1. /\ hops \in Seq(Addresses) /\ Len(hops) = L + 1 /\ hops[1] \notin Trusted
      /\ \A i \in 2..Len(hops) : hops[i] \in Trusted
  BY <1>0, PartsEndWithTheHops
<1>2. EndsWith(parts, hops, L) BY <1>0, PartsEndWithTheHops
<1>3. count \in Nat /\ L \in Nat /\ Nobody \notin Addresses BY VisitsAssumption
<1>4. Sent(v).remote = remote BY <1>0, <1>1 DEF Sent
<1>5. Responsible(v) = IF count > 0 /\ L >= count THEN hops[L + 1 - count] ELSE remote
  BY <1>0, <1>1, <1>3, SMTT(30) DEF Responsible
<1>6. Address(v) = CASE remote \notin Addresses -> Nobody
                     [] remote \in Addresses /\ (count = 0 \/ remote \notin Trusted) -> remote
                     [] OTHER -> IF claimed = Nobody THEN remote ELSE claimed
  BY <1>4 DEF Address, ResolveClientIp
<1>7. claimed = IF /\ Len(parts) >= count
                   /\ {parts[i] : i \in (Len(parts) - count + 2)..Len(parts)} \subseteq Trusted
                   /\ parts[Len(parts) - count + 1] \in Addresses
                THEN parts[Len(parts) - count + 1] ELSE Nobody
  BY <1>0 DEF ClientFromForwardedFor, Hops
<1> HIDE DEF count, L, claimed
<1>8. PICK n \in Nat : Len(parts) = n + L /\ \A i \in 1..L : parts[n + i] = hops[i]
  BY <1>2 DEF EndsWith
<1>9. \A i \in 1..(L + 1) : hops[i] \in Addresses BY <1>1, <1>3
<1>10. remote \in Addresses BY <1>3, <1>9
<1>11. CASE count = 0 BY <1>3, <1>5, <1>6, <1>10, <1>11
<1>12. CASE L = 0
  <2>1. remote \notin Trusted BY <1>1, <1>12
  <2>2. Responsible(v) = remote BY <1>3, <1>5, <1>12
  <2> QED BY <1>6, <1>10, <2>1, <2>2
<1>13. CASE count > 0 /\ L > 0 /\ count > L
  <2>1. Responsible(v) = remote BY <1>5, <1>3, <1>13
  <2>2. ASSUME Len(parts) >= count
        PROVE  ~({parts[i] : i \in (Len(parts) - count + 2)..Len(parts)} \subseteq Trusted)
    <3>1. n + 1 \in (Len(parts) - count + 2)..Len(parts) /\ 1 \in 1..L BY <1>8, <1>3, <1>13
    <3>2. parts[n + 1] = hops[1] BY <1>8, <3>1
    <3> QED BY <1>1, <3>1, <3>2
  <2>3. claimed = Nobody BY <1>7, <2>2
  <2> QED BY <1>6, <1>10, <2>1, <2>3
<1>14. CASE count > 0 /\ L > 0 /\ count <= L
  <2>1. remote \in Trusted BY <1>1, <1>3, <1>14
  <2>2. Len(parts) >= count BY <1>8, <1>3, <1>14
  <2>3. ASSUME NEW i \in (Len(parts) - count + 2)..Len(parts) PROVE parts[i] \in Trusted
    <3>1. i - n \in 2..L /\ i = n + (i - n) BY <1>8, <1>3, <1>14
    <3>2. parts[i] = hops[i - n] BY <1>8, <3>1
    <3> QED BY <1>1, <1>3, <3>1, <3>2
  <2>4. parts[Len(parts) - count + 1] = hops[L + 1 - count]
    <3>1. L + 1 - count \in 1..L /\ Len(parts) - count + 1 = n + (L + 1 - count)
      BY <1>8, <1>3, <1>14
    <3> QED BY <1>8, <3>1
  <2>5. hops[L + 1 - count] \in Addresses
    <3>1. L + 1 - count \in 1..(L + 1) BY <1>3, <1>14
    <3> QED BY <1>9, <3>1
  <2>6. claimed = hops[L + 1 - count] BY <1>7, <2>2, <2>3, <2>4, <2>5
  <2>7. Responsible(v) = hops[L + 1 - count] BY <1>5, <1>3, <1>14
  <2> QED BY <1>3, <1>6, <1>10, <1>14, <2>1, <2>5, <2>6, <2>7
<1> QED BY <1>3, <1>11, <1>12, <1>13, <1>14

-----------------------------------------------------------------------------
(* Whoever is shut out stays out.                                            *)

\* The visits so far are visits of the settings, the last of them the current one.
VisitsOK ==
  /\ setup \in Setups /\ past \in Seq(setup.visits)
  /\ phase \in {"idle", "safe", "view", "respond"}
  /\ phase # "idle" => past # <<>> /\ visit = past[Len(past)]

\* The current visit is one of the settings.
LEMMA CurrentVisit ==
  ASSUME VisitsOK, phase # "idle"
  PROVE  visit \in setup.visits /\ Len(past) \in Nat \ {0} /\ visit = past[Len(past)]
<1>1. past \in Seq(setup.visits) /\ past # <<>> /\ visit = past[Len(past)] BY DEF VisitsOK
<1> QED BY <1>1

\* Every step keeps the visits in order.
LEMMA VisitsStep == VisitsOK /\ [DecisionNext]_decisionVars => VisitsOK'
<1> SUFFICES ASSUME VisitsOK, [DecisionNext]_decisionVars PROVE VisitsOK' OBVIOUS
<1>1. ASSUME NEW v \in setup.visits, Visit(v) PROVE VisitsOK'
  <2>1. /\ past' = Append(past, v) /\ past \in Seq(setup.visits) /\ setup' = setup /\ visit' = v
        /\ phase' \in {"idle", "safe", "view"} /\ setup \in Setups
    BY <1>1 DEF Visit, VisitsOK
  <2>2. past' \in Seq(setup.visits) /\ past' # <<>> /\ past'[Len(past')] = v BY <2>1
  <2> QED BY <2>1, <2>2 DEF VisitsOK
<1>2. CASE SafeRules BY <1>2 DEF SafeRules, VisitsOK
<1>3. CASE Save BY <1>3 DEF Save, Recorded, VisitsOK
<1>4. CASE Answer BY <1>4 DEF Answer, Recorded, VisitsOK
<1>5. CASE UNCHANGED decisionVars BY <1>5 DEF decisionVars, VisitsOK
<1> QED BY <1>1, <1>2, <1>3, <1>4, <1>5 DEF DecisionNext

\* The scopes of a summary, one at a time.
LEMMA ScopesAre ==
  ASSUME NEW summary, NEW types, NEW s
  PROVE  s \in BlockScopes(summary, types) <=>
           \E t \in types \intersect {"user", "session", "ip"} :
             summary[t] # Nobody /\ s = [type |-> t, value |-> summary[t]]
BY DEF BlockScopes, ScopeKeys

\* A blocking match bans every scope its action blocks.
LEMMA ScopesAreBanned ==
  ASSUME NEW rule, NEW summary, IsBlocking(ResolveRuleAction(rule)),
         NEW s \in BlockScopes(summary, ResolveRuleAction(rule).scopes)
  PROVE  \E b \in Imposed(rule, summary) : b.type = s.type /\ b.value = s.value
<1> DEFINE action == ResolveRuleAction(rule)
           b == [type |-> s.type, value |-> s.value, ttl |-> BlockTtl(rule, action), rule |-> rule]
<1>1. b \in Imposed(rule, summary) BY DEF Imposed
<1>2. b.type = s.type /\ b.value = s.value OBVIOUS
<1> QED BY <1>1, <1>2

\* The event of a model change and that of the response.
ModelEvent(v)  == FromMapping(LogAttributes(v, "model.update", LogEntry(v)))
AnswerEvent(v) ==
  FromMapping(LogAttributes(v, IF v.what = "change" THEN "ok" ELSE v.what, RequestInfo(v)))

\* The summary a match of rec is applied with.
AppliedTo(rec) == IF setup.sink THEN SinkSummary(rec) ELSE rec.summary

\* Who an event is about: the visitor, but for what Owed leaves out.
LEMMA EventIsAbout ==
  ASSUME setup \in Setups, NEW v \in setup.visits, NEW rec \in {ModelEvent(v), AnswerEvent(v)}
  PROVE  /\ rec.event.type \in {"model.update", "ok", "error"}
         /\ rec.event.type = "model.update" =>
              /\ rec = ModelEvent(v) /\ rec.event.source = RemoteAddr(v)
              /\ rec.event.route = Nobody
         /\ rec.event.type # "model.update" =>
              /\ rec.event.source = Responsible(v) /\ rec.event.route = v.route
              /\ rec.event.path = v.path
         /\ ~setup.sink =>
              AppliedTo(rec).user =
                IF rec.event.type = "model.update" /\ ~v.early THEN Nobody ELSE v.user
         /\ setup.listed \/ rec.event.type = "model.update" => AppliedTo(rec).session = Session(v)
         /\ AppliedTo(rec).ip = rec.event.source /\ rec.summary.ip = rec.event.source
<1>1. v.what \in {"ok", "error", "change"} /\ Address(v) = Responsible(v)
  BY VisitsAssumption, AddressIsResponsible
<1>2. CASE rec = ModelEvent(v)
  BY <1>2 DEF ModelEvent, FromMapping, LogAttributes, LogEntry, Identity, SinkSummary, AppliedTo
<1>3. CASE rec = AnswerEvent(v)
  BY <1>1, <1>3 DEF AnswerEvent, FromMapping, LogAttributes, RequestInfo, Identity, SinkSummary, AppliedTo
<1> QED BY <1>2, <1>3

\* Whom a match should shut out is among the scopes it is applied to.
LEMMA OwedIsApplied ==
  ASSUME setup \in Setups, NEW v \in setup.visits, NEW rec \in {ModelEvent(v), AnswerEvent(v)},
         NEW rule, NEW s \in Owed(rule, v, rec.event.type, setup.sink)
  PROVE  /\ IsBlocking(ResolveRuleAction(rule)) /\ s.value # Nobody
         /\ s.type \in {"user", "session", "ip"}
         /\ s \in BlockScopes(AppliedTo(rec), ResolveRuleAction(rule).scopes)
<1> DEFINE action == ResolveRuleAction(rule)
           type == rec.event.type
           who == [user |-> IF type = "model.update" /\ ~v.early THEN Nobody ELSE v.user,
                   session |-> Session(v), ip |-> Responsible(v)]
<1>1. type # "pre" BY EventIsAbout
<1>2. IsBlocking(action) BY DEF Owed
<1>3. PICK t \in action.scopes \intersect {"user", "session", "ip"} :
        /\ who[t] # Nobody /\ s = [type |-> t, value |-> who[t]]
        /\ t = "session" => setup.listed \/ type = "model.update"
        /\ t = "user" => ~setup.sink
        /\ t = "ip" => type # "model.update"
  <2> DEFINE types == action.scopes
                  \ ((IF type # "model.update" /\ type # "pre" /\ ~setup.listed
                      THEN {"session"} ELSE {})
                     \union (IF setup.sink THEN {"user"} ELSE {})
                     \union (IF type = "model.update" THEN {"ip"} ELSE {}))
  <2>1. s \in BlockScopes(who, types)
    <3>1. (type \in {"pre", "model.update"}) = (type = "model.update") BY <1>1
    <3> QED BY <1>1, <1>2, <3>1 DEF Owed
  <2> HIDE DEF types, who, action
  <2>2. PICK t \in types \intersect {"user", "session", "ip"} :
          who[t] # Nobody /\ s = [type |-> t, value |-> who[t]]
    BY <2>1, ScopesAre
  <2>3. t \in action.scopes /\ (t = "session" => setup.listed \/ type = "model.update")
        /\ (t = "user" => ~setup.sink) /\ (t = "ip" => type # "model.update")
    BY <1>1, <2>2 DEF types
  <2> QED BY <2>2, <2>3
<1>4. AppliedTo(rec)[t] = who[t]
  <2>1. CASE t = "user" BY <1>3, <2>1, EventIsAbout
  <2>2. CASE t = "session" BY <1>3, <2>2, EventIsAbout
  <2>3. CASE t = "ip" BY <1>3, <2>3, EventIsAbout
  <2> QED BY <1>3, <2>1, <2>2, <2>3
<1> HIDE DEF who, action
<1>5. s \in BlockScopes(AppliedTo(rec), action.scopes) BY <1>3, <1>4, ScopesAre
<1> QED BY <1>2, <1>3, <1>5 DEF action

\* Whoever was struck is banned.
StruckBanned ==
  \A s \in struck :
    /\ s.type \in {"user", "session", "ip"} /\ s.value # Nobody
    /\ \E b \in bans : b.type = s.type /\ b.value = s.value

ShutInv == VisitsOK /\ StruckBanned /\ ShutOutStaysOut

\* Bans are only added, so whoever was struck stays banned.
LEMMA StruckStay ==
  ASSUME StruckBanned, bans \subseteq bans',
         \A s \in struck' : \/ s \in struck
                            \/ /\ s.type \in {"user", "session", "ip"} /\ s.value # Nobody
                               /\ \E b \in bans' : b.type = s.type /\ b.value = s.value
  PROVE  StruckBanned'
BY DEF StruckBanned

\* Recording an event bans whomever it strikes.
LEMMA RecordedStrikes ==
  ASSUME setup \in Setups, visit \in setup.visits, StruckBanned,
         NEW rec \in {ModelEvent(visit), AnswerEvent(visit)}, Recorded(rec)
  PROVE  StruckBanned'
<1>1. /\ bans' = bans \union UNION {Imposed(r, AppliedTo(rec)) : r \in Matching(rec)}
      /\ struck' = struck \union
           UNION {Owed(r, visit, rec.event.type, setup.sink) : r \in Matching(rec)}
  BY DEF Recorded, AppliedTo
<1>2. ASSUME NEW s \in struck', s \notin struck
      PROVE  /\ s.type \in {"user", "session", "ip"} /\ s.value # Nobody
             /\ \E b \in bans' : b.type = s.type /\ b.value = s.value
  <2>1. PICK r \in Matching(rec) : s \in Owed(r, visit, rec.event.type, setup.sink)
    BY <1>1, <1>2
  <2>2. /\ IsBlocking(ResolveRuleAction(r)) /\ s.value # Nobody
        /\ s.type \in {"user", "session", "ip"}
        /\ s \in BlockScopes(AppliedTo(rec), ResolveRuleAction(r).scopes)
    BY <2>1, OwedIsApplied
  <2>3. PICK b \in Imposed(r, AppliedTo(rec)) : b.type = s.type /\ b.value = s.value
    BY <2>2, ScopesAreBanned
  <2>4. b \in bans' BY <1>1, <2>3
  <2> QED BY <2>2, <2>3, <2>4
<1> QED BY <1>1, <1>2, StruckStay

\* Who is seen at ingress is who the visitor is.
LEMMA IngressSeesTheVisitor ==
  ASSUME setup \in Setups, NEW v \in setup.visits
  PROVE  IngressSummary(v) = Visitor(v)
BY AddressIsResponsible DEF IngressSummary, Visitor

\* The safe rule before the view bans whomever it strikes.
LEMMA SafeRulesStrike ==
  ASSUME setup \in Setups, visit \in setup.visits, StruckBanned, SafeRules
  PROVE  /\ StruckBanned'
         /\ phase' = "idle" \/ (phase' = "view" /\ struck' = struck)
<1> DEFINE rule == "repeated_route"
           fires == Address(visit) # Nobody /\ Count(RouteKey(visit)) + 1 >= Threshold
           who == [user |-> IF ~visit.early THEN Nobody ELSE visit.user,
                   session |-> Session(visit), ip |-> Responsible(visit)]
<1>1. /\ bans' = bans \union (IF fires THEN Imposed(rule, IngressSummary(visit)) ELSE {})
      /\ struck' = struck \union (IF fires THEN Owed(rule, visit, "pre", FALSE) ELSE {})
      /\ phase' = IF fires /\ IsBlocking(ResolveRuleAction(rule)) THEN "idle" ELSE "view"
  BY DEF SafeRules
<1> HIDE DEF fires, rule
<1>2. Owed(rule, visit, "pre", FALSE) =
        IF ~IsBlocking(ResolveRuleAction(rule)) THEN {}
        ELSE BlockScopes(who, ResolveRuleAction(rule).scopes)
  <2> DEFINE action == ResolveRuleAction(rule)
             types  == action.scopes
                  \ ((IF "pre" # "model.update" /\ "pre" # "pre" /\ ~setup.listed
                      THEN {"session"} ELSE {})
                     \union (IF FALSE THEN {"user"} ELSE {})
                     \union (IF "pre" = "model.update" THEN {"ip"} ELSE {}))
  <2>1. types = action.scopes OBVIOUS
  <2>2. Owed(rule, visit, "pre", FALSE) =
          IF ~IsBlocking(action) THEN {}
          ELSE BlockScopes([user |-> IF "pre" \in {"pre", "model.update"} /\ ~visit.early
                                     THEN Nobody ELSE visit.user,
                            session |-> Session(visit), ip |-> Responsible(visit)], types)
    BY DEF Owed
  <2> QED BY <2>1, <2>2
<1>3. IngressSummary(visit) = who
  BY AddressIsResponsible DEF IngressSummary, Identity
<1> HIDE DEF who
<1>4. ASSUME NEW s \in struck', s \notin struck
      PROVE  /\ s.type \in {"user", "session", "ip"} /\ s.value # Nobody
             /\ \E b \in bans' : b.type = s.type /\ b.value = s.value
  <2>1. fires /\ IsBlocking(ResolveRuleAction(rule))
        /\ s \in BlockScopes(who, ResolveRuleAction(rule).scopes)
    BY <1>1, <1>2, <1>4
  <2>2. s.type \in {"user", "session", "ip"} /\ s.value # Nobody
    <3>1. \E t \in ResolveRuleAction(rule).scopes \intersect {"user", "session", "ip"} :
            who[t] # Nobody /\ s = [type |-> t, value |-> who[t]]
      BY <2>1, ScopesAre
    <3> QED BY <3>1
  <2>3. PICK b \in Imposed(rule, who) : b.type = s.type /\ b.value = s.value
    BY <2>1, ScopesAreBanned
  <2>4. b \in bans' BY <1>1, <1>3, <2>1, <2>3
  <2> QED BY <2>2, <2>3, <2>4
<1>5. StruckBanned' BY <1>1, <1>4, StruckStay
<1>6. phase' = "idle" \/ (phase' = "view" /\ struck' = struck) BY <1>1, <1>2
<1> QED BY <1>5, <1>6

\* Who the current visitor is does not change with the rest of the state.
LEMMA SameVisitor ==
  ASSUME setup' = setup, NEW v, visit' = v
  PROVE  Visitor(visit)' = Visitor(v)
BY DEF Visitor, Identity, Session, Responsible

\* Ingress lets nobody in whom a match has struck, and no step strikes the visit under way.
LEMMA ShutStep == ShutInv /\ [DecisionNext]_decisionVars => ShutInv'
<1> SUFFICES ASSUME ShutInv, [DecisionNext]_decisionVars PROVE StruckBanned' /\ ShutOutStaysOut'
  BY VisitsStep DEF ShutInv
<1>1. VisitsOK /\ setup \in Setups /\ StruckBanned /\ ShutOutStaysOut BY DEF ShutInv, VisitsOK
<1>2. ASSUME NEW v \in setup.visits, Visit(v) PROVE StruckBanned' /\ ShutOutStaysOut'
  <2>1. /\ setup' = setup /\ visit' = v /\ bans' = bans /\ struck' = struck
        /\ IsBanned(IngressSummary(v)) => phase' = "idle"
    BY <1>2 DEF Visit
  <2>2. StruckBanned' BY <1>1, <2>1 DEF StruckBanned
  <2>3. ASSUME phase' \in {"safe", "view"}, NEW t \in {"user", "session", "ip"},
               [type |-> t, value |-> Visitor(v)[t]] \in struck
        PROVE  FALSE
    <3> DEFINE s == [type |-> t, value |-> Visitor(v)[t]]
    <3>1. PICK b \in bans : b.type = t /\ b.value = Visitor(v)[t] BY <1>1, <2>3 DEF StruckBanned
    <3>2. Visitor(v)[t] # Nobody BY <1>1, <2>3 DEF StruckBanned
    <3>3. s \in BlockScopes(Visitor(v), {"user", "session", "ip"})
      BY <3>2, ScopesAre
    <3>4. IsBanned(Visitor(v)) BY <3>1, <3>3 DEF IsBanned
    <3>5. IngressSummary(v) = Visitor(v) BY <1>1, IngressSeesTheVisitor
    <3> QED BY <2>1, <2>3, <3>4, <3>5
  <2>4. Visitor(visit)' = Visitor(v) BY <2>1, SameVisitor
  <2> QED BY <2>1, <2>2, <2>3, <2>4 DEF ShutOutStaysOut
<1>3. CASE SafeRules
  <2>1. phase = "safe" /\ setup' = setup /\ visit' = visit BY <1>3 DEF SafeRules
  <2>2. visit \in setup.visits BY <1>1, <2>1, CurrentVisit
  <2>3. StruckBanned' /\ (phase' = "idle" \/ (phase' = "view" /\ struck' = struck))
    BY <1>1, <1>3, <2>2, SafeRulesStrike
  <2>4. Visitor(visit)' = Visitor(visit) BY <2>1 DEF Visitor, Identity, Session, Responsible
  <2> QED BY <1>1, <2>1, <2>3, <2>4 DEF ShutOutStaysOut
<1>4. CASE Save
  <2>1. phase = "view" /\ phase' = "respond" /\ Recorded(ModelEvent(visit))
    BY <1>4 DEF Save, ModelEvent
  <2>2. visit \in setup.visits BY <1>1, <2>1, CurrentVisit
  <2>3. StruckBanned' BY <1>1, <2>1, <2>2, RecordedStrikes
  <2> QED BY <2>1, <2>3 DEF ShutOutStaysOut
<1>5. CASE Answer
  <2>1. phase # "idle" /\ phase' = "idle" /\ Recorded(AnswerEvent(visit))
    BY <1>5 DEF Answer, AnswerEvent
  <2>2. visit \in setup.visits BY <1>1, <2>1, CurrentVisit
  <2>3. StruckBanned' BY <1>1, <2>1, <2>2, RecordedStrikes
  <2> QED BY <2>1, <2>3 DEF ShutOutStaysOut
<1>6. CASE UNCHANGED decisionVars
  <2>1. Visitor(visit)' = Visitor(visit)
    BY <1>6 DEF decisionVars, Visitor, Identity, Session, Responsible
  <2> QED BY <1>1, <1>6, <2>1 DEF decisionVars, StruckBanned, ShutOutStaysOut
<1> QED BY <1>2, <1>3, <1>4, <1>5, <1>6 DEF DecisionNext

\* ENF scopes.py:19-42, RULES events.py:131-166.  Whoever a blocking match was about gets no
\* later request past ingress, whatever the rules, settings, proxies and forged headers.
THEOREM ShutOutHolds == DecisionSpec => []ShutOutStaysOut
<1>1. DecisionInit => ShutInv
  BY DEF DecisionInit, ShutInv, VisitsOK, StruckBanned, ShutOutStaysOut
<1>2. ShutInv => ShutOutStaysOut BY DEF ShutInv
<1> QED BY <1>1, <1>2, ShutStep, PTL DEF DecisionSpec

-----------------------------------------------------------------------------
(* Only an actor's own requests count against it.                            *)

\* How many of the visits a rule's counter has seen: not yet the current one, before that
\* rule has looked at it.
Counted(rule) ==
  IF phase = "idle" \/ (rule = "repeated_route" /\ phase # "safe") THEN Len(past)
  ELSE Len(past) - 1

\* The visits of ip among the first n.
FirstVisits(ip, n) == {i \in Visits(ip) : i <= n}

\* A counter counts visits of its address, a row is of a visit from its address.
CountsOwn ==
  \A c \in counts : c.n \in Nat /\ c.n <= Cardinality(FirstVisits(c.key.source, Counted(c.key.rule)))
RowsOwn == \A h \in history : \E i \in Visits(h.ip) : past[i].path = h.path

OwnInv == VisitsOK /\ CountsOwn /\ RowsOwn /\ OnlyOwnRequestsCount

\* A set of the first n numbers is finite.
LEMMA FiniteUpTo ==
  ASSUME NEW n \in Nat, NEW S \in SUBSET (1..n)
  PROVE  IsFiniteSet(S) /\ Cardinality(S) \in Nat
<1>1. IsFiniteSet(1..n) BY FS_Interval
<1>2. IsFiniteSet(S) BY <1>1, FS_Subset
<1> QED BY <1>2, FS_CardinalityType

\* An address has finitely many visits.
LEMMA VisitsAreFinite ==
  ASSUME VisitsOK, NEW ip, NEW n
  PROVE  /\ IsFiniteSet(Visits(ip)) /\ IsFiniteSet(FirstVisits(ip, n))
         /\ Cardinality(Visits(ip)) \in Nat /\ Cardinality(FirstVisits(ip, n)) \in Nat
<1>1. Len(past) \in Nat /\ Visits(ip) \subseteq 1..Len(past) BY DEF VisitsOK, Visits
<1>2. FirstVisits(ip, n) \subseteq Visits(ip) BY DEF FirstVisits
<1>3. FirstVisits(ip, n) \subseteq 1..Len(past) BY <1>1, <1>2
<1> QED BY <1>1, <1>3, FiniteUpTo

\* The current visit is one more of its address.
LEMMA OneMore ==
  ASSUME VisitsOK, phase # "idle"
  PROVE  LET ip == Responsible(visit) IN
         /\ Cardinality(Visits(ip)) = Cardinality(FirstVisits(ip, Len(past) - 1)) + 1
         /\ FirstVisits(ip, Len(past)) = Visits(ip) /\ Len(past) \in Visits(ip)
<1> DEFINE ip == Responsible(visit)
           before == FirstVisits(ip, Len(past) - 1)
<1>1. Len(past) \in Nat \ {0} /\ visit = past[Len(past)] /\ DOMAIN past = 1..Len(past)
  BY CurrentVisit DEF VisitsOK
<1>2. Len(past) \in Visits(ip) BY <1>1 DEF Visits
<1>3. Visits(ip) \subseteq 1..Len(past) BY <1>1 DEF Visits
<1> HIDE DEF ip
<1>4. Visits(ip) = before \union {Len(past)} /\ Len(past) \notin before
  BY <1>1, <1>2, <1>3 DEF FirstVisits
<1>5. IsFiniteSet(before) BY VisitsAreFinite
<1>6. Cardinality(Visits(ip)) = Cardinality(before) + 1
  <2> HIDE DEF before
  <2> QED BY <1>4, <1>5, FS_AddElement
<1>7. FirstVisits(ip, Len(past)) = Visits(ip) BY <1>1, <1>3 DEF FirstVisits
<1> QED BY <1>2, <1>6, <1>7 DEF ip

\* What a counter shows is bounded by the visits it has seen.
LEMMA CountIs ==
  ASSUME VisitsOK, CountsOwn, NEW key
  PROVE  /\ Count(key) \in Nat
         /\ Count(key) <= Cardinality(FirstVisits(key.source, Counted(key.rule)))
<1>1. CASE \E c \in counts : c.key = key
  <2> DEFINE c == CHOOSE c \in counts : c.key = key
  <2>1. c \in counts /\ c.key = key /\ Count(key) = c.n BY <1>1 DEF Count
  <2> QED BY <2>1 DEF CountsOwn
<1>2. CASE ~\E c \in counts : c.key = key
  <2>1. Count(key) = 0 BY <1>2 DEF Count
  <2> QED BY <2>1, VisitsAreFinite
<1> QED BY <1>1, <1>2

\* A counter that has not seen the current visit may count it.
LEMMA CountOne ==
  ASSUME VisitsOK, CountsOwn, phase # "idle", NEW key, key.source = Responsible(visit),
         Counted(key.rule) = Len(past) - 1
  PROVE  Count(key) + 1 \in Nat /\ Count(key) + 1 <= Cardinality(Visits(key.source))
<1>1. /\ Count(key) \in Nat
      /\ Count(key) <= Cardinality(FirstVisits(key.source, Len(past) - 1))
  BY CountIs
<1>2. Cardinality(Visits(key.source)) = Cardinality(FirstVisits(key.source, Len(past) - 1)) + 1
  BY OneMore
<1>3. Cardinality(FirstVisits(key.source, Len(past) - 1)) \in Nat BY VisitsAreFinite
<1> QED BY <1>1, <1>2, <1>3

\* Visits stay, and the counters have seen no fewer of them.
LEMMA VisitsGrow ==
  ASSUME VisitsOK, VisitsOK', [DecisionNext]_decisionVars
  PROVE  /\ \A ip : Visits(ip) \subseteq Visits(ip)' /\ ChangesBy(ip) \subseteq ChangesBy(ip)'
         /\ \A i \in DOMAIN past : i \in DOMAIN past' /\ past'[i] = past[i]
         /\ \A rule : Counted(rule) \in Int /\ Counted(rule)' \in Int /\ Counted(rule) <= Counted(rule)'
<1>1. setup' = setup
  BY DEF DecisionNext, Visit, SafeRules, Save, Answer, Recorded, decisionVars
<1>2. Len(past) \in Nat /\ Len(past') \in Nat BY DEF VisitsOK
<1>3. CASE \E v \in setup.visits : Visit(v)
  <2>1. PICK v \in setup.visits : Visit(v) BY <1>3
  <2>2. past \in Seq(setup.visits) /\ past' = Append(past, v) /\ phase = "idle" BY <2>1 DEF VisitsOK, Visit
  <2>3. Len(past') = Len(past) + 1 /\ \A i \in DOMAIN past : i \in DOMAIN past' /\ past'[i] = past[i]
    BY <2>2
  <2>4. \A rule : Counted(rule) \in Int /\ Counted(rule)' \in Int /\ Counted(rule) <= Counted(rule)'
    BY <1>2, <2>2, <2>3 DEF Counted
  <2>5. \A ip : Visits(ip) \subseteq Visits(ip)' /\ ChangesBy(ip) \subseteq ChangesBy(ip)'
    BY <1>1, <2>3 DEF Visits, ChangesBy, Responsible
  <2> QED BY <2>3, <2>4, <2>5
<1>4. CASE SafeRules \/ Save \/ Answer \/ UNCHANGED decisionVars
  <2>1. past' = past
    BY <1>4 DEF SafeRules, Save, Answer, Recorded, decisionVars
  <2>2. phase' = phase \/ phase' = "idle" \/ (phase = "safe" /\ phase' = "view")
        \/ (phase = "view" /\ phase' = "respond")
    BY <1>4 DEF SafeRules, Save, Answer, decisionVars
  <2>3. \A rule : Counted(rule) \in Int /\ Counted(rule)' \in Int /\ Counted(rule) <= Counted(rule)'
    BY <1>2, <2>1, <2>2 DEF Counted
  <2>4. \A ip : Visits(ip) \subseteq Visits(ip)' /\ ChangesBy(ip) \subseteq ChangesBy(ip)'
    BY <1>1, <2>1 DEF Visits, ChangesBy, Responsible
  <2> QED BY <2>1, <2>3, <2>4
<1> QED BY <1>3, <1>4 DEF DecisionNext

\* What was true of the visits so far stays true.
LEMMA OwnStays ==
  ASSUME OwnInv, VisitsOK', [DecisionNext]_decisionVars
  PROVE  /\ \A c \in counts :
              c.n \in Nat /\ c.n <= Cardinality(FirstVisits(c.key.source, Counted(c.key.rule)))'
         /\ \A h \in history : \E i \in Visits(h.ip)' : past'[i].path = h.path
         /\ \A b \in bans : b.type = "ip" => Earned(b)'
<1>1. VisitsOK /\ CountsOwn /\ RowsOwn /\ OnlyOwnRequestsCount BY DEF OwnInv
<1>2. ASSUME NEW c \in counts
      PROVE  c.n \in Nat /\ c.n <= Cardinality(FirstVisits(c.key.source, Counted(c.key.rule)))'
  <2> DEFINE X == FirstVisits(c.key.source, Counted(c.key.rule))
             Y == FirstVisits(c.key.source, Counted(c.key.rule))'
  <2>1. X \subseteq Y
    <3>1. Counted(c.key.rule) \in Int /\ Counted(c.key.rule)' \in Int
          /\ Counted(c.key.rule) <= Counted(c.key.rule)'
      BY <1>1, VisitsGrow
    <3>2. Visits(c.key.source) \subseteq Visits(c.key.source)' BY <1>1, VisitsGrow
    <3>3. Visits(c.key.source) \subseteq Nat BY <1>1 DEF Visits, VisitsOK
    <3> QED BY <3>1, <3>2, <3>3 DEF FirstVisits
  <2>2. IsFiniteSet(Y) /\ Cardinality(Y) \in Nat
    <3>1. Len(past') \in Nat /\ Y \subseteq 1..Len(past') BY DEF VisitsOK, FirstVisits, Visits
    <3> HIDE DEF Y
    <3> QED BY <3>1, FiniteUpTo
  <2>3. Cardinality(X) \in Nat BY <1>1, VisitsAreFinite
  <2>4. c.n \in Nat /\ c.n <= Cardinality(X) BY <1>1 DEF CountsOwn
  <2> HIDE DEF X, Y
  <2>5. Cardinality(X) <= Cardinality(Y) BY <2>1, <2>2, FS_Subset
  <2>6. c.n <= Cardinality(Y) BY <2>2, <2>3, <2>4, <2>5
  <2> QED BY <2>4, <2>6 DEF Y
<1>3. ASSUME NEW h \in history PROVE \E i \in Visits(h.ip)' : past'[i].path = h.path
  <2>1. PICK i \in Visits(h.ip) : past[i].path = h.path BY <1>1 DEF RowsOwn
  <2>2. i \in DOMAIN past BY <2>1 DEF Visits
  <2>3. i \in Visits(h.ip)' BY <1>1, <2>1, VisitsGrow
  <2>4. past'[i] = past[i] BY <1>1, <2>2, VisitsGrow
  <2> QED BY <2>1, <2>3, <2>4
<1>4. ASSUME NEW b \in bans, b.type = "ip" PROVE Earned(b)'
  <2> DEFINE X == Visits(b.value)
             Y == Visits(b.value)'
  <2>1. Earned(b) BY <1>1, <1>4 DEF OnlyOwnRequestsCount
  <2>2. X \subseteq Y /\ ChangesBy(b.value) \subseteq ChangesBy(b.value)' BY <1>1, VisitsGrow
  <2>3. IsFiniteSet(Y) /\ Cardinality(Y) \in Nat
    <3>1. Len(past') \in Nat /\ Y \subseteq 1..Len(past') BY DEF VisitsOK, Visits
    <3> HIDE DEF Y
    <3> QED BY <3>1, FiniteUpTo
  <2>4. Cardinality(X) \in Nat BY <1>1, VisitsAreFinite
  <2>5. CASE b.rule = "sensitive_field_change"
    <3>1. ChangesBy(b.value) # {} BY <2>1, <2>5 DEF Earned
    <3> QED BY <2>2, <2>5, <3>1 DEF Earned
  <2>6. CASE b.rule # "sensitive_field_change"
    <3>1. Cardinality(X) >= Threshold BY <2>1, <2>6 DEF Earned
    <3> HIDE DEF X, Y
    <3>2. Cardinality(X) <= Cardinality(Y) BY <2>2, <2>3, FS_Subset
    <3>3. Cardinality(Y) >= Threshold BY <2>3, <2>4, <3>1, <3>2, DecisionsAssumption
    <3> QED BY <2>6, <3>3 DEF Earned, Y
  <2> QED BY <2>5, <2>6
<1>5. \A c \in counts :
        c.n \in Nat /\ c.n <= Cardinality(FirstVisits(c.key.source, Counted(c.key.rule)))'
  BY <1>2
<1>6. \A h \in history : \E i \in Visits(h.ip)' : past'[i].path = h.path BY <1>3
<1>7. \A b \in bans : b.type = "ip" => Earned(b)' BY <1>4
<1> QED BY <1>5, <1>6, <1>7

\* A counter that counts the current visit still counts visits of its address only.
LEMMA CountedOwn ==
  ASSUME OwnInv, VisitsOK', [DecisionNext]_decisionVars, phase # "idle",
         past' = past, setup' = setup, NEW key, key.source = Responsible(visit),
         Counted(key.rule) = Len(past) - 1, Counted(key.rule)' = Len(past),
         counts' = Incremented(key)
  PROVE  CountsOwn'
<1>1. VisitsOK /\ CountsOwn BY DEF OwnInv
<1>2. ASSUME NEW c \in counts', c \notin counts
      PROVE  c.n \in Nat /\ c.n <= Cardinality(FirstVisits(c.key.source, Counted(c.key.rule)))'
  <2>1. c = [key |-> key, n |-> Count(key) + 1] BY <1>2 DEF Incremented
  <2>2. c.key = key /\ c.n = Count(key) + 1 BY <2>1
  <2>3. c.n \in Nat /\ c.n <= Cardinality(Visits(key.source)) BY <1>1, <2>2, CountOne
  <2>4. FirstVisits(key.source, Len(past)) = Visits(key.source) BY <1>1, OneMore
  <2>5. FirstVisits(key.source, Counted(key.rule))' = FirstVisits(key.source, Len(past))
    BY DEF FirstVisits, Visits, Responsible
  <2> QED BY <2>2, <2>3, <2>4, <2>5
<1>3. \A c \in counts :
        c.n \in Nat /\ c.n <= Cardinality(FirstVisits(c.key.source, Counted(c.key.rule)))'
  BY OwnStays
<1> QED BY <1>2, <1>3 DEF CountsOwn

\* Whoever enumerates has made a visit for each of the paths.
LEMMA EnumerationIsOwn ==
  ASSUME OwnInv, phase # "idle", NEW rec, rec = AnswerEvent(visit), Enumerates(rec)
  PROVE  Cardinality(Visits(Responsible(visit))) >= Threshold
<1>1. VisitsOK /\ RowsOwn /\ setup \in Setups /\ visit \in setup.visits
  BY CurrentVisit DEF OwnInv, VisitsOK
<1> DEFINE ip == Responsible(visit)
           row == HistoryRow(rec)
           paths == {row.path} \union
             {h.path : h \in {g \in history : g.ip = row.ip /\ g.route = row.route}}
           f == [i \in Visits(ip) |-> past[i].path]
           visited == {past[i].path : i \in Visits(ip)}
<1>2. rec.event.type # "model.update" BY DEF Enumerates
<1>3. row.ip = ip /\ row.path = visit.path
  <2>1. rec.summary.ip = rec.event.source /\ rec.event.source = ip /\ rec.event.path = visit.path
    BY <1>1, <1>2, EventIsAbout
  <2> QED BY <2>1 DEF HistoryRow
<1>4. Cardinality(paths) >= Threshold BY DEF Enumerates
<1>5. visit.path \in visited
  <2>1. Len(past) \in Visits(ip) BY <1>1, OneMore
  <2>2. past[Len(past)] = visit BY <1>1, CurrentVisit
  <2> QED BY <2>1, <2>2
<1>6. paths \subseteq visited
  <2>1. ASSUME NEW h \in history, h.ip = ip PROVE h.path \in visited
    BY <1>1, <2>1 DEF RowsOwn
  <2> HIDE DEF row, ip, visited
  <2> QED BY <1>3, <1>5, <2>1
<1>7. f \in Surjection(Visits(ip), visited) BY DEF Surjection
<1>8. IsFiniteSet(Visits(ip)) /\ Cardinality(Visits(ip)) \in Nat BY <1>1, VisitsAreFinite
<1> HIDE DEF ip, row, paths, f, visited
<1>9. IsFiniteSet(visited) /\ Cardinality(visited) <= Cardinality(Visits(ip))
  BY <1>7, <1>8, FS_Surjection
<1>10. Cardinality(paths) <= Cardinality(visited) /\ IsFiniteSet(paths) BY <1>6, <1>9, FS_Subset
<1>11. Cardinality(paths) \in Nat /\ Cardinality(visited) \in Nat BY <1>9, <1>10, FS_CardinalityType
<1>12. Cardinality(Visits(ip)) >= Threshold
  BY <1>4, <1>8, <1>9, <1>10, <1>11, DecisionsAssumption
<1> QED BY <1>12 DEF ip

\* An address a match of an event bans is that of as many visits as the threshold, or the one
\* that a change of a sensitive field names.
LEMMA MatchIsOwn ==
  ASSUME OwnInv, phase # "idle", NEW rec \in {ModelEvent(visit), AnswerEvent(visit)},
         NEW r \in Matching(rec), NEW b \in Imposed(r, AppliedTo(rec)), b.type = "ip",
         rec.event.type = "model.update" => visit.what = "change"
  PROVE  Earned(b)
<1>1. VisitsOK /\ CountsOwn /\ setup \in Setups /\ visit \in setup.visits
  BY CurrentVisit DEF OwnInv, VisitsOK
<1>2. b.value = rec.event.source /\ b.rule = r
  <2>1. PICK s \in BlockScopes(AppliedTo(rec), ResolveRuleAction(r).scopes) :
          b.type = s.type /\ b.value = s.value /\ b.rule = r
    BY DEF Imposed
  <2>2. PICK t : s = [type |-> t, value |-> AppliedTo(rec)[t]] BY <2>1, ScopesAre
  <2>3. t = "ip" /\ b.value = AppliedTo(rec).ip BY <2>1, <2>2
  <2> QED BY <1>1, <2>1, <2>3, EventIsAbout
<1>3. CASE r = "sensitive_field_change"
  <2>1. rec.event.type = "model.update" BY <1>3 DEF Matching, ChangesSensitive
  <2>2. b.value = RemoteAddr(visit) BY <1>1, <1>2, <2>1, EventIsAbout
  <2>3. Len(past) \in DOMAIN past /\ past[Len(past)] = visit BY <1>1, CurrentVisit DEF VisitsOK
  <2>4. Len(past) \in ChangesBy(b.value) BY <2>1, <2>2, <2>3 DEF ChangesBy
  <2> QED BY <1>2, <1>3, <2>4 DEF Earned
<1>7. ASSUME r # "sensitive_field_change"
      PROVE  /\ rec = AnswerEvent(visit) /\ rec.event.type # "model.update"
             /\ rec.event.source = Responsible(visit)
  <2>1. rec.event.type # "model.update" BY <1>7 DEF Matching, ErrorsRepeat, Enumerates
  <2>2. rec.event.source = Responsible(visit) BY <1>1, <2>1, EventIsAbout
  <2>3. rec # ModelEvent(visit) BY <2>1 DEF ModelEvent, FromMapping, LogAttributes
  <2> QED BY <2>1, <2>2, <2>3
<1>4. CASE r = "repeated_client_error"
  <2> DEFINE key == ErrorKey(rec.event)
  <2>1. Count(key) + 1 >= Threshold BY <1>4 DEF Matching, ErrorsRepeat
  <2>2. key.source = Responsible(visit) /\ key.rule = "repeated_client_error"
    BY <1>4, <1>7 DEF ErrorKey
  <2>3. Counted(key.rule) = Len(past) - 1 BY <2>2 DEF Counted
  <2> HIDE DEF key
  <2>4. Count(key) + 1 \in Nat /\ Count(key) + 1 <= Cardinality(Visits(key.source))
    BY <1>1, <2>2, <2>3, CountOne
  <2>5. Cardinality(Visits(key.source)) \in Nat BY <1>1, VisitsAreFinite
  <2>6. Cardinality(Visits(b.value)) >= Threshold
    BY <1>2, <1>4, <1>7, <2>1, <2>2, <2>4, <2>5, DecisionsAssumption
  <2> QED BY <1>2, <1>4, <2>6 DEF Earned
<1>5. CASE r = "resource_enumeration"
  <2>1. Enumerates(rec) BY <1>5 DEF Matching
  <2>2. Cardinality(Visits(b.value)) >= Threshold BY <1>2, <1>5, <1>7, <2>1, EnumerationIsOwn
  <2> QED BY <1>2, <1>5, <2>2 DEF Earned
<1>6. r \in {"repeated_client_error", "resource_enumeration", "sensitive_field_change"}
  BY DEF Matching
<1> QED BY <1>3, <1>4, <1>5, <1>6

\* Recording an event of the current visit keeps the books in order.
LEMMA RecordedOwn ==
  ASSUME OwnInv, VisitsOK', [DecisionNext]_decisionVars, phase # "idle",
         NEW rec \in {ModelEvent(visit), AnswerEvent(visit)}, Recorded(rec),
         rec.event.type # "model.update" => phase' = "idle",
         rec.event.type = "model.update" => visit.what = "change"
  PROVE  CountsOwn' /\ RowsOwn' /\ OnlyOwnRequestsCount'
<1>1. VisitsOK /\ setup \in Setups /\ visit \in setup.visits BY CurrentVisit DEF OwnInv, VisitsOK
<1>2. past' = past /\ setup' = setup BY DEF Recorded
<1>3. \A ip : Visits(ip)' = Visits(ip) BY <1>2 DEF Visits, Responsible
<1>4. CountsOwn'
  <2>1. CASE counts' = counts BY <2>1, OwnStays DEF CountsOwn
  <2>2. ASSUME counts' # counts PROVE CountsOwn'
    <3>1. counts' = Incremented(ErrorKey(rec.event)) /\ rec.event.type = "error"
      BY <2>2 DEF Recorded
    <3> DEFINE key == ErrorKey(rec.event)
    <3>2. key.source = Responsible(visit) /\ key.rule = "repeated_client_error"
      BY <1>1, <3>1, EventIsAbout DEF ErrorKey
    <3>3. Counted(key.rule) = Len(past) - 1 BY <3>2 DEF Counted
    <3>4. Counted(key.rule)' = Len(past)
      <4>1. phase' = "idle" BY <3>1
      <4> QED BY <1>2, <4>1 DEF Counted
    <3>5. counts' = Incremented(key) BY <3>1
    <3> HIDE DEF key
    <3> QED BY <1>2, <3>2, <3>3, <3>4, <3>5, CountedOwn
  <2> QED BY <2>1, <2>2
<1>5. RowsOwn'
  <2>1. ASSUME NEW h \in history', h \notin history
        PROVE  \E i \in Visits(h.ip)' : past'[i].path = h.path
    <3>1. h = HistoryRow(rec) /\ rec.event.route # Nobody BY <2>1 DEF Recorded
    <3>2. rec.event.type # "model.update" BY <1>1, <3>1, EventIsAbout
    <3>3. h.ip = Responsible(visit) /\ h.path = visit.path
      <4>1. /\ rec.summary.ip = rec.event.source /\ rec.event.source = Responsible(visit)
            /\ rec.event.path = visit.path
        BY <1>1, <3>2, EventIsAbout
      <4> QED BY <3>1, <4>1 DEF HistoryRow
    <3>4. Len(past) \in Visits(h.ip) /\ past[Len(past)] = visit
      BY <1>1, <3>3, OneMore, CurrentVisit
    <3> QED BY <1>2, <1>3, <3>3, <3>4
  <2> QED BY <2>1, OwnStays DEF RowsOwn
<1>6. OnlyOwnRequestsCount'
  <2>1. ASSUME NEW b \in bans', b \notin bans, b.type = "ip" PROVE Earned(b)'
    <3>1. PICK r \in Matching(rec) : b \in Imposed(r, AppliedTo(rec))
      BY <2>1 DEF Recorded, AppliedTo
    <3>2. Earned(b) BY <2>1, <3>1, MatchIsOwn
    <3>3. Earned(b)' = Earned(b) BY <1>2 DEF Earned, Visits, ChangesBy, Responsible
    <3> QED BY <3>2, <3>3
  <2> QED BY <2>1, OwnStays DEF OnlyOwnRequestsCount
<1> QED BY <1>4, <1>5, <1>6

\* The safe rule before the view counts the visit, and bans its address only with enough.
LEMMA SafeRulesOwn ==
  ASSUME OwnInv, VisitsOK', SafeRules
  PROVE  CountsOwn' /\ RowsOwn' /\ OnlyOwnRequestsCount'
<1>0. PICK key : key = RouteKey(visit) OBVIOUS
<1> DEFINE rule == "repeated_route"
           fires == Address(visit) # Nobody /\ Count(key) + 1 >= Threshold
<1>1. /\ VisitsOK /\ CountsOwn /\ setup \in Setups /\ visit \in setup.visits
      /\ phase = "safe" /\ [DecisionNext]_decisionVars
  BY CurrentVisit DEF OwnInv, VisitsOK, SafeRules, DecisionNext
<1>2. /\ past' = past /\ setup' = setup /\ history' = history /\ phase' \in {"idle", "view"}
      /\ counts' = IF Address(visit) = Nobody THEN counts ELSE Incremented(key)
      /\ bans' = bans \union (IF fires THEN Imposed(rule, IngressSummary(visit)) ELSE {})
  BY <1>0 DEF SafeRules
<1>3. Address(visit) = Responsible(visit) BY <1>1, AddressIsResponsible
<1>4. key.source = Responsible(visit) /\ key.rule = rule BY <1>0, <1>3 DEF RouteKey
<1>5. Counted(key.rule) = Len(past) - 1 /\ Counted(key.rule)' = Len(past)
  BY <1>1, <1>2, <1>4 DEF Counted
<1>6. CountsOwn'
  <2>1. CASE counts' = counts BY <1>1, <2>1, OwnStays DEF CountsOwn
  <2>2. CASE counts' = Incremented(key) BY <1>1, <1>2, <1>4, <1>5, <2>2, CountedOwn
  <2> QED BY <1>2, <2>1, <2>2
<1>7. RowsOwn' BY <1>1, <1>2, OwnStays DEF RowsOwn
<1>8. OnlyOwnRequestsCount'
  <2>1. ASSUME NEW b \in bans', b \notin bans, b.type = "ip" PROVE Earned(b)'
    <3>1. fires /\ b \in Imposed(rule, IngressSummary(visit)) BY <1>2, <2>1
    <3>2. PICK s \in BlockScopes(IngressSummary(visit), ResolveRuleAction(rule).scopes) :
            b.type = s.type /\ b.value = s.value /\ b.rule = rule
      BY <3>1 DEF Imposed
    <3>3. PICK t : s = [type |-> t, value |-> IngressSummary(visit)[t]] BY <3>2, ScopesAre
    <3>4. b.value = Responsible(visit)
      <4>1. t = "ip" /\ b.value = IngressSummary(visit).ip BY <2>1, <3>2, <3>3
      <4> QED BY <1>3, <4>1 DEF IngressSummary, Identity
    <3>5. Count(key) + 1 \in Nat /\ Count(key) + 1 <= Cardinality(Visits(key.source))
      BY <1>1, <1>4, <1>5, CountOne
    <3>6. Cardinality(Visits(b.value)) \in Nat BY <1>1, VisitsAreFinite
    <3>7. Cardinality(Visits(b.value)) >= Threshold
      BY <1>4, <3>1, <3>4, <3>5, <3>6, DecisionsAssumption
    <3>8. Visits(b.value)' = Visits(b.value) BY <1>2 DEF Visits, Responsible
    <3>9. b.rule # "sensitive_field_change" BY <3>2
    <3> QED BY <3>7, <3>8, <3>9 DEF Earned
  <2> QED BY <1>1, <2>1, OwnStays DEF OnlyOwnRequestsCount
<1> QED BY <1>6, <1>7, <1>8

\* Every step keeps the books in order.
LEMMA OwnStep == OwnInv /\ [DecisionNext]_decisionVars => OwnInv'
<1> SUFFICES ASSUME OwnInv, [DecisionNext]_decisionVars
             PROVE  CountsOwn' /\ RowsOwn' /\ OnlyOwnRequestsCount'
  BY VisitsStep DEF OwnInv
<1>1. VisitsOK /\ VisitsOK' BY VisitsStep DEF OwnInv
<1>2. ASSUME counts' = counts, history' = history, bans' = bans
      PROVE  CountsOwn' /\ RowsOwn' /\ OnlyOwnRequestsCount'
  <2>1. CountsOwn' BY <1>1, <1>2, OwnStays DEF CountsOwn
  <2>2. RowsOwn' BY <1>1, <1>2, OwnStays DEF RowsOwn
  <2>3. OnlyOwnRequestsCount' BY <1>1, <1>2, OwnStays DEF OnlyOwnRequestsCount
  <2> QED BY <2>1, <2>2, <2>3
<1>3. ASSUME NEW v \in setup.visits, Visit(v) PROVE CountsOwn' /\ RowsOwn' /\ OnlyOwnRequestsCount'
  BY <1>2, <1>3 DEF Visit
<1>4. CASE SafeRules BY <1>1, <1>4, SafeRulesOwn
<1>5. CASE Save
  <2>1. phase # "idle" /\ visit.what = "change" /\ Recorded(ModelEvent(visit))
    BY <1>5 DEF Save, ModelEvent
  <2>2. ModelEvent(visit).event.type = "model.update"
    BY DEF ModelEvent, FromMapping, LogAttributes
  <2> QED BY <1>1, <2>1, <2>2, RecordedOwn
<1>6. CASE Answer
  <2>1. phase # "idle" /\ phase' = "idle" /\ Recorded(AnswerEvent(visit))
    BY <1>6 DEF Answer, AnswerEvent
  <2>2. AnswerEvent(visit).event.type # "model.update"
    <3>1. visit.what \in {"ok", "error", "change"} BY <1>1, <2>1, CurrentVisit, VisitsAssumption DEF VisitsOK
    <3> QED BY <3>1 DEF AnswerEvent, FromMapping, LogAttributes
  <2> QED BY <1>1, <2>1, <2>2, RecordedOwn
<1>7. CASE UNCHANGED decisionVars BY <1>2, <1>7 DEF decisionVars
<1> QED BY <1>3, <1>4, <1>5, <1>6, <1>7 DEF DecisionNext

\* core ip.py:49-114, ENF scopes.py:3-11.  However many visits, proxies and forged headers
\* there are, a counting rule blocks an address only after as many requests of its own as
\* its threshold, and sensitive_field_change one that auditlog took a change to come from.
THEOREM OwnRequestsHold == DecisionSpec => []OnlyOwnRequestsCount
<1>1. DecisionInit => OwnInv
  BY DEF DecisionInit, OwnInv, VisitsOK, CountsOwn, RowsOwn, OnlyOwnRequestsCount
<1>2. OwnInv => OnlyOwnRequestsCount BY DEF OwnInv
<1> QED BY <1>1, <1>2, OwnStep, PTL DEF DecisionSpec
=============================================================================
