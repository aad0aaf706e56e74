------------------------ MODULE EnforcementPipeline ------------------------
(***************************************************************************)
(* One request through enforcement: the ingress check and the safe rules   *)
(* before the view (middleware.py), the recorded events after it, each     *)
(* evaluated by the rule engine (consumer.py, runtime.py, engine.py), and  *)
(* the blocks the enforcer applies for the matches (enforcer.py).          *)
(*                                                                         *)
(* The block store is the set of scopes it reports as blocked; every call  *)
(* to it may raise BlockStoreError, before or after taking effect.  What   *)
(* the rules compute is abstracted to which of them match.                 *)
(***************************************************************************)
EXTENDS Naturals, Sequences, FiniteSets

CONSTANTS
  Scopes,             \* the (scope_type, scope_value) pairs
  TypeOf,             \* the scope_type of each
  Paths,              \* candidate scopes of an event or request, by precedence
  Workers,            \* the threads serving requests
  Rules,              \* the registered rules
  RuleOrder,          \* the order the engine runs them in
  Safe,               \* the rules with safe_for_enforcement
  Action,             \* what each rule's match resolves to: [kind, types]
  EvalSafeOnIngress,  \* eval_safe_on_ingress
  SinkTypes,          \* the scope types a match carries itself
  EventCap,           \* bound: events recorded during one request
  Faults              \* what may fail, out of FaultKinds

\* store_error: the block store raises; engine_error: the evaluation raises or is
\* skipped; no_runtime: the enforcement runtime cannot be built.
FaultKinds == {"store_error", "engine_error", "no_runtime"}

ASSUME PipelineAssumption ==
  /\ Paths \subseteq Seq(Scopes) /\ Safe \subseteq Rules
  /\ RuleOrder \in Seq(Rules) /\ Rules = {RuleOrder[i] : i \in DOMAIN RuleOrder}
  /\ \A i, j \in DOMAIN RuleOrder : RuleOrder[i] = RuleOrder[j] => i = j
  /\ \A r \in Rules : Action[r].kind \in {"observe", "alert", "block"}
  /\ EvalSafeOnIngress \in BOOLEAN
  /\ EventCap \in Nat /\ Faults \subseteq FaultKinds

VARIABLES
  viaSink,  \* apply_via_sink, a setting: the engine's result sink applies the matches
  blocks,   \* scopes the block store reports as blocked
  req       \* what each worker is doing

vars == <<viaSink, blocks, req>>

\* A request and the evaluation its worker is in.
\*   at, stage, pass   the next step, the side of the view, who applies the matches
\*   path, closed      its candidate scopes; whether a fail_closed_paths regex matches
\*   found, left       the rules whose matches the engine returned; those still to apply
\*   match             the rule whose match is being applied, if any,
\*   targets, built    scopes still to block and blocked so far for it
\*   denied, recorded  whether it is denied; the number of events it recorded
\* and, read by the properties only:
\*   wrote, told       matches of this evaluation with the scopes they blocked; with
\*                     those announced by block_applied; torn: those the store raised on
\*   events, erred     enforcement events emitted; stages in which a component raised
\*   appended          summaries handed to the event history
\*   applied           how often the current evaluation applied each rule's match
Fresh(p, c) ==
  [at |-> "check", stage |-> "ingress", pass |-> "caller", path |-> p, closed |-> c,
   found |-> {}, left |-> {}, match |-> {}, targets |-> {}, built |-> {}, denied |-> FALSE,
   recorded |-> 0, wrote |-> {}, told |-> {}, torn |-> {}, events |-> {}, erred |-> {},
   appended |-> 0, applied |-> [r \in Rules |-> 0]]

Idle == [Fresh(<<>>, FALSE) EXCEPT !.at = "idle"]

Init == viaSink \in BOOLEAN /\ blocks = {} /\ req = [w \in Workers |-> Idle]

-----------------------------------------------------------------------------
(* Defects of the definitions below, each used by one mutant.                *)

Internal_None(type) == FALSE

AfterCheck_IgnoresSink == IF EvalSafeOnIngress THEN "evaluate" ELSE "view"

\* A match blocks the types of its scopes instead of the scopes.
Targets_Types(r, rule) ==
  {TypeOf[s] : s \in {t \in {r.path[i] : i \in DOMAIN r.path} :
                       TypeOf[t] \in Action[rule].types}}

-----------------------------------------------------------------------------
At(w, label) == req[w].at = label
OnPath(p)    == {p[i] : i \in DOMAIN p}

\* x is the first of set in order.
IsFirst(x, set, order) ==
  \E i \in DOMAIN order :
    order[i] = x /\ \A j \in DOMAIN order : j < i => order[j] \notin set

Blocks(r)    == Action[r].kind = "block"

\* The engine returns [] for its own and for enforcement events.
Internal(type) ==
  type \in {"alert", "blocked", "block_applied", "evaluation_failed"}

\* Emitting records the events, and recording hands them to the consumer: the
\* record of w afterwards, whose history counts those the engine evaluated.
Emitting(r, types) ==
  [r EXCEPT !.events = @ \union types,
            !.appended = @ + Cardinality({t \in types : ~Internal(t)})]

\* Where ingress goes when no block stops the request.
AfterCheck == IF EvalSafeOnIngress /\ ~viaSink THEN "evaluate" ELSE "view"

\* The scopes block_scopes() derives for a match; they are blocked in the order of the path.
Targets(r, rule) ==
  {s \in OnPath(r.path) :
     /\ TypeOf[s] \in Action[rule].types
     /\ r.pass = "sink" => TypeOf[s] \in SinkTypes}

\* The match to apply next.
Turn(w, rule) == rule \in req[w].left /\ IsFirst(rule, req[w].left, RuleOrder)

\* The scope to block next.
Due(w, s) == s \in req[w].targets /\ IsFirst(s, req[w].targets, req[w].path)

-----------------------------------------------------------------------------
(* More defects.                                                             *)

CheckFails_AlwaysClosed(w) ==
  /\ "store_error" \in Faults /\ At(w, "check")
  /\ req' = [req EXCEPT ![w] =
               [Emitting(req[w], {"evaluation_failed"}) EXCEPT
                 !.erred = @ \union {"check"}, !.denied = TRUE, !.at = "done"]]
  /\ UNCHANGED blocks

\* A match that does not block withdraws the denial of an earlier one.
Surface_Permits(w) ==
  /\ At(w, "apply")
  /\ \E rule \in Rules :
       /\ Turn(w, rule) /\ ~Blocks(rule)
       /\ req' = [req EXCEPT ![w] =
                    [Emitting(req[w], IF Action[rule].kind = "alert" THEN {"alert"} ELSE {}) EXCEPT
                      !.applied[rule] = @ + 1, !.left = @ \ {rule}, !.denied = FALSE]]
  /\ UNCHANGED blocks

\* The event of a block is built before the block is written.
WriteFails_KeepsEvent(w) ==
  /\ "store_error" \in Faults /\ At(w, "block")
  /\ \E s \in Scopes :
       /\ Due(w, s)
       /\ req' = [req EXCEPT ![w].erred = @ \union {req[w].stage},
                             ![w].built = @ \union {s}, ![w].targets = @ \ {s}]
  /\ UNCHANGED blocks

\* After a failed block the matches are applied again.
WriteFails_Retries(w) ==
  /\ "store_error" \in Faults /\ At(w, "block") /\ req[w].targets # {}
  /\ req' = [req EXCEPT ![w].erred = @ \union {req[w].stage},
                        ![w].match = {}, ![w].built = {}, ![w].targets = {}, ![w].at = "apply",
                        ![w].left = req[w].found, ![w].applied = [r \in Rules |-> 0]]
  /\ UNCHANGED blocks

-----------------------------------------------------------------------------
(* Ingress.                                                                  *)

Arrive(w, p, c) ==
  /\ At(w, "idle")
  /\ req' = [req EXCEPT ![w] = Fresh(p, c)]
  /\ UNCHANGED blocks

\* Without a runtime the request is served unchecked.
RuntimeUnavailable(w) ==
  /\ "no_runtime" \in Faults /\ At(w, "check")
  /\ req' = [req EXCEPT ![w].at = "view"]
  /\ UNCHANGED blocks

CheckBlocks(w) ==
  /\ At(w, "check")
  /\ \/ /\ OnPath(req[w].path) \intersect blocks # {}
        /\ req' = [req EXCEPT ![w] =
                     [Emitting(req[w], {"blocked"}) EXCEPT !.denied = TRUE, !.at = "done"]]
     \/ /\ OnPath(req[w].path) \intersect blocks = {}
        /\ req' = [req EXCEPT ![w].at = AfterCheck]
  /\ UNCHANGED blocks

\* The fail mode of the path decides.
CheckFails(w) ==
  /\ "store_error" \in Faults /\ At(w, "check")
  /\ req' = [req EXCEPT ![w] =
               [Emitting(req[w], {"evaluation_failed"}) EXCEPT
                 !.erred = @ \union {"check"}, !.denied = req[w].closed,
                 !.at = IF req[w].closed THEN "done" ELSE AfterCheck]]
  /\ UNCHANGED blocks

-----------------------------------------------------------------------------
(* The engine and the enforcer.                                              *)

\* Before the view only the safe rules run, and the history is left alone.  With
\* a sink the matches are applied inside evaluate(), before the history append.
Evaluate(w) ==
  /\ At(w, "evaluate")
  /\ \E hits \in SUBSET (IF req[w].stage = "ingress" THEN Safe ELSE Rules) :
       req' = [req EXCEPT
         ![w].found = hits, ![w].left = hits, ![w].at = "apply",
         ![w].wrote = {}, ![w].told = {}, ![w].torn = {}, ![w].applied = [r \in Rules |-> 0],
         ![w].pass = IF viaSink THEN "sink" ELSE "caller",
         ![w].appended = IF req[w].stage = "egress" /\ ~viaSink THEN @ + 1 ELSE @]
  /\ UNCHANGED blocks

\* Whoever called evaluate() swallows its exception.
EvaluateFails(w) ==
  /\ "engine_error" \in Faults /\ At(w, "evaluate")
  /\ req' = [req EXCEPT ![w].erred = @ \union {"engine"}, ![w].at = "view"]
  /\ UNCHANGED blocks

\* A match that does not block: an alert is emitted, observe is silent.
Surface(w) ==
  /\ At(w, "apply")
  /\ \E rule \in Rules :
       /\ Turn(w, rule) /\ ~Blocks(rule)
       /\ req' = [req EXCEPT ![w] =
                    [Emitting(req[w], IF Action[rule].kind = "alert" THEN {"alert"} ELSE {}) EXCEPT
                      !.applied[rule] = @ + 1, !.left = @ \ {rule}]]
  /\ UNCHANGED blocks

StartBlocking(w) ==
  /\ At(w, "apply")
  /\ \E rule \in Rules :
       /\ Turn(w, rule) /\ Blocks(rule)
       /\ req' = [req EXCEPT ![w].applied[rule] = @ + 1, ![w].at = "block",
                             ![w].left = @ \ {rule}, ![w].match = {rule},
                             ![w].targets = Targets(req[w], rule)]
  /\ UNCHANGED blocks

WriteBlock(w) ==
  /\ At(w, "block")
  /\ \E s \in Scopes :
       /\ Due(w, s)
       /\ blocks' = blocks \union {s}
       /\ req' = [req EXCEPT ![w].wrote = @ \union (req[w].match \X {s}),
                             ![w].built = @ \union {s}, ![w].targets = @ \ {s}]

\* The exception takes the events already built with it.  It ends persist() for
\* this match, the consumer for this event, and ingress for this request, where
\* it is not the store outage the fail mode is about.
WriteFails(w) ==
  /\ "store_error" \in Faults /\ At(w, "block")
  /\ \E s \in Scopes, reached \in SUBSET Scopes :
       LET failed == [req[w] EXCEPT !.erred = @ \union {req[w].stage},
                                    !.wrote = @ \union (req[w].match \X reached),
                                    !.torn = @ \union req[w].match,
                                    !.match = {}, !.built = {}, !.targets = {}] IN
       /\ Due(w, s) /\ reached \in {{}, {s}}
       /\ blocks' = blocks \union reached
       /\ req' = [req EXCEPT ![w] =
            IF req[w].pass = "sink" THEN [failed EXCEPT !.at = "apply"]
            ELSE IF req[w].stage = "ingress"
            THEN [Emitting(failed, {"evaluation_failed"}) EXCEPT
                    !.left = {}, !.denied = FALSE, !.at = "view"]
            ELSE [failed EXCEPT !.left = {}, !.at = "view"]]

\* The match's events go out; before the view it denies the request.
Announce(w) ==
  /\ At(w, "block") /\ req[w].targets = {}
  /\ LET shown == IF req[w].built = {} THEN {} ELSE {"block_applied"} IN
       req' = [req EXCEPT ![w] =
                 [Emitting(req[w], shown) EXCEPT
                   !.told = @ \union (req[w].match \X req[w].built),
                   !.match = {}, !.built = {},
                   !.denied = @ \/ (req[w].stage = "ingress" /\ req[w].pass = "caller"),
                   !.at = "apply"]]
  /\ UNCHANGED blocks

\* After the sink's pass evaluate() returns the same matches to its caller: the
\* consumer leaves them, ingress applies them.
EndPass(w) ==
  /\ At(w, "apply") /\ req[w].left = {}
  /\ req' = [req EXCEPT ![w] =
       IF req[w].stage = "egress"
       THEN [req[w] EXCEPT !.at = "view",
                           !.appended = IF req[w].pass = "sink" THEN @ + 1 ELSE @]
       ELSE IF req[w].pass = "sink"
       THEN [req[w] EXCEPT !.pass = "caller", !.left = req[w].found]
       ELSE [req[w] EXCEPT !.at = IF req[w].denied THEN "done" ELSE "view"]]
  /\ UNCHANGED blocks

-----------------------------------------------------------------------------
(* The view, and the events recorded while it runs and for its response.     *)

RecordEvent(w, p) ==
  /\ At(w, "view") /\ req[w].recorded < EventCap
  /\ req' = [req EXCEPT ![w].recorded = @ + 1, ![w].stage = "egress",
                        ![w].path = p, ![w].at = "evaluate"]
  /\ UNCHANGED blocks

Respond(w) ==
  /\ At(w, "view")
  /\ req' = [req EXCEPT ![w].at = "done"]
  /\ UNCHANGED blocks

Finish(w) ==
  /\ At(w, "done")
  /\ req' = [req EXCEPT ![w] = Idle]
  /\ UNCHANGED blocks

\* An operator blocks a scope; a block expires or an operator revokes it.
Impose(s) ==
  /\ s \notin blocks
  /\ blocks' = blocks \union {s}
  /\ UNCHANGED req

Lift(s) ==
  /\ s \in blocks
  /\ blocks' = blocks \ {s}
  /\ UNCHANGED req

Step(w) ==
  \/ RuntimeUnavailable(w) \/ CheckBlocks(w) \/ CheckFails(w)
  \/ Evaluate(w) \/ EvaluateFails(w) \/ Surface(w) \/ StartBlocking(w)
  \/ WriteBlock(w) \/ WriteFails(w) \/ Announce(w) \/ EndPass(w)
  \/ (\E p \in Paths : RecordEvent(w, p)) \/ Respond(w) \/ Finish(w)

Serve(w) == Step(w) /\ UNCHANGED viaSink

Next ==
  \/ \E w \in Workers : Serve(w)
  \/ /\ \/ \E w \in Workers, p \in Paths, c \in BOOLEAN : Arrive(w, p, c)
        \/ \E s \in Scopes : Impose(s) \/ Lift(s)
     /\ UNCHANGED viaSink

Spec == Init /\ [][Next]_vars

\* A thread keeps running the request it serves.
FairSpec == Spec /\ \A w \in Workers : WF_vars(Serve(w))

-----------------------------------------------------------------------------
(* Properties.                                                               *)

Labels   == {"idle", "check", "evaluate", "apply", "block", "view", "done"}
Emitted  == {"alert", "blocked", "block_applied", "evaluation_failed"}

Matched  == SUBSET (Rules \X Scopes)

Requests ==
  [at : Labels, stage : {"ingress", "egress"}, pass : {"sink", "caller"},
   path : Seq(Scopes), closed : BOOLEAN,
   found : SUBSET Rules, left : SUBSET Rules, match : SUBSET Rules,
   targets : SUBSET Scopes, built : SUBSET Scopes, denied : BOOLEAN, recorded : 0..EventCap,
   wrote : Matched, told : Matched, torn : SUBSET Rules, events : SUBSET Emitted,
   erred : SUBSET {"check", "engine", "ingress", "egress"},
   appended : Nat, applied : [Rules -> Nat]]

\* The type of every variable.
TypeOK == viaSink \in BOOLEAN /\ blocks \subseteq Scopes /\ req \in [Workers -> Requests]

\* enforcer.py:77-103.  A match's block of a scope is announced only once it is in the
\* store, and is left unannounced only if the store raised on that very match.
TrailMatchesTheStore ==
  \A w \in Workers :
    /\ req[w].told \subseteq req[w].wrote
    /\ \A m \in req[w].wrote \ req[w].told : m[1] \in req[w].torn \union req[w].match

\* middleware.py:41-48, 61-76, 89-99.  A check that cannot be answered is on record and
\* denies a request of a fail-closed path; and no request is denied but for that, for a
\* block in force, or for a blocking match of a safe rule no store error came upon: on
\* any other path an outage, whenever it begins, is no reason.
DeniedForAReason ==
  \A w \in Workers :
    /\ "check" \in req[w].erred =>
         /\ "evaluation_failed" \in req[w].events
         /\ req[w].closed => At(w, "done") /\ req[w].denied
    /\ req[w].denied =>
         \/ "blocked" \in req[w].events
         \/ req[w].closed /\ "check" \in req[w].erred
         \/ "ingress" \notin req[w].erred /\ \E rule \in req[w].found : Blocks(rule)

\* middleware.py:89-99.  A request with a blocking match before the view reaches it
\* only if the store raised while the matches were applied, whatever the other
\* matches resolve to.
LetThroughOnlyOnError ==
  \A w \in Workers :
    At(w, "view") /\ req[w].stage = "ingress" /\ "ingress" \notin req[w].erred =>
      \A rule \in req[w].found : ~Blocks(rule)

\* engine.py:101-110, runtime.py:70-88.  The history gets one entry for each
\* recorded event and none for the ingress pass or for enforcement's own events,
\* whichever of the sink and the caller applies the matches.
HistoryCountsEventsOnce ==
  \A w \in Workers :
    /\ req[w].appended <= req[w].recorded
    /\ At(w, "done") /\ "engine" \notin req[w].erred => req[w].appended = req[w].recorded

\* middleware.py:78, runtime.py:74.  No match is applied both by the sink and by the
\* caller of the engine.
AppliedOnce == \A w \in Workers : \A r \in Rules : req[w].applied[r] <= 1

\* Whatever fails, every request is answered.
EveryRequestIsAnswered == \A w \in Workers : ~At(w, "idle") ~> At(w, "idle")

-----------------------------------------------------------------------------
(* What the documentation promises and the code does not keep.               *)

\* architecture.md:127-129: on a fail-closed path "a store outage denies the
\* request".  An outage that begins after the check lets it through.
FailClosedDenies ==
  \A w \in Workers :
    req[w].closed /\ req[w].erred \intersect {"check", "ingress"} # {} => ~At(w, "view")

=============================================================================
