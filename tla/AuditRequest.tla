---------------------------- MODULE AuditRequest ----------------------------
(***************************************************************************)
(* Requests through the audit middleware: the context of ids bound before  *)
(* the view (middleware.py, context.py), the audit-session id minted into  *)
(* the Django session (sessions.py), events of the view (auth.py, model.py)*)
(* and of the response, their dispatch to the rules (runtime.py), and the  *)
(* session scope the rules ban and ingress checks (ENF scopes.py).         *)
(*                                                                         *)
(* A request works on its own copy of the session, loaded when it arrives  *)
(* and written back as a whole when it ends.                               *)
(***************************************************************************)
EXTENDS Naturals, FiniteSets

CONSTANTS
  Workers,      \* the threads serving requests
  Clients,      \* the browsers, one Django session each
  Allowlisted,  \* whether sensitive_key_allowlist holds session_id
  Settings      \* the deployments, each with what fails in it and its bounds

\* prepare_error, record_error: an exception in the preparation, in the recording of
\* a response; filtered: a filter drops an event, or its emission raises.
AuditFaultKinds == {"prepare_error", "record_error", "filtered"}

\* What the view may answer: a response that is not an error, one that is, one with a
\* status of ignore_status_codes; or it raises.
Answers == {"good", "bad", "unlisted", "raise"}

ASSUME AuditAssumption ==
  /\ Allowlisted \in BOOLEAN
  /\ Settings \subseteq [logOk : BOOLEAN, consumers : BOOLEAN, queued : BOOLEAN,
                        sessions : BOOLEAN, ignored : SUBSET BOOLEAN,
                        faults : SUBSET AuditFaultKinds, answers : SUBSET Answers,
                        requests : Nat, events : Nat]

NoId     == 0
Redacted == 1  \* the text scrub() puts in the place of an id

VARIABLES
  settings,  \* the deployment: whether good responses are logged, rule consumers are
             \* registered, the handler is queued, session ids are emitted; bounds: its
             \* faults, paths, answers, number of requests and of events of a view
  stored,    \* the audit-session id in each client's stored session
  ctx,       \* the context variable of each worker
  work,      \* the request each worker serves
  fresh,     \* the next id uuid4 returns
  arrived,   \* requests so far
  bans,      \* session ids the rules banned
  \* History, read by the properties only.
  trail,     \* the ids of the events recorded
  struck,    \* the ids under which the rules banned the session of each client
  lost       \* the ids the session of each client lost: not saved, or written over

auditVars == <<settings, stored, ctx, work, fresh, arrived, bans, trail, struck, lost>>

NoContext == [rid |-> NoId, sid |-> NoId]

NoEvent == [n |-> 0, what |-> "none", rid |-> NoId, sid |-> NoId]

\* A request: the next step; its number and client; the session id of its copy, the
\* one it loaded and whether it minted one; whether its context is bound, the ids its
\* response will carry and the context before; the answer, the event being recorded
\* and the step after it; and for the properties: events of the view, whether it was
\* due to be denied when it arrived and whether ingress let it through all the same,
\* how often its response was logged, dropped and seen by the rules, whether
\* recording it failed.
Idle ==
  [at |-> "idle", n |-> 0, client |-> "none", session |-> NoId, loaded |-> NoId,
   minted |-> FALSE, due |-> FALSE,
   prepared |-> FALSE, base |-> NoContext, outer |-> NoContext, answer |-> "none",
   event |-> NoEvent, back |-> "view", events |-> 0, owed |-> FALSE,
   logged |-> 0, dropped |-> 0, seen |-> 0, failed |-> FALSE]

AuditInit ==
  /\ settings \in Settings
  /\ stored = [c \in Clients |-> NoId]
  /\ ctx = [w \in Workers |-> NoContext]
  /\ work = [w \in Workers |-> Idle]
  /\ fresh = 2 /\ arrived = 0 /\ bans = {} /\ trail = {}
  /\ struck = [c \in Clients |-> {}] /\ lost = [c \in Clients |-> {}]

-----------------------------------------------------------------------------
At(w, label) == work[w].at = label

\* get_audit_session_id: the id of the request's copy, or a new one.
Mints(w)     == settings.sessions /\ work[w].session = NoId
SessionId(w) == IF Mints(w) THEN fresh ELSE IF settings.sessions THEN work[w].session ELSE NoId
Minted(w)    == [work[w] EXCEPT !.session = IF Mints(w) THEN fresh ELSE @,
                                !.minted = @ \/ Mints(w)]

\* build_request_info scrubs the ids by the names of their keys.
Scrubbed(sid) == IF sid = NoId \/ Allowlisted THEN sid ELSE Redacted

\* The request id of the context if there is one, or a new one, after the session's.
FreshAfter(w)  == IF Mints(w) THEN fresh + 1 ELSE fresh
RequestId(w)   == IF ctx[w] # NoContext THEN ctx[w].rid ELSE FreshAfter(w)
FreshThen(w)   == IF ctx[w] # NoContext THEN FreshAfter(w) ELSE FreshAfter(w) + 1

\* The ids that requests under way have minted for the session of c and not saved yet.
Unsaved(c) ==
  {work[v].session : v \in {u \in Workers : work[u].client = c /\ work[u].minted}}

\* Ignored paths are served without any of it.
Arrive(w, c, ignored) ==
  /\ At(w, "idle") /\ arrived < settings.requests
  /\ arrived' = arrived + 1
  /\ work' = [work EXCEPT ![w] = [Idle EXCEPT
       !.at = IF ignored THEN "ingress" ELSE "prepare",
       !.n = arrived + 1, !.client = c, !.session = stored[c], !.loaded = stored[c],
       !.due = ~(struck[c] \subseteq lost[c] \union Unsaved(c))]]
  /\ UNCHANGED <<settings, stored, ctx, fresh, bans, trail, struck, lost>>

Prepare(w) ==
  /\ At(w, "prepare")
  /\ ctx' = [ctx EXCEPT ![w] = [rid |-> RequestId(w), sid |-> SessionId(w)]]
  /\ fresh' = FreshThen(w)
  /\ work' = [work EXCEPT ![w] = [Minted(w) EXCEPT
       !.at = "ingress", !.prepared = TRUE, !.outer = ctx[w],
       !.base = [rid |-> RequestId(w), sid |-> Scrubbed(SessionId(w))]]]
  /\ UNCHANGED <<settings, stored, arrived, bans, trail, struck, lost>>

\* Before or after the session id was minted.
PrepareFails(w) ==
  /\ "prepare_error" \in settings.faults /\ At(w, "prepare")
  /\ \/ work' = [work EXCEPT ![w].at = "ingress"] /\ UNCHANGED fresh
     \/ work' = [work EXCEPT ![w] = [Minted(w) EXCEPT !.at = "ingress"]]
        /\ fresh' = FreshAfter(w)
  /\ UNCHANGED <<settings, stored, ctx, arrived, bans, trail, struck, lost>>

-----------------------------------------------------------------------------
(* Responses.                                                                *)

ResponseEvent(w) ==
  [n |-> work[w].n, what |-> "response", rid |-> work[w].base.rid, sid |-> work[w].base.sid]

\* A defect: what is not logged is not dispatched either.
Reports_LogOnly(w, answer, emit) ==
  /\ work[w].prepared /\ answer \in {"good", "bad"} /\ emit

\* _record_response, _record_non_error: whether an event is recorded for it.
Reports(w, answer, emit) ==
  /\ work[w].prepared /\ answer \in {"good", "bad"}
  /\ emit \/ settings.consumers

\* The response of the view or of the enforcement middleware reaches the middleware.
Respond(w, answer) ==
  \/ \E emit \in IF answer = "good" THEN {FALSE, settings.logOk} ELSE {TRUE} :
       work' = [work EXCEPT ![w] =
         IF Reports(w, answer, emit)
         THEN [@ EXCEPT !.at = IF emit THEN "emit" ELSE "dispatch", !.back = "finish",
                        !.answer = answer, !.event = ResponseEvent(w)]
         ELSE [@ EXCEPT !.at = "finish", !.answer = answer]]
  \/ /\ "record_error" \in settings.faults /\ work[w].prepared /\ answer \in {"good", "bad"}
     /\ work' = [work EXCEPT ![w] =
                   [@ EXCEPT !.at = "finish", !.answer = answer, !.failed = TRUE]]

\* Whether a request that ingress lets through is one of a session already banned.
Owed(w) == work[w].due \/ work[w].session \in struck[work[w].client]

\* A defect: ingress takes the session scope from the context of the audit.
Ingress_FromContext(w) ==
  /\ At(w, "ingress")
  /\ IF ctx[w].sid # NoId /\ ctx[w].sid \in bans
     THEN Respond(w, "bad")
     ELSE work' = [work EXCEPT ![w].at = "view", ![w].owed = Owed(w)]
  /\ UNCHANGED <<settings, stored, ctx, fresh, arrived, bans, trail, struck, lost>>

\* ingress_summary: the session scope of the block check is the id in the session.
Ingress(w) ==
  /\ At(w, "ingress")
  /\ IF settings.sessions /\ work[w].session \in bans
     THEN Respond(w, "bad")
     ELSE work' = [work EXCEPT ![w].at = "view", ![w].owed = Owed(w)]
  /\ UNCHANGED <<settings, stored, ctx, fresh, arrived, bans, trail, struck, lost>>

Answer(w, answer) ==
  /\ At(w, "view") /\ Respond(w, answer)
  /\ UNCHANGED <<settings, stored, ctx, fresh, arrived, bans, trail, struck, lost>>

-----------------------------------------------------------------------------
(* Events of the view.                                                       *)

RecordsEvent(w, request, what, rid, sid) ==
  /\ At(w, "view") /\ work[w].events < settings.events
  /\ work' = [work EXCEPT ![w] = [request EXCEPT
       !.at = "emit", !.back = "view", !.events = @ + 1,
       !.event = [n |-> work[w].n, what |-> what, rid |-> rid, sid |-> sid]]]
  /\ UNCHANGED <<settings, stored, ctx, arrived, bans, trail, struck, lost>>

\* A login or logout takes the ids of the context, or builds its own; a failed login
\* that is not given the request has those of the context, or none.
AuthEvent(w) ==
  \/ RecordsEvent(w, work[w], "auth", ctx[w].rid, ctx[w].sid) /\ UNCHANGED fresh
  \/ /\ ctx[w] = NoContext
     /\ RecordsEvent(w, Minted(w), "auth", RequestId(w), Scrubbed(SessionId(w)))
     /\ fresh' = FreshThen(w)

\* A model change has the ids of the context or none.
ModelEvent(w) == RecordsEvent(w, work[w], "model", ctx[w].rid, ctx[w].sid) /\ UNCHANGED fresh

-----------------------------------------------------------------------------
(* Recording of an event: its emission and its dispatch.                     *)

OfResponse(w) == work[w].event.what = "response"

\* A handler that is not queued writes the record itself.
LogAtOnce(w) ==
  /\ ~settings.queued /\ At(w, "emit")
  /\ work' = [work EXCEPT ![w].at = "dispatch",
                          ![w].logged = IF OfResponse(w) THEN @ + 1 ELSE @]
  /\ UNCHANGED <<settings, stored, ctx, fresh, arrived, bans, trail, struck, lost>>

Dropped(w) ==
  /\ "filtered" \in settings.faults /\ At(w, "emit")
  /\ work' = [work EXCEPT ![w].at = "dispatch",
                          ![w].dropped = IF OfResponse(w) THEN @ + 1 ELSE @]
  /\ UNCHANGED <<settings, stored, ctx, fresh, arrived, bans, trail, struck, lost>>

\* The consumers, if any, ban the session of the event or not; what they raise is
\* swallowed, and one that raises bans nothing.
Dispatch(w) ==
  /\ At(w, "dispatch")
  /\ LET e == work[w].event IN
       /\ trail' = trail \union {[n |-> e.n, rid |-> e.rid, prepared |-> work[w].prepared]}
       /\ \/ UNCHANGED <<bans, struck>>
          \/ /\ settings.consumers /\ e.sid # NoId
             /\ bans' = bans \union {e.sid}
             /\ struck' = [struck EXCEPT ![work[w].client] = @ \union {work[w].session}]
  /\ work' = [work EXCEPT ![w].at = work[w].back, ![w].event = NoEvent,
       ![w].seen = IF settings.consumers /\ OfResponse(w) THEN @ + 1 ELSE @]
  /\ UNCHANGED <<settings, stored, ctx, fresh, arrived, lost>>

\* A defect: the context is reset only if the view did not raise.
Unbind_UnlessRaised(w) ==
  IF work[w].prepared /\ work[w].answer # "raise" THEN work[w].outer ELSE ctx[w]

Unbind(w) == IF work[w].prepared THEN work[w].outer ELSE ctx[w]

\* The request's copy of the session is written back, over what others wrote since it
\* was loaded.
Saved(w) ==
  LET c == work[w].client IN
    /\ stored' = [stored EXCEPT ![c] = work[w].session]
    /\ lost' = [lost EXCEPT ![c] =
         (@ \union ({stored[c]} \ {work[w].loaded})) \ {work[w].session}]

\* It is not: nothing modified it, the response is a server error, or the write fails.
NotSaved(w) ==
  /\ lost' = [lost EXCEPT ![work[w].client] =
                IF work[w].minted THEN @ \union {work[w].session} ELSE @]
  /\ UNCHANGED stored

Finish(w) ==
  /\ At(w, "finish")
  /\ ctx' = [ctx EXCEPT ![w] = Unbind(w)]
  /\ Saved(w) \/ NotSaved(w)
  /\ work' = [work EXCEPT ![w] = Idle]
  /\ UNCHANGED <<settings, fresh, arrived, bans, trail, struck>>

\* The steps of w's request that log nothing.
Serve(w) ==
  \/ Prepare(w) \/ PrepareFails(w) \/ Ingress(w)
  \/ \E answer \in settings.answers : Answer(w, answer)
  \/ AuthEvent(w) \/ ModelEvent(w)
  \/ LogAtOnce(w) \/ Dropped(w) \/ Dispatch(w) \/ Finish(w)
=============================================================================
