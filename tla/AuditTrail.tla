----------------------------- MODULE AuditTrail -----------------------------
(***************************************************************************)
(* The path of an event from a request to the audit file: the requests of  *)
(* AuditRequest log into the handler of RecordQueue.                       *)
(***************************************************************************)
EXTENDS AuditRequest, RecordQueue, Subsequence

CONSTANT PutCap  \* bound: records put

ASSUME TrailAssumption ==
  /\ Emitters = Workers /\ {"free", "closer"} \cap Workers = {} /\ CloseCap \in Nat /\ LockMayFail \in BOOLEAN
  /\ PutCap \in Nat

vars == <<auditVars, queueVars>>

Init == AuditInit /\ QueueInit

\* record() gives the event to the logger before it dispatches it: the handler takes
\* its lock, then puts the record.
LogEnter(w) ==
  /\ settings.queued /\ At(w, "emit") /\ Enter(w)
  /\ work' = [work EXCEPT ![w].at = "put"]
  /\ UNCHANGED <<settings, stored, ctx, fresh, arrived, bans, trail, struck, lost>>

LogPut(w) ==
  /\ At(w, "put") /\ Put(w, work[w].event)
  /\ work' = [work EXCEPT ![w].at = "dispatch",
                          ![w].logged = IF OfResponse(w) THEN @ + 1 ELSE @]
  /\ UNCHANGED <<settings, stored, ctx, fresh, arrived, bans, trail, struck, lost>>

Request(w) == (Serve(w) /\ UNCHANGED queueVars) \/ LogEnter(w) \/ LogPut(w)

Next ==
  \/ \E w \in Workers, c \in Clients, ignored \in settings.ignored :
       Arrive(w, c, ignored) /\ UNCHANGED queueVars
  \/ \E w \in Workers : Request(w)
  \/ Listen /\ UNCHANGED auditVars
  \/ Closing /\ UNCHANGED auditVars

Spec == Init /\ [][Next]_vars

\* Threads run; nobody has to send a request or to close the handler.
Fairness ==
  /\ \A w \in Workers : WF_vars(Request(w)) /\ SF_vars(LogEnter(w))
  /\ WF_vars(Listen /\ UNCHANGED auditVars)
  /\ WF_vars((Join \/ Reset) /\ UNCHANGED auditVars)

FairSpec == Spec /\ Fairness

-----------------------------------------------------------------------------
(* Types.                                                                    *)

Ids    == [rid : Nat, sid : Nat]
Events == [n : Nat, what : {"none", "auth", "model", "response"}, rid : Nat, sid : Nat]

\* A record is neither the sentinel nor the sign that there is none.
ASSUME RecordAssumption == {Sentinel, Nothing} \cap Events = {}

Requests ==
  [at : {"idle", "prepare", "ingress", "view", "emit", "put", "dispatch", "finish"},
   n : Nat, client : Clients \union {"none"}, session : Nat, loaded : Nat,
   minted : BOOLEAN, due : BOOLEAN,
   prepared : BOOLEAN, base : Ids, outer : Ids,
   answer : {"none", "good", "bad", "unlisted", "raise"}, event : Events,
   back : {"view", "finish"}, events : Nat, owed : BOOLEAN,
   logged : Nat, dropped : Nat, seen : Nat, failed : BOOLEAN]

\* The type of every variable; the handler's lock is held by whoever is in its emit.
TypeOK ==
  /\ settings \in Settings
  /\ stored \in [Clients -> Nat] /\ ctx \in [Workers -> Ids]
  /\ work \in [Workers -> Requests]
  /\ fresh \in Nat /\ arrived \in Nat /\ bans \subseteq Nat
  /\ struck \in [Clients -> SUBSET Nat] /\ lost \in [Clients -> SUBSET Nat]
  /\ trail \subseteq [n : Nat, rid : Nat, prepared : BOOLEAN]
  /\ queue \in Seq(Events \union {Sentinel}) /\ puts \in Seq(Events)
  /\ handled \in Seq(Events)
  /\ hand \in Events \union {Nothing} /\ (listener = "writing" <=> hand # Nothing)
  /\ listener \in {"none", "waiting", "writing", "exited", "died"}
  /\ closer \in {"idle", "join", "reset"} /\ closes \in Nat /\ promised \in Nat
  /\ started \in BOOLEAN /\ locked \in BOOLEAN /\ died \in BOOLEAN
  /\ lock \in Workers \union {"closer", "free"}
  /\ lock = "closer" <=> locked
  /\ \A w \in Workers : At(w, "put") <=> lock = w

-----------------------------------------------------------------------------
(* Properties.                                                               *)

\* context.py:26-44, middleware.py:123-125.  The request id ties together the events of
\* one request and of no other: all events of the view and of the response of a request
\* whose preparation succeeded carry the same one, whatever else runs and however the
\* view ended before.
OneRequestOneId ==
  \A a, b \in trail :
    /\ a.rid = b.rid /\ a.rid # NoId => a.n = b.n
    /\ a.n = b.n /\ a.prepared => a.rid = b.rid

\* middleware.py:127-187, runtime.py:41-51.  At the end of a request whose preparation
\* and recording succeeded the rules have seen its response once, logged or not; an
\* error was offered to the log once, a good response only if those are logged.
ResponsesAreReported ==
  \A w \in Workers :
    LET r == work[w]
        offered == r.logged + r.dropped IN
      At(w, "finish") /\ r.prepared /\ ~r.failed /\ r.answer \in {"good", "bad"} =>
        /\ r.seen = IF settings.consumers THEN 1 ELSE 0
        /\ r.answer = "bad" => offered = 1
        /\ r.answer = "good" => offered <= IF settings.logOk THEN 1 ELSE 0

\* ENF scopes.py:19-42, runtime.py:80-85, sessions.py:23-32.  When the rules have banned
\* the session of an event, no request of that session that arrives later gets past
\* ingress, unless the session lost the id that was banned: the request that minted it
\* has not saved it yet or never did, or another that had loaded the session before
\* wrote its own copy over it.
BannedSessionIsDenied == \A w \in Workers : ~work[w].owed

InHand == IF hand = Nothing THEN <<>> ELSE <<hand>>

\* queue.py:33-45.  Whoever logs and closes, records are written in the order they were
\* put, each once: none is lost but by an error of its own write.
WrittenInOrder ==
  puts = handled \o InHand \o Without(queue, {Sentinel})

\* queue.py:41-45.  close() returns when what was put before it is written, unless an
\* error of the file's lock ended the listener.
CloseFlushes == closer = "reset" => Len(handled) >= promised \/ died

\* queue.py:33-45.  A record in the queue is written in the end, unless close() was
\* called or the file's lock failed.
PutIsWritten ==
  \A k \in 1..PutCap :
    Len(puts) >= k ~> Len(handled) >= k \/ closes > 0 \/ died

\* middleware.py:83-125.  Every request is answered, even while close() holds the lock
\* of the handler and waits for the listener.
EveryRequestEnds == \A w \in Workers : work[w].at # "idle" ~> work[w].at = "idle"
=============================================================================
