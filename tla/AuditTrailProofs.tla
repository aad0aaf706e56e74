-------------------------- MODULE AuditTrailProofs --------------------------
(***************************************************************************)
(* What AuditTrail keeps for every set of threads, clients and records and *)
(* in every deployment: the types, the order and the flush of the records, *)
(* the report of every response, the bans of sessions, the request ids.    *)
(***************************************************************************)
EXTENDS AuditTrail, SubsequenceProofs, FiniteSetTheorems

\* The types of the requests' variables, of the queue's, and the lock of the handler.
AuditOK ==
  /\ settings \in Settings
  /\ stored \in [Clients -> Nat] /\ ctx \in [Workers -> Ids]
  /\ work \in [Workers -> Requests]
  /\ fresh \in Nat /\ arrived \in Nat /\ bans \subseteq Nat
  /\ struck \in [Clients -> SUBSET Nat] /\ lost \in [Clients -> SUBSET Nat]
  /\ trail \subseteq [n : Nat, rid : Nat, prepared : BOOLEAN]

QueueOK ==
  /\ queue \in Seq(Events \union {Sentinel}) /\ puts \in Seq(Events)
  /\ handled \in Seq(Events)
  /\ hand \in Events \union {Nothing} /\ (listener = "writing" <=> hand # Nothing)
  /\ listener \in {"none", "waiting", "writing", "exited", "died"}
  /\ closer \in {"idle", "join", "reset"} /\ closes \in Nat /\ promised \in Nat
  /\ started \in BOOLEAN /\ locked \in BOOLEAN /\ died \in BOOLEAN
  /\ ~started => listener = "none" /\ closer = "idle"
  /\ closer = "reset" => listener = "none"

LockOK ==
  /\ lock \in Workers \union {"closer", "free"}
  /\ lock = "closer" <=> locked
  /\ closer = "idle" => ~locked
  /\ \A w \in Workers : At(w, "put") <=> lock = w

\* The fields of a deployment.
LEMMA SettingsTypes ==
  ASSUME AuditOK
  PROVE  /\ settings.logOk \in BOOLEAN /\ settings.consumers \in BOOLEAN
         /\ settings.queued \in BOOLEAN /\ settings.sessions \in BOOLEAN
         /\ settings.answers \subseteq Answers
         /\ settings.requests \in Nat /\ settings.events \in Nat
BY AuditAssumption DEF AuditOK

\* The ids a step of a request takes or copies.
LEMMA IdsTypes ==
  ASSUME AuditOK, NEW w \in Workers
  PROVE  /\ SessionId(w) \in Nat /\ FreshAfter(w) \in Nat /\ RequestId(w) \in Nat
         /\ FreshThen(w) \in Nat /\ Minted(w) \in Requests
         /\ Scrubbed(SessionId(w)) \in Nat
<1>1. work[w] \in Requests /\ ctx[w] \in Ids /\ fresh \in Nat BY DEF AuditOK
<1>2. /\ SessionId(w) \in Nat /\ FreshAfter(w) \in Nat /\ RequestId(w) \in Nat
      /\ FreshThen(w) \in Nat
  BY <1>1, SettingsTypes DEF SessionId, Mints, FreshAfter, RequestId, FreshThen, Requests, Ids, NoId, NoContext
<1>3. Minted(w) \in Requests BY <1>1, SettingsTypes DEF Minted, Mints, Requests
<1>4. Scrubbed(SessionId(w)) \in Nat BY <1>2 DEF Scrubbed, Redacted
<1> QED BY <1>2, <1>3, <1>4

\* The records a request starts from.
LEMMA IdleTypes == Idle \in Requests /\ NoEvent \in Events /\ NoContext \in Ids
BY DEF Idle, Requests, NoEvent, Events, NoContext, Ids, NoId

\* The fields of the request a worker serves, and of its context.
LEMMA FieldTypes ==
  ASSUME AuditOK, NEW w \in Workers
  PROVE  LET r == work[w] IN
         /\ r \in Requests /\ work \in [Workers -> Requests]
         /\ r.n \in Nat /\ r.client \in Clients \union {"none"} /\ r.session \in Nat
         /\ r.loaded \in Nat /\ r.due \in BOOLEAN
         /\ r.minted \in BOOLEAN /\ r.prepared \in BOOLEAN /\ r.base \in Ids /\ r.outer \in Ids
         /\ r.answer \in {"none", "good", "bad", "unlisted", "raise"} /\ r.event \in Events
         /\ r.back \in {"view", "finish"} /\ r.events \in Nat /\ r.owed \in BOOLEAN
         /\ r.logged \in Nat /\ r.dropped \in Nat /\ r.seen \in Nat /\ r.failed \in BOOLEAN
         /\ r.base.rid \in Nat /\ r.base.sid \in Nat
         /\ r.event.n \in Nat /\ r.event.rid \in Nat /\ r.event.sid \in Nat
         /\ ctx[w].rid \in Nat /\ ctx[w].sid \in Nat
<1>1. work[w] \in Requests /\ work \in [Workers -> Requests] /\ ctx[w] \in Ids
  BY DEF AuditOK
<1>2. work[w].base \in Ids /\ work[w].event \in Events BY <1>1 DEF Requests
<1>3. /\ work[w].base.rid \in Nat /\ work[w].base.sid \in Nat
      /\ ctx[w].rid \in Nat /\ ctx[w].sid \in Nat
  BY <1>1, <1>2 DEF Ids
<1>4. work[w].event.n \in Nat /\ work[w].event.rid \in Nat /\ work[w].event.sid \in Nat
  BY <1>2 DEF Events
<1> QED BY <1>1, <1>2, <1>3, <1>4 DEF Requests

\* A worker's request replaced by another.
LEMMA Replaced ==
  ASSUME AuditOK, NEW w \in Workers, NEW r \in Requests, work' = [work EXCEPT ![w] = r]
  PROVE  work' \in [Workers -> Requests]
BY DEF AuditOK

\* A response leaves requests behind.
LEMMA RespondTypes ==
  ASSUME AuditOK, NEW w \in Workers, NEW answer \in Answers, Respond(w, answer)
  PROVE  work' \in [Workers -> Requests]
<1>1. ResponseEvent(w) \in Events BY FieldTypes DEF ResponseEvent, Events
<1>2. answer \in {"good", "bad", "unlisted", "raise"} BY DEF Answers
<1> DEFINE q == work[w]
           a == [q EXCEPT !.at = "finish", !.answer = answer]
           b == [q EXCEPT !.at = "finish", !.answer = answer, !.failed = TRUE]
           d(at) == [q EXCEPT !.at = at, !.back = "finish", !.answer = answer,
                              !.event = ResponseEvent(w)]
<1>3. q \in Requests BY FieldTypes
<1>4. a \in Requests /\ b \in Requests /\ d("emit") \in Requests /\ d("dispatch") \in Requests
  <2> HIDE DEF q
  <2>1. a \in Requests BY <1>2, <1>3 DEF Requests
  <2>2. b \in Requests BY <1>2, <1>3 DEF Requests
  <2>3. d("emit") \in Requests BY <1>1, <1>2, <1>3 DEF Requests
  <2>4. d("dispatch") \in Requests BY <1>1, <1>2, <1>3 DEF Requests
  <2> QED BY <2>1, <2>2, <2>3, <2>4
<1>5. \E r \in {a, b, d("emit"), d("dispatch")} : work' = [work EXCEPT ![w] = r]
  BY FieldTypes DEF Respond
<1> HIDE DEF a, b, d
<1> QED BY <1>4, <1>5, Replaced

\* A step of a request keeps the types of the requests' variables.
LEMMA AuditStepTypes ==
  ASSUME AuditOK, NEW w \in Workers
  PROVE  /\ \A c \in Clients, ignored \in settings.ignored : Arrive(w, c, ignored) => AuditOK'
         /\ Request(w) => AuditOK'
<1> DEFINE q == work[w]
<1>1. ASSUME NEW c \in Clients, NEW ignored \in settings.ignored, Arrive(w, c, ignored)
      PROVE  AuditOK'
  <2> DEFINE due == ~(struck[c] \subseteq lost[c] \union Unsaved(c))
             r == [Idle EXCEPT !.at = IF ignored THEN "ingress" ELSE "prepare",
                               !.n = arrived + 1, !.client = c, !.session = stored[c],
                               !.loaded = stored[c], !.due = due]
  <2>1. stored[c] \in Nat /\ arrived + 1 \in Nat BY DEF AuditOK
  <2>2. r \in Requests
    <3>1. due \in BOOLEAN OBVIOUS
    <3> HIDE DEF due
    <3> QED BY <2>1, <3>1, IdleTypes DEF Requests
  <2>3. work' \in [Workers -> Requests] BY <1>1, <2>2, Replaced DEF Arrive
  <2> QED BY <1>1, <2>1, <2>3 DEF Arrive, AuditOK
<1>2. ASSUME Prepare(w) PROVE AuditOK'
  <2> DEFINE ids == [rid |-> RequestId(w), sid |-> Scrubbed(SessionId(w))]
             r == [Minted(w) EXCEPT !.at = "ingress", !.prepared = TRUE, !.outer = ctx[w],
                                    !.base = ids]
  <2>1. ids \in Ids BY IdsTypes DEF Ids
  <2>2. work' = [work EXCEPT ![w] = r] BY <1>2 DEF Prepare
  <2>3. ctx[w] \in Ids BY DEF AuditOK
  <2>4. r \in Requests
    <3> DEFINE m == Minted(w)
               c == ctx[w]
    <3>1. m \in Requests /\ c \in Ids BY <2>3, IdsTypes
    <3> HIDE DEF ids, m, c
    <3>2. [m EXCEPT !.at = "ingress", !.prepared = TRUE, !.outer = c, !.base = ids] \in Requests
      BY <2>1, <3>1 DEF Requests
    <3> QED BY <3>2 DEF m, c
  <2>5. work' \in [Workers -> Requests] BY <2>2, <2>4, Replaced
  <2>6. ctx' \in [Workers -> Ids] BY <1>2, IdsTypes DEF Prepare, Ids, AuditOK
  <2> QED BY <1>2, <2>5, <2>6, IdsTypes DEF Prepare, AuditOK
<1>3. ASSUME PrepareFails(w) PROVE AuditOK'
  <2>1. [q EXCEPT !.at = "ingress"] \in Requests BY FieldTypes DEF Requests
  <2>2. [Minted(w) EXCEPT !.at = "ingress"] \in Requests BY IdsTypes DEF Requests
  <2>3. work' \in [Workers -> Requests]
    <3>1. \/ work' = [work EXCEPT ![w] = [q EXCEPT !.at = "ingress"]]
          \/ work' = [work EXCEPT ![w] = [Minted(w) EXCEPT !.at = "ingress"]]
      BY <1>3, FieldTypes DEF PrepareFails
    <3> HIDE DEF q
    <3> QED BY <2>1, <2>2, <3>1, Replaced
  <2> QED BY <1>3, <2>3, IdsTypes DEF PrepareFails, AuditOK
<1>4. ASSUME Ingress(w) PROVE AuditOK'
  <2>1. "bad" \in Answers BY DEF Answers
  <2> DEFINE o == Owed(w)
             r == [q EXCEPT !.at = "view", !.owed = o]
  <2>2. r \in Requests
    <3>1. o \in BOOLEAN BY FieldTypes DEF Owed
    <3>2. q \in Requests BY FieldTypes
    <3> HIDE DEF o, q
    <3> QED BY <3>1, <3>2 DEF Requests
  <2>3. CASE Respond(w, "bad")
    BY <1>4, <2>1, <2>3, RespondTypes DEF Ingress, AuditOK
  <2>4. CASE work' = [work EXCEPT ![w].at = "view", ![w].owed = o]
    <3>1. work' = [work EXCEPT ![w] = r] BY <2>4, FieldTypes
    <3> HIDE DEF r
    <3>2. work' \in [Workers -> Requests] BY <2>2, <3>1, Replaced
    <3> QED BY <1>4, <3>2 DEF Ingress, AuditOK
  <2> QED BY <1>4, <2>3, <2>4 DEF Ingress
<1>5. ASSUME NEW answer \in settings.answers, Answer(w, answer) PROVE AuditOK'
  <2>1. answer \in Answers BY SettingsTypes
  <2>2. work' \in [Workers -> Requests] BY <1>5, <2>1, RespondTypes DEF Answer
  <2> QED BY <1>5, <2>2 DEF Answer, AuditOK
<1>6. ASSUME NEW request \in Requests, NEW what \in {"auth", "model"}, NEW rid \in Nat,
             NEW sid \in Nat, RecordsEvent(w, request, what, rid, sid)
      PROVE  work' \in [Workers -> Requests]
  <2> DEFINE e == [n |-> q.n, what |-> what, rid |-> rid, sid |-> sid]
             k == request.events + 1
             r == [request EXCEPT !.at = "emit", !.back = "view", !.events = k, !.event = e]
  <2>1. e \in Events BY <1>6, FieldTypes DEF Events
  <2>2. k \in Nat BY <1>6 DEF Requests
  <2>3. r \in Requests
    <3> HIDE DEF e, k
    <3> QED BY <2>1, <2>2, <1>6 DEF Requests
  <2>4. work' = [work EXCEPT ![w] = r] BY <1>6 DEF RecordsEvent
  <2> HIDE DEF r
  <2> QED BY <2>3, <2>4, Replaced
<1>7. ASSUME AuthEvent(w) PROVE AuditOK'
  <2>1. work' \in [Workers -> Requests]
    BY <1>6, <1>7, FieldTypes, IdsTypes DEF AuthEvent
  <2> QED BY <1>7, <2>1, IdsTypes DEF AuthEvent, RecordsEvent, AuditOK
<1>8. ASSUME ModelEvent(w) PROVE AuditOK'
  <2>1. work' \in [Workers -> Requests] BY <1>6, <1>8, FieldTypes DEF ModelEvent
  <2> QED BY <1>8, <2>1 DEF ModelEvent, RecordsEvent, AuditOK
<1>9. ASSUME NEW k \in Nat,
             \/ work' = [work EXCEPT ![w].at = "dispatch", ![w].logged = k]
             \/ work' = [work EXCEPT ![w].at = "dispatch", ![w].dropped = k]
             \/ work' = [work EXCEPT ![w].at = "put"]
      PROVE  work' \in [Workers -> Requests]
  <2>1. /\ [q EXCEPT !.at = "dispatch", !.logged = k] \in Requests
        /\ [q EXCEPT !.at = "dispatch", !.dropped = k] \in Requests
        /\ [q EXCEPT !.at = "put"] \in Requests
    <3>1. q \in Requests BY FieldTypes
    <3> HIDE DEF q
    <3> QED BY <3>1 DEF Requests
  <2>2. \/ work' = [work EXCEPT ![w] = [q EXCEPT !.at = "dispatch", !.logged = k]]
        \/ work' = [work EXCEPT ![w] = [q EXCEPT !.at = "dispatch", !.dropped = k]]
        \/ work' = [work EXCEPT ![w] = [q EXCEPT !.at = "put"]]
    BY <1>9, FieldTypes
  <2> HIDE DEF q
  <2> QED BY <2>1, <2>2, Replaced
<1>10. /\ (IF OfResponse(w) THEN q.logged + 1 ELSE q.logged) \in Nat
       /\ (IF OfResponse(w) THEN q.dropped + 1 ELSE q.dropped) \in Nat
  BY FieldTypes
<1>11. ASSUME LogAtOnce(w) PROVE AuditOK'
  <2>1. work' \in [Workers -> Requests] BY <1>9, <1>10, <1>11, FieldTypes DEF LogAtOnce
  <2> QED BY <1>11, <2>1 DEF LogAtOnce, AuditOK
<1>12. ASSUME Dropped(w) PROVE AuditOK'
  <2>1. work' \in [Workers -> Requests] BY <1>9, <1>10, <1>12, FieldTypes DEF Dropped
  <2> QED BY <1>12, <2>1 DEF Dropped, AuditOK
<1>13. ASSUME LogEnter(w) PROVE AuditOK'
  <2>1. work' \in [Workers -> Requests] BY <1>9, <1>13 DEF LogEnter
  <2> QED BY <1>13, <2>1 DEF LogEnter, AuditOK
<1>14. ASSUME LogPut(w) PROVE AuditOK'
  <2>1. work' \in [Workers -> Requests] BY <1>9, <1>10, <1>14, FieldTypes DEF LogPut
  <2> QED BY <1>14, <2>1 DEF LogPut, AuditOK
<1>15. ASSUME Dispatch(w) PROVE AuditOK'
  <2> DEFINE k == IF settings.consumers /\ OfResponse(w) THEN q.seen + 1 ELSE q.seen
             r == [q EXCEPT !.at = q.back, !.event = NoEvent, !.seen = k]
  <2>1. k \in Nat BY FieldTypes
  <2>2. r \in Requests
    <3> DEFINE b == q.back
    <3>1. q \in Requests /\ b \in {"view", "finish"} /\ NoEvent \in Events
      BY FieldTypes, IdleTypes
    <3> HIDE DEF k, q, b
    <3>2. [q EXCEPT !.at = b, !.event = NoEvent, !.seen = k] \in Requests
      BY <2>1, <3>1 DEF Requests
    <3> QED BY <3>2 DEF b
  <2>3. work' = [work EXCEPT ![w] = r] BY <1>15, FieldTypes DEF Dispatch
  <2>4. work' \in [Workers -> Requests]
    <3> HIDE DEF r
    <3> QED BY <2>2, <2>3, Replaced
  <2>5. trail' \subseteq [n : Nat, rid : Nat, prepared : BOOLEAN]
    BY <1>15, FieldTypes DEF Dispatch, AuditOK
  <2>6. bans' \subseteq Nat /\ struck' \in [Clients -> SUBSET Nat]
    BY <1>15, FieldTypes DEF Dispatch, AuditOK
  <2> QED BY <1>15, <2>4, <2>5, <2>6 DEF Dispatch, AuditOK
<1>16. ASSUME Finish(w) PROVE AuditOK'
  <2>1. work' \in [Workers -> Requests] BY <1>16, IdleTypes, Replaced DEF Finish
  <2>2. ctx' \in [Workers -> Ids] BY <1>16, FieldTypes DEF Finish, Unbind, AuditOK
  <2>3. stored' \in [Clients -> Nat] /\ lost' \in [Clients -> SUBSET Nat]
    <3>1. /\ work[w].session \in Nat /\ stored \in [Clients -> Nat]
          /\ lost \in [Clients -> SUBSET Nat]
      BY FieldTypes DEF AuditOK
    <3>2. CASE Saved(w)
      <4> DEFINE c == work[w].client
                 L == (lost[c] \union ({stored[c]} \ {work[w].loaded})) \ {work[w].session}
      <4>1. stored' \in [Clients -> Nat] BY <3>1, <3>2 DEF Saved
      <4>2. lost' = [lost EXCEPT ![c] = L] BY <3>2 DEF Saved
      <4>3. c \in Clients => L \in SUBSET Nat BY <3>1
      <4> HIDE DEF L, c
      <4> QED BY <3>1, <4>1, <4>2, <4>3
    <3>3. CASE NotSaved(w) BY <3>1, <3>3 DEF NotSaved
    <3> QED BY <1>16, <3>2, <3>3 DEF Finish
  <2> QED BY <1>16, <2>1, <2>2, <2>3 DEF Finish, AuditOK
<1> QED
  BY <1>1, <1>2, <1>3, <1>4, <1>5, <1>7, <1>8, <1>11, <1>12, <1>13, <1>14, <1>15, <1>16
  DEF Request, Serve

\* A step of the queue or of the handler keeps the types of its variables.
LEMMA QueueStepTypes ==
  ASSUME QueueOK, AuditOK
  PROVE  /\ \A w \in Workers : LogEnter(w) \/ LogPut(w) => QueueOK'
         /\ Listen \/ Closing => QueueOK'
<1>0. Sentinel \notin Events /\ Nothing \notin Events BY RecordAssumption
<1>1. ASSUME NEW w \in Workers, LogEnter(w) PROVE QueueOK'
  BY <1>1 DEF LogEnter, Enter, QueueOK
<1>2. ASSUME NEW w \in Workers, LogPut(w) PROVE QueueOK'
  <2>1. work[w].event \in Events BY FieldTypes
  <2>2. queue' \in Seq(Events \union {Sentinel}) /\ puts' \in Seq(Events)
    BY <1>2, <2>1 DEF LogPut, Put, QueueOK
  <2> QED BY <1>2, <2>2 DEF LogPut, Put, QueueOK
<1>3. ASSUME Take PROVE QueueOK'
  <2>1. Head(queue) \in Events \union {Sentinel} /\ queue' \in Seq(Events \union {Sentinel})
    BY <1>3 DEF Take, QueueOK
  <2>2. CASE Head(queue) = Sentinel BY <1>3, <2>1, <2>2 DEF Take, QueueOK
  <2>3. CASE Head(queue) # Sentinel
    <3>1. Head(queue) # Nothing BY <1>0, <2>1, <2>3
    <3> QED BY <1>3, <2>1, <2>3, <3>1 DEF Take, QueueOK
  <2> QED BY <2>2, <2>3
<1>4. ASSUME NEW next \in {"waiting", "died"}, listener = "writing", Done(next) PROVE QueueOK'
  <2>1. hand \in Events BY <1>4 DEF QueueOK
  <2>2. handled' \in Seq(Events) BY <1>4, <2>1 DEF Done, QueueOK
  <2> QED BY <1>4, <2>2 DEF Done, QueueOK
<1>5. ASSUME NEW underLock \in BOOLEAN, Close(underLock) PROVE QueueOK'
  <2>1. queue' \in Seq(Events \union {Sentinel}) /\ promised' \in Nat
    BY <1>5 DEF Close, QueueOK
  <2> QED BY <1>5, <2>1 DEF Close, QueueOK
<1>6. ASSUME Join PROVE QueueOK'
  BY <1>6 DEF Join, Alive, QueueOK
<1>7. ASSUME Reset PROVE QueueOK'
  BY <1>7 DEF Reset, QueueOK
<1> QED
  BY <1>1, <1>2, <1>3, <1>4, <1>5, <1>6, <1>7 DEF Listen, Write, LockFails, Closing

\* A step of one worker leaves the requests and the contexts of the others alone.
LEMMA StepFrame ==
  ASSUME AuditOK, NEW w \in Workers,
         (\E c \in Clients, ignored \in settings.ignored : Arrive(w, c, ignored)) \/ Request(w)
  PROVE  /\ \A v \in Workers \ {w} : work'[v] = work[v] /\ ctx'[v] = ctx[v]
         /\ settings' = settings
<1>1. ASSUME NEW r, work' = [work EXCEPT ![w] = r]
      PROVE  \A v \in Workers \ {w} : work'[v] = work[v]
  BY <1>1, FieldTypes
<1>2. ASSUME NEW c \in Clients, NEW ignored \in settings.ignored, Arrive(w, c, ignored)
      PROVE  (\A v \in Workers \ {w} : work'[v] = work[v]) /\ UNCHANGED <<ctx, settings>>
  BY <1>1, <1>2 DEF Arrive
<1>3. ASSUME NEW answer, Respond(w, answer)
      PROVE  \A v \in Workers \ {w} : work'[v] = work[v]
  BY <1>1, <1>3 DEF Respond
<1>4. ASSUME Request(w), ~Prepare(w), ~Finish(w)
      PROVE  (\A v \in Workers \ {w} : work'[v] = work[v]) /\ UNCHANGED <<ctx, settings>>
  <2>1. CASE PrepareFails(w) BY <1>1, <2>1, FieldTypes DEF PrepareFails
  <2>2. CASE Ingress(w) BY <1>3, <2>2, FieldTypes DEF Ingress
  <2>3. CASE \E answer \in settings.answers : Answer(w, answer) BY <1>3, <2>3 DEF Answer
  <2>4. CASE AuthEvent(w) \/ ModelEvent(w)
    BY <1>1, <2>4 DEF AuthEvent, ModelEvent, RecordsEvent
  <2>5. CASE LogAtOnce(w) \/ Dropped(w) \/ LogEnter(w) \/ LogPut(w)
    BY <2>5, FieldTypes DEF LogAtOnce, Dropped, LogEnter, LogPut
  <2>6. CASE Dispatch(w) BY <2>6, FieldTypes DEF Dispatch
  <2> QED BY <1>4, <2>1, <2>2, <2>3, <2>4, <2>5, <2>6 DEF Request, Serve
<1>5. CASE Prepare(w) BY <1>1, <1>5 DEF Prepare, AuditOK
<1>6. CASE Finish(w) BY <1>1, <1>6 DEF Finish, AuditOK
<1> QED BY <1>2, <1>4, <1>5, <1>6

\* The handler's lock is taken before "put" and given back after it, by no other step.
LEMMA ServeNeverPuts ==
  ASSUME AuditOK, NEW w \in Workers, 
         (\E c \in Clients, ignored \in settings.ignored : Arrive(w, c, ignored)) \/ Serve(w)
  PROVE  work[w].at # "put" /\ work'[w].at # "put"
<1>1. work \in [Workers -> Requests] /\ work[w] \in Requests BY FieldTypes
<1>2. ASSUME NEW c \in Clients, NEW ignored \in settings.ignored, Arrive(w, c, ignored)
      PROVE  work[w].at # "put" /\ work'[w].at # "put"
  BY <1>1, <1>2 DEF Arrive, At, Idle
<1>3. ASSUME NEW answer, Respond(w, answer) PROVE work'[w].at # "put"
  <2> DEFINE a == [work[w] EXCEPT !.at = "finish", !.answer = answer]
             b == [work[w] EXCEPT !.at = "finish", !.answer = answer, !.failed = TRUE]
             d(at) == [work[w] EXCEPT !.at = at, !.back = "finish", !.answer = answer,
                                      !.event = ResponseEvent(w)]
  <2>1. \E r \in {a, b, d("emit"), d("dispatch")} : work' = [work EXCEPT ![w] = r]
    BY <1>3, FieldTypes DEF Respond
  <2>2. a.at = "finish" /\ b.at = "finish" BY <1>1 DEF Requests
  <2>3. d("emit").at = "emit" /\ d("dispatch").at = "dispatch" BY <1>1 DEF Requests
  <2> HIDE DEF a, b, d
  <2> QED BY <1>1, <2>1, <2>2, <2>3
<1>4. CASE Prepare(w)
  <2>1. Minted(w) \in Requests BY IdsTypes
  <2> QED BY <1>1, <1>4, <2>1 DEF Prepare, At, Requests
<1>5. CASE PrepareFails(w)
  <2>1. Minted(w) \in Requests BY IdsTypes
  <2> QED BY <1>1, <1>5, <2>1 DEF PrepareFails, At, Requests
<1>6. CASE Ingress(w)
  <2>1. CASE Respond(w, "bad") BY <1>3, <1>6, <2>1 DEF Ingress, At
  <2>2. CASE work' = [work EXCEPT ![w].at = "view", ![w].owed = Owed(w)]
    BY <1>1, <1>6, <2>2 DEF Ingress, At, Requests
  <2> QED BY <1>6, <2>1, <2>2 DEF Ingress
<1>7. CASE \E answer \in settings.answers : Answer(w, answer) BY <1>3, <1>7 DEF Answer, At
<1>8. ASSUME NEW request \in Requests, NEW what, NEW rid, NEW sid,
             RecordsEvent(w, request, what, rid, sid)
      PROVE  work[w].at # "put" /\ work'[w].at # "put"
  BY <1>1, <1>8 DEF RecordsEvent, At, Requests
<1>9. CASE AuthEvent(w) \/ ModelEvent(w)
  BY <1>1, <1>8, <1>9, IdsTypes DEF AuthEvent, ModelEvent
<1>10. CASE LogAtOnce(w) \/ Dropped(w) BY <1>1, <1>10 DEF LogAtOnce, Dropped, At, Requests
<1>11. CASE Dispatch(w) 
  <2>1. work[w].back # "put" BY <1>1 DEF Requests
  <2> QED BY <1>1, <1>11, <2>1 DEF Dispatch, At, Requests
<1>12. CASE Finish(w) BY <1>1, <1>12 DEF Finish, At, Idle
<1> QED
  BY <1>2, <1>4, <1>5, <1>6, <1>7, <1>8, <1>9, <1>10, <1>11, <1>12 DEF Serve

\* The handler's lock is held by who is in its emit, and by close() when it says so.
LEMMA LockStep ==
  ASSUME AuditOK, QueueOK, LockOK, [Next]_vars
  PROVE  LockOK'
<1>0. "free" \notin Workers /\ "closer" \notin Workers BY TrailAssumption
<1>1. ASSUME NEW w \in Workers, UNCHANGED queueVars,
             (\E c \in Clients, ignored \in settings.ignored : Arrive(w, c, ignored)) \/ Serve(w)
      PROVE  LockOK'
  <2>1. \A v \in Workers : (At(v, "put"))' <=> At(v, "put")
    BY <1>1, StepFrame, ServeNeverPuts DEF At, Request
  <2> QED BY <1>1, <2>1 DEF LockOK, queueVars
<1>2. ASSUME NEW w \in Workers, LogEnter(w) PROVE LockOK'
  <2>1. \A v \in Workers : (At(v, "put"))' <=> v = w
    <3>1. work'[w].at = "put" BY <1>2, FieldTypes DEF LogEnter
    <3>2. \A v \in Workers \ {w} : work'[v] = work[v] BY <1>2, StepFrame DEF Request
    <3>3. lock = "free" /\ "free" \notin Workers BY <1>0, <1>2 DEF LogEnter, Enter
    <3>4. \A v \in Workers : work[v].at # "put" BY <3>3 DEF LockOK, At
    <3> QED BY <3>1, <3>2, <3>4 DEF At
  <2> QED BY <1>0, <1>2, <2>1 DEF LogEnter, Enter, LockOK
<1>3. ASSUME NEW w \in Workers, LogPut(w) PROVE LockOK'
  <2>1. \A v \in Workers : ~(At(v, "put"))'
    <3>1. work'[w].at = "dispatch" BY <1>3, FieldTypes DEF LogPut
    <3>2. \A v \in Workers \ {w} : work'[v] = work[v] BY <1>3, StepFrame DEF Request
    <3> QED BY <1>3, <3>1, <3>2 DEF LogPut, Put, LockOK, At
  <2> QED BY <1>0, <1>3, <2>1 DEF LogPut, Put, LockOK
<1>4. ASSUME UNCHANGED auditVars, Listen \/ Closing PROVE LockOK'
  <2>1. \A v \in Workers : (At(v, "put"))' <=> At(v, "put") BY <1>4 DEF At, auditVars
  <2>2. CASE Listen
    BY <2>1, <2>2 DEF Listen, Take, Write, LockFails, Done, LockOK
  <2>3. ASSUME NEW underLock \in BOOLEAN, Close(underLock) PROVE LockOK'
    BY <1>0, <2>1, <2>3 DEF Close, LockOK, QueueOK
  <2>4. CASE Join BY <2>1, <2>4 DEF Join, LockOK
  <2>5. CASE Reset BY <1>0, <2>1, <2>5 DEF Reset, LockOK, QueueOK
  <2> QED BY <1>4, <2>2, <2>3, <2>4, <2>5 DEF Closing
<1>5. CASE UNCHANGED vars
  BY <1>5 DEF vars, auditVars, queueVars, LockOK, At
<1> QED BY <1>1, <1>2, <1>3, <1>4, <1>5 DEF Next, Request

-----------------------------------------------------------------------------
(* Types.                                                                    *)

TInv == AuditOK /\ QueueOK /\ LockOK

\* The inductive type invariant says what TypeOK says.
LEMMA TInvTypes == TInv => TypeOK
BY DEF TInv, TypeOK, AuditOK, QueueOK, LockOK

\* It holds at the start.
LEMMA TInvInit == Init => TInv
<1> SUFFICES ASSUME Init PROVE TInv OBVIOUS
<1>1. AuditOK
  BY IdleTypes DEF Init, AuditInit, AuditOK, NoId
<1>2. QueueOK
  <2>1. <<>> \in Seq(Events) /\ <<>> \in Seq(Events \union {Sentinel}) BY EmptySeq
  <2>2. hand = Nothing /\ Nothing \in Events \union {Nothing} BY DEF Init, QueueInit
  <2> QED BY <2>1, <2>2 DEF Init, QueueInit, QueueOK
<1>3. LockOK
  BY TrailAssumption DEF Init, AuditInit, QueueInit, LockOK, At, Idle
<1> QED BY <1>1, <1>2, <1>3 DEF TInv

\* Every step keeps it.
LEMMA TInvStep == TInv /\ [Next]_vars => TInv'
<1> SUFFICES ASSUME TInv, [Next]_vars PROVE TInv' OBVIOUS
<1> USE DEF TInv
<1>1. AuditOK'
  <2>1. CASE UNCHANGED auditVars BY <2>1 DEF auditVars, AuditOK
  <2> QED BY <2>1, AuditStepTypes DEF Next, vars
<1>2. QueueOK'
  <2>1. CASE UNCHANGED queueVars BY <2>1 DEF queueVars, QueueOK
  <2> QED BY <2>1, QueueStepTypes DEF Next, vars, Request
<1>3. LockOK' BY LockStep
<1> QED BY <1>1, <1>2, <1>3

\* The type of every variable of the requests and of the handler.
THEOREM TypesHold == Spec => []TypeOK
<1>1. Spec => []TInv BY TInvInit, TInvStep, PTL DEF Spec
<1> QED BY <1>1, TInvTypes, PTL

-----------------------------------------------------------------------------
(* The order of the records.                                                 *)

\* What is put last in the queue is last of all.
LEMMA Reassociated ==
  ASSUME NEW S, NEW a \in Seq(S), NEW b \in Seq(S), NEW c \in Seq(S), NEW x \in S
  PROVE  a \o b \o Append(c, x) = Append(a \o b \o c, x)
OBVIOUS

\* A record taken from the queue comes into the hand.
LEMMA MovedIn ==
  ASSUME NEW S, NEW a \in Seq(S), NEW c \in Seq(S), NEW x \in S
  PROVE  a \o <<>> \o (<<x>> \o c) = a \o <<x>> \o c
OBVIOUS

\* A record written comes out of it.
LEMMA MovedOut ==
  ASSUME NEW S, NEW a \in Seq(S), NEW c \in Seq(S), NEW x \in S
  PROVE  Append(a, x) \o <<>> \o c = a \o <<x>> \o c
OBVIOUS

\* Every step keeps the order of the records.
LEMMA OrderStep ==
  ASSUME TInv, WrittenInOrder, [Next]_vars
  PROVE  WrittenInOrder'
<1> USE DEF TInv
<1> DEFINE E == Events
           R == Without(queue, {Sentinel})
<1>0. /\ Sentinel \notin E /\ Nothing \notin E
      /\ InHand \in Seq(E) /\ handled \in Seq(E) /\ puts \in Seq(E)
      /\ queue \in Seq(E \union {Sentinel})
      /\ puts = handled \o InHand \o R
  <2>1. <<>> \in Seq(E) BY EmptySeq
  <2>2. InHand \in Seq(E) BY <2>1 DEF InHand, QueueOK
  <2> QED BY <2>2, RecordAssumption DEF QueueOK, WrittenInOrder
<1>1. R \in Seq(E)
  <2>1. R \in Seq(E \union {Sentinel}) /\ \E e : Places(e, R, queue, {Sentinel})
    BY <1>0, WithoutPlaces
  <2>2. \A j \in 1..Len(R) : R[j] \in E \union {Sentinel} /\ R[j] \notin {Sentinel}
    <3> HIDE DEF R
    <3> QED BY <2>1 DEF Places
  <2> HIDE DEF R
  <2>3. \A j \in 1..Len(R) : R[j] \in E BY <2>2
  <2> QED BY <2>1, <2>3
<1> HIDE DEF E
<1>2. ASSUME NEW w \in Workers, LogPut(w) PROVE WrittenInOrder'
  <2>1. work[w].event \in E BY FieldTypes DEF E
  <2>2. /\ queue' = Append(queue, work[w].event) /\ puts' = Append(puts, work[w].event)
        /\ handled' = handled /\ hand' = hand
    BY <1>2 DEF LogPut, Put
  <2> DEFINE x == work[w].event
  <2>3. Without(queue', {Sentinel}) = Append(R, x)
    <3>1. x \in E \union {Sentinel} /\ x \notin {Sentinel} BY <1>0, <2>1
    <3> HIDE DEF x
    <3> DEFINE T == {Sentinel}
    <3>2. Without(Append(queue, x), T) = IF x \in T THEN Without(queue, T)
                                         ELSE Append(Without(queue, T), x)
      <4> DEFINE W == E \union {Sentinel}
      <4>1. queue \in Seq(W) /\ x \in W BY <1>0, <3>1
      <4> HIDE DEF T, W
      <4> QED BY <4>1, WithoutAppend
    <3>3. Without(Append(queue, x), {Sentinel}) = Append(R, x) BY <3>1, <3>2
    <3> QED BY <2>2, <3>3 DEF x
  <2>4. InHand' = InHand BY <2>2 DEF InHand
  <2>5. puts' = handled \o InHand \o Append(R, work[w].event)
    <3> HIDE DEF R
    <3>1. handled \o InHand \o Append(R, x) = Append(handled \o InHand \o R, x)
      BY <1>0, <1>1, <2>1, Reassociated
    <3> QED BY <1>0, <2>2, <3>1
  <2> QED BY <2>2, <2>3, <2>4, <2>5 DEF WrittenInOrder
<1>3. ASSUME Take PROVE WrittenInOrder'
  <2>1. /\ queue # <<>> /\ queue' = Tail(queue) /\ hand = Nothing
        /\ puts' = puts /\ handled' = handled
        /\ IF Head(queue) = Sentinel THEN hand' = hand ELSE hand' = Head(queue)
    BY <1>3 DEF Take, QueueOK
  <2> DEFINE t == Tail(queue)
             h == Head(queue)
             V == Without(t, {Sentinel})
  <2>2. t \in Seq(E \union {Sentinel}) /\ h \in E \union {Sentinel} BY <1>0, <2>1
  <2>3. R = IF h \in {Sentinel} THEN V ELSE <<h>> \o V BY <1>0, <2>1, WithoutHead
  <2>4. CASE h = Sentinel
    <3>1. InHand' = InHand BY <2>1, <2>4 DEF InHand
    <3> QED BY <1>0, <2>1, <2>3, <2>4, <3>1 DEF WrittenInOrder
  <2>5. CASE h # Sentinel
    <3>1. h \in E /\ InHand = <<>> /\ InHand' = <<h>> /\ R = <<h>> \o V
      BY <1>0, <2>1, <2>2, <2>3, <2>5 DEF InHand
    <3>2. V \in Seq(E)
      <4>1. V \in Seq(E \union {Sentinel}) /\ \E e : Places(e, V, t, {Sentinel})
        <5> HIDE DEF t
        <5> QED BY <2>2, WithoutPlaces
      <4> HIDE DEF V, t
      <4>2. \A j \in 1..Len(V) : V[j] \in E BY <4>1 DEF Places
      <4> QED BY <4>1, <4>2
    <3>3. puts = handled \o <<>> \o (<<h>> \o V) BY <1>0, <3>1
    <3>4. handled \o <<>> \o (<<h>> \o V) = handled \o <<h>> \o V
      <4> HIDE DEF h, V
      <4> QED BY <1>0, <3>1, <3>2, MovedIn, SMTT(30)
    <3> QED BY <2>1, <3>1, <3>3, <3>4 DEF WrittenInOrder
  <2> QED BY <2>4, <2>5
<1>4. ASSUME NEW next, listener = "writing", Done(next) PROVE WrittenInOrder'
  <2>1. /\ hand \in E /\ hand # Nothing /\ hand' = Nothing /\ handled' = Append(handled, hand)
        /\ puts' = puts /\ queue' = queue
    BY <1>0, <1>4 DEF Done, QueueOK, E
  <2>2. InHand = <<hand>> /\ InHand' = <<>> BY <2>1 DEF InHand
  <2>3. Append(handled, hand) \o <<>> \o R = handled \o <<hand>> \o R
    <3> HIDE DEF R
    <3> QED BY <1>0, <1>1, <2>1, MovedOut
  <2> QED BY <1>0, <2>1, <2>2, <2>3 DEF WrittenInOrder
<1>5. ASSUME NEW underLock \in BOOLEAN, Close(underLock) PROVE WrittenInOrder'
  <2>1. /\ queue' = Append(queue, Sentinel) /\ puts' = puts /\ handled' = handled /\ hand' = hand
    BY <1>5 DEF Close
  <2>2. Without(queue', {Sentinel}) = R
    <3>1. Sentinel \in E \union {Sentinel} /\ Sentinel \in {Sentinel} OBVIOUS
    <3>2. Without(Append(queue, Sentinel), {Sentinel}) = R BY <1>0, <3>1, WithoutAppend
    <3> QED BY <2>1, <3>2
  <2>3. InHand' = InHand BY <2>1 DEF InHand
  <2> QED BY <1>0, <2>1, <2>2, <2>3 DEF WrittenInOrder
<1>6. ASSUME UNCHANGED <<queue, puts, handled, hand>> PROVE WrittenInOrder'
  BY <1>0, <1>6 DEF WrittenInOrder, InHand
<1> QED
  BY <1>2, <1>3, <1>4, <1>5, <1>6 DEF Next, Request, LogEnter, Enter, Listen, Write,
     LockFails, Closing, Join, Reset, vars, queueVars

\* queue.py:33-45.  Whoever logs and closes, records are written in the order they were
\* put, each once.
THEOREM WrittenInOrderHolds == Spec => []WrittenInOrder
<1>1. Init => WrittenInOrder
  <2> SUFFICES ASSUME Init PROVE WrittenInOrder OBVIOUS
  <2>1. puts = <<>> /\ handled = <<>> /\ queue = <<>> /\ InHand = <<>>
    BY DEF Init, QueueInit, InHand
  <2>2. <<>> \o <<>> \o <<>> = <<>> OBVIOUS
  <2> QED BY <2>1, <2>2, WithoutEmpty DEF WrittenInOrder
<1>2. TInv /\ WrittenInOrder /\ [Next]_vars => WrittenInOrder' BY OrderStep
<1> QED BY <1>1, <1>2, TInvInit, TInvStep, PTL DEF Spec

-----------------------------------------------------------------------------
(* The flush of close(): until a listener dies, the queue holds no sentinel  *)
(* unless close() waits for the listener to reach its own.                   *)

NoSentinel == \A i \in 1..Len(queue) : queue[i] # Sentinel

Held == IF hand = Nothing THEN 0 ELSE 1

\* One sentinel, behind as many records as were put before close().
SentinelAhead ==
  /\ Alive
  /\ \E p \in 1..Len(queue) :
       /\ queue[p] = Sentinel /\ \A i \in 1..Len(queue) : queue[i] = Sentinel => i = p
       /\ Len(handled) + Held + p = promised + 1

CloseInv ==
  \/ died
  \/ closer = "idle" /\ NoSentinel /\ (started => Alive)
  \/ closer = "join" /\ SentinelAhead
  \/ closer = "join" /\ listener = "exited" /\ NoSentinel /\ Len(handled) >= promised
  \/ closer = "reset" /\ NoSentinel /\ Len(handled) >= promised

\* What was put is written, in the listener's hand or in the queue.
LEMMA AllAccountedFor ==
  ASSUME QueueOK, WrittenInOrder, NoSentinel
  PROVE  Len(puts) = Len(handled) + Held + Len(queue)
<1> DEFINE W == Events \union {Sentinel}
<1>1. Without(queue, {Sentinel}) = queue
  <2> DEFINE T == {Sentinel}
  <2>1. queue \in Seq(W) /\ \A i \in 1..Len(queue) : queue[i] \notin T
    BY DEF QueueOK, NoSentinel
  <2>2. Without(queue, T) = queue
    <3> HIDE DEF T, W
    <3> QED BY <2>1, WithoutNone
  <2> QED BY <2>2
<1>2. InHand \in Seq(W) /\ Len(InHand) = Held
  <2>1. CASE hand = Nothing BY <2>1, EmptySeq DEF InHand, Held
  <2>2. CASE hand # Nothing
    <3>1. hand \in W BY <2>2 DEF QueueOK
    <3> HIDE DEF W
    <3> QED BY <2>2, <3>1 DEF InHand, Held
  <2> QED BY <2>1, <2>2
<1>3. handled \in Seq(W) /\ queue \in Seq(W) BY SeqMonotonic DEF QueueOK
<1>4. puts = handled \o InHand \o queue BY <1>1 DEF WrittenInOrder
<1>5. handled \o InHand \in Seq(W) /\ Len(handled \o InHand) = Len(handled) + Len(InHand)
  <2> HIDE DEF W
  <2> QED BY <1>2, <1>3, ConcatProperties
<1>6. Len(handled \o InHand \o queue) = Len(handled \o InHand) + Len(queue)
  <2> HIDE DEF W
  <2> QED BY <1>3, <1>5, ConcatProperties
<1> QED BY <1>2, <1>4, <1>5, <1>6

\* Every step keeps the invariant of close().
LEMMA CloseStep ==
  ASSUME TInv, WrittenInOrder, CloseInv, [Next]_vars
  PROVE  CloseInv'
<1> USE DEF TInv
<1>0. /\ Len(handled) \in Nat /\ Len(queue) \in Nat /\ promised \in Nat /\ Held \in {0, 1}
      /\ queue \in Seq(Events \union {Sentinel}) /\ Sentinel \notin Events
      /\ closer \in {"idle", "join", "reset"}
  BY RecordAssumption DEF QueueOK, Held
<1>1. SUFFICES ASSUME ~died, ~died' PROVE CloseInv'
  <2>1. died => died'
    BY DEF Next, Request, LogEnter, LogPut, Enter, Put, Listen, Take, Write, LockFails, Done,
       Closing, Close, Join, Reset, vars, queueVars
  <2> QED BY <2>1 DEF CloseInv
<1>2. ASSUME NEW w \in Workers, LogEnter(w) PROVE CloseInv'
  <2>1. UNCHANGED <<queue, hand, handled, closer, promised>> /\ started'
        /\ listener' = IF started THEN listener ELSE "waiting"
    BY <1>2 DEF LogEnter, Enter
  <2>2. CASE started
    BY <1>1, <2>1, <2>2 DEF CloseInv, SentinelAhead, NoSentinel, Held, Alive
  <2>3. CASE ~started
    <3>1. closer = "idle" /\ NoSentinel BY <1>1, <2>3 DEF CloseInv, QueueOK
    <3> QED BY <2>1, <2>3, <3>1 DEF CloseInv, NoSentinel, Alive
  <2> QED BY <2>2, <2>3
<1>3. ASSUME NEW w \in Workers, LogPut(w) PROVE CloseInv'
  <2> DEFINE r == work[w].event
  <2>1. r \in Events /\ r # Sentinel BY <1>0, FieldTypes
  <2>2. /\ queue' = Append(queue, r)
        /\ UNCHANGED <<listener, started, hand, handled, closer, promised>>
    BY <1>3 DEF LogPut, Put
  <2> HIDE DEF r
  <2>3. /\ Len(queue') = Len(queue) + 1 /\ queue'[Len(queue) + 1] = r
        /\ \A i \in 1..Len(queue) : queue'[i] = queue[i]
    BY <1>0, <2>1, <2>2
  <2>4. NoSentinel => NoSentinel'
    <3> SUFFICES ASSUME NoSentinel, NEW i \in 1..Len(queue') PROVE queue'[i] # Sentinel
      BY DEF NoSentinel
    <3> QED BY <1>0, <2>1, <2>3 DEF NoSentinel
  <2>5. SentinelAhead => SentinelAhead'
    <3> SUFFICES ASSUME SentinelAhead PROVE SentinelAhead' OBVIOUS
    <3>1. PICK p \in 1..Len(queue) :
            /\ queue[p] = Sentinel /\ \A i \in 1..Len(queue) : queue[i] = Sentinel => i = p
            /\ Len(handled) + Held + p = promised + 1
      BY DEF SentinelAhead
    <3>2. p \in 1..Len(queue') /\ queue'[p] = Sentinel BY <1>0, <2>3, <3>1
    <3>3. \A i \in 1..Len(queue') : queue'[i] = Sentinel => i = p BY <1>0, <2>1, <2>3, <3>1
    <3>4. Held' = Held BY <2>2 DEF Held
    <3> QED BY <2>2, <3>1, <3>2, <3>3, <3>4 DEF SentinelAhead, Alive
  <2> QED BY <1>1, <2>2, <2>4, <2>5 DEF CloseInv, Alive
<1>4. ASSUME Take PROVE CloseInv'
  <2>1. /\ listener = "waiting" /\ hand = Nothing /\ queue # <<>> /\ queue' = Tail(queue)
        /\ UNCHANGED <<started, handled, closer, promised>>
        /\ IF Head(queue) = Sentinel THEN listener' = "exited" /\ hand' = hand
           ELSE listener' = "writing" /\ hand' = Head(queue)
    BY <1>4 DEF Take, QueueOK
  <2>2. /\ Len(queue) >= 1 /\ Len(queue') = Len(queue) - 1 /\ queue[1] = Head(queue)
        /\ \A i \in 1..Len(queue') : queue'[i] = queue[i + 1]
        /\ Head(queue) \in Events \union {Sentinel}
    BY <1>0, <2>1
  <2>3. Nothing \notin Events BY RecordAssumption
  <2>4. closer # "reset" BY <2>1 DEF QueueOK
  <2>5. CASE NoSentinel
    <3>1. Head(queue) # Sentinel BY <2>2, <2>5 DEF NoSentinel
    <3>2. closer = "idle" BY <1>1, <2>1, <2>4, <2>5 DEF CloseInv, SentinelAhead, NoSentinel
    <3>3. NoSentinel' BY <1>0, <2>2, <2>5 DEF NoSentinel
    <3> QED BY <2>1, <3>1, <3>2, <3>3 DEF CloseInv, Alive
  <2>6. CASE ~NoSentinel
    <3>1. closer = "join" /\ SentinelAhead BY <1>1, <2>1, <2>6 DEF CloseInv
    <3>2. PICK p \in 1..Len(queue) :
            /\ queue[p] = Sentinel /\ \A i \in 1..Len(queue) : queue[i] = Sentinel => i = p
            /\ Len(handled) + Held + p = promised + 1
      BY <3>1 DEF SentinelAhead
    <3>3. CASE p = 1
      <4>1. listener' = "exited" /\ Len(handled) = promised BY <1>0, <2>1, <2>2, <3>2, <3>3 DEF Held
      <4>2. NoSentinel'
        <5> SUFFICES ASSUME NEW i \in 1..Len(queue') PROVE queue'[i] # Sentinel BY DEF NoSentinel
        <5>1. queue'[i] = queue[i + 1] /\ i + 1 \in 1..Len(queue) /\ i + 1 # 1 BY <1>0, <2>2
        <5> QED BY <3>2, <3>3, <5>1
      <4> QED BY <1>0, <2>1, <3>1, <4>1, <4>2 DEF CloseInv
    <3>4. CASE p # 1
      <4>1. Head(queue) # Sentinel /\ 1 \in 1..Len(queue) BY <1>0, <2>2, <3>2, <3>4
      <4>2. listener' = "writing" /\ Held = 0 /\ Held' = 1
        BY <2>1, <2>2, <2>3, <4>1 DEF Held
      <4>3. p - 1 \in 1..Len(queue') /\ queue'[p - 1] = Sentinel BY <1>0, <2>2, <3>2, <3>4
      <4>4. \A i \in 1..Len(queue') : queue'[i] = Sentinel => i = p - 1 BY <1>0, <2>2, <3>2
      <4>5. Len(handled') + Held' + (p - 1) = promised' + 1 BY <1>0, <2>1, <3>2, <4>2
      <4>6. SentinelAhead' BY <4>2, <4>3, <4>4, <4>5 DEF SentinelAhead, Alive
      <4> QED BY <2>1, <3>1, <4>6 DEF CloseInv
    <3> QED BY <3>3, <3>4
  <2> QED BY <2>5, <2>6
<1>5. ASSUME Write PROVE CloseInv'
  <2>1. /\ listener = "writing" /\ listener' = "waiting" /\ hand \in Events /\ hand # Nothing
        /\ hand' = Nothing /\ handled' = Append(handled, hand)
        /\ UNCHANGED <<queue, started, closer, promised>>
    BY <1>5 DEF Write, Done, QueueOK
  <2>2. Len(handled') = Len(handled) + 1 /\ Held = 1 /\ Held' = 0
    BY <2>1 DEF Held, QueueOK
  <2>3. NoSentinel => NoSentinel' BY <2>1 DEF NoSentinel
  <2>4. SentinelAhead => SentinelAhead'
    <3>1. Len(handled') + Held' = Len(handled) + Held BY <1>0, <2>2
    <3> QED BY <2>1, <3>1 DEF SentinelAhead, Alive
  <2> QED BY <1>0, <1>1, <2>1, <2>2, <2>3, <2>4 DEF CloseInv, Alive
<1>6. ASSUME LockFails PROVE CloseInv'
  BY <1>1, <1>6 DEF LockFails, Done
<1>7. ASSUME NEW underLock \in BOOLEAN, Close(underLock) PROVE CloseInv'
  <2>1. /\ closer = "idle" /\ started /\ closer' = "join" /\ promised' = Len(puts)
        /\ queue' = Append(queue, Sentinel) /\ UNCHANGED <<listener, hand, handled>>
    BY <1>7 DEF Close
  <2>2. NoSentinel /\ Alive BY <1>1, <2>1 DEF CloseInv
  <2>3. Len(puts) = Len(handled) + Held + Len(queue) BY <2>2, AllAccountedFor
  <2> DEFINE p == Len(queue) + 1
  <2>4. /\ Len(queue') = p /\ queue'[p] = Sentinel
        /\ \A i \in 1..Len(queue) : queue'[i] = queue[i]
    BY <1>0, <2>1
  <2>5. p \in 1..Len(queue') /\ \A i \in 1..Len(queue') : queue'[i] = Sentinel => i = p
    BY <1>0, <2>2, <2>4 DEF NoSentinel
  <2>6. Held' = Held /\ Len(handled') + Held + p = promised' + 1
    <3>1. Held' = Held BY <2>1 DEF Held
    <3>2. Len(handled') = Len(handled) /\ promised' = Len(handled) + Held + Len(queue)
      BY <2>1, <2>3
    <3> QED BY <1>0, <3>1, <3>2
  <2>7. SentinelAhead' BY <2>1, <2>2, <2>4, <2>5, <2>6 DEF SentinelAhead, Alive
  <2> QED BY <2>1, <2>7 DEF CloseInv
<1>8. ASSUME Join PROVE CloseInv'
  <2>1. NoSentinel /\ Len(handled) >= promised
    BY <1>1, <1>8 DEF Join, CloseInv, SentinelAhead
  <2> QED BY <1>8, <2>1 DEF Join, CloseInv, NoSentinel
<1>9. ASSUME Reset PROVE CloseInv'
  <2>1. NoSentinel BY <1>1, <1>9 DEF Reset, CloseInv
  <2> QED BY <1>9, <2>1 DEF Reset, CloseInv, NoSentinel
<1>10. ASSUME UNCHANGED queueVars PROVE CloseInv'
  BY <1>10 DEF queueVars, CloseInv, SentinelAhead, NoSentinel, Held, Alive
<1> QED
  BY <1>2, <1>3, <1>4, <1>5, <1>6, <1>7, <1>8, <1>9, <1>10
  DEF Next, Request, Listen, Closing, vars

\* queue.py:41-45.  close() returns when what was put before it is written, unless an
\* error of the file's lock ended the listener.
THEOREM CloseFlushesHolds == Spec => []CloseFlushes
<1>1. Init => CloseInv
  <2> SUFFICES ASSUME Init PROVE CloseInv OBVIOUS
  <2>1. queue = <<>> /\ closer = "idle" /\ started = FALSE BY DEF Init, QueueInit
  <2>2. NoSentinel BY <2>1, EmptySeq DEF NoSentinel
  <2> QED BY <2>1, <2>2 DEF CloseInv
<1>2. TInv /\ WrittenInOrder /\ CloseInv /\ [Next]_vars => CloseInv' BY CloseStep
<1>3. CloseInv => CloseFlushes BY DEF CloseInv, CloseFlushes
<1> QED
  BY <1>1, <1>2, <1>3, TInvInit, TInvStep, WrittenInOrderHolds, PTL DEF Spec

-----------------------------------------------------------------------------
(* What each step of a request does to it: q is the request before, r after. *)

\* The copy of the session keeps its id, or a new one is minted where there was none.
CopyKept(q, r) ==
  /\ r.client = q.client /\ r.loaded = q.loaded /\ r.due = q.due /\ (q.minted => r.minted)
  /\ r.session = q.session \/ (q.session = NoId /\ r.minted)

IdsKept(q, r) ==
  /\ CopyKept(q, r)
  /\ r.n = q.n /\ r.prepared = q.prepared /\ r.base = q.base /\ r.outer = q.outer

CountsKept(q, r) ==
  r.logged = q.logged /\ r.dropped = q.dropped /\ r.seen = q.seen /\ r.failed = q.failed

\* The fields of a request that arrives.
LEMMA ArriveEffect ==
  ASSUME AuditOK, NEW w \in Workers, NEW c \in Clients, NEW ignored \in settings.ignored,
         Arrive(w, c, ignored)
  PROVE  LET r == work'[w] IN
         /\ work[w].at = "idle" /\ r.at \in {"prepare", "ingress"}
         /\ r.n = arrived + 1 /\ ~r.prepared /\ r.base = NoContext /\ r.outer = NoContext
         /\ r.session = stored[c] /\ r.answer = "none" /\ r.event = NoEvent /\ ~r.owed
         /\ r.logged = 0 /\ r.dropped = 0 /\ r.seen = 0 /\ ~r.failed
         /\ r.client = c /\ ~r.minted /\ r.loaded = stored[c]
         /\ r.due = ~(struck[c] \subseteq lost[c] \union Unsaved(c))
<1>1. work \in [Workers -> Requests] BY FieldTypes
<1> DEFINE at == IF ignored THEN "ingress" ELSE "prepare"
           due == ~(struck[c] \subseteq lost[c] \union Unsaved(c))
<1>2. work'[w] = [Idle EXCEPT !.at = at, !.n = arrived + 1, !.client = c,
                              !.session = stored[c], !.loaded = stored[c], !.due = due]
  BY <1>1 DEF Arrive
<1>3. at \in {"prepare", "ingress"} OBVIOUS
<1>4. work[w].at = "idle" BY DEF Arrive, At
<1>5. due = ~(struck[c] \subseteq lost[c] \union Unsaved(c)) OBVIOUS
<1> HIDE DEF at, due
<1> QED BY <1>2, <1>3, <1>4, <1>5 DEF Idle

\* What the preparation sets and keeps.
LEMMA PrepareEffect ==
  ASSUME AuditOK, NEW w \in Workers, Prepare(w)
  PROVE  LET q == work[w]
             r == work'[w] IN
         /\ q.at = "prepare" /\ r.at = "ingress" /\ r.prepared /\ r.outer = ctx[w]
         /\ r.base = [rid |-> RequestId(w), sid |-> Scrubbed(SessionId(w))]
         /\ ctx'[w] = [rid |-> RequestId(w), sid |-> SessionId(w)]
         /\ fresh' = FreshThen(w) /\ r.session = IF Mints(w) THEN fresh ELSE q.session
         /\ r.n = q.n /\ r.event = q.event /\ r.answer = q.answer /\ CountsKept(q, r)
         /\ r.owed = q.owed /\ CopyKept(q, r)
<1>1. work \in [Workers -> Requests] /\ work[w] \in Requests BY FieldTypes
<1>2. ctx \in [Workers -> Ids] BY DEF AuditOK
<1>3. Minted(w) \in Requests BY IdsTypes
<1>4. /\ Minted(w).session = IF Mints(w) THEN fresh ELSE work[w].session
      /\ Minted(w).n = work[w].n /\ Minted(w).event = work[w].event
      /\ Minted(w).answer = work[w].answer /\ Minted(w).owed = work[w].owed
      /\ CountsKept(work[w], Minted(w)) /\ CopyKept(work[w], Minted(w))
  BY <1>1 DEF Minted, Mints, Requests, CountsKept, CopyKept
<1> DEFINE b == [rid |-> RequestId(w), sid |-> Scrubbed(SessionId(w))]
           r == [Minted(w) EXCEPT !.at = "ingress", !.prepared = TRUE, !.outer = ctx[w],
                                  !.base = b]
<1>5. work'[w] = r BY <1>1 DEF Prepare
<1>6. /\ r.at = "ingress" /\ r.prepared /\ r.outer = ctx[w] /\ r.base = b
      /\ r.session = Minted(w).session /\ r.n = Minted(w).n /\ r.event = Minted(w).event
      /\ r.answer = Minted(w).answer /\ r.owed = Minted(w).owed /\ CountsKept(Minted(w), r)
      /\ CopyKept(Minted(w), r)
  <2> HIDE DEF b
  <2> QED BY <1>3 DEF Requests, CountsKept, CopyKept
<1>7. ctx'[w] = [rid |-> RequestId(w), sid |-> SessionId(w)] BY <1>2 DEF Prepare
<1> HIDE DEF r
<1> QED BY <1>4, <1>5, <1>6, <1>7 DEF Prepare, At, CountsKept, CopyKept

\* What a failed preparation leaves behind: perhaps a minted session id.
LEMMA PrepareFailsEffect ==
  ASSUME AuditOK, NEW w \in Workers, PrepareFails(w)
  PROVE  LET q == work[w]
             r == work'[w] IN
         /\ q.at = "prepare" /\ r.at = "ingress" /\ IdsKept(q, r) /\ CountsKept(q, r)
         /\ \/ r.session = q.session /\ fresh' = fresh
            \/ r.session = (IF Mints(w) THEN fresh ELSE q.session) /\ fresh' = FreshAfter(w)
         /\ r.event = q.event /\ r.answer = q.answer /\ r.owed = q.owed
         /\ ctx' = ctx
<1>1. work \in [Workers -> Requests] /\ work[w] \in Requests BY FieldTypes
<1>2. Minted(w) \in Requests BY IdsTypes
<1>3. /\ Minted(w).session = IF Mints(w) THEN fresh ELSE work[w].session
      /\ IdsKept(work[w], Minted(w)) /\ Minted(w).event = work[w].event
      /\ Minted(w).answer = work[w].answer /\ Minted(w).owed = work[w].owed
      /\ CountsKept(work[w], Minted(w))
  BY <1>1 DEF Minted, Mints, Requests, CountsKept, IdsKept, CopyKept
<1>4. ASSUME NEW q \in Requests
      PROVE  LET r == [q EXCEPT !.at = "ingress"] IN
             /\ r.at = "ingress" /\ IdsKept(q, r) /\ CountsKept(q, r) /\ r.session = q.session
             /\ r.event = q.event /\ r.answer = q.answer /\ r.owed = q.owed
  BY DEF Requests, CountsKept, IdsKept, CopyKept
<1>5. \/ work'[w] = [work[w] EXCEPT !.at = "ingress"] /\ fresh' = fresh
      \/ work'[w] = [Minted(w) EXCEPT !.at = "ingress"] /\ fresh' = FreshAfter(w)
  BY <1>1 DEF PrepareFails
<1>6. work[w].at = "prepare" /\ ctx' = ctx BY DEF PrepareFails, At
<1>7. CASE work'[w] = [work[w] EXCEPT !.at = "ingress"] /\ fresh' = fresh
  BY <1>1, <1>4, <1>6, <1>7
<1>8. CASE work'[w] = [Minted(w) EXCEPT !.at = "ingress"] /\ fresh' = FreshAfter(w)
  BY <1>2, <1>3, <1>4, <1>6, <1>8 DEF CountsKept, IdsKept, CopyKept
<1> QED BY <1>5, <1>7, <1>8

\* What becomes of a request when its response passes the middleware: nothing to
\* record, a failure to record it, or its event on the way.
LEMMA RespondEffect ==
  ASSUME AuditOK, NEW w \in Workers, NEW answer \in Answers, Respond(w, answer)
  PROVE  LET q == work[w]
             r == work'[w] IN
         /\ IdsKept(q, r) /\ r.session = q.session /\ r.owed = q.owed /\ r.answer = answer
         /\ \/ /\ r.at = "finish" /\ CountsKept(q, r) /\ r.event = q.event
               /\ ~q.prepared \/ answer \notin {"good", "bad"}
                  \/ (answer = "good" /\ ~settings.consumers)
            \/ r.at = "finish" /\ r.failed /\ r.event = q.event
            \/ /\ r.at \in {"emit", "dispatch"} /\ q.prepared /\ answer \in {"good", "bad"}
               /\ CountsKept(q, r) /\ r.back = "finish" /\ r.event = ResponseEvent(w)
               /\ r.at = "emit" => answer = "bad" \/ settings.logOk
               /\ r.at = "dispatch" => answer = "good"
<1> DEFINE q == work[w]
           a == [q EXCEPT !.at = "finish", !.answer = answer]
           b == [q EXCEPT !.at = "finish", !.answer = answer, !.failed = TRUE]
           d(at) == [q EXCEPT !.at = at, !.back = "finish", !.answer = answer,
                              !.event = ResponseEvent(w)]
<1>1. work \in [Workers -> Requests] /\ q \in Requests BY FieldTypes
<1>2. \/ /\ work'[w] = a
         /\ ~q.prepared \/ answer \notin {"good", "bad"} \/ (answer = "good" /\ ~settings.consumers)
      \/ work'[w] = b
      \/ /\ q.prepared /\ answer \in {"good", "bad"}
         /\ \/ work'[w] = d("emit") /\ (answer = "bad" \/ settings.logOk)
            \/ work'[w] = d("dispatch") /\ answer = "good"
  BY <1>1, SettingsTypes DEF Respond, Reports, Answers
<1>3. /\ a.at = "finish" /\ a.answer = answer /\ IdsKept(q, a) /\ CountsKept(q, a)
      /\ a.session = q.session /\ a.owed = q.owed /\ a.event = q.event
  <2> HIDE DEF q
  <2> QED BY <1>1 DEF Requests, IdsKept, CountsKept, CopyKept
<1>4. /\ b.at = "finish" /\ b.answer = answer /\ IdsKept(q, b) /\ b.failed
      /\ b.session = q.session /\ b.owed = q.owed /\ b.event = q.event
  <2> HIDE DEF q
  <2> QED BY <1>1 DEF Requests, IdsKept, CopyKept
<1>5. ASSUME NEW at
      PROVE  /\ d(at).at = at /\ d(at).answer = answer /\ IdsKept(q, d(at)) /\ CountsKept(q, d(at))
             /\ d(at).session = q.session /\ d(at).owed = q.owed /\ d(at).back = "finish"
             /\ d(at).event = ResponseEvent(w)
  <2> HIDE DEF q
  <2> QED BY <1>1 DEF Requests, IdsKept, CountsKept, CopyKept
<1>6. CASE work'[w] = b BY <1>4, <1>6
<1>7. CASE /\ work'[w] = a
           /\ ~q.prepared \/ answer \notin {"good", "bad"} \/ (answer = "good" /\ ~settings.consumers)
  BY <1>3, <1>7
<1>8. CASE /\ q.prepared /\ answer \in {"good", "bad"}
           /\ work'[w] = d("emit") /\ (answer = "bad" \/ settings.logOk)
  <2> DEFINE r == d("emit")
  <2>1. /\ r.at = "emit" /\ r.answer = answer /\ IdsKept(q, r) /\ CountsKept(q, r)
        /\ r.session = q.session /\ r.owed = q.owed /\ r.back = "finish"
        /\ r.event = ResponseEvent(w)
    BY <1>5
  <2> HIDE DEF r
  <2> QED BY <1>8, <2>1 DEF r
<1>9. CASE /\ q.prepared /\ answer \in {"good", "bad"}
           /\ work'[w] = d("dispatch") /\ answer = "good"
  <2> DEFINE r == d("dispatch")
  <2>1. /\ r.at = "dispatch" /\ r.answer = answer /\ IdsKept(q, r) /\ CountsKept(q, r)
        /\ r.session = q.session /\ r.owed = q.owed /\ r.back = "finish"
        /\ r.event = ResponseEvent(w)
    BY <1>5
  <2> HIDE DEF r
  <2> QED BY <1>9, <2>1 DEF r
<1> QED BY <1>2, <1>6, <1>7, <1>8, <1>9

\* Past ingress: the view begins.
Admitted(w) ==
  /\ ~(settings.sessions /\ work[w].session \in bans)
  /\ work' = [work EXCEPT ![w].at = "view", ![w].owed = Owed(w)]

\* What a request is once it is past ingress.
LEMMA AdmittedEffect ==
  ASSUME AuditOK, NEW w \in Workers, Admitted(w)
  PROVE  LET q == work[w]
             r == work'[w] IN
         /\ r.at = "view" /\ IdsKept(q, r) /\ CountsKept(q, r)
         /\ r.session = q.session /\ r.event = q.event /\ r.answer = q.answer
         /\ r.owed = Owed(w)
<1>1. work \in [Workers -> Requests] /\ work[w] \in Requests BY FieldTypes
<1>2. work'[w] = [work[w] EXCEPT !.at = "view", !.owed = Owed(w)]
  BY <1>1 DEF Admitted
<1> DEFINE q == work[w]
           o == Owed(w)
           r == [q EXCEPT !.at = "view", !.owed = o]
<1>3. /\ r.at = "view" /\ IdsKept(q, r) /\ CountsKept(q, r)
      /\ r.session = q.session /\ r.event = q.event /\ r.answer = q.answer /\ r.owed = o
  <2> HIDE DEF q, o
  <2> QED BY <1>1 DEF Requests, IdsKept, CountsKept, q, CopyKept
<1> HIDE DEF r
<1> QED BY <1>2, <1>3 DEF r

\* At ingress a request is denied or admitted.
LEMMA IngressCases ==
  ASSUME NEW w \in Workers, Ingress(w)
  PROVE  /\ work[w].at = "ingress"
         /\ Respond(w, "bad") \/ Admitted(w)
         /\ UNCHANGED <<settings, stored, ctx, fresh, arrived, bans, trail, struck, lost>>
BY DEF Ingress, At, Admitted

\* What an event of the view changes in its request.
LEMMA EventEffect ==
  ASSUME AuditOK, NEW w \in Workers, NEW request \in {work[w], Minted(w)},
         NEW what, NEW rid, NEW sid, RecordsEvent(w, request, what, rid, sid)
  PROVE  LET q == work[w]
             r == work'[w] IN
         /\ q.at = "view" /\ r.at = "emit" /\ r.back = "view" /\ IdsKept(q, r) /\ CountsKept(q, r)
         /\ r.session = request.session /\ r.owed = q.owed /\ r.answer = q.answer
         /\ r.event = [n |-> q.n, what |-> what, rid |-> rid, sid |-> sid]
         /\ Minted(w).session = IF Mints(w) THEN fresh ELSE q.session
<1>1. work \in [Workers -> Requests] /\ work[w] \in Requests BY FieldTypes
<1>2. Minted(w) \in Requests BY IdsTypes
<1>3. /\ IdsKept(work[w], request) /\ CountsKept(work[w], request)
      /\ request.owed = work[w].owed /\ request.answer = work[w].answer
      /\ Minted(w).session = IF Mints(w) THEN fresh ELSE work[w].session
  BY <1>1 DEF Minted, Mints, Requests, CountsKept, IdsKept, CopyKept
<1> DEFINE e == [n |-> work[w].n, what |-> what, rid |-> rid, sid |-> sid]
           r == [request EXCEPT !.at = "emit", !.back = "view", !.events = @ + 1, !.event = e]
<1>4. work'[w] = r /\ work[w].at = "view" BY <1>1 DEF RecordsEvent, At
<1>5. /\ r.at = "emit" /\ r.back = "view" /\ IdsKept(request, r) /\ CountsKept(request, r)
      /\ r.session = request.session /\ r.owed = request.owed /\ r.answer = request.answer
      /\ r.event = e
  <2>1. request \in Requests BY <1>1, <1>2
  <2> HIDE DEF e
  <2> QED BY <2>1 DEF Requests, IdsKept, CountsKept, CopyKept
<1> HIDE DEF r
<1> QED BY <1>3, <1>4, <1>5 DEF IdsKept, CountsKept, CopyKept

\* Logging, at once or through the handler, or not at all.
Emitted(w) == LogAtOnce(w) \/ Dropped(w) \/ LogPut(w)

\* The emission of an event, which is logged or dropped.
LEMMA EmittedEffect ==
  ASSUME AuditOK, NEW w \in Workers, Emitted(w)
  PROVE  LET q == work[w]
             r == work'[w] IN
         /\ q.at \in {"emit", "put"} /\ r.at = "dispatch" /\ IdsKept(q, r)
         /\ r.session = q.session /\ r.owed = q.owed /\ r.answer = q.answer
         /\ r.event = q.event /\ r.back = q.back /\ r.seen = q.seen /\ r.failed = q.failed
         /\ r.logged + r.dropped = q.logged + q.dropped + IF OfResponse(w) THEN 1 ELSE 0
         /\ UNCHANGED <<settings, stored, ctx, fresh, arrived, bans, trail, struck, lost>>
<1>1. work \in [Workers -> Requests] /\ work[w] \in Requests /\ work[w].logged \in Nat
      /\ work[w].dropped \in Nat
  BY FieldTypes
<1> DEFINE q == work[w]
           a(k) == [q EXCEPT !.at = "dispatch", !.logged = k]
           b(k) == [q EXCEPT !.at = "dispatch", !.dropped = k]
<1>2. ASSUME NEW k
      PROVE  /\ a(k).at = "dispatch" /\ IdsKept(q, a(k)) /\ a(k).session = q.session
             /\ a(k).owed = q.owed /\ a(k).answer = q.answer /\ a(k).event = q.event
             /\ a(k).back = q.back /\ a(k).seen = q.seen /\ a(k).failed = q.failed
             /\ a(k).logged = k /\ a(k).dropped = q.dropped
  <2> HIDE DEF q
  <2> QED BY <1>1 DEF Requests, IdsKept, q, CopyKept
<1>3. ASSUME NEW k
      PROVE  /\ b(k).at = "dispatch" /\ IdsKept(q, b(k)) /\ b(k).session = q.session
             /\ b(k).owed = q.owed /\ b(k).answer = q.answer /\ b(k).event = q.event
             /\ b(k).back = q.back /\ b(k).seen = q.seen /\ b(k).failed = q.failed
             /\ b(k).logged = q.logged /\ b(k).dropped = k
  <2> HIDE DEF q
  <2> QED BY <1>1 DEF Requests, IdsKept, q, CopyKept
<1> DEFINE one == IF OfResponse(w) THEN 1 ELSE 0
<1>4. work'[w] = a(q.logged + one) \/ work'[w] = b(q.dropped + one)
  <2>1. /\ q.logged + one = IF OfResponse(w) THEN q.logged + 1 ELSE q.logged
        /\ q.dropped + one = IF OfResponse(w) THEN q.dropped + 1 ELSE q.dropped
    BY <1>1
  <2>2. \/ work' = [work EXCEPT ![w].at = "dispatch", ![w].logged = q.logged + one]
        \/ work' = [work EXCEPT ![w].at = "dispatch", ![w].dropped = q.dropped + one]
    BY <2>1, <1>1 DEF Emitted, LogAtOnce, Dropped, LogPut
  <2> HIDE DEF one
  <2> QED BY <1>1, <2>2
<1>5. /\ work[w].at \in {"emit", "put"}
      /\ UNCHANGED <<settings, stored, ctx, fresh, arrived, bans, trail, struck, lost>>
  BY DEF Emitted, LogAtOnce, Dropped, LogPut, At
<1>6. one \in Nat /\ q.logged \in Nat /\ q.dropped \in Nat BY <1>1
<1> HIDE DEF a, b, q, one
<1>7. CASE work'[w] = a(q.logged + one) BY <1>2, <1>5, <1>6, <1>7 DEF q, one
<1>8. CASE work'[w] = b(q.dropped + one) BY <1>3, <1>5, <1>6, <1>8 DEF q, one
<1> QED BY <1>4, <1>7, <1>8

\* A request that has taken the handler's lock.
LEMMA EnterEffect ==
  ASSUME AuditOK, NEW w \in Workers, LogEnter(w)
  PROVE  LET q == work[w]
             r == work'[w] IN
         /\ q.at = "emit" /\ r.at = "put" /\ IdsKept(q, r) /\ CountsKept(q, r)
         /\ r.session = q.session /\ r.owed = q.owed /\ r.answer = q.answer
         /\ r.event = q.event /\ r.back = q.back
         /\ UNCHANGED <<settings, stored, ctx, fresh, arrived, bans, trail, struck, lost>>
<1>1. work \in [Workers -> Requests] /\ work[w] \in Requests BY FieldTypes
<1>2. work'[w] = [work[w] EXCEPT !.at = "put"] BY <1>1 DEF LogEnter
<1> QED BY <1>1, <1>2 DEF LogEnter, At, Requests, IdsKept, CountsKept, CopyKept

\* The dispatch of an event.
LEMMA DispatchEffect ==
  ASSUME AuditOK, NEW w \in Workers, Dispatch(w)
  PROVE  LET q == work[w]
             r == work'[w] IN
         /\ q.at = "dispatch" /\ r.at = q.back /\ IdsKept(q, r) /\ r.event = NoEvent
         /\ r.session = q.session /\ r.owed = q.owed /\ r.answer = q.answer
         /\ r.logged = q.logged /\ r.dropped = q.dropped /\ r.failed = q.failed
         /\ r.seen = IF settings.consumers /\ OfResponse(w) THEN q.seen + 1 ELSE q.seen
<1>1. work \in [Workers -> Requests] /\ work[w] \in Requests BY FieldTypes
<1> DEFINE q == work[w]
           k == IF settings.consumers /\ OfResponse(w) THEN q.seen + 1 ELSE q.seen
           r == [q EXCEPT !.at = q.back, !.event = NoEvent, !.seen = k]
<1>2. work'[w] = r BY <1>1 DEF Dispatch
<1>3. /\ r.at = q.back /\ IdsKept(q, r) /\ r.event = NoEvent /\ r.session = q.session
      /\ r.owed = q.owed /\ r.answer = q.answer /\ r.logged = q.logged
      /\ r.dropped = q.dropped /\ r.failed = q.failed /\ r.seen = k
  <2> HIDE DEF q, k
  <2> QED BY <1>1 DEF Requests, IdsKept, q, CopyKept
<1>4. q.at = "dispatch" BY DEF Dispatch, At
<1> HIDE DEF r
<1> QED BY <1>2, <1>3, <1>4

\* The end of a request.
LEMMA FinishEffect ==
  ASSUME AuditOK, NEW w \in Workers, Finish(w)
  PROVE  work[w].at = "finish" /\ work'[w] = Idle /\ ctx'[w] = Unbind(w)
<1>1. work \in [Workers -> Requests] /\ ctx \in [Workers -> Ids] BY DEF AuditOK
<1> QED BY <1>1 DEF Finish, At

\* A step of w's request, one disjunct per handler.
Moves(w) ==
  \/ \E c \in Clients, ignored \in settings.ignored : Arrive(w, c, ignored)
  \/ Prepare(w) \/ PrepareFails(w) \/ Ingress(w)
  \/ \E answer \in settings.answers : Answer(w, answer)
  \/ AuthEvent(w) \/ ModelEvent(w) \/ Emitted(w) \/ LogEnter(w)
  \/ Dispatch(w) \/ Finish(w)

\* The listener and close() leave the requests alone; any other step is a step of one
\* request, and leaves those of the other workers alone.
LEMMA StepCases ==
  ASSUME AuditOK, [Next]_vars
  PROVE  \/ UNCHANGED auditVars
         \/ \E w \in Workers :
              /\ Moves(w) /\ AuditOK'
              /\ settings' = settings
              /\ \A v \in Workers \ {w} : work'[v] = work[v] /\ ctx'[v] = ctx[v]
<1>1. CASE UNCHANGED auditVars BY <1>1
<1>2. CASE ~UNCHANGED auditVars
  <2>1. PICK w \in Workers :
          (\E c \in Clients, ignored \in settings.ignored : Arrive(w, c, ignored)) \/ Request(w)
    BY <1>2 DEF Next, vars
  <2>2. Moves(w)
    <3>1. CASE \E c \in Clients, ignored \in settings.ignored : Arrive(w, c, ignored)
      BY <3>1 DEF Moves
    <3>2. CASE Request(w) BY <3>2 DEF Moves, Request, Serve, Emitted
    <3> QED BY <2>1, <3>1, <3>2
  <2>3. AuditOK' BY <2>1, AuditStepTypes
  <2>4. settings' = settings /\ \A v \in Workers \ {w} : work'[v] = work[v] /\ ctx'[v] = ctx[v]
    BY <2>1, StepFrame
  <2> QED BY <2>2, <2>3, <2>4
<1> QED BY <1>1, <1>2

-----------------------------------------------------------------------------
(* The recording of responses.                                               *)

Unreported(r) ==
  r.logged = 0 /\ r.dropped = 0 /\ r.seen = 0 /\ ~r.failed /\ r.answer = "none"

Recording(r) == r.at \in {"emit", "put", "dispatch"}

Offered(r, s) ==
  /\ r.answer = "bad" => r.logged + r.dropped = 1
  /\ r.answer = "good" => r.logged + r.dropped <= IF s.logOk THEN 1 ELSE 0

\* How far request r is with the report of its response, in the deployment s.
ReportOK(r, s) ==
  /\ r.at \in {"idle", "prepare", "ingress", "view"} => Unreported(r) /\ r.event = NoEvent
  /\ Recording(r) /\ r.event.what # "response" => Unreported(r) /\ r.back = "view"
  /\ Recording(r) /\ r.event.what = "response" =>
       /\ r.back = "finish" /\ r.prepared /\ r.answer \in {"good", "bad"}
       /\ r.seen = 0 /\ ~r.failed
       /\ r.at # "dispatch" => r.logged + r.dropped = 0 /\ (r.answer = "bad" \/ s.logOk)
       /\ r.at = "dispatch" => Offered(r, s)
  /\ r.at = "finish" /\ r.prepared /\ ~r.failed /\ r.answer \in {"good", "bad"} =>
       (r.seen = IF s.consumers THEN 1 ELSE 0) /\ Offered(r, s)

ReportInv == \A w \in Workers : ReportOK(work[w], settings)

\* One step of one request keeps its report in order.
LEMMA ReportMoves ==
  ASSUME AuditOK, AuditOK', NEW w \in Workers, ReportOK(work[w], settings), Moves(w)
  PROVE  ReportOK(work'[w], settings)
<1> DEFINE q == work[w]
           r == work'[w]
           s == settings
<1> SUFFICES ReportOK(r, s) OBVIOUS
<1>1. s.logOk \in BOOLEAN /\ s.consumers \in BOOLEAN BY SettingsTypes
<1>2. /\ q.logged \in Nat /\ q.dropped \in Nat /\ q.seen \in Nat /\ q.failed \in BOOLEAN
      /\ q.prepared \in BOOLEAN /\ q.back \in {"view", "finish"} /\ q.event \in Events
  BY FieldTypes
<1>3. ReportOK(q, s) OBVIOUS
<1>4. r.logged \in Nat /\ r.dropped \in Nat
  <2>1. work'[w] \in Requests BY DEF AuditOK
  <2> QED BY <2>1 DEF Requests
<1>5. ASSUME NEW answer \in Answers, Respond(w, answer), q.at \in {"ingress", "view"}
      PROVE  ReportOK(r, s)
  <2>1. Unreported(q) /\ q.event = NoEvent BY <1>3, <1>5 DEF ReportOK
  <2>2. ResponseEvent(w).what = "response" BY DEF ResponseEvent
  <2>3. IdsKept(q, r) /\ r.answer = answer BY <1>5, RespondEffect
  <2>4. CASE r.at = "finish" /\ CountsKept(q, r) /\ r.event = q.event
             /\ (~q.prepared \/ answer \notin {"good", "bad"}
                 \/ (answer = "good" /\ ~settings.consumers))
    <3>1. r.at = "finish" /\ r.logged = 0 /\ r.dropped = 0 /\ r.seen = 0
          /\ (~r.prepared \/ r.answer \notin {"good", "bad"} \/ (r.answer = "good" /\ ~s.consumers))
      BY <2>1, <2>3, <2>4 DEF Unreported, IdsKept, CountsKept
    <3> HIDE DEF q, r, s
    <3> QED BY <1>1, <3>1 DEF ReportOK, Recording, Offered
  <2>5. CASE r.at = "finish" /\ r.failed
    <3> HIDE DEF q, r, s
    <3> QED BY <2>5 DEF ReportOK, Recording
  <2>6. CASE /\ r.at \in {"emit", "dispatch"} /\ q.prepared /\ answer \in {"good", "bad"}
             /\ CountsKept(q, r) /\ r.back = "finish" /\ r.event = ResponseEvent(w)
             /\ r.at = "emit" => answer = "bad" \/ settings.logOk
             /\ r.at = "dispatch" => answer = "good"
    <3>1. /\ r.at \in {"emit", "dispatch"} /\ r.prepared /\ r.answer \in {"good", "bad"}
          /\ r.logged = 0 /\ r.dropped = 0 /\ r.seen = 0 /\ ~r.failed /\ r.back = "finish"
          /\ r.event.what = "response"
          /\ r.at = "emit" => r.answer = "bad" \/ s.logOk
          /\ r.at = "dispatch" => r.answer = "good"
      BY <2>1, <2>2, <2>3, <2>6 DEF Unreported, IdsKept, CountsKept
    <3> HIDE DEF q, r, s
    <3> QED BY <1>1, <3>1 DEF ReportOK, Recording, Offered
  <2> QED BY <1>5, <2>4, <2>5, <2>6, RespondEffect
<1>6. ASSUME NEW c \in Clients, NEW ignored \in settings.ignored, Arrive(w, c, ignored)
      PROVE  ReportOK(r, s)
  <2>1. Unreported(r) /\ r.event = NoEvent /\ r.at \in {"prepare", "ingress"}
    BY <1>6, ArriveEffect DEF Unreported
  <2> HIDE DEF q, r, s
  <2> QED BY <2>1 DEF ReportOK, Recording
\* Before the response nothing is counted.
<1>7. ASSUME CountsKept(q, r), r.answer = q.answer, q.at \in {"prepare", "ingress", "view"},
             \/ r.at \in {"ingress", "view"} /\ r.event = q.event
             \/ r.at = "emit" /\ r.back = "view" /\ r.event.what # "response"
      PROVE  ReportOK(r, s)
  <2>1. Unreported(q) /\ q.event = NoEvent BY <1>3, <1>7 DEF ReportOK
  <2>2. Unreported(r) BY <1>7, <2>1 DEF Unreported, CountsKept
  <2> HIDE DEF q, r, s
  <2> QED BY <1>7, <2>1, <2>2 DEF ReportOK, Recording
<1>8. CASE Prepare(w) \/ PrepareFails(w)
  <2>1. /\ q.at = "prepare" /\ r.at = "ingress" /\ r.event = q.event /\ r.answer = q.answer
        /\ CountsKept(q, r)
    BY <1>8, PrepareEffect, PrepareFailsEffect
  <2> QED BY <1>7, <2>1
<1>9. CASE Ingress(w)
  <2>1. q.at = "ingress" /\ "bad" \in Answers BY <1>9, IngressCases DEF Answers
  <2>2. CASE Respond(w, "bad") BY <1>5, <2>1, <2>2
  <2>3. CASE Admitted(w)
    <3>1. r.at = "view" /\ r.event = q.event /\ r.answer = q.answer /\ CountsKept(q, r)
      BY <2>3, AdmittedEffect
    <3> QED BY <1>7, <2>1, <3>1
  <2> QED BY <1>9, <2>2, <2>3, IngressCases
<1>10. ASSUME NEW answer \in settings.answers, Answer(w, answer) PROVE ReportOK(r, s)
  BY <1>5, <1>10, SettingsTypes DEF Answer, At
<1>11. CASE AuthEvent(w) \/ ModelEvent(w)
  <2>0. PICK request \in {work[w], Minted(w)}, what \in {"auth", "model"} :
             \E rid, sid : RecordsEvent(w, request, what, rid, sid)
    BY <1>11 DEF AuthEvent, ModelEvent
  <2>1. PICK rid, sid : RecordsEvent(w, request, what, rid, sid) BY <2>0
  <2>2. q.at = "view" /\ r.at = "emit" /\ r.back = "view" BY <2>1, EventEffect
  <2>3. CountsKept(q, r) /\ r.answer = q.answer BY <2>1, EventEffect
  <2>4. r.event = [n |-> q.n, what |-> what, rid |-> rid, sid |-> sid] BY <2>1, EventEffect
  <2>5. r.event.what # "response" BY <2>4
  <2> HIDE DEF q, r, s
  <2> QED BY <1>7, <2>2, <2>3, <2>5
<1>12. CASE Emitted(w)
  <2> DEFINE one == IF OfResponse(w) THEN 1 ELSE 0
  <2>1. /\ q.at \in {"emit", "put"} /\ r.at = "dispatch" /\ IdsKept(q, r)
        /\ r.answer = q.answer /\ r.event = q.event /\ r.back = q.back /\ r.seen = q.seen
        /\ r.failed = q.failed /\ r.logged + r.dropped = q.logged + q.dropped + one
    BY <1>12, EmittedEffect
  <2>2. CASE q.event.what = "response"
    <3>1. one = 1 BY <2>2 DEF OfResponse
    <3> HIDE DEF one
    <3>2. /\ r.back = "finish" /\ r.prepared /\ r.answer \in {"good", "bad"}
          /\ r.seen = 0 /\ ~r.failed /\ r.logged + r.dropped = 1
          /\ r.answer = "bad" \/ s.logOk
      <4> HIDE DEF q, r, s
      <4> QED BY <1>1, <1>2, <1>3, <2>1, <2>2, <3>1 DEF ReportOK, Recording, IdsKept
    <3> HIDE DEF q, r, s
    <3> QED BY <1>1, <2>1, <2>2, <3>2 DEF ReportOK, Recording, Offered
  <2>3. CASE q.event.what # "response"
    <3>1. one = 0 BY <2>3 DEF OfResponse
    <3> HIDE DEF one
    <3>2. Unreported(q) /\ q.back = "view"
      <4> HIDE DEF q, r, s
      <4> QED BY <1>3, <2>1, <2>3 DEF ReportOK, Recording
    <3>3. Unreported(r)
      <4> HIDE DEF q, r, s
      <4> QED BY <1>4, <2>1, <3>1, <3>2 DEF Unreported
    <3> HIDE DEF q, r, s
    <3> QED BY <2>1, <2>3, <3>2, <3>3 DEF ReportOK, Recording
  <2> QED BY <2>2, <2>3
<1>13. CASE LogEnter(w)
  <2>1. /\ q.at = "emit" /\ r.at = "put" /\ IdsKept(q, r) /\ CountsKept(q, r)
        /\ r.answer = q.answer /\ r.event = q.event /\ r.back = q.back
    BY <1>13, EnterEffect
  <2> HIDE DEF q, r, s
  <2> QED BY <1>3, <2>1 DEF ReportOK, Recording, CountsKept, IdsKept, Unreported
<1>14. CASE Dispatch(w)
  <2>1. /\ q.at = "dispatch" /\ r.at = q.back /\ IdsKept(q, r) /\ r.event = NoEvent
        /\ r.answer = q.answer /\ r.logged = q.logged /\ r.dropped = q.dropped
        /\ r.failed = q.failed
        /\ r.seen = IF settings.consumers /\ q.event.what = "response" THEN q.seen + 1 ELSE q.seen
    BY <1>14, DispatchEffect DEF OfResponse
  <2>2. CASE q.event.what = "response"
    <3>1. /\ r.at = "finish" /\ Offered(r, s) /\ q.seen = 0
      <4> HIDE DEF q, r, s
      <4> QED BY <1>1, <1>3, <2>1, <2>2 DEF ReportOK, Recording, Offered
    <3>2. r.seen = IF s.consumers THEN 1 ELSE 0 BY <2>1, <2>2, <3>1
    <3> HIDE DEF q, r, s
    <3> QED BY <1>1, <3>1, <3>2 DEF ReportOK, Recording
  <2>3. CASE q.event.what # "response"
    <3>1. r.at = "view" /\ Unreported(q)
      <4> HIDE DEF q, r, s
      <4> QED BY <1>3, <2>1, <2>3 DEF ReportOK, Recording
    <3>2. r.seen = q.seen BY <2>1, <2>3
    <3>3. Unreported(r) BY <2>1, <3>1, <3>2 DEF Unreported
    <3> HIDE DEF q, r, s
    <3> QED BY <2>1, <3>1, <3>3 DEF ReportOK, Recording
  <2> QED BY <2>2, <2>3
<1>15. CASE Finish(w)
  <2>1. r = Idle BY <1>15, FinishEffect
  <2> QED BY <2>1 DEF Idle, ReportOK, Recording, Unreported
<1> QED BY <1>6, <1>8, <1>9, <1>10, <1>11, <1>12, <1>13, <1>14, <1>15 DEF Moves

\* Every step keeps the reports in order.
LEMMA ReportStep ==
  ASSUME AuditOK, ReportInv, [Next]_vars
  PROVE  ReportInv'
<1>1. CASE UNCHANGED auditVars BY <1>1 DEF auditVars, ReportInv
<1>2. CASE ~UNCHANGED auditVars
  <2>1. PICK w \in Workers :
             /\ Moves(w) /\ AuditOK' /\ settings' = settings
             /\ \A v \in Workers \ {w} : work'[v] = work[v]
    BY <1>2, StepCases
  <2>3. ReportOK(work'[w], settings) BY <2>1, ReportMoves DEF ReportInv
  <2> QED BY <2>1, <2>3 DEF ReportInv
<1> QED BY <1>1, <1>2

\* middleware.py:127-187, runtime.py:41-51.  At the end of a request whose preparation
\* and recording succeeded the rules have seen its response once, logged or not; an
\* error was offered to the log once, a good response only if those are logged.
THEOREM ResponsesReported == Spec => []ResponsesAreReported
<1>1. Init => ReportInv
  BY DEF Init, AuditInit, ReportInv, ReportOK, Recording, Unreported, Idle
<1>2. TInv /\ ReportInv /\ [Next]_vars => ReportInv' BY ReportStep DEF TInv
<1>3. ReportInv => ResponsesAreReported
  BY DEF ReportInv, ReportOK, Offered, ResponsesAreReported, At
<1> QED BY <1>1, <1>2, <1>3, TInvInit, TInvStep, PTL DEF Spec

-----------------------------------------------------------------------------
(* What a step of a request leaves alone, and its binding of the context.    *)

\* Who changes the bans and the trail, the contexts, the next id and the count.
LEMMA MoveFrame ==
  ASSUME NEW w \in Workers, Moves(w)
  PROVE  /\ ~Dispatch(w) => UNCHANGED <<bans, trail, struck>>
         /\ ~Finish(w) => UNCHANGED <<stored, lost>>
         /\ ~Prepare(w) /\ ~Finish(w) => UNCHANGED ctx
         /\ ~Prepare(w) /\ ~PrepareFails(w) /\ ~AuthEvent(w) => UNCHANGED fresh
         /\ (\A c \in Clients, ignored \in settings.ignored : ~Arrive(w, c, ignored))
              => UNCHANGED arrived
<1>1. CASE \E c \in Clients, ignored \in settings.ignored : Arrive(w, c, ignored)
  BY <1>1 DEF Arrive
<1>2. CASE Prepare(w) \/ PrepareFails(w) BY <1>2 DEF Prepare, PrepareFails
<1>3. CASE Ingress(w) BY <1>3 DEF Ingress
<1>4. CASE \E answer \in settings.answers : Answer(w, answer) BY <1>4 DEF Answer
<1>5. CASE AuthEvent(w) \/ ModelEvent(w) BY <1>5 DEF AuthEvent, ModelEvent, RecordsEvent
<1>6. CASE Emitted(w) \/ LogEnter(w) BY <1>6 DEF Emitted, LogAtOnce, Dropped, LogPut, LogEnter
<1>7. CASE Dispatch(w) \/ Finish(w) BY <1>7 DEF Dispatch, Finish
<1> QED BY <1>1, <1>2, <1>3, <1>4, <1>5, <1>6, <1>7 DEF Moves

\* The context c of the thread of request r is bound while r is prepared and only then.
Bound(r, c) ==
  /\ r.at \in {"idle", "prepare"} => ~r.prepared
  /\ r.prepared => r.outer = NoContext
  /\ ~r.prepared => c = NoContext /\ r.base = NoContext

\* The steps that are neither the arrival, nor the preparation, nor the end of a request.
Between(w) ==
  \/ PrepareFails(w) \/ Ingress(w) \/ \E answer \in settings.answers : Answer(w, answer)
  \/ AuthEvent(w) \/ ModelEvent(w) \/ Emitted(w) \/ LogEnter(w) \/ Dispatch(w)

\* They keep the ids of the request and all contexts.
LEMMA BetweenEffect ==
  ASSUME AuditOK, NEW w \in Workers, Between(w)
  PROVE  /\ IdsKept(work[w], work'[w]) /\ ctx' = ctx /\ arrived' = arrived
         /\ work[w].at \notin {"idle", "finish"} /\ work'[w].at \notin {"idle", "prepare"}
<1> DEFINE q == work[w]
           r == work'[w]
<1> SUFFICES /\ IdsKept(q, r) /\ ctx' = ctx /\ arrived' = arrived
             /\ q.at \notin {"idle", "finish"} /\ r.at \notin {"idle", "prepare"}
  OBVIOUS
<1>1. CASE PrepareFails(w)
  <2>1. IdsKept(q, r) /\ q.at = "prepare" /\ r.at = "ingress" BY <1>1, PrepareFailsEffect
  <2> QED BY <1>1, <2>1 DEF PrepareFails
<1>2. ASSUME NEW answer \in Answers, Respond(w, answer)
      PROVE  IdsKept(q, r) /\ r.at \in {"finish", "emit", "dispatch"}
  BY <1>2, RespondEffect
<1>3. CASE Ingress(w)
  <2>1. "bad" \in Answers BY DEF Answers
  <2>2. IdsKept(q, r) /\ r.at \notin {"idle", "prepare"}
    BY <1>2, <1>3, <2>1, IngressCases, AdmittedEffect
  <2> QED BY <1>3, <2>2, IngressCases
<1>4. CASE \E answer \in settings.answers : Answer(w, answer)
  <2>1. IdsKept(q, r) /\ r.at \notin {"idle", "prepare"}
    BY <1>2, <1>4, SettingsTypes DEF Answer
  <2> QED BY <1>4, <2>1 DEF Answer, At
<1>5. CASE AuthEvent(w) \/ ModelEvent(w)
  <2>0. PICK request \in {work[w], Minted(w)}, what \in {"auth", "model"} :
             \E rid, sid : RecordsEvent(w, request, what, rid, sid)
    BY <1>5 DEF AuthEvent, ModelEvent
  <2>1. PICK rid, sid : RecordsEvent(w, request, what, rid, sid) BY <2>0
  <2>2. IdsKept(q, r) /\ q.at = "view" /\ r.at = "emit" BY <2>1, EventEffect
  <2> QED BY <2>1, <2>2 DEF RecordsEvent
<1>6. CASE Emitted(w)
  <2>1. IdsKept(q, r) /\ q.at \in {"emit", "put"} /\ r.at = "dispatch" BY <1>6, EmittedEffect
  <2> QED BY <1>6, <2>1, EmittedEffect
<1>7. CASE LogEnter(w)
  <2>1. IdsKept(q, r) /\ q.at = "emit" /\ r.at = "put" BY <1>7, EnterEffect
  <2> QED BY <1>7, <2>1, EnterEffect
<1>8. CASE Dispatch(w)
  <2>1. IdsKept(q, r) /\ q.at = "dispatch" /\ r.at = q.back /\ q.back \in {"view", "finish"}
    BY <1>8, DispatchEffect, FieldTypes
  <2> QED BY <1>8, <2>1 DEF Dispatch
<1> QED BY <1>1, <1>3, <1>4, <1>5, <1>6, <1>7, <1>8 DEF Between

\* Every request ends with the context it began with, whatever happens between.
LEMMA BoundMoves ==
  ASSUME AuditOK, NEW w \in Workers, Moves(w), Bound(work[w], ctx[w])
  PROVE  Bound(work'[w], ctx'[w])
<1> DEFINE q == work[w]
           r == work'[w]
<1> SUFFICES Bound(r, ctx'[w]) OBVIOUS
<1>1. CASE \E c \in Clients, ignored \in settings.ignored : Arrive(w, c, ignored)
  <2>1. /\ q.at = "idle" /\ ~r.prepared /\ r.base = NoContext
    BY <1>1, ArriveEffect
  <2>2. ctx' = ctx BY <1>1 DEF Arrive
  <2> QED BY <2>1, <2>2 DEF Bound
<1>2. CASE Prepare(w)
  <2>1. q.at = "prepare" /\ r.at = "ingress" /\ r.prepared /\ r.outer = ctx[w]
    BY <1>2, PrepareEffect
  <2> QED BY <2>1 DEF Bound
<1>3. CASE Between(w)
  BY <1>3, BetweenEffect DEF Bound, IdsKept
<1>4. CASE Finish(w)
  <2>1. r = Idle /\ ctx'[w] = Unbind(w) BY <1>4, FinishEffect
  <2> QED BY <2>1 DEF Bound, Unbind, Idle
<1> QED BY <1>1, <1>2, <1>3, <1>4 DEF Moves, Between

-----------------------------------------------------------------------------
(* The bans of sessions.                                                     *)

\* The session ids around request r are the one of its session, or none.
OwnSession(r, c, s) ==
  \A sid \in {r.event.sid, r.base.sid, c.sid} : sid = NoId \/ (s.sessions /\ sid = r.session)

\* The session of c holds sid or lost it, or a request is about to save it.
Kept(c, sid) ==
  sid = NoId \/ sid \in lost[c] \/ stored[c] = sid \/ sid \in Unsaved(c)

\* The copy of the session that request r works on.
CopyOK(r) ==
  /\ r.session = r.loaded \/ r.loaded = NoId
  /\ r.at = "idle" => ~r.minted /\ ~r.due
  /\ r.at # "idle" => r.client \in Clients /\ Kept(r.client, r.session)
  /\ r.due => r.session \in struck[r.client]

StruckOK(c) ==
  /\ struck[c] \subseteq bans /\ NoId \notin struck[c] /\ (~settings.sessions => struck[c] = {})
  /\ \A sid \in struck[c] : Kept(c, sid)

BanInv ==
  /\ \A c \in Clients : StruckOK(c)
  /\ \A w \in Workers :
       /\ ~work[w].owed /\ Bound(work[w], ctx[w]) /\ OwnSession(work[w], ctx[w], settings)
       /\ CopyOK(work[w])

\* A step of w leaves its request with no session id but its own.
LEMMA BanMoves ==
  ASSUME AuditOK, Allowlisted, BanInv, NEW w \in Workers, Moves(w)
  PROVE  ~work'[w].owed /\ OwnSession(work'[w], ctx'[w], settings)
<1> DEFINE q == work[w]
           r == work'[w]
           s == settings
<1> SUFFICES ~r.owed /\ OwnSession(r, ctx'[w], s) OBVIOUS
<1>1. ~q.owed /\ OwnSession(q, ctx[w], s) /\ Bound(q, ctx[w]) BY DEF BanInv
<1>2. CASE \E c \in Clients, ignored \in settings.ignored : Arrive(w, c, ignored)
  <2>1. q.at = "idle" /\ ~r.owed /\ r.base = NoContext /\ r.event = NoEvent
    BY <1>2, ArriveEffect
  <2>2. ctx'[w] = NoContext BY <1>1, <1>2, <2>1 DEF Arrive, Bound
  <2> QED BY <2>1, <2>2 DEF OwnSession, NoContext, NoEvent
\* The session id of the request, once it is minted.
<1>3. /\ SessionId(w) = NoId \/ (s.sessions /\ SessionId(w) = IF Mints(w) THEN fresh ELSE q.session)
      /\ Scrubbed(SessionId(w)) = SessionId(w)
  BY DEF SessionId, Mints, Scrubbed
<1>4. CASE Prepare(w)
  <2>1. /\ r.base = [rid |-> RequestId(w), sid |-> Scrubbed(SessionId(w))]
        /\ ctx'[w] = [rid |-> RequestId(w), sid |-> SessionId(w)]
        /\ r.session = IF Mints(w) THEN fresh ELSE q.session
        /\ r.event = q.event /\ r.owed = q.owed /\ q.at = "prepare"
    BY <1>4, PrepareEffect
  <2>2. r.event.sid = NoId \/ (s.sessions /\ r.event.sid = r.session)
    BY <1>1, <2>1 DEF OwnSession, Mints
  <2>3. r.base.sid = SessionId(w) /\ ctx'[w].sid = SessionId(w) BY <1>3, <2>1
  <2> QED BY <1>1, <1>3, <2>1, <2>2, <2>3 DEF OwnSession
\* An event, or none, with the session of the request kept or minted.
<1>5. ASSUME Between(w), r.session = q.session \/ (Mints(w) /\ r.session = fresh),
             r.event.sid \in {NoId, q.event.sid, q.base.sid, ctx[w].sid}
      PROVE  OwnSession(r, ctx'[w], s)
  <2>1. ctx' = ctx /\ r.base = q.base BY <1>5, BetweenEffect DEF IdsKept
  <2>2. CASE r.session = q.session BY <1>1, <1>5, <2>1, <2>2 DEF OwnSession
  <2>3. CASE q.session = NoId BY <1>1, <1>5, <2>1, <2>3 DEF OwnSession
  <2> QED BY <1>5, <2>2, <2>3 DEF Mints
<1>6. CASE PrepareFails(w)
  <2>1. r.event = q.event /\ r.owed = q.owed
        /\ (r.session = q.session \/ (Mints(w) /\ r.session = fresh))
    BY <1>6, PrepareFailsEffect
  <2> QED BY <1>1, <1>5, <1>6, <2>1 DEF Between
<1>7. ASSUME NEW answer \in Answers, Respond(w, answer)
      PROVE  /\ r.owed = q.owed /\ r.session = q.session
             /\ r.event.sid \in {NoId, q.event.sid, q.base.sid, ctx[w].sid}
  <2>1. ResponseEvent(w).sid = q.base.sid BY DEF ResponseEvent
  <2>2. r.owed = q.owed /\ r.session = q.session BY <1>7, RespondEffect
  <2>3. r.event \in {q.event, ResponseEvent(w)} BY <1>7, RespondEffect
  <2> QED BY <2>1, <2>2, <2>3
<1>8. CASE Ingress(w)
  <2>1. "bad" \in Answers BY DEF Answers
  <2>2. CASE Respond(w, "bad") BY <1>1, <1>5, <1>7, <1>8, <2>1, <2>2 DEF Between
  <2>3. CASE Admitted(w)
    <3>1. r.event = q.event /\ r.session = q.session /\ r.owed = Owed(w)
      BY <2>3, AdmittedEffect
    <3>2. q.client \in Clients /\ (q.due => q.session \in struck[q.client])
      <4>1. q.at = "ingress" /\ CopyOK(q) BY <1>8, IngressCases DEF BanInv
      <4> QED BY <4>1 DEF CopyOK
    <3>3. q.session \notin struck[q.client]
      BY <2>3, <3>2 DEF Admitted, BanInv, StruckOK
    <3>4. ~Owed(w) BY <3>2, <3>3 DEF Owed
    <3> QED BY <1>5, <1>8, <3>1, <3>4 DEF Between
  <2> QED BY <1>8, <2>2, <2>3, IngressCases
<1>9. CASE \E answer \in settings.answers : Answer(w, answer)
  BY <1>1, <1>5, <1>7, <1>9, SettingsTypes DEF Answer, Between
<1>10. CASE AuthEvent(w) \/ ModelEvent(w)
  <2>1. CASE RecordsEvent(w, q, "auth", ctx[w].rid, ctx[w].sid)
             \/ RecordsEvent(w, q, "model", ctx[w].rid, ctx[w].sid)
    <3>1. PICK what : RecordsEvent(w, q, what, ctx[w].rid, ctx[w].sid) BY <2>1
    <3>2. r.session = q.session /\ r.owed = q.owed BY <3>1, EventEffect
    <3>3. r.event = [n |-> q.n, what |-> what, rid |-> ctx[w].rid, sid |-> ctx[w].sid]
      BY <3>1, EventEffect
    <3>4. r.event.sid = ctx[w].sid BY <3>3
    <3> QED BY <1>1, <1>5, <1>10, <3>2, <3>4 DEF Between
  <2>2. CASE RecordsEvent(w, Minted(w), "auth", RequestId(w), Scrubbed(SessionId(w)))
             /\ ctx[w] = NoContext
    <3> DEFINE sid == Scrubbed(SessionId(w))
    <3>1. r.session = (IF Mints(w) THEN fresh ELSE q.session) /\ r.owed = q.owed
      BY <2>2, EventEffect
    <3>2. r.event = [n |-> q.n, what |-> "auth", rid |-> RequestId(w), sid |-> sid]
      BY <2>2, EventEffect
    <3>3. r.event.sid = SessionId(w) BY <1>3, <3>2
    <3>4. ctx' = ctx /\ r.base = q.base BY <1>10, BetweenEffect DEF Between, IdsKept
    <3>5. q.base.sid = NoId \/ (s.sessions /\ q.base.sid = r.session)
      BY <1>1, <3>1 DEF OwnSession, Mints
    <3>6. ctx[w].sid = NoId BY <2>2 DEF NoContext
    <3> QED BY <1>1, <1>3, <3>1, <3>3, <3>4, <3>5, <3>6 DEF OwnSession
  <2> QED BY <1>10, <2>1, <2>2 DEF AuthEvent, ModelEvent
<1>11. CASE Emitted(w)
  <2>1. r.session = q.session /\ r.owed = q.owed /\ r.event = q.event BY <1>11, EmittedEffect
  <2> QED BY <1>1, <1>5, <1>11, <2>1 DEF Between
<1>12. CASE LogEnter(w)
  <2>1. r.session = q.session /\ r.owed = q.owed /\ r.event = q.event BY <1>12, EnterEffect
  <2> QED BY <1>1, <1>5, <1>12, <2>1 DEF Between
<1>13. CASE Dispatch(w)
  <2>1. r.session = q.session /\ r.owed = q.owed /\ r.event = NoEvent BY <1>13, DispatchEffect
  <2>2. r.event.sid = NoId BY <2>1 DEF NoEvent
  <2> QED BY <1>1, <1>5, <1>13, <2>1, <2>2 DEF Between
<1>14. CASE Finish(w)
  <2>1. r = Idle /\ ctx'[w] = Unbind(w) BY <1>14, FinishEffect
  <2>2. ctx'[w] = NoContext BY <1>1, <2>1 DEF Unbind, Bound
  <2> QED BY <2>1, <2>2 DEF Idle, NoEvent, NoContext, OwnSession
<1> QED BY <1>2, <1>4, <1>6, <1>8, <1>9, <1>10, <1>11, <1>12, <1>13, <1>14 DEF Moves

\* Between its arrival and its end a request keeps its copy of the session, or mints an id.
LEMMA CopyStays ==
  ASSUME AuditOK, NEW w \in Workers, Moves(w), ~Finish(w),
         \A c \in Clients, ignored \in settings.ignored : ~Arrive(w, c, ignored)
  PROVE  /\ CopyKept(work[w], work'[w]) /\ work[w].at # "idle" /\ work'[w].at # "idle"
         /\ UNCHANGED <<stored, lost>>
<1>1. CASE Prepare(w) BY <1>1, PrepareEffect, MoveFrame
<1>2. CASE Between(w)
  <2>1. IdsKept(work[w], work'[w]) /\ work[w].at # "idle" /\ work'[w].at # "idle"
    BY <1>2, BetweenEffect
  <2> QED BY <2>1, MoveFrame DEF IdsKept
<1> QED BY <1>1, <1>2 DEF Moves, Between

\* A session never loses an id without its being counted as lost.
LEMMA KeptStays ==
  ASSUME AuditOK, BanInv, NEW w \in Workers, Moves(w),
         \A v \in Workers \ {w} : work'[v] = work[v],
         NEW c \in Clients, NEW sid, Kept(c, sid)
  PROVE  Kept(c, sid)'
<1> DEFINE q == work[w]
           r == work'[w]
<1>1. CopyOK(q) BY DEF BanInv
<1>2. stored \in [Clients -> Nat] /\ lost \in [Clients -> SUBSET Nat] BY DEF AuditOK
\* What other requests have not saved they still have to.
<1>3. ASSUME NEW v \in Workers, v # w, work[v].client = c, work[v].minted, sid = work[v].session
      PROVE  Kept(c, sid)'
  <2>1. work'[v] = work[v] BY <1>3
  <2> QED BY <1>3, <2>1 DEF Kept, Unsaved
<1>4. ASSUME q.client = c, q.minted => r.minted /\ r.client = c, sid = q.session, q.minted,
             r.session = q.session \/ q.session = NoId
      PROVE  Kept(c, sid)'
  BY <1>4 DEF Kept, Unsaved
<1>5. CASE ~Finish(w) /\ \A d \in Clients, ignored \in settings.ignored : ~Arrive(w, d, ignored)
  <2>1. CopyKept(q, r) /\ UNCHANGED <<stored, lost>> BY <1>5, CopyStays
  <2>2. CASE sid = NoId \/ sid \in lost[c] \/ stored[c] = sid BY <2>1, <2>2 DEF Kept
  <2>3. CASE sid \in Unsaved(c)
    <3>1. PICK v \in Workers : work[v].client = c /\ work[v].minted /\ sid = work[v].session
      BY <2>3 DEF Unsaved
    <3>2. CASE v = w BY <1>4, <2>1, <3>1, <3>2 DEF CopyKept
    <3> QED BY <1>3, <3>1, <3>2
  <2> QED BY <2>2, <2>3 DEF Kept
<1>6. ASSUME NEW d \in Clients, NEW ignored \in settings.ignored, Arrive(w, d, ignored)
      PROVE  Kept(c, sid)'
  <2>1. UNCHANGED <<stored, lost>> /\ ~q.minted BY <1>1, <1>6 DEF Arrive, At, CopyOK
  <2>2. CASE sid = NoId \/ sid \in lost[c] \/ stored[c] = sid BY <2>1, <2>2 DEF Kept
  <2>3. CASE sid \in Unsaved(c)
    <3>1. PICK v \in Workers : work[v].client = c /\ work[v].minted /\ sid = work[v].session
      BY <2>3 DEF Unsaved
    <3>2. v # w BY <2>1, <3>1
    <3> QED BY <1>3, <3>1, <3>2
  <2> QED BY <2>2, <2>3 DEF Kept
<1>7. CASE Finish(w)
  <2>1. q.at = "finish" /\ (q.session = q.loaded \/ q.loaded = NoId)
    BY <1>1, <1>7 DEF Finish, At, CopyOK
  <2>2. ASSUME sid \in Unsaved(c), ~(q.client = c /\ q.minted /\ sid = q.session)
        PROVE  Kept(c, sid)'
    <3>1. PICK v \in Workers : work[v].client = c /\ work[v].minted /\ sid = work[v].session
      BY <2>2 DEF Unsaved
    <3> QED BY <1>3, <2>2, <3>1
  <2>3. CASE q.client # c
    <3>1. stored'[c] = stored[c] /\ lost'[c] = lost[c]
      BY <1>2, <1>7, <2>3 DEF Finish, Saved, NotSaved
    <3> QED BY <2>2, <2>3, <3>1 DEF Kept
  <2>4. CASE q.client = c /\ Saved(w)
    <3>1. /\ stored'[c] = q.session
          /\ lost'[c] = (lost[c] \union ({stored[c]} \ {q.loaded})) \ {q.session}
      BY <1>2, <2>4 DEF Saved
    <3>2. CASE sid = q.session BY <3>1, <3>2 DEF Kept
    <3>3. CASE sid # q.session /\ stored[c] = sid /\ sid = q.loaded BY <2>1, <3>3 DEF Kept
    <3> QED BY <2>2, <3>1, <3>2, <3>3 DEF Kept
  <2>5. CASE q.client = c /\ NotSaved(w)
    <3>1. /\ stored'[c] = stored[c]
          /\ lost'[c] = IF q.minted THEN lost[c] \union {q.session} ELSE lost[c]
      BY <1>2, <2>5 DEF NotSaved
    <3> QED BY <2>2, <3>1 DEF Kept
  <2> QED BY <1>7, <2>3, <2>4, <2>5 DEF Finish
<1> QED BY <1>5, <1>6, <1>7

\* What the rules ban is the session of the event's own request.
LEMMA StruckMoves ==
  ASSUME AuditOK, BanInv, NEW w \in Workers, Moves(w), NEW c \in Clients
  PROVE  /\ struck[c] \subseteq struck'[c] /\ struck'[c] \subseteq bans'
         /\ NoId \notin struck'[c] /\ (~settings.sessions => struck'[c] = {})
         /\ \A sid \in struck'[c] : sid \in struck[c] \/ Kept(c, sid)
<1> DEFINE q == work[w]
<1>0. StruckOK(c) BY DEF BanInv
<1>1. CASE UNCHANGED <<bans, struck>> BY <1>0, <1>1 DEF StruckOK
<1>2. CASE /\ Dispatch(w) /\ q.event.sid # NoId /\ bans' = bans \union {q.event.sid}
           /\ struck' = [struck EXCEPT ![q.client] = @ \union {q.session}]
  <2>1. settings.sessions /\ q.event.sid = q.session BY <1>2 DEF BanInv, OwnSession
  <2>2. q.client \in Clients /\ Kept(q.client, q.session)
    <3>1. q.at # "idle" /\ CopyOK(q) BY <1>2 DEF Dispatch, At, BanInv
    <3> QED BY <3>1 DEF CopyOK
  <2>3. struck'[c] = IF c = q.client THEN struck[c] \union {q.session} ELSE struck[c]
    BY <1>2 DEF AuditOK
  <2> QED BY <1>0, <1>2, <2>1, <2>2, <2>3 DEF StruckOK
<1>3. CASE Dispatch(w) BY <1>1, <1>2, <1>3 DEF Dispatch
<1> QED BY <1>1, <1>3, MoveFrame

\* A step of w leaves its copy of the session in order.
LEMMA CopyMoves ==
  ASSUME AuditOK, BanInv, NEW w \in Workers, Moves(w),
         \A v \in Workers \ {w} : work'[v] = work[v]
  PROVE  \A v \in Workers : CopyOK(work[v])'
<1> DEFINE q == work[w]
           r == work'[w]
<1>1. ASSUME NEW v \in Workers, v # w PROVE CopyOK(work[v])'
  <2>1. work'[v] = work[v] /\ CopyOK(work[v]) BY <1>1 DEF BanInv
  <2>2. ASSUME work[v].at # "idle" PROVE Kept(work[v].client, work[v].session)'
    <3>1. PICK c, sid : c \in Clients /\ c = work[v].client /\ sid = work[v].session
      BY <2>1, <2>2 DEF CopyOK
    <3>2. Kept(c, sid) BY <2>1, <2>2, <3>1 DEF CopyOK
    <3>3. Kept(c, sid)' BY <3>1, <3>2, KeptStays
    <3> QED BY <2>1, <3>1, <3>3 DEF Kept, Unsaved
  <2>3. work[v].due => work[v].session \in struck'[work[v].client]
    <3>1. CASE work[v].client \in Clients BY <2>1, <3>1, StruckMoves DEF CopyOK
    <3>2. CASE work[v].client \notin Clients
      <4>1. work[v].at = "idle" BY <2>1, <3>2 DEF CopyOK
      <4> QED BY <2>1, <4>1 DEF CopyOK
    <3> QED BY <3>1, <3>2
  <2> QED BY <2>1, <2>2, <2>3 DEF CopyOK, Kept
<1>2. CopyOK(work[w])'
  <2>0. CopyOK(q) BY DEF BanInv
  <2>1. CASE ~Finish(w) /\ \A d \in Clients, ignored \in settings.ignored : ~Arrive(w, d, ignored)
    <3>1. CopyKept(q, r) /\ q.at # "idle" /\ r.at # "idle" BY <2>1, CopyStays
    <3>2. PICK c, sid : c \in Clients /\ c = q.client /\ sid = q.session BY <2>0, <3>1 DEF CopyOK
    <3>3. Kept(c, sid)
      <4>1. q.at # "idle" /\ Kept(q.client, q.session) BY <2>0, <3>1 DEF CopyOK
      <4> QED BY <3>2, <4>1
    <3>4. Kept(c, sid)' BY <3>2, <3>3, KeptStays
    <3>5. r.client = c /\ (r.session = sid \/ r.minted) BY <3>1, <3>2 DEF CopyKept
    <3>6. Kept(work[w].client, work[w].session)'
      BY <3>4, <3>5 DEF Kept, Unsaved
    <3>7. q.due => sid \in struck[c] /\ sid # NoId
      BY <2>0, <3>2 DEF CopyOK, BanInv, StruckOK
    <3>8. r.due => r.session \in struck'[r.client]
      BY <3>1, <3>2, <3>7, StruckMoves DEF CopyKept
    <3>9. r.session = r.loaded \/ r.loaded = NoId BY <2>0, <3>1 DEF CopyOK, CopyKept
    <3> QED BY <3>1, <3>2, <3>5, <3>6, <3>8, <3>9 DEF CopyOK, Kept, Unsaved
  <2>2. ASSUME NEW c \in Clients, NEW ignored \in settings.ignored, Arrive(w, c, ignored)
        PROVE  CopyOK(work[w])'
    <3>1. /\ r.at # "idle" /\ r.session = stored[c] /\ r.loaded = stored[c] /\ r.client = c
          /\ r.due = ~(struck[c] \subseteq lost[c] \union Unsaved(c))
      BY <2>2, ArriveEffect
    <3>2. UNCHANGED <<stored, struck>> BY <2>2 DEF Arrive
    <3>3. r.due => stored[c] \in struck[c] BY <3>1 DEF BanInv, StruckOK, Kept
    <3>4. Kept(c, stored[c])' BY <3>2 DEF Kept
    <3> QED BY <3>1, <3>2, <3>3, <3>4 DEF CopyOK
  <2>3. CASE Finish(w)
    <3>1. r = Idle BY <2>3, FinishEffect
    <3> QED BY <3>1 DEF Idle, CopyOK
  <2> QED BY <2>1, <2>2, <2>3
<1> QED BY <1>1, <1>2

\* Every step keeps the bans of sessions in order.
LEMMA BanStep ==
  ASSUME AuditOK, Allowlisted, BanInv, [Next]_vars
  PROVE  BanInv'
<1>1. CASE UNCHANGED auditVars
  BY <1>1 DEF auditVars, BanInv, StruckOK, CopyOK, Kept, Unsaved
<1>2. CASE ~UNCHANGED auditVars
  <2>1. PICK w \in Workers :
             /\ Moves(w) /\ AuditOK' /\ settings' = settings
             /\ \A v \in Workers \ {w} : work'[v] = work[v] /\ ctx'[v] = ctx[v]
    BY <1>2, StepCases
  <2>2. \A v \in Workers : /\ ~work'[v].owed /\ Bound(work'[v], ctx'[v])
                           /\ OwnSession(work'[v], ctx'[v], settings)
    <3>1. ~work'[w].owed /\ OwnSession(work'[w], ctx'[w], settings) BY <2>1, BanMoves
    <3>2. Bound(work'[w], ctx'[w]) BY <2>1, BoundMoves DEF BanInv
    <3> QED BY <2>1, <3>1, <3>2 DEF BanInv
  <2>3. \A v \in Workers : CopyOK(work[v])' BY <2>1, CopyMoves
  <2>4. \A c \in Clients : StruckOK(c)'
    <3> SUFFICES ASSUME NEW c \in Clients PROVE StruckOK(c)' OBVIOUS
    <3>1. \A sid \in struck'[c] : Kept(c, sid)
      BY <2>1, StruckMoves DEF BanInv, StruckOK
    <3>2. \A sid \in struck'[c] : Kept(c, sid)' BY <2>1, <3>1, KeptStays
    <3> QED BY <2>1, <3>2, StruckMoves DEF StruckOK
  <2> QED BY <2>1, <2>2, <2>3, <2>4 DEF BanInv
<1> QED BY <1>1, <1>2

\* ENF scopes.py:19-42, runtime.py:80-85, sessions.py:23-32.  In every deployment that
\* allows the session id to be emitted as it is: when the rules have banned the session
\* of an event, no request of that session that arrives later gets past ingress, unless
\* the session lost the id that was banned.
THEOREM BannedSessionsDenied ==
  ASSUME Allowlisted
  PROVE  Spec => []BannedSessionIsDenied
<1>1. Init => BanInv
  BY DEF Init, AuditInit, BanInv, StruckOK, CopyOK, Bound, OwnSession, Idle, NoContext, NoEvent
<1>2. TInv /\ BanInv /\ [Next]_vars => BanInv' BY BanStep DEF TInv
<1>3. BanInv => BannedSessionIsDenied BY DEF BanInv, BannedSessionIsDenied
<1> QED BY <1>1, <1>2, <1>3, TInvInit, TInvStep, PTL DEF Spec

-----------------------------------------------------------------------------
(* The request ids.                                                          *)

\* The request ids that request r and the event it records bear.
Carries(r) == {r.base.rid, r.event.rid} \ {NoId}

\* Request r, its context c, the next id f and the number k of requests so far.
OwnIds(r, c, f, k) ==
  /\ r.n <= k /\ (r.at # "idle" => r.n >= 1)
  /\ r.base.rid < f /\ r.event.rid < f
  /\ r.prepared => c.rid = r.base.rid /\ r.base.rid >= 2
  /\ ~Recording(r) => r.event = NoEvent
  /\ Recording(r) => r.event.n = r.n /\ (r.prepared => r.event.rid = r.base.rid)

\* An event a recorded before and a request r.
TrailOf(a, r) ==
  /\ a.n = r.n /\ r.at # "idle" =>
       r.at # "prepare" /\ a.prepared = r.prepared /\ (r.prepared => a.rid = r.base.rid)
  /\ a.rid \in Carries(r) => a.n = r.n

Apart(q, r) ==
  /\ q.at # "idle" /\ r.at # "idle" => q.n # r.n
  /\ Carries(q) \cap Carries(r) = {}

IdInv ==
  /\ fresh >= 2
  /\ \A w \in Workers : Bound(work[w], ctx[w]) /\ OwnIds(work[w], ctx[w], fresh, arrived)
  /\ \A v, w \in Workers : v # w => Apart(work[v], work[w])
  /\ \A a \in trail : a.n >= 1 /\ a.n <= arrived /\ a.rid < fresh
  /\ \A a \in trail, w \in Workers : TrailOf(a, work[w])
  /\ OneRequestOneId

\* The ids taken next are new, and a bound context is never the empty one.
LEMMA NewIds ==
  ASSUME AuditOK, fresh >= 2, NEW w \in Workers
  PROVE  /\ fresh <= FreshAfter(w) /\ fresh <= FreshThen(w)
         /\ ctx[w] = NoContext => RequestId(w) >= fresh /\ RequestId(w) < FreshThen(w)
<1>1. fresh \in Nat BY DEF AuditOK
<1> QED BY <1>1 DEF FreshAfter, FreshThen, RequestId

\* A step of w gives its request no request id but new ones, and ends with its ids in order.
LEMMA IdMoves ==
  ASSUME AuditOK, AuditOK', NEW w \in Workers, Moves(w), fresh >= 2,
         Bound(work[w], ctx[w]), OwnIds(work[w], ctx[w], fresh, arrived)
  PROVE  /\ fresh <= fresh' /\ arrived <= arrived'
         /\ OwnIds(work'[w], ctx'[w], fresh', arrived')
         /\ \A i \in Carries(work'[w]) : i \in Carries(work[w]) \/ i >= fresh
<1> DEFINE q == work[w]
           r == work'[w]
           Good == /\ fresh <= fresh' /\ arrived <= arrived'
                   /\ OwnIds(r, ctx'[w], fresh', arrived')
                   /\ \A i \in Carries(r) : i \in Carries(q) \/ i >= fresh
<1> SUFFICES Good OBVIOUS
<1>1. /\ fresh \in Nat /\ arrived \in Nat /\ q.n \in Nat
      /\ q.base.rid \in Nat /\ q.event.rid \in Nat
  BY FieldTypes DEF AuditOK
<1>2. Bound(q, ctx[w]) /\ OwnIds(q, ctx[w], fresh, arrived) OBVIOUS
<1>3. NoContext.rid = NoId /\ NoEvent.rid = NoId /\ NoId = 0
  BY DEF NoContext, NoEvent, NoId
<1>4. CASE \E c \in Clients, ignored \in settings.ignored : Arrive(w, c, ignored)
  <2>1. /\ q.at = "idle" /\ r.at \in {"prepare", "ingress"} /\ r.n = arrived + 1 /\ ~r.prepared
        /\ r.base = NoContext /\ r.event = NoEvent
    BY <1>4, ArriveEffect
  <2>2. ctx' = ctx /\ fresh' = fresh /\ arrived' = arrived + 1 BY <1>4 DEF Arrive
  <2> HIDE DEF q, r
  <2> QED BY <1>1, <1>3, <2>1, <2>2 DEF OwnIds, Recording, Carries
<1>5. CASE Prepare(w)
  <2>1. /\ q.at = "prepare" /\ r.at = "ingress" /\ r.prepared /\ r.n = q.n /\ r.event = q.event
        /\ r.base = [rid |-> RequestId(w), sid |-> Scrubbed(SessionId(w))]
        /\ ctx'[w] = [rid |-> RequestId(w), sid |-> SessionId(w)]
        /\ fresh' = FreshThen(w)
    BY <1>5, PrepareEffect
  <2>2. r.base.rid = RequestId(w) /\ ctx'[w].rid = RequestId(w) BY <2>1
  <2>3. ctx[w] = NoContext /\ arrived' = arrived BY <1>2, <1>5, <2>1 DEF Bound, Prepare
  <2>4. fresh <= fresh' /\ RequestId(w) >= fresh /\ RequestId(w) < fresh' /\ RequestId(w) \in Nat
        /\ fresh' \in Nat
    BY <2>1, <2>3, NewIds, IdsTypes
  <2>5. q.event = NoEvent /\ q.n <= arrived /\ q.n >= 1
    BY <1>2, <2>1 DEF OwnIds, Recording
  <2> HIDE DEF q, r
  <2> QED BY <1>1, <1>3, <2>1, <2>2, <2>3, <2>4, <2>5 DEF OwnIds, Recording, Carries
\* A step between, with the event kept, dropped or made anew.
<1>6. ASSUME Between(w), fresh <= fresh', fresh' \in Nat, r.event.rid < fresh',
             \/ r.event = NoEvent /\ ~Recording(r)
             \/ r.event = q.event /\ (Recording(r) <=> Recording(q))
             \/ /\ Recording(r) /\ r.event.n = r.n /\ (r.prepared => r.event.rid = r.base.rid)
                /\ r.event.rid \in {NoId, q.base.rid} \/ r.event.rid >= fresh
      PROVE  Good
  <2>1. /\ IdsKept(q, r) /\ ctx' = ctx /\ arrived' = arrived
        /\ q.at # "idle" /\ r.at # "idle"
    BY <1>6, BetweenEffect
  <2>2. r.n <= arrived' /\ r.n >= 1 BY <1>1, <1>2, <2>1 DEF OwnIds, IdsKept
  <2>3. r.base.rid < fresh' BY <1>1, <1>2, <1>6, <2>1 DEF OwnIds, IdsKept
  <2>4. r.prepared => ctx'[w].rid = r.base.rid /\ r.base.rid >= 2
    BY <1>2, <2>1 DEF OwnIds, IdsKept
  <2>5. /\ ~Recording(r) => r.event = NoEvent
        /\ Recording(r) => r.event.n = r.n /\ (r.prepared => r.event.rid = r.base.rid)
    BY <1>2, <1>6, <2>1 DEF OwnIds, IdsKept
  <2>6. OwnIds(r, ctx'[w], fresh', arrived')
    <3> HIDE DEF q, r
    <3> QED BY <1>6, <2>2, <2>3, <2>4, <2>5 DEF OwnIds
  <2>7. \A i \in Carries(r) : i \in Carries(q) \/ i >= fresh
    <3>1. r.base = q.base BY <2>1 DEF IdsKept
    <3>2. r.event.rid \in {NoId, q.base.rid, q.event.rid} \/ r.event.rid >= fresh
      BY <1>3, <1>6
    <3> QED BY <3>1, <3>2 DEF Carries
  <2> QED BY <1>1, <1>6, <2>1, <2>6, <2>7
<1>7. CASE PrepareFails(w)
  <2>1. r.at = "ingress" /\ q.at = "prepare" /\ r.event = q.event
        /\ fresh' \in {fresh, FreshAfter(w)}
    BY <1>7, PrepareFailsEffect DEF PrepareFails
  <2>2. fresh <= fresh' /\ fresh' \in Nat BY <1>1, <2>1, NewIds, IdsTypes
  <2>3. r.event.rid < fresh' BY <1>1, <1>2, <2>1, <2>2 DEF OwnIds
  <2>4. Recording(r) <=> Recording(q) BY <2>1 DEF Recording
  <2> QED BY <1>6, <1>7, <2>1, <2>2, <2>3, <2>4 DEF Between
\* A step between that takes no id.
<1>8. ASSUME Between(w), fresh' = fresh,
             \/ r.event = NoEvent /\ ~Recording(r)
             \/ r.event = q.event /\ (Recording(r) <=> Recording(q))
             \/ /\ Recording(r) /\ r.event.n = r.n /\ r.event.rid = IF q.prepared THEN q.base.rid ELSE NoId
      PROVE  Good
  <2>1. IdsKept(q, r) BY <1>8, BetweenEffect
  <2>2. r.event.rid < fresh' BY <1>1, <1>2, <1>3, <1>8 DEF OwnIds
  <2>3. r.prepared = q.prepared /\ r.base = q.base BY <2>1 DEF IdsKept
  <2>4. fresh <= fresh' /\ fresh' \in Nat BY <1>1, <1>8
  <2> HIDE DEF q, r, Good
  <2> QED BY <1>6, <1>8, <2>2, <2>3, <2>4
<1>9. ASSUME NEW answer \in Answers, Respond(w, answer), q.at \in {"ingress", "view"},
             Between(w), fresh' = fresh
      PROVE  Good
  <2>1. ResponseEvent(w).n = q.n /\ ResponseEvent(w).rid = q.base.rid BY DEF ResponseEvent
  <2>2. IdsKept(q, r) BY <1>9, RespondEffect
  <2>3. CASE r.at = "finish" /\ r.event = q.event
    <3>1. ~Recording(r) /\ ~Recording(q) BY <1>9, <2>3 DEF Recording
    <3> QED BY <1>8, <1>9, <2>3, <3>1
  <2>4. CASE r.at \in {"emit", "dispatch"} /\ q.prepared /\ r.event = ResponseEvent(w)
    <3>1. Recording(r) /\ r.event.n = r.n /\ r.event.rid = q.base.rid
      BY <2>1, <2>2, <2>4 DEF Recording, IdsKept
    <3> QED BY <1>8, <1>9, <2>4, <3>1
  <2> QED BY <1>9, <2>3, <2>4, RespondEffect
<1>10. CASE Ingress(w)
  <2>1. /\ q.at = "ingress" /\ "bad" \in Answers /\ fresh' = fresh /\ Between(w)
    BY <1>10, IngressCases DEF Answers, Between
  <2>2. CASE Respond(w, "bad") BY <1>9, <2>1, <2>2
  <2>3. CASE Admitted(w)
    <3>1. r.at = "view" /\ r.event = q.event BY <2>3, AdmittedEffect
    <3>2. ~Recording(r) /\ ~Recording(q) BY <2>1, <3>1 DEF Recording
    <3> QED BY <1>8, <2>1, <3>1, <3>2
  <2> QED BY <1>10, <2>2, <2>3, IngressCases
<1>11. CASE \E answer \in settings.answers : Answer(w, answer)
  BY <1>9, <1>11, SettingsTypes DEF Answer, At, Between
<1>12. ASSUME NEW what, RecordsEvent(w, q, what, ctx[w].rid, ctx[w].sid), fresh' = fresh,
              AuthEvent(w) \/ ModelEvent(w)
       PROVE  Good
  <2>1. RecordsEvent(w, q, what, ctx[w].rid, ctx[w].sid) /\ fresh' = fresh BY <1>12
  <2>2. r.at = "emit" /\ IdsKept(q, r) BY <2>1, EventEffect
  <2>3. r.event = [n |-> q.n, what |-> what, rid |-> ctx[w].rid, sid |-> ctx[w].sid]
    BY <2>1, EventEffect
  <2>4. r.event.n = q.n /\ r.event.rid = ctx[w].rid BY <2>3
  <2>5. ctx[w].rid = IF q.prepared THEN q.base.rid ELSE NoId
    BY <1>2, <1>3 DEF OwnIds, Bound
  <2>6. Recording(r) /\ r.event.n = r.n BY <2>2, <2>4 DEF Recording, IdsKept
  <2>7. Between(w) BY <1>12 DEF Between
  <2> HIDE DEF q, r, Good
  <2> QED BY <1>8, <2>1, <2>4, <2>5, <2>6, <2>7
<1>13. ASSUME RecordsEvent(w, Minted(w), "auth", RequestId(w), Scrubbed(SessionId(w))),
              fresh' = FreshThen(w), ctx[w] = NoContext, AuthEvent(w)
       PROVE  Good
  <2>1. /\ RecordsEvent(w, Minted(w), "auth", RequestId(w), Scrubbed(SessionId(w)))
        /\ fresh' = FreshThen(w)
    BY <1>13
  <2>2. r.at = "emit" /\ IdsKept(q, r) BY <2>1, EventEffect
  <2>3. r.event = [n |-> q.n, what |-> "auth", rid |-> RequestId(w),
                   sid |-> Scrubbed(SessionId(w))]
    BY <2>1, EventEffect
  <2>4. r.event.n = q.n /\ r.event.rid = RequestId(w) BY <2>3
  <2>5. ~q.prepared
    <3>1. NoContext.rid = 0 BY DEF NoContext, NoId
    <3> QED BY <1>1, <1>2, <1>13, <3>1 DEF OwnIds
  <2>6. Recording(r) /\ r.event.n = r.n /\ ~r.prepared
    BY <2>2, <2>4, <2>5 DEF Recording, IdsKept
  <2>7. fresh <= fresh' /\ fresh' \in Nat /\ RequestId(w) >= fresh /\ RequestId(w) < fresh'
    BY <1>13, <2>1, NewIds, IdsTypes
  <2>8. Between(w) BY <1>13 DEF Between
  <2> HIDE DEF q, r, Good
  <2> QED BY <1>6, <2>4, <2>6, <2>7, <2>8
<1>14. CASE Emitted(w) \/ LogEnter(w)
  <2>1. /\ q.at \in {"emit", "put"} /\ r.at \in {"put", "dispatch"} /\ r.event = q.event
        /\ fresh' = fresh
    BY <1>14, EmittedEffect, EnterEffect
  <2>2. Recording(r) /\ Recording(q) BY <2>1 DEF Recording
  <2> QED BY <1>8, <1>14, <2>1, <2>2 DEF Between
<1>15. CASE Dispatch(w)
  <2>1. r.at \in {"view", "finish"} /\ r.event = NoEvent BY <1>15, DispatchEffect, FieldTypes
  <2>2. ~Recording(r) BY <2>1 DEF Recording
  <2> QED BY <1>8, <1>15, <2>1, <2>2 DEF Between, Dispatch
<1>16. CASE Finish(w)
  <2>1. r = Idle BY <1>16, FinishEffect
  <2>2. fresh' = fresh /\ arrived' = arrived BY <1>16 DEF Finish
  <2>3. /\ Idle.at = "idle" /\ Idle.n = 0 /\ ~Idle.prepared /\ Idle.base = NoContext
        /\ Idle.event = NoEvent
    BY DEF Idle
  <2> HIDE DEF q, r
  <2> QED BY <1>1, <1>3, <2>1, <2>2, <2>3 DEF OwnIds, Recording, Carries
<1>17. CASE AuthEvent(w) \/ ModelEvent(w)
  <2> HIDE DEF Good
  <2> QED BY <1>12, <1>13, <1>17 DEF AuthEvent, ModelEvent
<1> QED
  <2> HIDE DEF Good
  <2> QED BY <1>4, <1>5, <1>7, <1>10, <1>11, <1>14, <1>15, <1>16, <1>17 DEF Moves

\* A request that is none carries no id.
LEMMA NothingCarried ==
  ASSUME NEW r, NEW c, NEW f, NEW k, r.at = "idle", Bound(r, c), OwnIds(r, c, f, k)
  PROVE  Carries(r) = {}
BY DEF Bound, OwnIds, Recording, Carries, NoContext, NoEvent

\* The number of a request: it keeps it, or has just got the next one.
LEMMA NumberMoves ==
  ASSUME AuditOK, NEW w \in Workers, Moves(w)
  PROVE  \/ work'[w].at = "idle"
         \/ work'[w].n = work[w].n /\ work[w].at # "idle"
         \/ work'[w].n = arrived + 1 /\ work[w].at = "idle"
<1>1. CASE \E c \in Clients, ignored \in settings.ignored : Arrive(w, c, ignored)
  BY <1>1, ArriveEffect
<1>2. CASE Prepare(w) BY <1>2, PrepareEffect
<1>3. CASE Between(w) BY <1>3, BetweenEffect DEF IdsKept
<1>4. CASE Finish(w)
  <2>1. work'[w] = Idle BY <1>4, FinishEffect
  <2> QED BY <2>1 DEF Idle
<1> QED BY <1>1, <1>2, <1>3, <1>4 DEF Moves, Between

\* What a recorded event says of a request stays true when the request moves on.
LEMMA TrailMoves ==
  ASSUME AuditOK, AuditOK', IdInv, NEW w \in Workers, Moves(w),
         NEW a \in [n : Nat, rid : Nat, prepared : BOOLEAN],
         a.n <= arrived, a.rid < fresh, TrailOf(a, work[w])
  PROVE  TrailOf(a, work'[w])
<1> DEFINE q == work[w]
           r == work'[w]
<1> SUFFICES TrailOf(a, r) OBVIOUS
<1>1. /\ Bound(q, ctx[w]) /\ OwnIds(q, ctx[w], fresh, arrived) /\ fresh >= 2
  BY DEF IdInv
<1>2. fresh \in Nat /\ arrived \in Nat /\ a.n \in Nat /\ a.rid \in Nat BY DEF AuditOK
<1>3. \A i \in Carries(r) : i \in Carries(q) \/ i >= fresh BY <1>1, IdMoves
<1>4. a.rid \in Carries(r) => a.rid \in Carries(q) BY <1>2, <1>3
<1>5. a.rid \in Carries(r) => a.n = q.n BY <1>4 DEF TrailOf
<1>6. q.at = "idle" => a.rid \notin Carries(r) BY <1>1, <1>4, NothingCarried
<1>7. CASE \E c \in Clients, ignored \in settings.ignored : Arrive(w, c, ignored)
  <2>1. q.at = "idle" /\ r.n = arrived + 1 BY <1>7, ArriveEffect
  <2>2. a.n # r.n BY <1>2, <2>1
  <2> QED BY <1>6, <2>1, <2>2 DEF TrailOf
<1>8. CASE Prepare(w)
  <2>1. q.at = "prepare" /\ r.n = q.n BY <1>8, PrepareEffect
  <2>2. a.n # q.n BY <2>1 DEF TrailOf
  <2> QED BY <1>5, <2>1, <2>2 DEF TrailOf
<1>9. CASE Between(w)
  <2>1. IdsKept(q, r) /\ q.at # "idle" /\ r.at # "prepare" BY <1>9, BetweenEffect
  <2>2. TrailOf(a, q) OBVIOUS
  <2> HIDE DEF q, r
  <2> QED BY <1>5, <2>1, <2>2 DEF TrailOf, IdsKept
<1>10. CASE Finish(w)
  <2>1. r = Idle BY <1>10, FinishEffect
  <2>2. r.at = "idle" /\ Carries(r) = {}
    BY <2>1 DEF Idle, Carries, NoContext, NoEvent
  <2> QED BY <2>2 DEF TrailOf
<1> QED BY <1>7, <1>8, <1>9, <1>10 DEF Moves, Between

\* What the event a request is about to leave behind says of all requests and events.
LEMMA TrailGrows ==
  ASSUME AuditOK, IdInv, NEW w \in Workers, work[w].at = "dispatch", NEW a,
         a = [n |-> work[w].event.n, rid |-> work[w].event.rid, prepared |-> work[w].prepared]
  PROVE  /\ a.n >= 1 /\ a.n <= arrived /\ a.rid < fresh
         /\ \A v \in Workers : TrailOf(a, work[v])
         /\ \A b \in trail : /\ a.rid = b.rid /\ a.rid # NoId => a.n = b.n
                             /\ a.n = b.n /\ (a.prepared \/ b.prepared) => a.rid = b.rid
<1> DEFINE q == work[w]
<1>1. /\ a.n = q.event.n /\ a.rid = q.event.rid /\ a.prepared = q.prepared
      /\ q.at = "dispatch" /\ Recording(q)
  BY DEF Recording
<1>2. OwnIds(q, ctx[w], fresh, arrived) BY DEF IdInv
<1>3. /\ q.n \in Nat /\ q.event.rid \in Nat /\ q.event.n \in Nat /\ arrived \in Nat
      /\ q.prepared \in BOOLEAN
  BY FieldTypes DEF AuditOK
<1>4. /\ a.n = q.n /\ (q.prepared => a.rid = q.base.rid) /\ q.n >= 1 /\ q.n <= arrived
      /\ a.rid < fresh
  <2> HIDE DEF q
  <2> QED BY <1>1, <1>2 DEF OwnIds
<1>5. a.rid # NoId => a.rid \in Carries(q) BY <1>1 DEF Carries
<1>6. ASSUME NEW v \in Workers PROVE TrailOf(a, work[v])
  <2>1. CASE v = w
    <3>1. TrailOf(a, q)
      <4> HIDE DEF q
      <4> QED BY <1>1, <1>4 DEF TrailOf
    <3> QED BY <2>1, <3>1
  <2>2. CASE v # w
    <3>1. Apart(work[v], q) BY <2>2 DEF IdInv
    <3>2. a.rid \notin Carries(work[v])
      <4>1. NoId \notin Carries(work[v]) BY DEF Carries
      <4> QED BY <1>5, <3>1, <4>1 DEF Apart
    <3>3. work[v].at # "idle" => work[v].n # q.n BY <1>1, <3>1 DEF Apart
    <3> QED BY <1>4, <3>2, <3>3 DEF TrailOf
  <2> QED BY <2>1, <2>2
<1>7. ASSUME NEW b \in trail
      PROVE  /\ a.rid = b.rid /\ a.rid # NoId => a.n = b.n
             /\ a.n = b.n /\ (a.prepared \/ b.prepared) => a.rid = b.rid
  <2>1. TrailOf(b, q) BY DEF IdInv
  <2> HIDE DEF q
  <2> QED BY <1>1, <1>4, <1>5, <2>1 DEF TrailOf
<1> QED BY <1>4, <1>6, <1>7

\* Every step keeps the invariant of the request ids.
LEMMA IdStep ==
  ASSUME AuditOK, IdInv, [Next]_vars
  PROVE  IdInv'
<1>1. CASE UNCHANGED auditVars BY <1>1 DEF auditVars, IdInv, OneRequestOneId
<1>2. CASE ~UNCHANGED auditVars
  <2>1. PICK w \in Workers :
             /\ Moves(w) /\ AuditOK' /\ settings' = settings
             /\ \A v \in Workers \ {w} : work'[v] = work[v] /\ ctx'[v] = ctx[v]
    BY <1>2, StepCases
  <2> DEFINE q == work[w]
             r == work'[w]
             a == [n |-> q.event.n, rid |-> q.event.rid, prepared |-> q.prepared]
  <2>2. /\ fresh \in Nat /\ arrived \in Nat /\ fresh' \in Nat /\ arrived' \in Nat
        /\ fresh >= 2
    BY <2>1 DEF AuditOK, IdInv
  <2>3. /\ fresh <= fresh' /\ arrived <= arrived'
        /\ OwnIds(r, ctx'[w], fresh', arrived')
        /\ \A i \in Carries(r) : i \in Carries(q) \/ i >= fresh
    BY <2>1, IdMoves DEF IdInv
  <2>4. ASSUME NEW v \in Workers
        PROVE  Bound(work'[v], ctx'[v]) /\ OwnIds(work'[v], ctx'[v], fresh', arrived')
    <3>1. CASE v = w
      <4>1. Bound(work'[w], ctx'[w]) BY <2>1, BoundMoves DEF IdInv
      <4> QED BY <2>3, <3>1, <4>1
    <3>2. CASE v # w
      <4>1. /\ work'[v] = work[v] /\ ctx'[v] = ctx[v]
            /\ Bound(work[v], ctx[v]) /\ OwnIds(work[v], ctx[v], fresh, arrived)
        BY <2>1, <3>2 DEF IdInv
      <4>2. work[v].n \in Nat /\ work[v].base.rid \in Nat /\ work[v].event.rid \in Nat
        BY FieldTypes
      <4> DEFINE o == work[v]
      <4>3. OwnIds(o, ctx[v], fresh', arrived')
        <5> HIDE DEF o
        <5> QED BY <2>2, <2>3, <4>1, <4>2 DEF OwnIds, o
      <4> QED BY <4>1, <4>3
    <3> QED BY <3>1, <3>2
  <2>5. ASSUME NEW v \in Workers, v # w PROVE Apart(r, work[v]) /\ Apart(work[v], r)
    <3> DEFINE o == work[v]
    <3>1. Apart(q, o) /\ Apart(o, q) /\ OwnIds(o, ctx[v], fresh, arrived) BY <2>5 DEF IdInv
    <3>2. o.n \in Nat /\ o.base.rid \in Nat /\ o.event.rid \in Nat BY FieldTypes
    <3>3. \A i \in Carries(o) : i < fresh /\ i \in Nat BY <3>1, <3>2 DEF Carries, OwnIds
    <3>4. Carries(r) \cap Carries(o) = {} BY <2>2, <2>3, <3>1, <3>3 DEF Apart
    <3>5. o.at # "idle" /\ r.at # "idle" => o.n # r.n
      BY <2>1, <2>2, <3>1, <3>2, NumberMoves DEF Apart, OwnIds
    <3> QED BY <3>4, <3>5 DEF Apart
  <2>6. ASSUME NEW x \in trail' 
        PROVE  /\ x \in [n : Nat, rid : Nat, prepared : BOOLEAN]
               /\ x.n >= 1 /\ x.n <= arrived /\ x.rid < fresh
               /\ \A v \in Workers : TrailOf(x, work[v])
    <3>1. x \in [n : Nat, rid : Nat, prepared : BOOLEAN] BY <2>1, <2>6 DEF AuditOK
    <3>2. CASE x \in trail BY <3>1, <3>2 DEF IdInv
    <3>3. CASE x \notin trail
      <4>1. q.at = "dispatch" /\ x = a BY <2>1, <2>6, <3>3, MoveFrame DEF Dispatch, At
      <4> QED BY <3>1, <4>1, TrailGrows
    <3> QED BY <3>2, <3>3
  <2>7. ASSUME NEW x \in trail', NEW v \in Workers PROVE TrailOf(x, work'[v])
    <3>1. CASE v = w BY <2>1, <2>6, <3>1, TrailMoves
    <3>2. CASE v # w BY <2>1, <2>6, <3>2
    <3> QED BY <3>1, <3>2
  <2>8. OneRequestOneId'
    <3>1. CASE trail' = trail BY <3>1 DEF IdInv, OneRequestOneId
    <3>2. CASE q.at = "dispatch" /\ trail' = trail \union {a}
      <4>1. \A b \in trail : /\ a.rid = b.rid /\ a.rid # NoId => a.n = b.n
                             /\ a.n = b.n /\ (a.prepared \/ b.prepared) => a.rid = b.rid
        <5>1. ASSUME NEW x, x = a
              PROVE  \A b \in trail :
                       /\ x.rid = b.rid /\ x.rid # NoId => x.n = b.n
                       /\ x.n = b.n /\ (x.prepared \/ b.prepared) => x.rid = b.rid
          BY <3>2, <5>1, TrailGrows
        <5> HIDE DEF a
        <5> QED BY <5>1
      <4> HIDE DEF a
      <4> QED BY <3>2, <4>1 DEF IdInv, OneRequestOneId
    <3> QED BY <2>1, <3>1, <3>2, MoveFrame DEF Dispatch, At
  <2>9. fresh' >= 2 BY <2>2, <2>3
  <2>10. \A u, v \in Workers : u # v => Apart(work'[u], work'[v])
    BY <2>1, <2>5 DEF IdInv
  <2>11. \A x \in trail' : x.n >= 1 /\ x.n <= arrived' /\ x.rid < fresh'
    BY <2>2, <2>3, <2>6
  <2> QED BY <2>4, <2>7, <2>8, <2>9, <2>10, <2>11 DEF IdInv
<1> QED BY <1>1, <1>2

\* context.py:26-44, middleware.py:123-125.  The request id ties together the events of
\* one request and of no other, for any number of threads: each request carries ids that
\* no other request carries, and its events the id it was bound to if it was prepared.
THEOREM OneRequestOneIdHolds == Spec => []OneRequestOneId
<1>1. Init => IdInv
  BY DEF Init, AuditInit, IdInv, Bound, OwnIds, Apart, Carries, Recording, OneRequestOneId,
         Idle, NoContext, NoEvent, NoId
<1>2. TInv /\ IdInv /\ [Next]_vars => IdInv' BY IdStep DEF TInv
<1>3. IdInv => OneRequestOneId BY DEF IdInv
<1> QED BY <1>1, <1>2, <1>3, TInvInit, TInvStep, PTL DEF Spec
=============================================================================
