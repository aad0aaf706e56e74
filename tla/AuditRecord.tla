---------------------------- MODULE AuditRecord ----------------------------
(***************************************************************************)
(* What becomes of data on its way to a line of the audit log: the request *)
(* body is captured (DJ logging/body.py), the event made canonical and     *)
(* frozen (core events.py), additions of enrichers and the event scrubbed  *)
(* (core scrubbers.py), projected to JSON within limits (core              *)
(* projection.py) and put together (LOG emission.py, formatters.py).       *)
(*                                                                         *)
(* A value is a tree, a text or a key a sequence of symbols. Keys are      *)
(* within the limit of length. The source's recursive functions are        *)
(* recursive functions here, over the nodes of the tree they are given.    *)
(***************************************************************************)
EXTENDS Naturals, Sequences, Subsequence

CONSTANTS
  Height,          \* levels a value can have below its root: a bound of this model
  MaxDepth,        \* projection: levels,
  MaxEntries,      \*   entries of a mapping and of a list,
  MaxAttributes,   \*   attributes,
  MaxLength,       \*   symbols of a text
  SensitiveNames,  \* sensitive_keys
  AllowedNames,    \* sensitive_key_allowlist
  BodyFields,      \* body_field_allowlist
  HiddenKeys,      \* some names of which sensitive_keys hides the value,
  ShownKeys,       \*   and some of which it does not
  Sources          \* what records are made of

VARIABLES
  source,  \* what the record is made of: the request body, the fields of the event, its
           \* additions and whether these come from enrichers or are made by hand
  stage,   \* what is done next: "capture", "build", "emit", "format", or "done"
  event,   \* its event's attributes
  more,    \* its additions
  line     \* the attributes of its line

recordVars == <<source, stage, event, more, line>>

-----------------------------------------------------------------------------
(* Values.                                                                   *)

\* "atom" stands for None, booleans and numbers, "object" for what str() turns into a text
\* (UUID, Decimal, Path, address), "enum" for a member of an Enum whose value is a text,
\* "loop" for a container inside itself, "other" for NaN and objects JSON has no form for;
\* "error" is an exception.
JsonKinds  == {"atom", "text", "map", "list"}
Containers == {"map", "list"}
Kinds      == JsonKinds \union {"object", "enum", "bytes", "loop", "set", "other", "error"}

Node(kind, text, kids) == [kind |-> kind, text |-> text, kids |-> kids]

Text(t)        == Node("text", t, <<>>)
MapOf(entries) == Node("map", <<>>, entries)
Entry(key, v)  == [key |-> key, value |-> v]
None           == Node("atom", <<>>, <<>>)
Error          == Node("error", <<>>, <<>>)
Redaction      == Text(<<"REDACTED">>)
Truncation     == Text(<<"TRUNCATED">>)
TruncatedKey   == <<"_truncated">>
NumberKey      == <<"1">>  \* a key that is no string

Keys(v)       == {v.kids[i].key : i \in DOMAIN v.kids}
ValueOf(v, k) == v.kids[CHOOSE i \in DOMAIN v.kids : v.kids[i].key = k].value
Excluding(v, keys) ==
  MapOf(Without(v.kids, {e \in {v.kids[i] : i \in DOMAIN v.kids} : e.key \in keys}))

\* The nodes of v by their level: v itself, its members, their members.
Members(v) == {v.kids[i].value : i \in DOMAIN v.kids}

Level(v) ==
  LET level[d \in 0..Height] == IF d = 0 THEN {v} ELSE UNION {Members(u) : u \in level[d - 1]}
  IN  level

Nodes(v) == UNION {Level(v)[d] : d \in 0..Height}

\* v with other members; an error in one is an error of the whole.
Rebuilt(v, members) ==
  IF \E i \in DOMAIN members : members[i] = Error THEN Error
  ELSE [v EXCEPT !.kids = [i \in DOMAIN members |-> Entry(v.kids[i].key, members[i])]]

-----------------------------------------------------------------------------
(* Scrubbing.                                                                *)

Occurs(part, whole) ==
  \E i \in 0..(Len(whole) - Len(part)) : SubSeq(whole, i + 1, i + Len(part)) = part

NormalizeKey(key) == SelectSeq(key, LAMBDA c : c # "-")

\* Names are compared without separators; the allowlist needs the exact name, and a stray
\* empty keyword is a part of no name.
IsSensitiveKey(key) ==
  LET norm == NormalizeKey(key) IN
  /\ norm # <<>> /\ norm \notin {NormalizeKey(a) : a \in AllowedNames}
  /\ \E s \in SensitiveNames : NormalizeKey(s) # <<>> /\ Occurs(NormalizeKey(s), norm)

\* The value patterns match two symbols "s" in a row.
IsSensitiveValue(text) == Occurs(<<"s", "s">>, text)

\* What becomes of a node, given what becomes of its members.
ScrubStep(v, scrub) ==
  CASE v.kind = "set" -> Error
    [] v.kind \in {"bytes", "loop"} -> Redaction
    [] v.kind = "text" /\ IsSensitiveValue(v.text) -> Redaction
    [] v.kind \in Containers ->
         Rebuilt(v, [i \in DOMAIN v.kids |->
           IF v.kind = "map" /\ IsSensitiveKey(v.kids[i].key) THEN Redaction
           ELSE scrub[v.kids[i].value]])
    [] OTHER -> v

Scrub(v) == LET scrub[u \in Nodes(v)] == ScrubStep(u, scrub) IN scrub[v]

-----------------------------------------------------------------------------
(* Projection, strict.                                                       *)

Limited(text) ==
  IF Len(text) <= MaxLength THEN text
  ELSE Append(SubSeq(text, 1, MaxLength), "TRUNCATED")

BytesProjection(v) ==
  MapOf(<<Entry(<<"encoding">>, Text(<<"base64">>)), Entry(<<"data">>, Text(v.text))>>)

First(n, v) == 1..(IF Len(v.kids) <= n THEN Len(v.kids) ELSE n)

\* v with its first members projected, and a mark if it had more. (In the code the mark
\* takes the place of an entry of its name; here both are there, so less is hidden.)
Shortened(v, members) ==
  LET kept == Rebuilt(v, members) IN
  IF kept = Error \/ Len(v.kids) = Len(members) THEN kept
  ELSE [kept EXCEPT !.kids =
          Append(@, Entry(IF v.kind = "map" THEN TruncatedKey ELSE <<>>, Truncation))]

\* With no levels left a value is cut; its members are projected with one level less.
ProjectStep(v, left, project) ==
  CASE left = 0 -> Truncation
    [] left # 0 /\ v.kind = "atom" -> v
    [] left # 0 /\ v.kind \in {"text", "enum"} -> Text(Limited(v.text))
    [] left # 0 /\ v.kind = "object" -> Text(v.text)
    [] left # 0 /\ v.kind = "bytes" -> BytesProjection(v)
    [] left # 0 /\ v.kind \in Containers ->
         Shortened(v, [i \in First(MaxEntries, v) |-> project[v.kids[i].value]])
    [] OTHER -> Error

Project(v, depth) ==
  LET project[left \in 0..MaxDepth] ==
        [u \in Nodes(v) |-> ProjectStep(u, left, project[left - 1])]
  IN  project[MaxDepth - depth][v]

ProjectAttributes(v) ==
  Shortened(v, [i \in First(MaxAttributes, v) |-> Project(v.kids[i].value, 1)])

\* A defect: projected before it is scrubbed.
Gate_ProjectFirst(v) ==
  LET projected == ProjectAttributes(v) IN
  IF projected = Error THEN Error ELSE Scrub(projected)

\* What emission and formatter do to attributes.
Gate(v) == LET scrubbed == Scrub(v) IN
           IF scrubbed = Error THEN Error ELSE ProjectAttributes(scrubbed)

-----------------------------------------------------------------------------
(* The request body.                                                         *)

\* A request without a body that could be read.
Unread == [wanted |-> FALSE, json |-> FALSE, large |-> FALSE, declared |-> "none",
           data |-> Error]

NoBody  == MapOf(<<>>)
BodyKey == <<"request.body">>

ParseStatus(status) == MapOf(<<Entry(<<"request.body.parse_status">>, Text(<<status>>))>>)

\* safe_json_body: how a JSON body parses. A request: whether capture is wanted for its
\* path and method and its body still readable and no form; whether it is JSON; its
\* declared length; whether the body read is too large; what it parses to.
BodyStatus(r) ==
  CASE ~r.json -> "not_json"
    [] r.declared = "malformed" -> "skipped"
    [] r.declared \in {"large", "negative"} \/ r.large -> "too_large"
    [] r.data = Error -> "invalid_json"
    [] r.data.kind # "map" -> "unsupported_shape"
    [] r.data.kids = <<>> -> "empty"
    [] OTHER -> "captured"

CapturedBody(r) ==
  LET status == BodyStatus(r)
      body   == Excluding(r.data, Keys(r.data) \ BodyFields) IN
  CASE ~r.wanted \/ BodyFields = {} -> NoBody
    [] r.wanted /\ BodyFields # {} /\ r.declared = "large" -> ParseStatus("too_large")
    [] OTHER ->
       CASE status \in {"empty", "not_json", "skipped"} -> NoBody
         [] status = "captured" /\ body.kids = <<>> -> NoBody
         [] status = "captured" /\ body.kids # <<>> ->
              MapOf(<<Entry(BodyKey, Project(Scrub(body), 0))>>)
         [] OTHER -> ParseStatus(status)

-----------------------------------------------------------------------------
(* The event and its record.                                                 *)

Authoritative == {<<"event_type">>, <<"schema_version">>}
Restored      == {<<"request_id">>, <<"session.id">>, <<"source.address">>}
Protected     == Authoritative \union Restored

Unprotected(v) == Excluding(v, Protected)

\* _canonicalize_value returns v, frozen, if it is JSON, and raises otherwise.
IsCanonical(v) ==
  \A u \in Nodes(v) : u.kind \in JsonKinds /\ (u.kind = "map" => NumberKey \notin Keys(u))

\* The constructor of an event, which no attribute may name or version otherwise.
NewEvent(attributes) ==
  IF \/ ~IsCanonical(attributes)
     \/ \E k \in Authoritative \intersect Keys(attributes) :
          ValueOf(attributes, k) \notin {None, Text(k)}
  THEN Error
  ELSE MapOf(Excluding(attributes, Authoritative).kids
             \o <<Entry(<<"event_type">>, Text(<<"event_type">>)),
                  Entry(<<"schema_version">>, Text(<<"schema_version">>))>>)

\* build_log_record: the additions over the event's attributes; the ids as they are.
BuildLogRecord(e, additions) ==
  LET own   == Gate(e)
      added == IF additions.kind = "map" THEN Gate(Unprotected(additions)) ELSE Error IN
  IF own = Error \/ added = Error THEN Error
  ELSE LET keys == Keys(own) \union Keys(added) \union Authoritative
                   \union (Restored \intersect Keys(e)) IN
       [k \in keys |->
          CASE k \in Authoritative -> Text(k)
            [] k \in Restored \intersect Keys(e) -> Project(ValueOf(e, k), 1)
            [] k \in Keys(added) -> ValueOf(added, k)
            [] OTHER -> ValueOf(own, k)]

\* _fallback_record and _minimal_fallback_record, which differ outside the attributes.
FallbackRecord ==
  [k \in Authoritative |-> IF k = <<"event_type">> THEN Text(<<"malformed">>) ELSE Text(k)]

LastResort == [k \in {<<"event_type">>} |-> Text(<<"malformed">>)]

Fallback(room) == IF room = "last" THEN LastResort ELSE FallbackRecord

-----------------------------------------------------------------------------
(* What the constants are.                                                   *)

\* ProjectionLimits rejects limits that are not positive.
ASSUME LimitsAssumption ==
  {Height, MaxDepth, MaxEntries, MaxAttributes, MaxLength} \subseteq Nat \ {0}

ASSUME NamesAssumption ==
  /\ \A k \in HiddenKeys : IsSensitiveKey(k) /\ k \notin Authoritative \union {TruncatedKey}
  /\ \A k \in ShownKeys : ~IsSensitiveKey(k) /\ k # NumberKey /\ k \notin Authoritative

\* v is a tree of at most so many levels, its maps with one entry for a key. The patterns
\* find each secret "s" in it, but in bytes, which alone hold a "b".
IsData(v, levels) ==
  \A d \in 0..Height : \A u \in Level(v)[d] :
    /\ u \in [kind : Kinds \ {"error"}, text : Seq(STRING),
              kids : Seq([key : Seq(STRING), value : Nodes(v)])]
    /\ u.kids # <<>> => u.kind \in Containers /\ d < levels
    /\ u.kind = "map" => \A i, j \in DOMAIN u.kids : u.kids[i].key = u.kids[j].key => i = j
    /\ u.kind # "bytes" => \A i \in DOMAIN u.text : u.text[i] # "b"
    /\ u.kind # "bytes" /\ (\E i \in DOMAIN u.text : u.text[i] = "s") =>
         u.kind \in {"text", "object", "enum"} /\ IsSensitiveValue(u.text)

\* Attributes are mappings; a body is what json.loads returns (but for NaN, of which the
\* projection makes a text), or none.
ASSUME SourcesAssumption ==
  \A s \in Sources :
    /\ s.fields.kind = "map" /\ IsData(s.fields, Height)
    /\ s.additions.kind = "map" /\ IsData(s.additions, Height)
    /\ s.body.data = Error \/ (IsData(s.body.data, Height - 1) /\ IsCanonical(s.body.data))

-----------------------------------------------------------------------------
(* The record on its way.                                                    *)

NoLine == [k \in {} |-> Error]

RecordInit ==
  /\ source \in Sources /\ stage = "capture"
  /\ event = source.fields /\ more = source.additions /\ line = NoLine

\* The body is captured when the request comes in.
Capture ==
  /\ stage = "capture" /\ stage' = "build"
  /\ event' = MapOf(event.kids \o CapturedBody(source.body).kids)
  /\ UNCHANGED <<source, more, line>>

\* An event that is not JSON is not made.
Build ==
  /\ stage = "build"
  /\ event' = NewEvent(event)
  /\ stage' = IF event' = Error THEN "done" ELSE IF source.emitted THEN "emit" ELSE "format"
  /\ UNCHANGED <<source, more, line>>

\* emit_event: additions that cannot be projected keep the event from the log.
Emit ==
  /\ stage = "emit"
  /\ more' = Gate(Unprotected(more))
  /\ stage' = IF more' = Error THEN "done" ELSE "format"
  /\ UNCHANGED <<source, event, line>>

\* format: the first of four forms that the limit of bytes has room for.
Format(room) ==
  /\ stage = "format" /\ stage' = "done"
  /\ LET record == BuildLogRecord(event, more) IN
     line' = IF room = "record" /\ record # Error THEN record ELSE Fallback(room)
  /\ UNCHANGED <<source, event, more>>

RecordNext ==
  \/ Capture \/ Build \/ Emit
  \/ \E room \in {"record", "fallback", "minimal", "last"} : Format(room)

RecordSpec == RecordInit /\ [][RecordNext]_recordVars

-----------------------------------------------------------------------------
(* Properties.                                                               *)

\* v is JSON that shows nothing of bytes "b", nor what is under a hidden name.
Tidy(v) ==
  \A u \in Nodes(v) :
    /\ u.kind \in JsonKinds
    /\ \A i \in DOMAIN u.text : u.text[i] # "b"
    /\ \A i \in DOMAIN u.kids :
         u.kind = "map" /\ u.kids[i].key \in HiddenKeys =>
           u.kids[i].value \in {Redaction, Truncation}

\* It shows nothing of a secret "s" either.
NoSecret(v) == \A u \in Nodes(v) : \A i \in DOMAIN u.text : u.text[i] # "s"

\* v holds a secret that no scrubbing recognises: that of an object or of a member of an
\* Enum, which scrub() passes as it is and only the projection after it makes a text of.
\* On the way through emit_event a second scrub() finds it there, unless the limit of
\* length has cut it off.
Escapes(v, emitted) ==
  \E u \in Nodes(v) :
    /\ u.kind \in {"object", "enum"} /\ IsSensitiveValue(u.text)
    /\ emitted => u.kind = "enum" /\ Len(u.text) > MaxLength

\* Attributes with no secret, JSON and within the limits, whoever else adds to them.
Plain(v) ==
  /\ v.kind = "map" /\ Keys(v) \subseteq ShownKeys \union Restored
  /\ Len(v.kids) + 2 <= MaxAttributes
  /\ \A d \in 1..Height : \A u \in Level(v)[d] :
       /\ u.kind \in JsonKinds /\ d < MaxDepth
       /\ ~IsSensitiveValue(u.text) /\ Len(u.text) <= MaxLength /\ Len(u.kids) <= MaxEntries
       /\ u.kind = "map" => Keys(u) \subseteq ShownKeys

\* LOG formatters.py:133-164, emission.py:54-64, DJ body.py:34-98.  Whatever an event, a
\* request body and additions hold, a line shows no bytes and no value of a hidden name,
\* and a secret only in the three ids restored from the event and in an addition from
\* which one escapes; of a body it has no field but those of the allowlist; and data with
\* no secret and within the limits is in a full line unchanged, though additions pass
\* scrub and projection twice. (formatters.py:135-138 and 148-152 promise that no path
\* leaks a secret; the ids and those additions are what the code leaves out of it.)
OnlySecretsAreRedacted ==
  stage = "done" =>
    /\ \A k \in DOMAIN line \ Restored :
         /\ Tidy(line[k])
         /\ NoSecret(line[k]) \/ (/\ k \in Keys(source.additions)
                                 /\ Escapes(ValueOf(source.additions, k), source.emitted))
         /\ k \in HiddenKeys =>
              line[k] = IF MaxDepth = 1 THEN Truncation ELSE Redaction
         /\ k = BodyKey /\ k \notin Keys(source.fields) \union Keys(source.additions) =>
              Keys(line[k]) \subseteq BodyFields \union {TruncatedKey}
    /\ (Plain(source.fields) /\ Plain(source.additions) /\ source.body = Unread =>
         line \in {FallbackRecord, LastResort}
           \union {[k \in Keys(event) \union (Keys(source.additions) \ Protected) |->
                     ValueOf(IF k \in Keys(source.additions) \ Protected
                             THEN source.additions ELSE event, k)]})
=============================================================================
