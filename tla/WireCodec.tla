------------------------------ MODULE WireCodec ------------------------------
(***************************************************************************)
(* Events and requests on the wire: MarshalEvent, ParseEvent and their     *)
(* payload types (protocol/protocol_event.go, protocol_content.go),        *)
(* MarshalRequest and ParseRequest (protocol_request.go), and              *)
(* ParseWireMessage (message.go).                                          *)
(*                                                                         *)
(* A JSON value is a record with the one field null, str, obj, arr or      *)
(* other.  str stands for any scalar of the type a Go field expects and    *)
(* other for a scalar it does not.  A Go value is a function from field    *)
(* names to contents; Nil is a nil pointer or slice and Bad an error.      *)
(***************************************************************************)
EXTENDS Naturals, Sequences

CONSTANTS Nil, Bad

Null   == [null |-> TRUE]
Other  == [other |-> TRUE]
Str(s) == [str |-> s]
Obj(f) == [obj |-> f]
Arr(q) == [arr |-> q]
Is(j, what) == j # Nil /\ what \in DOMAIN j

Empty == [k \in {} |-> Nil]    \* no fields

-----------------------------------------------------------------------------
(***************************************************************************)
(* Fields by Go type and tag:                                              *)
(*   "plain"  a string, number or bool;  "omit"  the same with omitempty;  *)
(*   "ptr"    a pointer, omitempty;                                        *)
(*   "list"   a slice;                   "list?" a slice, omitempty;       *)
(*   "raw"    a json.RawMessage;         "raw?"  the same with omitempty;  *)
(*   "input"  UserInput or ToolOutput;   "part"  ContentPart;              *)
(*   and the names of nested structs.                                      *)
(***************************************************************************)
Structs == [
  ToolCallFunction     |-> [name |-> "plain", arguments |-> "ptr"],
  SubagentEventPayload |-> [type |-> "plain", payload |-> "raw"],
  ToolReturnValue      |-> [is_error |-> "plain", output |-> "input", message |-> "plain",
                            display |-> "list?", extras |-> "raw?"]]

EventTypes == [
  TurnBegin        |-> [user_input |-> "input"],
  TurnEnd          |-> Empty,
  StepBegin        |-> [n |-> "plain"],
  StepInterrupted  |-> Empty,
  StepRetry        |-> [n |-> "plain", next_attempt |-> "plain", max_attempts |-> "plain",
                        wait_s |-> "plain", error_type |-> "plain", status_code |-> "ptr"],
  CompactionBegin  |-> Empty,
  CompactionEnd    |-> Empty,
  StatusUpdate     |-> [context_usage |-> "ptr", context_tokens |-> "ptr",
                        max_context_tokens |-> "ptr", token_usage |-> "ptr",
                        message_id |-> "omit", plan_mode |-> "ptr"],
  ContentPart      |-> [part |-> "part"],
  ToolCall         |-> [id |-> "plain", function |-> "ToolCallFunction", extras |-> "raw?"],
  ToolCallPart     |-> [arguments_part |-> "ptr"],
  ToolResult       |-> [tool_call_id |-> "plain", return_value |-> "ToolReturnValue"],
  ApprovalResponse |-> [request_id |-> "plain", response |-> "plain", feedback |-> "omit"],
  SubagentEvent    |-> [parent_tool_call_id |-> "ptr", agent_id |-> "ptr",
                        subagent_type |-> "ptr", event |-> "SubagentEventPayload"],
  SteerInput       |-> [user_input |-> "input"],
  BtwBegin         |-> [id |-> "plain", question |-> "plain"],
  BtwEnd           |-> [id |-> "plain", response |-> "ptr", error |-> "ptr"],
  PlanDisplay      |-> [content |-> "plain", file_path |-> "plain"],
  HookTriggered    |-> [event |-> "plain", target |-> "plain", hook_count |-> "plain"],
  HookResolved     |-> [event |-> "plain", target |-> "plain", action |-> "plain",
                        reason |-> "plain", duration_ms |-> "plain"]]

RequestTypes == [
  ApprovalRequest |-> [id |-> "plain", tool_call_id |-> "plain", sender |-> "plain",
                       action |-> "plain", description |-> "plain", display |-> "list?",
                       source_kind |-> "ptr", source_id |-> "omit", agent_id |-> "omit",
                       subagent_type |-> "omit", source_description |-> "omit"],
  ToolCallRequest |-> [id |-> "plain", name |-> "plain", arguments |-> "ptr"],
  QuestionRequest |-> [id |-> "plain", tool_call_id |-> "plain", questions |-> "list"],
  HookRequest     |-> [id |-> "plain", subscription_id |-> "plain", event |-> "plain",
                       target |-> "plain", input_data |-> "raw"]]

\* ParseEvent does not look at the payload of these.
Unpayloaded == {t \in DOMAIN EventTypes : EventTypes[t] = Empty}

-----------------------------------------------------------------------------
(***************************************************************************)
(* ContentPart and UserInput have methods of their own.                    *)
(***************************************************************************)
\* The fields of f without the omitted ones.
Without(f, omitted) == [k \in DOMAIN f \ omitted |-> f[k]]

Thinking(t) == Without([think |-> Str(t.think), encrypted |-> Str(t.encrypted)],
                       IF t.encrypted = "" THEN {"encrypted"} ELSE {})

\* Text and think parts are flat, the others are written as they are.
FlatText(p)  == [type |-> Str(p.type), text |-> Str(IF p.text = Nil THEN "" ELSE p.text)]
FlatThink(p) ==
  LET flat == Thinking(IF p.think = Nil THEN [think |-> "", encrypted |-> ""] ELSE p.think)
  IN  [k \in DOMAIN flat \cup {"type"} |-> IF k = "type" THEN Str(p.type) ELSE flat[k]]
Nested(p) == Without([type  |-> Str(p.type), text |-> Obj([text |-> Str(p.text)]),
                      think |-> IF p.think = Nil THEN Null ELSE Obj(Thinking(p.think)),
                      image_url |-> Str(p.image_url)],
                     {k \in {"text", "think", "image_url"} : p[k] = Nil})

MarshalPart(p) == Obj(IF p.type = "text" THEN FlatText(p)
                      ELSE IF p.type = "think" THEN FlatThink(p) ELSE Nested(p))

\* A member of a JSON object, Nil when it is absent.
At(j, k) == IF Is(j, "obj") /\ k \in DOMAIN j.obj THEN j.obj[k] ELSE Nil

\* A string field: absent and null leave it empty.
Text(j) == IF j = Nil \/ Is(j, "null") THEN "" ELSE IF Is(j, "str") THEN j.str ELSE Bad
Pointer(j) == IF j = Nil \/ Is(j, "null") THEN Nil ELSE Text(j)

\* The text member as a string or as a TextPart; what is neither is ignored.
ParseText(j) ==
  IF Is(j, "str") \/ Is(j, "null") THEN Text(j)
  ELSE IF Is(j, "obj") /\ Text(At(j, "text")) # Bad THEN Text(At(j, "text"))
  ELSE Nil

\* The think member; of a flat part, encrypted is not looked at.
ParseThink(j) ==
  IF Is(j, "str") \/ Is(j, "null") THEN [think |-> Text(j), encrypted |-> ""]
  ELSE IF Is(j, "obj") /\ Bad \notin {Text(At(j, "think")), Text(At(j, "encrypted"))}
    THEN [think |-> Text(At(j, "think")), encrypted |-> Text(At(j, "encrypted"))]
  ELSE Nil

ParsePart(j) ==
  IF ~(Is(j, "obj") \/ Is(j, "null")) \/ Bad \in {Text(At(j, "type")), Pointer(At(j, "image_url"))}
    THEN Bad
    ELSE [type  |-> Text(At(j, "type")),         text |-> ParseText(At(j, "text")),
          think |-> ParseThink(At(j, "think")), image_url |-> Pointer(At(j, "image_url"))]

\* Mutant: an input with neither text nor parts is written as null.
MarshalInput_NullWhenEmpty(u) ==
  IF u.parts = << >> THEN (IF u.text = "" THEN Null ELSE Str(u.text))
  ELSE IF u.text = "" THEN Arr([i \in DOMAIN u.parts |-> MarshalPart(u.parts[i])])
  ELSE Bad

\* A string or an array of parts.
MarshalInput(u) ==
  IF u.parts = << >> THEN Str(u.text)
  ELSE IF u.text = "" THEN Arr([i \in DOMAIN u.parts |-> MarshalPart(u.parts[i])])
  ELSE Bad

ParseInput(j) ==
  LET parts == [i \in DOMAIN j.arr |-> ParsePart(j.arr[i])] IN
  IF Is(j, "str") THEN [text |-> j.str, parts |-> << >>]
  ELSE IF Is(j, "arr") /\ \A i \in DOMAIN parts : parts[i] # Bad THEN [text |-> "", parts |-> parts]
  ELSE Bad

-----------------------------------------------------------------------------
(***************************************************************************)
(* encoding/json on a struct: Marshal and Unmarshal, field by field.       *)
(***************************************************************************)
\* Mutant: an optional field is omitted when it is zero, as without its pointer.
Omitted_ZeroPointer(kind, v) ==
  \/ kind \in {"omit", "ptr"} /\ v \in {Nil, ""}
  \/ kind = "raw?" /\ v = Nil
  \/ kind = "list?" /\ v \in {Nil, << >>}

\* omitempty
Omitted(kind, v) ==
  \/ kind = "omit" /\ v = ""
  \/ kind \in {"ptr", "raw?"} /\ v = Nil
  \/ kind = "list?" /\ v \in {Nil, << >>}

MarshalPlain(kind, v) ==
  CASE kind \in {"list", "list?"} -> IF v = Nil THEN Null ELSE Arr(v)
    [] kind \in {"raw", "raw?"}   -> IF v = Nil THEN Null ELSE v
    [] kind = "input"             -> MarshalInput(v)
    [] kind = "part"              -> MarshalPart(v)
    [] kind \in {"plain", "omit", "ptr"} -> Str(v)

ZeroPlain(kind) ==
  CASE kind \in {"plain", "omit"} -> ""
    [] kind = "input"             -> [text |-> "", parts |-> << >>]
    [] kind = "part"              -> [type |-> "", text |-> Nil, think |-> Nil, image_url |-> Nil]
    [] kind \in {"ptr", "list", "list?", "raw", "raw?"} -> Nil

\* A field that is there.
ParsePlain(kind, j) ==
  CASE kind \in {"plain", "omit"}   -> Text(j)
    [] kind = "ptr"                 -> Pointer(j)
    [] kind \in {"raw", "raw?"}     -> j
    [] kind = "input"               -> ParseInput(j)
    [] kind = "part"                -> ParsePart(j)
    [] kind \in {"list", "list?"}   -> IF Is(j, "null") THEN Nil ELSE IF Is(j, "arr") THEN j.arr ELSE Bad

\* The object with the members out of v's fields, without the omitted ones.
Object(fields, v, out) ==
  LET kept == {k \in DOMAIN fields : ~Omitted(fields[k], v[k])}
  IN  IF \E k \in kept : out[k] = Bad THEN Bad ELSE Obj([k \in kept |-> out[k]])

\* The struct v read from j; null leaves a struct as it is.
Struct(fields, j, v) ==
  IF ~(Is(j, "obj") \/ Is(j, "null")) \/ \E k \in DOMAIN fields : v[k] = Bad THEN Bad ELSE v

\* Structs contain no other structs.
MarshalField(kind, v) ==
  IF kind \notin DOMAIN Structs THEN MarshalPlain(kind, v)
  ELSE LET fields == Structs[kind]
       IN  Object(fields, v, [k \in DOMAIN fields |-> MarshalPlain(fields[k], v[k])])

Zero(kind) == IF kind \notin DOMAIN Structs THEN ZeroPlain(kind)
              ELSE [k \in DOMAIN Structs[kind] |-> ZeroPlain(Structs[kind][k])]

ParseInner(kind, j) == IF j = Nil THEN ZeroPlain(kind) ELSE ParsePlain(kind, j)

ParseField(kind, j) ==
  IF j = Nil THEN Zero(kind)
  ELSE IF kind \notin DOMAIN Structs THEN ParsePlain(kind, j)
  ELSE LET fields == Structs[kind]
       IN  Struct(fields, j, [k \in DOMAIN fields |-> ParseInner(fields[k], At(j, k))])

MarshalStruct(fields, v) ==
  Object(fields, v, [k \in DOMAIN fields |-> MarshalField(fields[k], v[k])])
ParseStruct(fields, j) ==
  Struct(fields, j, [k \in DOMAIN fields |-> ParseField(fields[k], At(j, k))])

-----------------------------------------------------------------------------
(***************************************************************************)
(* The envelopes {type, payload}.                                          *)
(***************************************************************************)
Envelope(type, payload) ==
  IF payload = Bad THEN Bad ELSE Obj([type |-> Str(type), payload |-> payload])

MarshalEvent(e) ==
  LET plain == MarshalStruct(EventTypes[e.type], e.v) IN
  Envelope(e.type,
    CASE e.type = "ContentPart" -> MarshalPart(e.v.part)
      [] e.type = "ToolCall"    ->
           Obj([k \in DOMAIN plain.obj \cup {"type"} |->
                  IF k = "type" THEN Str("function") ELSE plain.obj[k]])
      [] OTHER -> plain)

Typed(type, v) == IF v = Bad THEN Bad ELSE [type |-> type, v |-> v]

\* json.Unmarshal of a missing payload fails.
ParsePayload(types, type, payload) ==
  IF type \notin DOMAIN types \/ payload = Nil THEN Bad
  ELSE Typed(type, ParseStruct(types[type], payload))

ParseEvent(j) ==
  LET type == Text(At(j, "type"))  payload == At(j, "payload") IN
  IF ~Is(j, "obj") THEN Bad
  ELSE CASE type \in Unpayloaded -> [type |-> type, v |-> Empty]
         [] type = "ContentPart" /\ payload # Nil ->
              LET p == ParsePart(payload) IN Typed(type, IF p = Bad THEN Bad ELSE [part |-> p])
         [] type = "ToolCall" /\ Text(At(payload, "type")) # "function" -> Bad
         [] OTHER -> ParsePayload(EventTypes, type, payload)

MarshalRequest(r) == Envelope(r.type, MarshalStruct(RequestTypes[r.type], r.v))
ParseRequest(j)   == IF ~Is(j, "obj") THEN Bad
                     ELSE ParsePayload(RequestTypes, Text(At(j, "type")), At(j, "payload"))

-----------------------------------------------------------------------------
(***************************************************************************)
(* Lines: RawWireMessage, with Nil for an absent member.                   *)
(***************************************************************************)
Raw(method, params) == [jsonrpc |-> "2.0", method |-> method, params |-> params,
                        result |-> Nil, error |-> Nil]

\* ParseWireMessage: what a line is, and the value it carries.
ParseWireMessage(raw) ==
  LET Message(kind, v) == IF v = Bad THEN [kind |-> "json_parse"] ELSE [kind |-> kind, v |-> v] IN
  CASE raw.jsonrpc # "2.0" -> [kind |-> "json_parse"]
    [] raw.jsonrpc = "2.0" /\ raw.method = "request" -> Message("request", ParseRequest(raw.params))
    [] raw.jsonrpc = "2.0" /\ raw.method = "event"   -> Message("event", ParseEvent(raw.params))
    [] raw.jsonrpc = "2.0" /\ raw.method = "" /\ raw.error # Nil  -> [kind |-> "error"]
    [] raw.jsonrpc = "2.0" /\ raw.method = "" /\ raw.error = Nil /\ raw.result # Nil -> [kind |-> "success"]
    [] OTHER -> [kind |-> "unknown_message_type"]
=============================================================================
