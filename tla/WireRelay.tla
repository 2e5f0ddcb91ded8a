------------------------------ MODULE WireRelay ------------------------------
(***************************************************************************)
(* An event or a request on its way through peers that parse it and pass   *)
(* it on.  It starts as a Go value an application made or as a line some   *)
(* other implementation wrote; Marshal is the MarshalJSON of EventMessage  *)
(* and RequestMessage, Parse is ParseWireMessage.                          *)
(***************************************************************************)
EXTENDS WireCodec

CONSTANTS
  Scalars,     \* strings, numbers and booleans
  JSON,        \* the JSON values of foreign lines and of raw fields
  Messages,    \* what applications send: [kind, v], v an event or a request
  Foreign,     \* lines of other implementations
  MaxHops      \* bound: how often a message is marshalled

VARIABLES
  stage,   \* "value", "line", or where it ended: "unsent", "rejected", "response"
  msg,     \* as a value: a message
  line,    \* as a line: a RawWireMessage
  sent,    \* the value that was last marshalled, Nil before
  hops     \* how often it was marshalled

relayVars == <<stage, msg, line, sent, hops>>

-----------------------------------------------------------------------------
(***************************************************************************)
(* What the Go types admit, field by field.                                *)
(***************************************************************************)
PartType  == [type : Scalars, text : Scalars \cup {Nil},
              think : {Nil} \cup [think : Scalars, encrypted : Scalars],
              image_url : Scalars \cup {Nil}]
InputType == [text : Scalars, parts : Seq(PartType)]

PlainType(kind) ==
  CASE kind \in {"plain", "omit"} -> Scalars
    [] kind = "ptr"               -> Scalars \cup {Nil}
    [] kind \in {"list", "list?"} -> {Nil} \cup Seq(JSON)
    [] kind \in {"raw", "raw?"}   -> {Nil} \cup JSON
    [] kind = "input"             -> InputType
    [] kind = "part"              -> PartType

HasFields(fields, v) == v = [k \in DOMAIN fields |-> v[k]]

OfKind(kind, c) ==
  IF kind \notin DOMAIN Structs THEN c \in PlainType(kind)
  ELSE LET fields == Structs[kind]
       IN  HasFields(fields, c) /\ \A k \in DOMAIN fields : c[k] \in PlainType(fields[k])

OfTypes(types, e) ==
  /\ e = [type |-> e.type, v |-> e.v] /\ e.type \in DOMAIN types
  /\ HasFields(types[e.type], e.v)
  /\ \A k \in DOMAIN types[e.type] : OfKind(types[e.type][k], e.v[k])

Types(kind) == IF kind = "event" THEN EventTypes ELSE RequestTypes

\* JSON holds the members of its values.
ASSUME JSONAssumption ==
  /\ Nil # Bad /\ "" \in Scalars
  /\ {Nil, Bad} \cap Scalars = {} /\ {Nil, Bad} \cap JSON = {} /\ Null \in JSON
  /\ \A j \in JSON :
       /\ \E what \in {"null", "other", "str", "obj", "arr"} : DOMAIN j = {what}
       /\ Is(j, "str") => j.str \in Scalars
       /\ Is(j, "obj") => \A k \in DOMAIN j.obj : j.obj[k] \in JSON
       /\ Is(j, "arr") => j.arr \in Seq(JSON)

ASSUME RelayAssumption ==
  /\ \A m \in Messages : m.kind \in {"event", "request"} /\ OfTypes(Types(m.kind), m.v)
  /\ \A l \in Foreign  : l.params \in JSON \cup {Nil}

-----------------------------------------------------------------------------
RelayInit ==
  /\ hops = 0 /\ sent = Nil
  /\ \/ stage = "value" /\ msg \in Messages /\ line = Nil
     \/ stage = "line" /\ msg = Nil /\ line \in Foreign

\* MarshalJSON of the message types.  It copies JSONRPC and Method from the
\* value; a message of this model has "2.0" and the method of its kind there, as
\* ParseWireMessage sets them.
Marshal ==
  /\ stage = "value" /\ hops < MaxHops
  /\ LET p == IF msg.kind = "event" THEN MarshalEvent(msg.v) ELSE MarshalRequest(msg.v)
     IN  IF p = Bad THEN stage' = "unsent" /\ UNCHANGED line
                    ELSE stage' = "line" /\ line' = Raw(msg.kind, p)
  /\ sent' = msg.v /\ hops' = hops + 1
  /\ UNCHANGED msg

Parse ==
  /\ stage = "line"
  /\ LET m == ParseWireMessage(line) IN
     CASE m.kind \in {"event", "request"} -> stage' = "value" /\ msg' = m
       [] m.kind \in {"success", "error"} -> stage' = "response" /\ UNCHANGED msg
       [] OTHER                           -> stage' = "rejected" /\ UNCHANGED msg
  /\ UNCHANGED <<line, sent, hops>>

RelayNext == Marshal \/ Parse

RelaySpec == RelayInit /\ [][RelayNext]_relayVars

-----------------------------------------------------------------------------
(***************************************************************************)
(* The values that are written as they are: an empty list of an omitempty  *)
(* field and a nil raw value have no form of their own on the wire, and a  *)
(* text or think part is flat, with no room for other members.  Of a flat  *)
(* think part, UnmarshalJSON does not read encrypted.                      *)
(***************************************************************************)
OwnMembers(p) ==
  CASE p.type = "text"  -> p.text # Nil /\ p.think = Nil /\ p.image_url = Nil
    [] p.type = "think" -> p.think # Nil /\ p.think.encrypted = "" /\ p.text = Nil /\ p.image_url = Nil
    [] OTHER            -> TRUE

PlainForm(kind, c) ==
  /\ kind = "part"  => OwnMembers(c)
  /\ kind = "input" => \A i \in DOMAIN c.parts : OwnMembers(c.parts[i])
  /\ kind = "raw"   => c # Nil
  /\ kind = "list?" => c # << >>

HasForm(kind, c) ==
  IF kind \notin DOMAIN Structs THEN PlainForm(kind, c)
  ELSE \A k \in DOMAIN Structs[kind] : PlainForm(Structs[kind][k], c[k])

Representable(types, e) == \A k \in DOMAIN types[e.type] : HasForm(types[e.type][k], e.v[k])

\* What this library writes (with JSONRPC and Method set as above), it accepts,
\* and what it has accepted it can write again: only a foreign line is rejected,
\* and only a value an application made (an input with both text and parts)
\* cannot be sent.
RelayNeverFails ==
  /\ stage = "rejected" => hops = 0
  /\ stage = "unsent" => hops = 1 /\ line = Nil

\* An event or request arrives as the value that was sent, pointers to zero
\* values, nested parts and raw payloads included; encrypted thoughts excepted.
RoundTrip ==
  stage = "value" /\ hops > 0 /\ Representable(Types(msg.kind), sent) => msg.v = sent
=============================================================================
