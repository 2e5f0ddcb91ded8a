------------------------------ MODULE MCProtocol ------------------------------
(***************************************************************************)
(* One run for the data the protocol carries: each behaviour relays one    *)
(* message or performs one handshake, which share nothing.                 *)
(***************************************************************************)
EXTENDS Handshake, WireRelay

VARIABLE which

-----------------------------------------------------------------------------
(***************************************************************************)
(* The values applications send: all fields zero, or one of them set.      *)
(***************************************************************************)
Part(type, text, think, url) == [type |-> type, text |-> text, think |-> think, image_url |-> url]
Thoughts == {[think |-> "s", encrypted |-> e] : e \in {"", "s"}}

Parts == {Part("text", "s", Nil, Nil), Part("text", Nil, Nil, Nil), Part("image_url", Nil, Nil, "s"),
          Part("audio", "", Nil, Nil)} \cup {Part(t, Nil, c, Nil) : t \in {"think", "audio"}, c \in Thoughts}

\* Lists hold one well-formed element or none.
FieldValues(kind) ==
  CASE kind \in {"plain", "omit"}   -> {"", "s"}
    [] kind = "ptr"                 -> {Nil, "", "s"}
    [] kind \in {"list", "list?"}   -> {Nil, << >>, <<Obj(Empty)>>}
    [] kind \in {"raw", "raw?"}     -> {Nil, Null, Str("s")}
    [] kind = "part"                -> Parts
    [] kind = "input"               -> [text : {"", "s"}, parts : {<< >>} \cup {<<p>> : p \in Parts}]
    [] kind = "ToolCallFunction"    -> [name : {"", "s"}, arguments : {Nil, "", "s"}]
    [] kind = "SubagentEventPayload" -> [type : {"", "s"}, payload : {Nil, Null, Str("s")}]
    [] kind = "ToolReturnValue"     ->
         [is_error : {""}, output : [text : {"", "s"}, parts : {<< >>} \cup {<<p>> : p \in Parts}],
          message : {"s"}, display : {Nil, << >>}, extras : {Nil, Null}]

Values(types) ==
  UNION {LET zero == [k \in DOMAIN types[t] |-> Zero(types[t][k])] IN
         {[type |-> t, v |-> zero]} \cup
         UNION {{[type |-> t, v |-> [zero EXCEPT ![k] = c]] : c \in FieldValues(types[t][k])}
                  : k \in DOMAIN types[t]}
           : t \in DOMAIN types}

MCMessages == {[kind |-> "event", v |-> e] : e \in Values(EventTypes)}
                \cup {[kind |-> "request", v |-> r] : r \in Values(RequestTypes)}

-----------------------------------------------------------------------------
(***************************************************************************)
(* Foreign lines, with members of the right JSON type and of wrong ones.   *)
(***************************************************************************)
PartLines == {Obj([type |-> Str(t), text |-> c]) : t \in {"text", "audio"},
                c \in {Null, Other, Str("s"), Obj([text |-> Str("s")])}}
  \cup {Obj([type |-> Str(t), think |-> c]) : t \in {"think", "audio"},
                c \in {Null, Other, Str("s"), Obj([think |-> Str("s"), encrypted |-> Str("s")])}}
Members == {Null, Other, Str("s"), Obj(Empty), Arr(<< >>), Arr(<<Other>>)}
             \cup {Arr(<<p>>) : p \in PartLines}

\* A payload that is missing, no object, or an object with at most one member of the type.
Payloads(types, t) ==
  {Nil, Null, Other, Obj(Empty), Obj([type |-> Str("function")])}
    \cup UNION {{Obj([x \in {k} |-> c]) : c \in Members} : k \in DOMAIN types[t]}

Params(types) ==
  {Null, Other, Obj(Empty), Obj([type |-> Str("Unknown"), payload |-> Null])}
    \cup UNION {{Obj(IF p = Nil THEN [type |-> Str(t)] ELSE [type |-> Str(t), payload |-> p])
                   : p \in Payloads(types, t) \cup (IF t = "ContentPart" THEN PartLines ELSE {})}
                  : t \in DOMAIN types}

MCForeign ==
  {Raw("event", p) : p \in Params(EventTypes)} \cup {Raw("request", p) : p \in Params(RequestTypes)}
    \cup [jsonrpc : {"", "2.0"}, method : {"", "event", "prompt"}, params : {Nil, Null},
          result : {Nil, Null, Str("s")}, error : {Nil, Str("s")}]

\* The values in these lines.
Names == {"s", "Unknown", "function", "text", "think", "audio"} \cup DOMAIN EventTypes \cup DOMAIN RequestTypes
Within(types) == Params(types) \cup UNION {Payloads(types, t) \ {Nil} : t \in DOMAIN types}
LineValues ==
  Within(EventTypes) \cup Within(RequestTypes) \cup Members \cup PartLines
    \cup {Str(s) : s \in Names} \cup {Obj([text |-> Str("s")]), Obj([think |-> Str("s"), encrypted |-> Str("s")])}

MCJSON    == LineValues
MCScalars == STRING

-----------------------------------------------------------------------------
MCInit ==
  /\ Init /\ RelayInit
  /\ \/ which = "relay"
     \/ which = "handshake" /\ line = Raw("", Nil)

RelayStep     == which = "relay" /\ RelayNext /\ UNCHANGED <<which, vars>>
HandshakeStep == which = "handshake" /\ Next /\ UNCHANGED <<which, relayVars>>

MCSpec == MCInit /\ [][RelayStep \/ HandshakeStep]_<<vars, which, relayVars>>
=============================================================================
