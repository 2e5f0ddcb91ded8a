------------------------------ MODULE WireLines ------------------------------
(***************************************************************************)
(* The lines a server writes to its client, reduced to what tells them     *)
(* apart: an event or a reply, the request it belongs to and, for a reply, *)
(* the kind of answer.  A client request is named by its position in the   *)
(* order in which the server reads requests.                               *)
(***************************************************************************)
EXTENDS Naturals, Sequences

CONSTANT MaxReqs     \* bound: requests the client sends

ASSUME MaxReqsAssumption == MaxReqs \in Nat \ {0}

Reqs == 1..MaxReqs
None == 0           \* nil

\* The methods dispatch knows, and "other" for every name it does not.
Methods == {"initialize", "prompt", "steer", "cancel", "replay",
            "set_plan_mode", "other"}

\* A result, or an error by its code and message.
Answers == {"ok", "cancelled", "agent_error", "internal_error",
            "turn_in_progress", "no_turn", "invalid_params",
            "invalid_request", "method_not_found", "plan_mode_unsupported"}

TurnBegin(r)  == [tag |-> "TurnBegin",  req |-> r,    answer |-> "none"]
TurnEnd(r)    == [tag |-> "TurnEnd",    req |-> r,    answer |-> "none"]
AgentEvent(r) == [tag |-> "Event",      req |-> r,    answer |-> "none"]
Reply(r, a)   == [tag |-> "Reply",      req |-> r,    answer |-> a]
ParseError    == [tag |-> "ParseError", req |-> None, answer |-> "none"]

Lines == [tag : {"TurnBegin", "TurnEnd", "Event", "Reply", "ParseError"},
          req : Reqs \cup {None}, answer : Answers \cup {"none"}]

\* What a history of lines says of request r.
Has(wire, line)      == \E i \in DOMAIN wire : wire[i] = line
RepliedIn(wire, r)   == \E i \in DOMAIN wire : wire[i].tag = "Reply" /\ wire[i].req = r
OpenIn(wire, r)      == Has(wire, TurnBegin(r)) /\ ~Has(wire, TurnEnd(r))
=============================================================================
