----------------------------- MODULE TurnProtocol -----------------------------
(***************************************************************************)
(* What a Wire server promises the client that reads its lines: a history  *)
(* of requests and of lines, and the lines that may come next.             *)
(*                                                                         *)
(*   A turn is a frame TurnBegin .. TurnEnd, frames do not overlap, the    *)
(*   events of a turn lie inside its frame, and its reply comes after it.  *)
(*   No frame is open when a cancel is acknowledged or while a replay      *)
(*   emits.  A request is answered at most once.                           *)
(*                                                                         *)
(* Once the server is going down (its context is cancelled or it was       *)
(* closed) lines can be lost, and only the last promise remains.           *)
(***************************************************************************)
EXTENDS WireLines

VARIABLES method,   \* method of each request the server has read, or "none"
          wire,     \* lines written, oldest first
          down      \* the server is shutting down

protocolVars == <<method, wire, down>>

NoFrameOpen == \A r \in Reqs : ~OpenIn(wire, r)

MayBegin(r) == NoFrameOpen /\ ~Has(wire, TurnBegin(r)) /\ ~RepliedIn(wire, r)
MayEnd(r)   == OpenIn(wire, r)
MayEmit(r)  == /\ method[r] = "prompt" => OpenIn(wire, r)
               /\ method[r] = "replay" => NoFrameOpen /\ ~RepliedIn(wire, r)
MayReply(r, a) == /\ ~RepliedIn(wire, r)
                  /\ down \/ ~OpenIn(wire, r)
                  /\ method[r] = "cancel" /\ a = "ok" => down \/ NoFrameOpen

Write(line) == wire' = Append(wire, line) /\ UNCHANGED <<method, down>>

Ask(r, m) ==
  /\ method[r] = "none"
  /\ method' = [method EXCEPT ![r] = m]
  /\ UNCHANGED <<wire, down>>

Begin(r)    == (down \/ MayBegin(r)) /\ Write(TurnBegin(r))
End(r)      == (down \/ MayEnd(r)) /\ Write(TurnEnd(r))
Emit(r)     == (down \/ MayEmit(r)) /\ Write(AgentEvent(r))
Answer(r)   == \E a \in Answers : MayReply(r, a) /\ Write(Reply(r, a))
Complain    == Write(ParseError)
GoDown      == ~down /\ down' = TRUE /\ UNCHANGED <<method, wire>>

Init == method = [r \in Reqs |-> "none"] /\ wire = <<>> /\ down = FALSE

Next ==
  \/ Complain \/ GoDown
  \/ \E r \in Reqs : Begin(r) \/ End(r) \/ Emit(r) \/ Answer(r)
  \/ \E r \in Reqs, m \in Methods : Ask(r, m)

Spec == Init /\ [][Next]_protocolVars
=============================================================================
