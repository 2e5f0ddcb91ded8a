------------------------------ MODULE WireServer ------------------------------
(***************************************************************************)
(* The Wire protocol server (server/server.go, server/turn.go): one call   *)
(* of Serve with its goroutines                                            *)
(*                                                                         *)
(*   Serve      waits for readLoop, cancels, clears the active turn;       *)
(*   readLoop   reads lines, pushes requests on dispatchCh;                *)
(*   serveLoop  takes requests from dispatchCh and runs their handlers;    *)
(*   one goroutine per accepted prompt (Agent.Prompt, then endTurn) and    *)
(*              per accepted replay (Agent.Replay, then its defers).       *)
(*                                                                         *)
(* A step is what one goroutine does between two points where another can  *)
(* observe it: a section under s.mu, a channel operation or one WriteLine. *)
(* Incoming requests are numbered in the order readLoop reads them, and a  *)
(* turn or a replay is named by the request that started it.  The requests *)
(* the server sends to the client are in module ServerRequests.            *)
(***************************************************************************)
EXTENDS WireLines, FiniteSets

CONSTANTS
  MaxEmits,        \* bound: events emitted on behalf of one request
  MaxGarbage,      \* bound: error replies to unparsable lines
  DispatchCap,     \* capacity of dispatchCh (1024 in the code)
  ClientMethods,   \* methods the client uses
  AgentCaps,       \* optional interfaces the agent implements
  AgentOutcomes,   \* how Agent.Prompt and Agent.Replay may end
  Faults,          \* what may go wrong or stop the server (see Mishaps)
  WriteHonoursCtx, \* WriteLine always fails once its context is done
                   \* (InMemoryTransport, ChildProcessTransport); FALSE for
                   \* ChannelTransport, whose select picks a ready case
  ReadHonoursCtx   \* a blocked ReadLine returns once its context is done
                   \* (InMemoryTransport, ChannelTransport); FALSE for
                   \* ChildProcessTransport and the stdio example

Capabilities == {"steer", "replay", "plan_mode"}

\* How Agent.Prompt or Agent.Replay ends: a result, context.Canceled, or any
\* other error (a recovered panic is turned into one).
Outcomes == {"ok", "canceled", "err"}

\* Params that do not parse; the peer hangs up or ReadLine fails; the caller
\* cancels Serve's context; Close is called; WriteLine fails at any time (full
\* buffer, I/O error).
Mishaps == {"bad_params", "hangup", "ctx", "close", "write"}

ASSUME ServerAssumption ==
  /\ MaxEmits \in Nat /\ MaxGarbage \in Nat
  /\ DispatchCap \in Nat \ {0}
  /\ ClientMethods \subseteq Methods
  /\ AgentCaps \subseteq Capabilities
  /\ AgentOutcomes \subseteq Outcomes /\ AgentOutcomes # {}
  /\ Faults \subseteq Mishaps
  /\ WriteHonoursCtx \in BOOLEAN /\ ReadHonoursCtx \in BOOLEAN

VARIABLES
  ctxDone,        \* serveCtx is cancelled
  closed,         \* Close has closed the transport
  readPc,         \* readLoop: "read", "push" or "done" (readDone closed)
  nread,          \* requests read so far; while "push", the one being pushed
  method,         \* method of each request read
  dispatchCh,     \* requests waiting for serveLoop
  loopPc,         \* where serveLoop is
  loopReq,        \* the request serveLoop took last
  loopOp,         \* operation captured by handleCancel or handleSteer
  loopTurn,       \* turn captured by handleCancel
  loopOut,        \* the answer serveLoop is about to write
  servePc,        \* where Serve is
  serveOp,        \* operation captured by clearActiveTurn
  handshakeDone,
  planMode,       \* clientCaps.SupportsPlanMode
  activeTurn,
  activeOp,
  opPc,           \* where the goroutine of each prompt or replay is
  opResult,       \* how its agent call ended, then the answer it will write
  opCancel,       \* its own context was cancelled
  opDone,         \* its done channel is closed
  cancelled,      \* turn.cancelled
  steerCh,        \* number of inputs buffered in turn.steerCh
  wire            \* lines written to the client, oldest first

readVars  == <<readPc, nread, method>>
loopVars  == <<loopPc, loopReq, loopOp, loopTurn, loopOut>>
serveVars == <<servePc, serveOp>>
shakeVars == <<handshakeDone, planMode>>
slotVars  == <<activeTurn, activeOp>>
opVars    == <<opPc, opResult, opCancel, opDone, cancelled, steerCh>>
vars == <<ctxDone, closed, readVars, dispatchCh, loopVars, serveVars,
          shakeVars, slotVars, opVars, wire>>

-----------------------------------------------------------------------------
(***************************************************************************)
(* The transport as the server sees it.                                    *)
(***************************************************************************)
Answered(r) == RepliedIn(wire, r)

\* WriteLine(serveCtx, line) can return nil ...
CanWrite == ~closed /\ (WriteHonoursCtx => ~ctxDone)
\* ... and it can return an error.
CanFail  == closed \/ ctxDone \/ "write" \in Faults

WriteLine(line) == CanWrite /\ wire' = Append(wire, line)
WriteFails      == CanFail /\ UNCHANGED wire
\* A write whose error is only logged.
TryWrite(line)  == WriteLine(line) \/ WriteFails

-----------------------------------------------------------------------------
(***************************************************************************)
(* readLoop.                                                               *)
(***************************************************************************)
ReadRequest(m) ==
  /\ readPc = "read" /\ nread < MaxReqs
  /\ nread' = nread + 1
  /\ readPc' = "push"
  /\ method' = [method EXCEPT ![nread'] = m]
  /\ UNCHANGED <<ctxDone, closed, dispatchCh, loopVars, serveVars,
                 shakeVars, slotVars, opVars, wire>>

\* A line that does not parse is answered from readLoop, without an id.
ReadGarbage ==
  /\ readPc = "read"
  /\ Cardinality({i \in DOMAIN wire : wire[i] = ParseError}) < MaxGarbage
  /\ TryWrite(ParseError)
  /\ UNCHANGED <<ctxDone, closed, readVars, dispatchCh, loopVars, serveVars,
                 shakeVars, slotVars, opVars>>

ReadEnds ==
  /\ readPc = "read"
  /\ readPc' = "done"
  /\ UNCHANGED <<ctxDone, closed, nread, method, dispatchCh, loopVars, serveVars,
                 shakeVars, slotVars, opVars, wire>>

\* The peer closes its end, or the read fails.
ReadFails == "hangup" \in Faults /\ ReadEnds
\* ReadLine sees that its context is cancelled.
ReadCancelled == ctxDone /\ ReadEnds
\* Our own end was closed by Close.
ReadClosed == closed /\ ReadEnds

Push ==
  /\ readPc = "push" /\ Len(dispatchCh) < DispatchCap
  /\ dispatchCh' = Append(dispatchCh, nread)
  /\ readPc' = "read"
  /\ UNCHANGED <<ctxDone, closed, nread, method, loopVars, serveVars,
                 shakeVars, slotVars, opVars, wire>>

\* Mutant: the push on dispatchCh does not watch serveCtx.
PushAborted_Missing == FALSE /\ UNCHANGED vars

\* serveCtx.Done while pushing.
PushAborted ==
  /\ readPc = "push" /\ ctxDone
  /\ readPc' = "done"
  /\ UNCHANGED <<ctxDone, closed, nread, method, dispatchCh, loopVars,
                 serveVars, shakeVars, slotVars, opVars, wire>>

-----------------------------------------------------------------------------
(***************************************************************************)
(* serveLoop.  A handler runs from the receive on dispatchCh to its first  *)
(* blocking point in one step; the answer is written in a step of its own. *)
(***************************************************************************)
Take(m) ==
  /\ loopPc = "select" /\ dispatchCh # <<>>
  /\ method[Head(dispatchCh)] = m
  /\ dispatchCh' = Tail(dispatchCh)
  /\ loopReq' = Head(dispatchCh)
  /\ UNCHANGED <<ctxDone, closed, readVars, serveVars, wire>>

Answer(a) == loopPc' = "reply" /\ loopOut' = a /\ UNCHANGED <<loopOp, loopTurn>>

Goto(pc)  == loopPc' = pc /\ UNCHANGED loopOut

\* json.Unmarshal of the params fails.
BadParams == "bad_params" \in Faults

Busy == activeTurn # None \/ activeOp # None

HandleInitialize ==
  /\ Take("initialize")
  /\ \/ /\ handshakeDone
        /\ Answer("invalid_request") /\ UNCHANGED shakeVars
     \/ /\ ~handshakeDone
        /\ BadParams /\ Answer("invalid_params") /\ UNCHANGED shakeVars
     \/ /\ ~handshakeDone
        /\ handshakeDone' = TRUE /\ planMode' \in BOOLEAN
        /\ Answer("ok")
  /\ UNCHANGED <<slotVars, opVars>>

\* Mutant: a prompt looks at activeTurn only and not at a running replay.
HandlePrompt_TurnOnly ==
  /\ Take("prompt")
  /\ \/ BadParams /\ Answer("invalid_params") /\ UNCHANGED slotVars
     \/ activeTurn # None /\ Answer("turn_in_progress") /\ UNCHANGED slotVars
     \/ /\ activeTurn = None
        /\ activeTurn' = loopReq' /\ activeOp' = loopReq'
        /\ Goto("emit_begin") /\ UNCHANGED <<loopOp, loopTurn>>
  /\ UNCHANGED <<shakeVars, opVars>>

HandlePrompt ==
  /\ Take("prompt")
  /\ \/ BadParams /\ Answer("invalid_params") /\ UNCHANGED slotVars
     \/ Busy /\ Answer("turn_in_progress") /\ UNCHANGED slotVars
     \/ /\ ~Busy
        /\ activeTurn' = loopReq' /\ activeOp' = loopReq'
        /\ Goto("emit_begin") /\ UNCHANGED <<loopOp, loopTurn>>
  /\ UNCHANGED <<shakeVars, opVars>>

\* Mutant: no return after TurnBegin could not be written, so the turn is
\* reported as failed and its goroutine started nevertheless.
EmitTurnBegin_NoReturn ==
  /\ loopPc = "emit_begin"
  /\ opPc' = [opPc EXCEPT ![loopReq] = "agent"]
  /\ \/ WriteLine(TurnBegin(loopReq)) /\ Goto("select")
     \/ WriteFails /\ loopPc' = "reply" /\ loopOut' = "internal_error"
  /\ UNCHANGED <<ctxDone, closed, readVars, dispatchCh, loopReq, loopOp, loopTurn,
                 serveVars, shakeVars, slotVars, opResult, opCancel, opDone, cancelled,
                 steerCh>>

\* The TurnBegin event is written by serveLoop; only then is the turn's
\* goroutine started.  If it cannot be written, serveLoop runs endTurn itself.
EmitTurnBegin ==
  /\ loopPc = "emit_begin"
  /\ \/ /\ WriteLine(TurnBegin(loopReq))
        /\ opPc' = [opPc EXCEPT ![loopReq] = "agent"]
        /\ Goto("select") /\ UNCHANGED opResult
     \/ /\ WriteFails
        /\ opPc' = [opPc EXCEPT ![loopReq] = "emit_end"]
        /\ \E o \in {"canceled", "err"} :
             /\ o = "canceled" => ctxDone
             /\ opResult' = [opResult EXCEPT ![loopReq] = o]
        /\ Goto("end_turn")
  /\ UNCHANGED <<ctxDone, closed, readVars, dispatchCh, loopReq, loopOp, loopTurn,
                 serveVars, shakeVars, slotVars, opCancel, opDone, cancelled,
                 steerCh>>

EndTurnReturns ==
  /\ loopPc = "end_turn" /\ opPc[loopReq] = "finished"
  /\ Goto("select")
  /\ UNCHANGED <<ctxDone, closed, readVars, dispatchCh, loopReq, loopOp, loopTurn,
                 serveVars, shakeVars, slotVars, opVars, wire>>

HandleSteer ==
  /\ Take("steer")
  /\ \/ "steer" \notin AgentCaps /\ Answer("method_not_found")
     \/ "steer" \in AgentCaps /\ BadParams /\ Answer("invalid_params")
     \/ "steer" \in AgentCaps /\ activeTurn = None /\ Answer("no_turn")
     \/ /\ "steer" \in AgentCaps /\ activeTurn # None
        /\ loopOp' = activeTurn
        /\ Goto("steer_send") /\ UNCHANGED loopTurn
  /\ UNCHANGED <<shakeVars, slotVars, opVars>>

\* A turn's (or a replay's) context is a child of serveCtx.
OpCtxDone(r) == ctxDone \/ opCancel[r]

SteerSend ==
  /\ loopPc = "steer_send" /\ steerCh[loopOp] < 1
  /\ steerCh' = [steerCh EXCEPT ![loopOp] = @ + 1]
  /\ Goto("steer_call")
  /\ UNCHANGED <<ctxDone, closed, readVars, dispatchCh, loopReq, loopOp, loopTurn,
                 serveVars, shakeVars, slotVars, opPc, opResult, opCancel, opDone,
                 cancelled, wire>>

LoopAnswers(a) ==
  /\ Answer(a)
  /\ UNCHANGED <<ctxDone, closed, readVars, dispatchCh, loopReq, serveVars,
                 shakeVars, slotVars, opVars, wire>>

SteerTooLate == loopPc = "steer_send" /\ OpCtxDone(loopOp) /\ LoopAnswers("no_turn")

SteerReturns ==
  loopPc = "steer_call" /\ (LoopAnswers("ok") \/ LoopAnswers("internal_error"))

HandleCancel ==
  /\ Take("cancel")
  /\ \/ activeOp = None /\ Answer("no_turn")
     \/ /\ activeOp # None
        /\ loopOp' = activeOp /\ loopTurn' = activeTurn
        /\ Goto("cancel_mark")
  /\ UNCHANGED <<shakeVars, slotVars, opVars>>

\* Mutant: the turn is marked cancelled but its context is not cancelled.
CancelMark_NoCancel ==
  /\ loopPc = "cancel_mark"
  /\ cancelled' = IF loopTurn # None
                    THEN [cancelled EXCEPT ![loopTurn] = TRUE] ELSE cancelled
  /\ Goto("cancel_wait")
  /\ UNCHANGED <<ctxDone, closed, readVars, dispatchCh, loopReq, loopOp, loopTurn,
                 serveVars, shakeVars, slotVars, opPc, opResult, opCancel, opDone,
                 steerCh, wire>>

CancelMark ==
  /\ loopPc = "cancel_mark"
  /\ cancelled' = IF loopTurn # None
                    THEN [cancelled EXCEPT ![loopTurn] = TRUE] ELSE cancelled
  /\ opCancel' = [opCancel EXCEPT ![loopOp] = TRUE]
  /\ Goto("cancel_wait")
  /\ UNCHANGED <<ctxDone, closed, readVars, dispatchCh, loopReq, loopOp, loopTurn,
                 serveVars, shakeVars, slotVars, opPc, opResult, opDone, steerCh,
                 wire>>

\* Mutant: a cancel is acknowledged without waiting for op.done.
CancelDone_NoWait == loopPc = "cancel_wait" /\ LoopAnswers("ok")

CancelDone ==
  loopPc = "cancel_wait" /\ opDone[loopOp] /\ LoopAnswers("ok")

CancelShutdown ==
  loopPc = "cancel_wait" /\ ctxDone /\ LoopAnswers("internal_error")

HandleReplay ==
  /\ Take("replay")
  /\ \/ "replay" \notin AgentCaps /\ Answer("method_not_found")
        /\ UNCHANGED <<slotVars, opPc>>
     \/ "replay" \in AgentCaps /\ Busy /\ Answer("turn_in_progress")
        /\ UNCHANGED <<slotVars, opPc>>
     \/ /\ "replay" \in AgentCaps /\ ~Busy
        /\ activeOp' = loopReq' /\ UNCHANGED activeTurn
        /\ opPc' = [opPc EXCEPT ![loopReq'] = "agent"]
        /\ Goto("select") /\ UNCHANGED <<loopOp, loopTurn>>
  /\ UNCHANGED <<shakeVars, opResult, opCancel, opDone, cancelled, steerCh>>

HandleSetPlanMode ==
  /\ Take("set_plan_mode")
  /\ \/ ~planMode /\ Answer("plan_mode_unsupported")
     \/ planMode /\ "plan_mode" \notin AgentCaps /\ Answer("method_not_found")
     \/ planMode /\ "plan_mode" \in AgentCaps /\ BadParams
        /\ Answer("invalid_params")
     \/ /\ planMode /\ "plan_mode" \in AgentCaps
        /\ Goto("plan_call") /\ UNCHANGED <<loopOp, loopTurn>>
  /\ UNCHANGED <<shakeVars, slotVars, opVars>>

\* SetPlanMode is given the server as its Emitter and runs in serveLoop.
PlanEmits ==
  /\ loopPc = "plan_call" /\ CanWrite
  /\ Cardinality({i \in DOMAIN wire : wire[i] = AgentEvent(loopReq)}) < MaxEmits
  /\ wire' = Append(wire, AgentEvent(loopReq))
  /\ UNCHANGED <<ctxDone, closed, readVars, dispatchCh, loopVars, serveVars,
                 shakeVars, slotVars, opVars>>

PlanReturns ==
  loopPc = "plan_call" /\ (LoopAnswers("ok") \/ LoopAnswers("internal_error"))

HandleOther ==
  /\ Take("other") /\ Answer("method_not_found")
  /\ UNCHANGED <<shakeVars, slotVars, opVars>>

LoopReply ==
  /\ loopPc = "reply"
  /\ TryWrite(Reply(loopReq, loopOut))
  /\ Goto("select")
  /\ UNCHANGED <<ctxDone, closed, readVars, dispatchCh, loopReq, loopOp, loopTurn,
                 serveVars, shakeVars, slotVars, opVars>>

\* dispatchCh is never closed, so serveCtx is the only way out of the loop.
LoopExit ==
  /\ loopPc = "select" /\ ctxDone
  /\ Goto("done")
  /\ UNCHANGED <<ctxDone, closed, readVars, dispatchCh, loopReq, loopOp, loopTurn,
                 serveVars, shakeVars, slotVars, opVars, wire>>

-----------------------------------------------------------------------------
(***************************************************************************)
(* The goroutine of a prompt or a replay.  The agent is free to do         *)
(* anything until it returns.                                              *)
(***************************************************************************)
IsTurn(r) == method[r] = "prompt"

OpStep(r, from, to) ==
  /\ opPc[r] = from /\ opPc' = [opPc EXCEPT ![r] = to]
  /\ UNCHANGED <<ctxDone, closed, readVars, dispatchCh, loopVars, serveVars,
                 shakeVars>>

\* Turn.Emit and Server.Emit write with the agent's own context.
AgentEmits(r) ==
  /\ ~closed
  /\ Cardinality({i \in DOMAIN wire : wire[i] = AgentEvent(r)}) < MaxEmits
  /\ OpStep(r, "agent", "agent")
  /\ wire' = Append(wire, AgentEvent(r))
  /\ UNCHANGED <<slotVars, opResult, opCancel, opDone, cancelled, steerCh>>

\* Turn.SteerInput receives a buffered input.
AgentSteerInput(r) ==
  /\ steerCh[r] > 0
  /\ OpStep(r, "agent", "agent")
  /\ steerCh' = [steerCh EXCEPT ![r] = @ - 1]
  /\ UNCHANGED <<slotVars, opResult, opCancel, opDone, cancelled, wire>>

ReplayAnswer(o) == CASE o = "canceled" -> "cancelled"
                     [] o = "err"      -> "internal_error"
                     [] OTHER          -> "ok"

AgentReturns(r, o) ==
  /\ IF IsTurn(r)
       THEN OpStep(r, "agent", "emit_end") /\ opResult' = [opResult EXCEPT ![r] = o]
       ELSE OpStep(r, "agent", "reply")
            /\ opResult' = [opResult EXCEPT ![r] = ReplayAnswer(o)]
  /\ UNCHANGED <<slotVars, opCancel, opDone, cancelled, steerCh, wire>>

\* endTurn: TurnEnd; close; free the slot; read turn.cancelled; answer.
TurnEmitEnd(r) ==
  /\ OpStep(r, "emit_end", "close")
  /\ TryWrite(TurnEnd(r))
  /\ UNCHANGED <<slotVars, opResult, opCancel, opDone, cancelled, steerCh>>

\* Mutant: the turn is answered before the slot is free.
TurnClose_Answers(r) ==
  /\ IsTurn(r) /\ OpStep(r, "close", "clear")
  /\ opCancel' = [opCancel EXCEPT ![r] = TRUE]
  /\ opDone' = [opDone EXCEPT ![r] = TRUE]
  /\ TryWrite(Reply(r, "ok"))
  /\ UNCHANGED <<slotVars, opResult, cancelled, steerCh>>

TurnClose(r) ==
  /\ IsTurn(r) /\ OpStep(r, "close", "clear")
  /\ opCancel' = [opCancel EXCEPT ![r] = TRUE]
  /\ opDone' = [opDone EXCEPT ![r] = TRUE]
  /\ UNCHANGED <<slotVars, opResult, cancelled, steerCh, wire>>

TurnClear(r) ==
  /\ IsTurn(r) /\ OpStep(r, "clear", "decide")
  /\ IF activeTurn = r THEN activeTurn' = None /\ activeOp' = None
                       ELSE UNCHANGED slotVars
  /\ UNCHANGED <<opResult, opCancel, opDone, cancelled, steerCh, wire>>

PromptAnswer(o, wasCancelled) ==
  CASE wasCancelled \/ o = "canceled" -> "cancelled"
    [] ~wasCancelled /\ o = "err"     -> "agent_error"
    [] OTHER                          -> "ok"

TurnDecide(r) ==
  /\ OpStep(r, "decide", "reply")
  /\ opResult' = [opResult EXCEPT ![r] = PromptAnswer(@, cancelled[r])]
  /\ UNCHANGED <<slotVars, opCancel, opDone, cancelled, steerCh, wire>>

\* Mutant: no return after the error reply, so the result follows it.
OpReply_FallsThrough(r) ==
  /\ OpStep(r, "reply", IF IsTurn(r) THEN "finished" ELSE "clear")
  /\ \/ WriteFails
     \/ WriteLine(Reply(r, opResult[r]))
     \/ opResult[r] = "internal_error" /\ CanWrite
        /\ wire' = wire \o <<Reply(r, opResult[r]), Reply(r, "ok")>>
  /\ UNCHANGED <<slotVars, opResult, opCancel, opDone, cancelled, steerCh>>

\* A turn is finished once it has answered; a replay answers first and then
\* runs its deferred functions, which free the slot and close done.
OpReply(r) ==
  /\ OpStep(r, "reply", IF IsTurn(r) THEN "finished" ELSE "clear")
  /\ TryWrite(Reply(r, opResult[r]))
  /\ UNCHANGED <<slotVars, opResult, opCancel, opDone, cancelled, steerCh>>

ReplayClear(r) ==
  /\ ~IsTurn(r) /\ OpStep(r, "clear", "close")
  /\ activeOp' = IF activeOp = r THEN None ELSE activeOp
  /\ UNCHANGED <<activeTurn, opResult, opCancel, opDone, cancelled, steerCh, wire>>

ReplayClose(r) ==
  /\ ~IsTurn(r) /\ OpStep(r, "close", "finished")
  /\ opDone' = [opDone EXCEPT ![r] = TRUE]
  /\ UNCHANGED <<slotVars, opResult, opCancel, cancelled, steerCh, wire>>

-----------------------------------------------------------------------------
(***************************************************************************)
(* Serve, its caller's context, and Close.                                 *)
(***************************************************************************)
ServeCancels ==
  /\ servePc = "wait_read" /\ readPc = "done"
  /\ ctxDone' = TRUE
  /\ servePc' = "clear"
  /\ UNCHANGED <<closed, readVars, dispatchCh, loopVars, serveOp, shakeVars,
                 slotVars, opVars, wire>>

\* clearActiveTurn: take the slot, cancel its operation and wait for it.
ClearActiveTurn ==
  /\ servePc = "clear"
  /\ serveOp' = activeOp
  /\ activeTurn' = None /\ activeOp' = None
  /\ IF activeOp # None
       THEN servePc' = "wait_op" /\ opCancel' = [opCancel EXCEPT ![activeOp] = TRUE]
       ELSE servePc' = "wait_loop" /\ UNCHANGED opCancel
  /\ UNCHANGED <<ctxDone, closed, readVars, dispatchCh, loopVars, shakeVars, opPc,
                 opResult, opDone, cancelled, steerCh, wire>>

ServeStep(from, to) ==
  /\ servePc = from /\ servePc' = to
  /\ UNCHANGED <<ctxDone, closed, readVars, dispatchCh, loopVars, serveOp,
                 shakeVars, slotVars, opVars, wire>>

OpWaited    == ServeStep("wait_op", "wait_loop") /\ opDone[serveOp]
WaitTimeout == ServeStep("wait_op", "wait_loop")   \* time.After(10 s)
ServeReturns == ServeStep("wait_loop", "returned") /\ loopPc = "done"

CtxCancel ==
  /\ "ctx" \in Faults /\ ~ctxDone /\ ctxDone' = TRUE
  /\ UNCHANGED <<closed, readVars, dispatchCh, loopVars, serveVars, shakeVars,
                 slotVars, opVars, wire>>

Close ==
  /\ "close" \in Faults /\ ~closed /\ closed' = TRUE
  /\ UNCHANGED <<ctxDone, readVars, dispatchCh, loopVars, serveVars, shakeVars,
                 slotVars, opVars, wire>>

-----------------------------------------------------------------------------
Init ==
  /\ ctxDone = FALSE /\ closed = FALSE
  /\ readPc = "read" /\ nread = 0
  /\ method = [r \in Reqs |-> "none"]
  /\ dispatchCh = <<>>
  /\ loopPc = "select" /\ loopReq = None /\ loopOp = None /\ loopTurn = None
  /\ loopOut = "none"
  /\ servePc = "wait_read" /\ serveOp = None
  /\ handshakeDone = FALSE /\ planMode = FALSE
  /\ activeTurn = None /\ activeOp = None
  /\ opPc = [r \in Reqs |-> "none"]
  /\ opResult = [r \in Reqs |-> "none"]
  /\ opCancel = [r \in Reqs |-> FALSE]
  /\ opDone = [r \in Reqs |-> FALSE]
  /\ cancelled = [r \in Reqs |-> FALSE]
  /\ steerCh = [r \in Reqs |-> 0]
  /\ wire = <<>>

ReadLoop ==
  \/ \E m \in ClientMethods : ReadRequest(m)
  \/ ReadGarbage \/ ReadFails \/ ReadCancelled \/ ReadClosed
  \/ Push \/ PushAborted

Dispatch ==
  \/ HandleInitialize \/ HandlePrompt \/ HandleSteer \/ HandleCancel
  \/ HandleReplay \/ HandleSetPlanMode \/ HandleOther

\* The steps of serveLoop that wait for neither the agent nor the client.
LoopStep ==
  \/ EmitTurnBegin \/ EndTurnReturns \/ SteerSend \/ SteerTooLate
  \/ CancelMark \/ CancelDone \/ CancelShutdown \/ LoopReply \/ LoopExit

ServeLoop == Dispatch \/ LoopStep \/ SteerReturns \/ PlanEmits \/ PlanReturns

EndOp(r) ==
  \/ TurnEmitEnd(r) \/ TurnClose(r) \/ TurnClear(r) \/ TurnDecide(r)
  \/ OpReply(r) \/ ReplayClear(r) \/ ReplayClose(r)

AgentRuns(r) ==
  AgentEmits(r) \/ AgentSteerInput(r) \/ \E o \in AgentOutcomes : AgentReturns(r, o)

Serve == ServeCancels \/ ClearActiveTurn \/ OpWaited \/ WaitTimeout \/ ServeReturns

\* Serve has returned, or waits for a client that has nothing left to send,
\* and every operation has ended.
Terminated ==
  /\ \/ servePc = "returned"
     \/ readPc = "read" /\ nread = MaxReqs /\ dispatchCh = <<>> /\ loopPc = "select"
  /\ \A r \in Reqs : opPc[r] \in {"none", "finished"}
  /\ UNCHANGED vars

Next ==
  \/ ReadLoop \/ ServeLoop \/ Serve \/ CtxCancel \/ Close \/ Terminated
  \/ \E r \in Reqs : EndOp(r) \/ AgentRuns(r)

Spec == Init /\ [][Next]_vars

-----------------------------------------------------------------------------
(***************************************************************************)
(* Fairness.  Goroutines that can run do run, and a blocked select is      *)
(* served.  Agent.Prompt and Agent.Replay owe nothing until the context    *)
(* they were given is done, and then return; Steer and SetPlanMode, which  *)
(* serveLoop calls directly, return.  Nothing is asked of the client, of   *)
(* the caller of Serve or of Close.                                        *)
(***************************************************************************)
AgentObeysCtx(r) == OpCtxDone(r) /\ \E o \in AgentOutcomes : AgentReturns(r, o)

Fairness ==
  /\ WF_vars(Push \/ PushAborted) /\ WF_vars(ReadClosed)
  /\ ReadHonoursCtx => WF_vars(ReadCancelled)
  /\ WF_vars(Dispatch \/ LoopStep) /\ WF_vars(SteerReturns) /\ WF_vars(PlanReturns)
  /\ \A r \in Reqs : WF_vars(EndOp(r)) /\ WF_vars(AgentObeysCtx(r))
  /\ WF_vars(Serve)

FairSpec == Spec /\ Fairness

-----------------------------------------------------------------------------
(***************************************************************************)
(* Properties.                                                             *)
(***************************************************************************)
OpPcs == {"none", "agent", "emit_end", "close", "clear", "decide", "reply",
          "finished"}

\* Every variable has its type; turn.steerCh never holds more than one input
\* and dispatchCh no more than its capacity.
TypeOK ==
  /\ ctxDone \in BOOLEAN /\ closed \in BOOLEAN
  /\ readPc \in {"read", "push", "done"} /\ nread \in 0..MaxReqs
  /\ method \in [Reqs -> Methods \cup {"none"}]
  /\ dispatchCh \in Seq(Reqs) /\ Len(dispatchCh) <= DispatchCap
  /\ loopPc \in {"select", "reply", "emit_begin", "end_turn", "steer_send",
                 "steer_call", "cancel_mark", "cancel_wait", "plan_call", "done"}
  /\ loopReq \in Reqs \cup {None} /\ loopOp \in Reqs \cup {None}
  /\ loopTurn \in Reqs \cup {None} /\ loopOut \in Answers \cup {"none"}
  /\ servePc \in {"wait_read", "clear", "wait_op", "wait_loop", "returned"}
  /\ serveOp \in Reqs \cup {None}
  /\ handshakeDone \in BOOLEAN /\ planMode \in BOOLEAN
  /\ activeTurn \in Reqs \cup {None} /\ activeOp \in Reqs \cup {None}
  /\ opPc \in [Reqs -> OpPcs]
  /\ opResult \in [Reqs -> Outcomes \cup Answers \cup {"none"}]
  /\ opCancel \in [Reqs -> BOOLEAN] /\ opDone \in [Reqs -> BOOLEAN]
  /\ cancelled \in [Reqs -> BOOLEAN] /\ steerCh \in [Reqs -> 0..1]
  /\ wire \in Seq(Lines)

\* Request r was accepted and its operation has not yet freed the slot.
HoldsSlot(r) ==
  \/ loopPc = "emit_begin" /\ loopReq = r
  \/ opPc[r] \in {"agent", "emit_end"}
  \/ opPc[r] \in (IF IsTurn(r) THEN {"close", "clear"} ELSE {"reply", "clear"})

\* Serve's clearActiveTurn has emptied the slot on its operation's behalf.
Cleared == servePc \in {"wait_op", "wait_loop", "returned"}

\* The slot activeTurn/activeOp says exactly which operation runs: until Serve
\* takes it over at shutdown every accepted prompt or replay that has not
\* freed it is the one in it (so there is at most one), activeTurn is set just
\* when that is a prompt, and the slot never keeps an operation that has ended
\* (after which every prompt would be refused).
SlotMatchesOperation ==
  /\ ~Cleared => \A r \in Reqs : HoldsSlot(r) => activeOp = r
  /\ activeOp # None => HoldsSlot(activeOp)
  /\ activeTurn = IF activeOp # None /\ IsTurn(activeOp) THEN activeOp ELSE None

\* No request is answered twice, whatever races, lost writes, cancels and
\* shutdown do: sendResponse and sendError run once per request id, in
\* serveLoop or in the operation's goroutine but never in both.
AtMostOneReply ==
  \A i, j \in DOMAIN wire :
    /\ wire[i].tag = "Reply" /\ wire[j].tag = "Reply"
    /\ wire[i].req = wire[j].req
    => i = j

\* What the server writes is a history the client-side protocol allows:
\* frames, their events and replies, acknowledged cancels (module TurnProtocol).
Protocol == INSTANCE TurnProtocol WITH down <- ctxDone \/ closed
ProtocolSpec == Protocol!Spec

\* A turn that has been answered no longer holds the slot: a client that waits
\* for the answer before it sends its next request is never told that a turn
\* is in progress.
AnsweredTurnFreesSlot == activeTurn # None => ~Answered(activeTurn)

\* Every request read is answered, unless the server shuts down or the
\* operation it started is still at work in the agent.
RequestAnswered ==
  \A r \in Reqs :
    method[r] # "none" ~> Answered(r) \/ ctxDone \/ closed \/ opPc[r] = "agent"

\* A cancel request is answered, unless the server shuts down.
CancelAnswered ==
  \A r \in Reqs : method[r] = "cancel" ~> Answered(r) \/ ctxDone \/ closed

\* Once its context is cancelled or the transport has ended, Serve returns.
ServeTerminates == ctxDone \/ readPc = "done" ~> servePc = "returned"
=============================================================================
