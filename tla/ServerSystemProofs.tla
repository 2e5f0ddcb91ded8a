-------------------------- MODULE ServerSystemProofs --------------------------
(***************************************************************************)
(* Proofs about the whole server, for every value of the constants: it     *)
(* implements its two parts, the turn engine (WireServer) and the calls    *)
(* (ServerRequests), what is proved of them holds of it, and its calls     *)
(* live and end with the turns that made them.                             *)
(***************************************************************************)
EXTENDS WireServerProofs, ServerSystem

-----------------------------------------------------------------------------
(***************************************************************************)
(* The whole server (ServerSystem) implements its parts.  Every step of    *)
(* the turn engine is the same step of TurnEngine, whose readLoop is       *)
(* reading while that of the whole server routes a response.               *)
(***************************************************************************)
\* Counting is the same on both sides.
LEMMA SameCount == \A S : TurnEngine!Cardinality(S) = Cardinality(S)
BY DEF Cardinality, TurnEngine!Cardinality

\* readLoop: its steps on requests.
LEMMA ReadLoopMaps == ASSUME ReadLoop PROVE TurnEngine!ReadLoop
<1> USE DEF readVars, TurnEngine!readVars, loopVars, TurnEngine!loopVars, serveVars,
        TurnEngine!serveVars, shakeVars, TurnEngine!shakeVars, slotVars, TurnEngine!slotVars,
        opVars, TurnEngine!opVars
<1>1. ASSUME NEW m \in ClientMethods, ReadRequest(m) PROVE TurnEngine!ReadRequest(m)
  BY <1>1 DEF ReadRequest, TurnEngine!ReadRequest
<1>2. CASE ReadGarbage
  BY <1>2, SameCount DEF ReadGarbage, TurnEngine!ReadGarbage, TryWrite, TurnEngine!TryWrite,
       WriteLine, TurnEngine!WriteLine, WriteFails, TurnEngine!WriteFails, CanWrite,
       TurnEngine!CanWrite, CanFail, TurnEngine!CanFail, ParseError, TurnEngine!ParseError,
       None, TurnEngine!None, TurnEngine!ReadLoop
<1>3. CASE ReadFails \/ ReadCancelled \/ ReadClosed
  BY <1>3 DEF ReadFails, TurnEngine!ReadFails, ReadCancelled, TurnEngine!ReadCancelled,
       ReadClosed, TurnEngine!ReadClosed, ReadEnds, TurnEngine!ReadEnds, TurnEngine!ReadLoop
<1>4. CASE Push \/ PushAborted
  BY <1>4 DEF Push, TurnEngine!Push, PushAborted, TurnEngine!PushAborted, TurnEngine!ReadLoop
<1> QED BY <1>1, <1>2, <1>3, <1>4 DEF ReadLoop, TurnEngine!ReadLoop

\* serveLoop: the handlers.
LEMMA DispatchMaps == ASSUME Dispatch PROVE TurnEngine!Dispatch
<1> USE DEF readVars, TurnEngine!readVars, loopVars, TurnEngine!loopVars, serveVars,
        TurnEngine!serveVars, shakeVars, TurnEngine!shakeVars, slotVars, TurnEngine!slotVars,
        opVars, TurnEngine!opVars
<1> USE DEF Take, TurnEngine!Take, Answer, TurnEngine!Answer, Goto, TurnEngine!Goto, BadParams,
            TurnEngine!BadParams, Busy, TurnEngine!Busy, None, TurnEngine!None
<1>1. CASE HandleInitialize
  BY <1>1 DEF HandleInitialize, TurnEngine!HandleInitialize, TurnEngine!Dispatch
<1>2. CASE HandlePrompt
  BY <1>2 DEF HandlePrompt, TurnEngine!HandlePrompt, TurnEngine!Dispatch
<1>3. CASE HandleSteer
  BY <1>3 DEF HandleSteer, TurnEngine!HandleSteer, TurnEngine!Dispatch
<1>4. CASE HandleCancel
  BY <1>4 DEF HandleCancel, TurnEngine!HandleCancel, TurnEngine!Dispatch
<1>5. CASE HandleReplay
  BY <1>5 DEF HandleReplay, TurnEngine!HandleReplay, TurnEngine!Dispatch
<1>6. CASE HandleSetPlanMode
  BY <1>6 DEF HandleSetPlanMode, TurnEngine!HandleSetPlanMode, TurnEngine!Dispatch
<1>7. CASE HandleOther
  BY <1>7 DEF HandleOther, TurnEngine!HandleOther, TurnEngine!Dispatch
<1> QED BY <1>1, <1>2, <1>3, <1>4, <1>5, <1>6, <1>7 DEF Dispatch

\* serveLoop: what follows a handler's first step.
LEMMA LoopMaps == ASSUME ServeLoop PROVE TurnEngine!ServeLoop
<1> USE DEF readVars, TurnEngine!readVars, loopVars, TurnEngine!loopVars, serveVars,
        TurnEngine!serveVars, shakeVars, TurnEngine!shakeVars, slotVars, TurnEngine!slotVars,
        opVars, TurnEngine!opVars
<1> USE DEF Goto, TurnEngine!Goto, Answer, TurnEngine!Answer, LoopAnswers,
        TurnEngine!LoopAnswers, None, TurnEngine!None, TurnEngine!ServeLoop,
        TurnEngine!LoopStep
<1>1. CASE EmitTurnBegin
  BY <1>1 DEF EmitTurnBegin, TurnEngine!EmitTurnBegin, WriteLine, TurnEngine!WriteLine,
       WriteFails, TurnEngine!WriteFails, CanWrite, TurnEngine!CanWrite, CanFail,
       TurnEngine!CanFail, TurnBegin, TurnEngine!TurnBegin
<1>2. CASE LoopReply
  BY <1>2 DEF LoopReply, TurnEngine!LoopReply, TryWrite, TurnEngine!TryWrite, WriteLine,
       TurnEngine!WriteLine, WriteFails, TurnEngine!WriteFails, CanWrite, TurnEngine!CanWrite,
       CanFail, TurnEngine!CanFail, Reply, TurnEngine!Reply
<1>3. CASE EndTurnReturns \/ LoopExit \/ SteerSend \/ CancelMark
  BY <1>3 DEF EndTurnReturns, TurnEngine!EndTurnReturns, LoopExit, TurnEngine!LoopExit,
       SteerSend, TurnEngine!SteerSend, CancelMark, TurnEngine!CancelMark
<1>4. CASE SteerTooLate \/ SteerReturns \/ CancelDone \/ CancelShutdown \/ PlanReturns
  BY <1>4 DEF SteerTooLate, TurnEngine!SteerTooLate, OpCtxDone, TurnEngine!OpCtxDone,
       SteerReturns, TurnEngine!SteerReturns, CancelDone, TurnEngine!CancelDone,
       CancelShutdown, TurnEngine!CancelShutdown, PlanReturns, TurnEngine!PlanReturns
<1>5. CASE PlanEmits
  BY <1>5, SameCount DEF PlanEmits, TurnEngine!PlanEmits, CanWrite, TurnEngine!CanWrite,
       AgentEvent, TurnEngine!AgentEvent
<1> QED BY DispatchMaps, <1>1, <1>2, <1>3, <1>4, <1>5 DEF ServeLoop, LoopStep

\* So is what an operation answers.
LEMMA SameAnswers ==
  /\ \A o : TurnEngine!ReplayAnswer(o) = ReplayAnswer(o)
  /\ \A o, b : TurnEngine!PromptAnswer(o, b) = PromptAnswer(o, b)
BY DEF ReplayAnswer, TurnEngine!ReplayAnswer, PromptAnswer, TurnEngine!PromptAnswer

\* The goroutine of a prompt or a replay.
LEMMA OpMaps ==
  ASSUME NEW r \in Reqs
  PROVE  /\ EndOp(r) => TurnEngine!EndOp(r)
         /\ AgentEmits(r) \/ AgentSteerInput(r) => TurnEngine!AgentRuns(r)
         /\ (\E o \in AgentOutcomes : AgentReturns(r, o)) => TurnEngine!AgentRuns(r)
<1> USE DEF readVars, TurnEngine!readVars, loopVars, TurnEngine!loopVars, serveVars,
        TurnEngine!serveVars, shakeVars, TurnEngine!shakeVars, slotVars, TurnEngine!slotVars,
        opVars, TurnEngine!opVars
<1> USE DEF OpStep, TurnEngine!OpStep, IsTurn, TurnEngine!IsTurn, None, TurnEngine!None,
        TurnEngine!EndOp, TurnEngine!AgentRuns
<1>1. ASSUME TurnEmitEnd(r) PROVE TurnEngine!TurnEmitEnd(r)
  BY <1>1 DEF TurnEmitEnd, TurnEngine!TurnEmitEnd, TryWrite, TurnEngine!TryWrite, WriteLine,
       TurnEngine!WriteLine, WriteFails, TurnEngine!WriteFails, CanWrite, TurnEngine!CanWrite,
       CanFail, TurnEngine!CanFail, TurnEnd, TurnEngine!TurnEnd
<1>2. ASSUME OpReply(r) PROVE TurnEngine!OpReply(r)
  BY <1>2 DEF OpReply, TurnEngine!OpReply, TryWrite, TurnEngine!TryWrite, WriteLine,
       TurnEngine!WriteLine, WriteFails, TurnEngine!WriteFails, CanWrite, TurnEngine!CanWrite,
       CanFail, TurnEngine!CanFail, Reply, TurnEngine!Reply
<1>3. ASSUME TurnClose(r) \/ TurnClear(r) \/ ReplayClear(r) \/ ReplayClose(r)
      PROVE  TurnEngine!EndOp(r)
  BY <1>3 DEF TurnClose, TurnEngine!TurnClose, TurnClear, TurnEngine!TurnClear, ReplayClear,
       TurnEngine!ReplayClear, ReplayClose, TurnEngine!ReplayClose
<1>4. ASSUME TurnDecide(r) PROVE TurnEngine!TurnDecide(r)
  BY <1>4, SameAnswers DEF TurnDecide, TurnEngine!TurnDecide
<1>5. ASSUME AgentEmits(r) PROVE TurnEngine!AgentEmits(r)
  BY <1>5, SameCount DEF AgentEmits, TurnEngine!AgentEmits, AgentEvent, TurnEngine!AgentEvent
<1>6. ASSUME AgentSteerInput(r) PROVE TurnEngine!AgentSteerInput(r)
  BY <1>6 DEF AgentSteerInput, TurnEngine!AgentSteerInput
<1>7. ASSUME NEW o \in AgentOutcomes, AgentReturns(r, o) PROVE TurnEngine!AgentReturns(r, o)
  BY <1>7, SameAnswers DEF AgentReturns, TurnEngine!AgentReturns
<1> QED BY <1>1, <1>2, <1>3, <1>4, <1>5, <1>6, <1>7 DEF EndOp

\* Serve, its caller and Close.
LEMMA ServeMaps ==
  ASSUME Serve \/ CtxCancel \/ Close
  PROVE  TurnEngine!Serve \/ TurnEngine!CtxCancel \/ TurnEngine!Close
<1> USE DEF readVars, TurnEngine!readVars, loopVars, TurnEngine!loopVars, serveVars,
        TurnEngine!serveVars, shakeVars, TurnEngine!shakeVars, slotVars, TurnEngine!slotVars,
        opVars, TurnEngine!opVars
<1>1. CASE CtxCancel \/ Close
  BY <1>1 DEF CtxCancel, TurnEngine!CtxCancel, Close, TurnEngine!Close
<1>2. CASE Serve
  BY <1>2 DEF Serve, TurnEngine!Serve, ServeCancels, TurnEngine!ServeCancels, ClearActiveTurn,
       TurnEngine!ClearActiveTurn, OpWaited, TurnEngine!OpWaited, WaitTimeout,
       TurnEngine!WaitTimeout, ServeReturns, TurnEngine!ServeReturns, ServeStep,
       TurnEngine!ServeStep, None, TurnEngine!None
<1> QED BY <1>1, <1>2

\* A step of the calls is none of the turn engine's.
LEMMA TurnUnmoved ==
  ASSUME UNCHANGED <<ctxDone, turnVars>>,
         readPc' = readPc \/ {readPc, readPc'} = {"read", "send"}
  PROVE  UNCHANGED TurnEngine!vars
BY DEF turnVars, readVars, TurnEngine!readVars, loopVars, TurnEngine!loopVars, serveVars,
     TurnEngine!serveVars, shakeVars, TurnEngine!shakeVars, slotVars, TurnEngine!slotVars,
     opVars, TurnEngine!opVars, TurnEngine!vars

\* The calls move readLoop into routeResponse and back, and nothing else of the
\* turn engine.
LEMMA CallsLeaveTurns ==
  ASSUME UNCHANGED turnVars,
         \/ \E id \in Calls : Requests!ReadResponse(id, Requests!Result(id))
         \/ Requests!RouteSend \/ Requests!RouteDropped
         \/ Requests!ClosePending \/ Requests!PendingClosed
         \/ \E c \in Calls : Requests!FailCall(c)
         \/ \E k \in Kinds : Requests!Call(k)
         \/ \E c \in Calls :
              \/ Requests!WriteRequest(c) \/ Requests!Receive(c) \/ Requests!GiveUp(c)
              \/ Requests!ServeOver(c) \/ Requests!Unregister(c) \/ Requests!Drain(c)
              \/ Requests!CtxExpires(c)
  PROVE  UNCHANGED TurnEngine!vars
<1> USE DEF Requests!readVars, Requests!serveVars, Requests!callVars
<1>1. CASE \E id \in Calls : Requests!ReadResponse(id, Requests!Result(id))
  BY <1>1, TurnUnmoved DEF Requests!ReadResponse
<1>2. CASE Requests!RouteSend \/ Requests!RouteDropped
  BY <1>2, TurnUnmoved DEF Requests!RouteSend, Requests!RouteDropped
<1>3. CASE \/ Requests!ClosePending \/ Requests!PendingClosed
           \/ \E c \in Calls : Requests!FailCall(c)
  BY <1>3, TurnUnmoved DEF Requests!ClosePending, Requests!PendingClosed, Requests!FailCall
<1>4. CASE \E k \in Kinds : Requests!Call(k)
  BY <1>4, TurnUnmoved DEF Requests!Call
<1>5. ASSUME NEW c \in Calls,
             \/ Requests!WriteRequest(c) \/ Requests!Receive(c) \/ Requests!GiveUp(c)
             \/ Requests!ServeOver(c) \/ Requests!Unregister(c) \/ Requests!Drain(c)
             \/ Requests!CtxExpires(c)
      PROVE  UNCHANGED TurnEngine!vars
  BY <1>5, TurnUnmoved DEF Requests!WriteRequest, Requests!Receive, Requests!GiveUp,
       Requests!ServeOver, Requests!Unregister, Requests!Drain, Requests!CtxExpires,
       Requests!Leaves, Requests!CallStep
<1> QED BY <1>1, <1>2, <1>3, <1>4, <1>5

\* Every step of the whole server is a step of the turn engine or none of it.
LEMMA TurnEngineStep ==
  ASSUME [SystemNext]_systemVars
  PROVE  [TurnEngine!Next]_(TurnEngine!vars)
<1>1. CASE SystemReadLoop
  <2>1. CASE ReadLoop
    BY <2>1, ReadLoopMaps DEF TurnEngine!Next
  <2>2. ASSUME Request(\/ \E id \in Calls : Requests!ReadResponse(id, Requests!Result(id))
                       \/ Requests!RouteSend \/ Requests!RouteDropped)
        PROVE  UNCHANGED TurnEngine!vars
    BY <2>2, CallsLeaveTurns DEF Request
  <2> QED BY <1>1, <2>1, <2>2 DEF SystemReadLoop, Turn, LoopEnds, ReadLoop
<1>2. CASE SystemServe
  <2>1. CASE Serve
    BY <2>1, ServeMaps DEF TurnEngine!Next
  <2>2. ASSUME Request(\/ Requests!ClosePending \/ Requests!PendingClosed
                       \/ \E c \in Calls : Requests!FailCall(c))
        PROVE  UNCHANGED TurnEngine!vars
    BY <2>2, CallsLeaveTurns DEF Request
  <2> QED BY <1>2, <2>1, <2>2 DEF SystemServe, SystemServeCancels, SystemClear, Turn, Serve
<1>3. CASE Turn(ServeLoop \/ CtxCancel \/ Close)
  BY <1>3, LoopMaps, ServeMaps DEF Turn, TurnEngine!Next
<1>4. ASSUME NEW r \in Reqs, \/ Turn(EndOp(r) \/ AgentEmits(r) \/ AgentSteerInput(r))
                             \/ SystemAgentReturns(r)
      PROVE  TurnEngine!Next
  <2>1. r \in TurnEngine!Reqs
    BY DEF Reqs, TurnEngine!Reqs
  <2>2. TurnEngine!EndOp(r) \/ TurnEngine!AgentRuns(r)
    BY <1>4, OpMaps DEF Turn, SystemAgentReturns
  <2> QED BY <2>1, <2>2 DEF TurnEngine!Next
<1>5. ASSUME NEW r \in Reqs, NEW k \in Kinds, AgentCalls(r, k) PROVE UNCHANGED TurnEngine!vars
  BY <1>5, CallsLeaveTurns DEF AgentCalls
<1>6. ASSUME NEW c \in Calls, SystemCallRuns(c) \/ CallExpires(c)
      PROVE  UNCHANGED TurnEngine!vars
  BY <1>6, CallsLeaveTurns DEF SystemCallRuns, CallWrites, CallExpires, Request
<1>7. CASE UNCHANGED systemVars
  <2>1. UNCHANGED <<ctxDone, turnVars, readPc>>
    BY <1>7 DEF systemVars, vars, turnVars, readVars
  <2> QED BY <2>1, TurnUnmoved
<1> QED BY <1>1, <1>2, <1>3, <1>4, <1>5, <1>6, <1>7 DEF SystemNext

\* The whole server is a turn engine: whatever the calls of the agents and the
\* responses to them do to the shared readLoop, serveCtx and agents, its turns
\* behave as WireServer says, and what is proved of WireServer applies to it.
THEOREM SystemRunsTurns == SystemSpec => ImplementsTurnEngine
<1>1. SystemInit => TurnEngine!Init
  BY DEF SystemInit, Init, TurnEngine!Init, Reqs, TurnEngine!Reqs, None, TurnEngine!None
<1> QED BY <1>1, TurnEngineStep, PTL DEF SystemSpec, ImplementsTurnEngine, TurnEngine!Spec

-----------------------------------------------------------------------------
(***************************************************************************)
(* And it implements the calls: to CallEngine, pushing a request on        *)
(* dispatchCh is reading.                                                  *)
(***************************************************************************)
\* A call begins ...
LEMMA CallStarts == ASSUME NEW k, Requests!Call(k) PROVE CallEngine!Call(k)
BY DEF Requests!Call, CallEngine!Call, Requests!readVars, CallEngine!readVars,
     Requests!serveVars, CallEngine!serveVars, Requests!callVars, CallEngine!callVars

\* ... and goes on.
LEMMA CallMaps ==
  ASSUME NEW c \in Calls
  PROVE  /\ Requests!WriteRequest(c) => CallEngine!CallRuns(c)
         /\ \/ Requests!Receive(c) \/ Requests!GiveUp(c) \/ Requests!ServeOver(c)
            \/ Requests!Unregister(c) \/ Requests!Drain(c)
            => CallEngine!CallRuns(c)
         /\ Requests!CtxExpires(c) => CallEngine!CtxExpires(c)
<1> USE DEF Requests!readVars, CallEngine!readVars, Requests!serveVars, CallEngine!serveVars,
        Requests!callVars, CallEngine!callVars
<1> USE DEF Requests!CallStep, CallEngine!CallStep, Requests!Leaves, CallEngine!Leaves
<1>1. ASSUME Requests!WriteRequest(c) PROVE CallEngine!WriteRequest(c)
  BY <1>1 DEF Requests!WriteRequest, CallEngine!WriteRequest
<1>2. \A b : CallEngine!Decode(c, b) = Requests!Decode(c, b)
  BY DEF Requests!Decode, CallEngine!Decode, Requests!Result, CallEngine!Result
<1>3. ASSUME Requests!Receive(c) PROVE CallEngine!Receive(c)
  BY <1>2, <1>3 DEF Requests!Receive, CallEngine!Receive
<1>4. ASSUME Requests!GiveUp(c) \/ Requests!ServeOver(c)
      PROVE  CallEngine!GiveUp(c) \/ CallEngine!ServeOver(c)
  BY <1>4 DEF Requests!GiveUp, CallEngine!GiveUp, Requests!ServeOver, CallEngine!ServeOver
<1>5. ASSUME Requests!Unregister(c) \/ Requests!Drain(c)
      PROVE  CallEngine!Unregister(c) \/ CallEngine!Drain(c)
  BY <1>5 DEF Requests!Unregister, CallEngine!Unregister, Requests!Drain, CallEngine!Drain
<1>6. ASSUME Requests!CtxExpires(c) PROVE CallEngine!CtxExpires(c)
  BY <1>6 DEF Requests!CtxExpires, CallEngine!CtxExpires
<1> QED BY <1>1, <1>3, <1>4, <1>5, <1>6 DEF CallEngine!CallRuns

\* readLoop: its steps on responses.
LEMMA ResponseMaps ==
  ASSUME \/ \E id \in Calls : Requests!ReadResponse(id, Requests!Result(id))
         \/ Requests!RouteSend \/ Requests!RouteDropped
         \/ \E io \in BOOLEAN : Requests!ReadEnds(io)
  PROVE  CallEngine!ReadLoop
<1> USE DEF Requests!readVars, CallEngine!readVars, Requests!serveVars, CallEngine!serveVars,
        Requests!callVars, CallEngine!callVars
<1>1. ASSUME NEW id \in Calls, Requests!ReadResponse(id, Requests!Result(id))
      PROVE  CallEngine!ReadLoop
  <2>1. CallEngine!ReadResponse(id, CallEngine!Result(id))
    BY <1>1 DEF Requests!ReadResponse, CallEngine!ReadResponse, Requests!Result,
         CallEngine!Result
  <2>2. id \in CallEngine!Calls
    BY DEF Calls, CallEngine!Calls
  <2>3. CallEngine!Result(id) \in CallEngine!Bodies \ {CallEngine!ReadError}
    BY <2>2 DEF CallEngine!Bodies, CallEngine!Result, CallEngine!ReadError, CallEngine!Failure
  <2> QED BY <2>1, <2>2, <2>3 DEF CallEngine!ReadLoop
<1>2. CASE Requests!RouteSend \/ Requests!RouteDropped
  BY <1>2 DEF Requests!RouteSend, CallEngine!RouteSend, Requests!RouteDropped,
       CallEngine!RouteDropped, Requests!NoRoute, CallEngine!NoRoute, Requests!ReadError,
       CallEngine!ReadError, Requests!Failure, CallEngine!Failure, Requests!None,
       CallEngine!None, CallEngine!ReadLoop
<1>3. CASE \E io \in BOOLEAN : Requests!ReadEnds(io)
  BY <1>3 DEF Requests!ReadEnds, CallEngine!ReadEnds, CallEngine!ReadEOF,
       CallEngine!ReadIOError, CallEngine!ReadLoop
<1> QED BY <1>1, <1>2, <1>3

\* Serve, with respect to the calls.
LEMMA PendingMaps ==
  ASSUME \/ Requests!ServeCancels \/ Requests!ClosePending \/ Requests!PendingClosed
         \/ \E c \in Calls : Requests!FailCall(c)
  PROVE  CallEngine!Serve
<1> USE DEF Requests!readVars, CallEngine!readVars, Requests!serveVars, CallEngine!serveVars,
        Requests!callVars, CallEngine!callVars
<1>1. CASE Requests!ServeCancels \/ Requests!ClosePending \/ Requests!PendingClosed
  BY <1>1 DEF Requests!ServeCancels, CallEngine!ServeCancels, Requests!ClosePending,
       CallEngine!ClosePending, Requests!PendingClosed, CallEngine!PendingClosed,
       CallEngine!Serve
<1>2. ASSUME NEW c \in Calls, Requests!FailCall(c) PROVE CallEngine!Serve
  BY <1>2 DEF Requests!FailCall, CallEngine!FailCall, Requests!ReadError,
       CallEngine!ReadError, Requests!Failure, CallEngine!Failure, Requests!None,
       CallEngine!None, Calls, CallEngine!Calls, CallEngine!Serve
<1> QED BY <1>1, <1>2

\* A step of the turn engine is none of the calls' ...
LEMMA CallsUnmoved ==
  ASSUME UNCHANGED <<ctxDone, requestVars>>,
         readPc' = readPc \/ {readPc, readPc'} = {"read", "push"}
  PROVE  UNCHANGED CallEngine!vars
BY DEF requestVars, CallEngine!vars, CallEngine!readVars, CallEngine!serveVars,
     CallEngine!callVars

\* ... unless it ends readLoop or cancels serveCtx.
LEMMA TurnsLeaveCalls ==
  ASSUME UNCHANGED requestVars,
         \/ \E m \in ClientMethods : ReadRequest(m)
         \/ ReadGarbage \/ Push \/ ServeLoop \/ Close
         \/ ClearActiveTurn \/ OpWaited \/ WaitTimeout \/ ServeReturns
         \/ \E r \in Reqs : \/ EndOp(r) \/ AgentEmits(r) \/ AgentSteerInput(r)
                            \/ \E o \in AgentOutcomes : AgentReturns(r, o)
  PROVE  UNCHANGED CallEngine!vars
<1> USE DEF readVars
<1>1. CASE (\E m \in ClientMethods : ReadRequest(m)) \/ ReadGarbage \/ Push
  BY <1>1, CallsUnmoved DEF ReadRequest, ReadGarbage, Push
<1>2. CASE ServeLoop
  BY <1>2, CallsUnmoved DEF ServeLoop, LoopStep, Dispatch, HandleInitialize, HandlePrompt,
       HandleSteer, HandleCancel, HandleReplay, HandleSetPlanMode, HandleOther, Take,
       EmitTurnBegin, EndTurnReturns, SteerSend, SteerTooLate, SteerReturns, CancelMark,
       CancelDone, CancelShutdown, LoopReply, LoopExit, PlanEmits, PlanReturns, LoopAnswers
<1>3. CASE Close \/ ClearActiveTurn \/ OpWaited \/ WaitTimeout \/ ServeReturns
  BY <1>3, CallsUnmoved DEF Close, ClearActiveTurn, OpWaited, WaitTimeout, ServeReturns, ServeStep
<1>4. ASSUME NEW r \in Reqs, \/ EndOp(r) \/ AgentEmits(r) \/ AgentSteerInput(r)
                             \/ \E o \in AgentOutcomes : AgentReturns(r, o)
      PROVE  UNCHANGED CallEngine!vars
  BY <1>4, CallsUnmoved DEF EndOp, TurnEmitEnd, TurnClose, TurnClear, TurnDecide, OpReply,
       ReplayClear, ReplayClose, AgentEmits, AgentSteerInput, AgentReturns, OpStep
<1> QED BY <1>1, <1>2, <1>3, <1>4

\* A push that serveCtx interrupts ends readLoop without an error of its own.
LEMMA AbortMaps ==
  ASSUME PushAborted, UNCHANGED requestVars, ioError \in BOOLEAN
  PROVE  CallEngine!ReadLoop
<1>1. CallEngine!ReadEnds(ioError)
  BY DEF PushAborted, requestVars, CallEngine!ReadEnds, CallEngine!serveVars,
       CallEngine!callVars
<1> QED BY <1>1 DEF CallEngine!ReadLoop, CallEngine!ReadEOF, CallEngine!ReadIOError

\* Every step of the whole server is a step of the calls or none of theirs.
LEMMA CallEngineStep ==
  ASSUME ioError \in BOOLEAN, [SystemNext]_systemVars
  PROVE  ioError' \in BOOLEAN /\ [CallEngine!Next]_(CallEngine!vars)
<1>1. [CallEngine!Next]_(CallEngine!vars)
  <2>1. CASE SystemReadLoop
    <3>1. ASSUME Turn((\E m \in ClientMethods : ReadRequest(m)) \/ ReadGarbage \/ Push)
          PROVE  UNCHANGED CallEngine!vars
      BY <3>1, TurnsLeaveCalls DEF Turn
    <3>2. ASSUME Turn(PushAborted) PROVE CallEngine!Next
      BY <3>2, AbortMaps DEF Turn, CallEngine!Next
    <3>3. ASSUME \/ \E id \in Calls : Requests!ReadResponse(id, Requests!Result(id))
                 \/ Requests!RouteSend \/ Requests!RouteDropped
                 \/ \E io \in BOOLEAN : Requests!ReadEnds(io)
          PROVE  CallEngine!Next
      BY <3>3, ResponseMaps DEF CallEngine!Next
    <3> QED BY <2>1, <3>1, <3>2, <3>3 DEF SystemReadLoop, Turn, Request, LoopEnds
  <2>2. CASE SystemServe
    <3>1. ASSUME Turn(ClearActiveTurn \/ OpWaited \/ WaitTimeout \/ ServeReturns)
          PROVE  UNCHANGED CallEngine!vars
      BY <3>1, TurnsLeaveCalls DEF Turn
    <3>2. ASSUME \/ Requests!ServeCancels \/ Requests!ClosePending \/ Requests!PendingClosed
                 \/ \E c \in Calls : Requests!FailCall(c)
          PROVE  CallEngine!Next
      BY <3>2, PendingMaps DEF CallEngine!Next
    <3> QED BY <2>2, <3>1, <3>2 DEF SystemServe, SystemServeCancels, SystemClear, Turn, Request
  <2>3. CASE Turn(ServeLoop \/ Close)
    BY <2>3, TurnsLeaveCalls DEF Turn
  <2>4. CASE Turn(CtxCancel)
    <3>1. CallEngine!CtxCancel
      BY <2>4 DEF Turn, CtxCancel, CallEngine!CtxCancel, requestVars, readVars,
           CallEngine!readVars, CallEngine!callVars
    <3> QED BY <3>1 DEF CallEngine!Next
  <2>5. ASSUME NEW r \in Reqs, \/ Turn(EndOp(r) \/ AgentEmits(r) \/ AgentSteerInput(r))
                               \/ SystemAgentReturns(r)
        PROVE  UNCHANGED CallEngine!vars
    BY <2>5, TurnsLeaveCalls DEF Turn, SystemAgentReturns
  <2>6. ASSUME NEW r \in Reqs, NEW k \in Kinds, AgentCalls(r, k) PROVE CallEngine!Next
    BY <2>6, CallStarts DEF AgentCalls, CallEngine!Next
  <2>7. ASSUME NEW c \in Calls, SystemCallRuns(c) \/ CallExpires(c) PROVE CallEngine!Next
    <3>1. c \in CallEngine!Calls
      BY DEF Calls, CallEngine!Calls
    <3>2. CallEngine!CallRuns(c) \/ CallEngine!CtxExpires(c)
      BY <2>7, CallMaps DEF SystemCallRuns, CallWrites, CallExpires, Request
    <3> QED BY <3>1, <3>2 DEF CallEngine!Next
  <2>8. CASE UNCHANGED systemVars
    BY <2>8, CallsUnmoved DEF systemVars, vars, readVars
  <2> QED BY <2>1, <2>2, <2>3, <2>4, <2>5, <2>6, <2>7, <2>8 DEF SystemNext, Turn
<1>2. ioError' \in BOOLEAN
  <2>1. CASE \E io \in BOOLEAN : Requests!ReadEnds(io)
    BY <2>1 DEF Requests!ReadEnds
  <2>2. CASE UNCHANGED ioError
    BY <2>2
  <2>3. (\E io \in BOOLEAN : Requests!ReadEnds(io)) \/ UNCHANGED ioError
    BY DEF SystemNext, SystemReadLoop, SystemServe, SystemServeCancels, SystemClear,
      SystemAgentReturns, AgentCalls, SystemCallRuns, CallWrites, CallExpires, Turn, Request,
      LoopEnds, requestVars, systemVars, Requests!readVars, Requests!ReadResponse,
      Requests!RouteSend, Requests!RouteDropped, Requests!ServeCancels, Requests!ClosePending,
      Requests!PendingClosed, Requests!FailCall, Requests!Call, Requests!WriteRequest,
      Requests!Receive, Requests!GiveUp, Requests!ServeOver, Requests!Unregister,
      Requests!Drain, Requests!CtxExpires, Requests!Leaves, Requests!CallStep
  <2> QED BY <2>1, <2>2, <2>3
<1> QED BY <1>1, <1>2

\* The calls of the agents behave in the whole server as ServerRequests says,
\* though readLoop may be held up in a push on dispatchCh, and what is proved of
\* ServerRequests applies to it.
THEOREM SystemServesCalls == SystemSpec => ImplementsRequests
<1>1. SystemInit => CallEngine!Init /\ ioError \in BOOLEAN
  BY DEF SystemInit, Init, Requests!Init, CallEngine!Init, Requests!Calls, CallEngine!Calls,
       Requests!NoRoute, CallEngine!NoRoute, Requests!ReadError, CallEngine!ReadError,
       Requests!Failure, CallEngine!Failure, Requests!None, CallEngine!None
<1>2. ioError \in BOOLEAN /\ [SystemNext]_systemVars =>
        (ioError \in BOOLEAN)' /\ [CallEngine!Next]_(CallEngine!vars)
  BY CallEngineStep
<1> QED BY <1>1, <1>2, PTL DEF SystemSpec, ImplementsRequests, CallEngine!Spec

-----------------------------------------------------------------------------
(***************************************************************************)
(* What is proved of the parts holds of the whole server.  Engine and      *)
(* CallSafety are the modules of those proofs, under the same mappings as  *)
(* TurnEngine and CallEngine, whose definitions are therefore the same.    *)
(***************************************************************************)
Engine == INSTANCE WireServerProofs WITH readPc <- IF readPc = "send" THEN "read" ELSE readPc

CallSafety == INSTANCE ServerRequestsProofs WITH
                serveDone <- ctxDone, servePc <- pendPc,
                readPc <- IF readPc = "push" THEN "read" ELSE readPc

\* The turn engine that the whole server implements is the one of the proofs.
LEMMA SameEngine == TurnEngine!Spec => Engine!Spec
<1> USE DEF TurnEngine!readVars, Engine!readVars, TurnEngine!loopVars, Engine!loopVars,
        TurnEngine!serveVars, Engine!serveVars, TurnEngine!shakeVars, Engine!shakeVars,
        TurnEngine!slotVars, Engine!slotVars, TurnEngine!opVars, Engine!opVars
<1>1. TurnEngine!Init => Engine!Init
  BY DEF TurnEngine!Init, Engine!Init, TurnEngine!Reqs, Engine!Reqs, TurnEngine!None, Engine!None
<1>2. \A n : TurnEngine!Cardinality(n) = Engine!Cardinality(n)
  BY DEF TurnEngine!Cardinality, Engine!Cardinality
<1>3. UNCHANGED TurnEngine!vars => UNCHANGED Engine!vars
  BY DEF TurnEngine!vars, Engine!vars
<1>4. ASSUME TurnEngine!ReadLoop PROVE Engine!ReadLoop
  BY <1>2, <1>4 DEF TurnEngine!None, Engine!None, TurnEngine!ParseError, Engine!ParseError,
       TurnEngine!CanWrite, Engine!CanWrite, TurnEngine!CanFail, Engine!CanFail,
       TurnEngine!WriteLine, Engine!WriteLine, TurnEngine!WriteFails, Engine!WriteFails,
       TurnEngine!TryWrite, Engine!TryWrite, TurnEngine!ReadRequest, Engine!ReadRequest,
       TurnEngine!ReadGarbage, Engine!ReadGarbage, TurnEngine!ReadEnds, Engine!ReadEnds,
       TurnEngine!ReadFails, Engine!ReadFails, TurnEngine!ReadCancelled, Engine!ReadCancelled,
       TurnEngine!ReadClosed, Engine!ReadClosed, TurnEngine!Push, Engine!Push,
       TurnEngine!PushAborted, Engine!PushAborted, TurnEngine!ReadLoop, Engine!ReadLoop
<1>5. ASSUME TurnEngine!Dispatch PROVE Engine!Dispatch
  BY <1>5 DEF TurnEngine!None, Engine!None, TurnEngine!Take, Engine!Take, TurnEngine!Answer,
       Engine!Answer, TurnEngine!Goto, Engine!Goto, TurnEngine!BadParams, Engine!BadParams,
       TurnEngine!Busy, Engine!Busy, TurnEngine!HandleInitialize, Engine!HandleInitialize,
       TurnEngine!HandlePrompt, Engine!HandlePrompt, TurnEngine!HandleSteer, Engine!HandleSteer,
       TurnEngine!HandleCancel, Engine!HandleCancel, TurnEngine!HandleReplay, Engine!HandleReplay,
       TurnEngine!HandleSetPlanMode, Engine!HandleSetPlanMode, TurnEngine!HandleOther,
       Engine!HandleOther, TurnEngine!Dispatch, Engine!Dispatch
<1>6. ASSUME TurnEngine!ServeLoop, ~TurnEngine!Dispatch PROVE Engine!ServeLoop
  BY <1>2, <1>6 DEF TurnEngine!None, Engine!None, TurnEngine!TurnBegin, Engine!TurnBegin,
       TurnEngine!AgentEvent, Engine!AgentEvent, TurnEngine!Reply, Engine!Reply,
       TurnEngine!CanWrite, Engine!CanWrite, TurnEngine!CanFail, Engine!CanFail,
       TurnEngine!WriteLine, Engine!WriteLine, TurnEngine!WriteFails, Engine!WriteFails,
       TurnEngine!TryWrite, Engine!TryWrite, TurnEngine!Answer, Engine!Answer, TurnEngine!Goto,
       Engine!Goto, TurnEngine!EmitTurnBegin, Engine!EmitTurnBegin, TurnEngine!EndTurnReturns,
       Engine!EndTurnReturns, TurnEngine!OpCtxDone, Engine!OpCtxDone, TurnEngine!SteerSend,
       Engine!SteerSend, TurnEngine!LoopAnswers, Engine!LoopAnswers, TurnEngine!SteerTooLate,
       Engine!SteerTooLate, TurnEngine!SteerReturns, Engine!SteerReturns, TurnEngine!CancelMark,
       Engine!CancelMark, TurnEngine!CancelDone, Engine!CancelDone, TurnEngine!CancelShutdown,
       Engine!CancelShutdown, TurnEngine!PlanEmits, Engine!PlanEmits, TurnEngine!PlanReturns,
       Engine!PlanReturns, TurnEngine!LoopReply, Engine!LoopReply, TurnEngine!LoopExit,
       Engine!LoopExit, TurnEngine!LoopStep, Engine!LoopStep, TurnEngine!ServeLoop,
       Engine!ServeLoop
<1>7. ASSUME NEW r, TurnEngine!EndOp(r) PROVE Engine!EndOp(r)
  BY <1>7 DEF TurnEngine!None, Engine!None, TurnEngine!TurnEnd, Engine!TurnEnd, TurnEngine!Reply,
       Engine!Reply, TurnEngine!CanWrite, Engine!CanWrite, TurnEngine!CanFail, Engine!CanFail,
       TurnEngine!WriteLine, Engine!WriteLine, TurnEngine!WriteFails, Engine!WriteFails,
       TurnEngine!TryWrite, Engine!TryWrite, TurnEngine!IsTurn, Engine!IsTurn,
       TurnEngine!OpStep, Engine!OpStep, TurnEngine!TurnEmitEnd, Engine!TurnEmitEnd,
       TurnEngine!TurnClose, Engine!TurnClose, TurnEngine!TurnClear, Engine!TurnClear,
       TurnEngine!PromptAnswer, Engine!PromptAnswer, TurnEngine!TurnDecide, Engine!TurnDecide,
       TurnEngine!OpReply, Engine!OpReply, TurnEngine!ReplayClear, Engine!ReplayClear,
       TurnEngine!ReplayClose, Engine!ReplayClose, TurnEngine!EndOp, Engine!EndOp
<1>8. ASSUME NEW r, TurnEngine!AgentRuns(r) PROVE Engine!AgentRuns(r)
  BY <1>2, <1>8 DEF TurnEngine!AgentEvent, Engine!AgentEvent, TurnEngine!IsTurn, Engine!IsTurn,
       TurnEngine!OpStep, Engine!OpStep, TurnEngine!AgentEmits, Engine!AgentEmits,
       TurnEngine!AgentSteerInput, Engine!AgentSteerInput, TurnEngine!ReplayAnswer,
       Engine!ReplayAnswer, TurnEngine!AgentReturns, Engine!AgentReturns, TurnEngine!AgentRuns,
       Engine!AgentRuns
<1>9. ASSUME TurnEngine!Serve \/ TurnEngine!CtxCancel \/ TurnEngine!Close
      PROVE  Engine!Serve \/ Engine!CtxCancel \/ Engine!Close
  BY <1>9 DEF TurnEngine!None, Engine!None, TurnEngine!ServeCancels, Engine!ServeCancels,
       TurnEngine!ClearActiveTurn, Engine!ClearActiveTurn, TurnEngine!ServeStep,
       Engine!ServeStep, TurnEngine!OpWaited, Engine!OpWaited, TurnEngine!WaitTimeout,
       Engine!WaitTimeout, TurnEngine!ServeReturns, Engine!ServeReturns, TurnEngine!CtxCancel,
       Engine!CtxCancel, TurnEngine!Close, Engine!Close, TurnEngine!Serve, Engine!Serve
<1>10. ASSUME TurnEngine!Terminated PROVE Engine!Terminated
  BY <1>3, <1>10 DEF TurnEngine!Reqs, Engine!Reqs, TurnEngine!Terminated, Engine!Terminated
<1>11. [TurnEngine!Next]_(TurnEngine!vars) => [Engine!Next]_(Engine!vars)
  BY <1>3, <1>4, <1>5, <1>6, <1>7, <1>8, <1>9, <1>10 DEF TurnEngine!Next, Engine!Next,
       TurnEngine!Reqs, Engine!Reqs, Engine!ServeLoop
<1> QED BY <1>1, <1>11, PTL DEF TurnEngine!Spec, Engine!Spec

\* So are the calls.
LEMMA SameCalls == CallEngine!Spec => CallSafety!Spec
<1>1. CallEngine!Init => CallSafety!Init
  BY DEF CallEngine!Calls, CallSafety!Calls, CallEngine!None, CallSafety!None, CallEngine!Failure,
       CallSafety!Failure, CallEngine!ReadError, CallSafety!ReadError, CallEngine!NoRoute,
       CallSafety!NoRoute, CallEngine!Init, CallSafety!Init
<1>2. UNCHANGED CallEngine!vars => UNCHANGED CallSafety!vars
  BY DEF CallEngine!readVars, CallSafety!readVars, CallEngine!serveVars, CallSafety!serveVars,
       CallEngine!callVars, CallSafety!callVars, CallEngine!vars, CallSafety!vars
<1>3. CallEngine!Next => CallSafety!Next
  BY DEF CallEngine!Calls, CallSafety!Calls, CallEngine!None, CallSafety!None, CallEngine!Result,
       CallSafety!Result, CallEngine!Failure, CallSafety!Failure, CallEngine!ReadError,
       CallSafety!ReadError, CallEngine!Bodies, CallSafety!Bodies, CallEngine!readVars,
       CallSafety!readVars, CallEngine!serveVars, CallSafety!serveVars, CallEngine!callVars,
       CallSafety!callVars, CallEngine!vars, CallSafety!vars, CallEngine!NoRoute,
       CallSafety!NoRoute, CallEngine!CallStep, CallSafety!CallStep, CallEngine!Leaves,
       CallSafety!Leaves, CallEngine!Call, CallSafety!Call, CallEngine!WriteRequest,
       CallSafety!WriteRequest, CallEngine!CtxExpires, CallSafety!CtxExpires, CallEngine!Decode,
       CallSafety!Decode, CallEngine!Receive, CallSafety!Receive, CallEngine!GiveUp,
       CallSafety!GiveUp, CallEngine!ServeOver, CallSafety!ServeOver, CallEngine!Unregister,
       CallSafety!Unregister, CallEngine!Drain, CallSafety!Drain, CallEngine!ReadResponse,
       CallSafety!ReadResponse, CallEngine!RouteSend, CallSafety!RouteSend,
       CallEngine!RouteDropped, CallSafety!RouteDropped, CallEngine!ReadEnds,
       CallSafety!ReadEnds, CallEngine!ReadEOF, CallSafety!ReadEOF, CallEngine!ReadIOError,
       CallSafety!ReadIOError, CallEngine!ReadCancelled, CallSafety!ReadCancelled,
       CallEngine!ServeCancels, CallSafety!ServeCancels, CallEngine!ClosePending,
       CallSafety!ClosePending, CallEngine!FailCall, CallSafety!FailCall,
       CallEngine!PendingClosed, CallSafety!PendingClosed, CallEngine!CtxCancel,
       CallSafety!CtxCancel, CallEngine!CallRuns, CallSafety!CallRuns, CallEngine!ReadLoop,
       CallSafety!ReadLoop, CallEngine!Serve, CallSafety!Serve, CallEngine!Terminated,
       CallSafety!Terminated, CallEngine!Next, CallSafety!Next
<1>4. [CallEngine!Next]_(CallEngine!vars) => [CallSafety!Next]_(CallSafety!vars)
  BY <1>2, <1>3
<1> QED BY <1>1, <1>4, PTL DEF CallEngine!Spec, CallSafety!Spec

\* The constants are the same and satisfy the assumptions of those proofs.
LEMMA EngineAssumptions == Engine!MaxReqsAssumption /\ Engine!ServerAssumption
BY MaxReqsAssumption, ServerAssumption
   DEF Methods, Engine!Methods, Capabilities, Engine!Capabilities, Outcomes, Engine!Outcomes,
       Mishaps, Engine!Mishaps

\* The invariants of the two parts hold of the whole server: its slot names the
\* running operation, no request is answered twice, an answered turn has freed
\* the slot (ServerInv); s.pending holds only calls under way that were sent
\* nothing, and routeResponse never holds up readLoop (RequestsInv).
THEOREM PartsStaySafe == SystemSpec => []Engine!ServerInv /\ []CallSafety!RequestsInv
<1>1. CallSafety!RequestsAssumption
  BY SystemAssumption DEF Requests!AllKinds, CallSafety!AllKinds
<1>2. Engine!MaxReqsAssumption
  BY EngineAssumptions
<1>3. Engine!ServerAssumption
  BY EngineAssumptions
<1>4. Engine!Spec => []Engine!ServerInv
  BY <1>2, <1>3, Engine!Invariance, PTL
<1>5. CallSafety!Spec => []CallSafety!RequestsInv
  BY <1>1, CallSafety!RequestsInvariance, PTL
<1> QED BY <1>4, <1>5, SameEngine, SameCalls, SystemRunsTurns, SystemServesCalls, PTL
          DEF ImplementsTurnEngine, ImplementsRequests

\* The lines of the whole server follow the protocol of its clients, as those of
\* the turn engine do: that its agents also make calls, whose responses share
\* readLoop with the requests, changes nothing of frames, events and replies.
THEOREM SystemFollowsProtocol ==
  ASSUME "write" \notin Faults
  PROVE  SystemSpec => ProtocolSpec
<1>1. Engine!MaxReqsAssumption
  BY EngineAssumptions
<1>2. Engine!ServerAssumption
  BY EngineAssumptions
<1>3. Engine!Spec => Engine!ProtocolSpec
  BY <1>1, <1>2, Engine!LinesFollowProtocol, PTL
<1>4. Engine!Protocol!Init => Protocol!Init
  BY DEF Engine!Protocol!Init, Protocol!Init, Engine!Protocol!Reqs, Protocol!Reqs
<1>5. [Engine!Protocol!Next]_(Engine!Protocol!protocolVars)
        => [Protocol!Next]_(Protocol!protocolVars)
  BY DEF Engine!Protocol!protocolVars, Protocol!protocolVars, Engine!Protocol!Reqs, Protocol!Reqs,
       Engine!Protocol!None, Protocol!None, Engine!Protocol!Methods, Protocol!Methods,
       Engine!Protocol!Answers, Protocol!Answers, Engine!Protocol!TurnBegin, Protocol!TurnBegin,
       Engine!Protocol!TurnEnd, Protocol!TurnEnd, Engine!Protocol!AgentEvent, Protocol!AgentEvent,
       Engine!Protocol!Reply, Protocol!Reply, Engine!Protocol!ParseError, Protocol!ParseError,
       Engine!Protocol!Has, Protocol!Has, Engine!Protocol!RepliedIn, Protocol!RepliedIn,
       Engine!Protocol!OpenIn, Protocol!OpenIn, Engine!Protocol!NoFrameOpen, Protocol!NoFrameOpen,
       Engine!Protocol!MayBegin, Protocol!MayBegin, Engine!Protocol!MayEnd, Protocol!MayEnd,
       Engine!Protocol!MayEmit, Protocol!MayEmit, Engine!Protocol!MayReply, Protocol!MayReply,
       Engine!Protocol!Write, Protocol!Write, Engine!Protocol!Ask, Protocol!Ask,
       Engine!Protocol!Begin, Protocol!Begin, Engine!Protocol!End, Protocol!End,
       Engine!Protocol!Emit, Protocol!Emit, Engine!Protocol!Answer, Protocol!Answer,
       Engine!Protocol!Complain, Protocol!Complain, Engine!Protocol!GoDown, Protocol!GoDown,
       Engine!Protocol!Next, Protocol!Next
<1>6. Engine!ProtocolSpec => ProtocolSpec
  BY <1>4, <1>5, PTL DEF Engine!ProtocolSpec, ProtocolSpec, Engine!Protocol!Spec, Protocol!Spec
<1> QED BY <1>3, <1>6, SameEngine, SystemRunsTurns, PTL DEF ImplementsTurnEngine

-----------------------------------------------------------------------------
(***************************************************************************)
(* An invariant of the whole server, about turns and calls together.       *)
(***************************************************************************)
\* A call under way belongs to a turn that is in Agent.Prompt.
OwnerInv ==
  /\ owner \in [Calls -> Reqs \cup {None}]
  /\ \A c \in Calls : UnderWay(c) =>
       owner[c] \in Reqs /\ IsTurn(owner[c]) /\ opPc[owner[c]] = "agent"

\* As long as serveCtx lives, the only operation in agent code during a cancel is
\* the one handleCancel has taken from the slot, whose context it cancels first.
ReachInv ==
  /\ servePc # "wait_read" => ctxDone
  /\ loopPc \in {"cancel_mark", "cancel_wait"} /\ ~ctxDone =>
       \A r \in Reqs : opPc[r] = "agent" => r = loopOp
  /\ loopPc = "cancel_wait" => opCancel[loopOp] = TRUE

\* What the invariant of the turn engine says of the variables it shares.
LEMMA EngineFacts ==
  ASSUME Engine!ServerInv
  PROVE  /\ opPc \in [Reqs -> OpPcs] /\ opCancel \in [Reqs -> BOOLEAN]
         /\ method \in [Reqs -> Methods \cup {"none"}]
         /\ nread \in 0..MaxReqs /\ loopReq \in Reqs \cup {None} /\ activeOp \in Reqs \cup {None}
         /\ dispatchCh \in Seq(Reqs) /\ ctxDone \in BOOLEAN
         /\ loopPc \in {"cancel_mark", "cancel_wait"} => loopOp \in Reqs
         /\ QueueInv /\ HandsInv /\ SlotMatchesOperation /\ AnsweredInv
<1> USE DEF Engine!ServerInv, Engine!IsTurn, IsTurn, Engine!Reqs, Reqs, Engine!None, None
<1>1. /\ opPc \in [Reqs -> OpPcs] /\ opCancel \in [Reqs -> BOOLEAN]
      /\ method \in [Reqs -> Methods \cup {"none"}]
      /\ nread \in 0..MaxReqs /\ loopReq \in Reqs \cup {None} /\ activeOp \in Reqs \cup {None}
      /\ dispatchCh \in Seq(Reqs) /\ ctxDone \in BOOLEAN
      /\ loopPc \in {"cancel_mark", "cancel_wait"} => loopOp \in Reqs
  BY DEF Engine!TypeInv, Engine!TypeOK, Engine!OpPcs, OpPcs, Engine!Methods, Methods
<1>2. QueueInv
  BY DEF Engine!QueueInv, QueueInv
<1>3. HandsInv
  BY DEF Engine!HandsInv, HandsInv, Engine!LoopOwes, LoopOwes
<1>4. SlotMatchesOperation
  BY DEF Engine!SlotMatchesOperation, SlotMatchesOperation, Engine!HoldsSlot, HoldsSlot,
       Engine!Cleared, Cleared
<1>5. AnsweredInv
  BY DEF Engine!AnsweredInv, AnsweredInv, Engine!Answered, Answered, Engine!RepliedIn, RepliedIn,
       Engine!Has, Has, Engine!OpOwes, OpOwes, Engine!LoopOwes, LoopOwes
<1> QED BY <1>1, <1>2, <1>3, <1>4, <1>5

\* The step of a turn that leaves other turns in the agent leaves their calls.
LEMMA OwnersStay ==
  ASSUME OwnerInv, UNCHANGED <<callPc, owner>>,
         \A r \in Reqs : IsTurn(r) /\ opPc[r] = "agent" => IsTurn(r)' /\ opPc'[r] = "agent"
  PROVE  OwnerInv'
BY DEF OwnerInv, UnderWay, Reqs, Calls, None

\* serveLoop starts operations and never touches one that is in the agent.
LEMMA LoopKeepsAgents ==
  ASSUME Engine!ServerInv, ServeLoop, NEW r \in Reqs, opPc[r] = "agent"
  PROVE  opPc'[r] = "agent" /\ method' = method
<1>1. CASE EmitTurnBegin
  BY <1>1, EngineFacts DEF EmitTurnBegin, HandsInv, LoopOwes, readVars
<1>2. CASE HandleReplay
  <2>1. loopReq' = Head(dispatchCh) /\ dispatchCh # <<>> /\ method' = method
    BY <1>2 DEF HandleReplay, Take, readVars
  <2>2. dispatchCh \in Seq(Reqs)
    BY EngineFacts
  <2>3. 1 \in DOMAIN dispatchCh /\ Head(dispatchCh) = dispatchCh[1] /\ dispatchCh[1] \in Reqs
    BY <2>1, <2>2
  <2>4. opPc[loopReq'] = "none"
    BY <2>1, <2>3, EngineFacts DEF QueueInv
  <2> QED BY <1>2, <2>1, <2>4, EngineFacts DEF HandleReplay
<1>3. CASE ~EmitTurnBegin /\ ~HandleReplay
  BY <1>3 DEF ServeLoop, LoopStep, Dispatch, HandleInitialize, HandlePrompt, HandleSteer,
       HandleCancel, HandleSetPlanMode, HandleOther, Take, EndTurnReturns, SteerSend,
       SteerTooLate, SteerReturns, CancelMark, CancelDone, CancelShutdown, LoopReply, LoopExit,
       PlanEmits, PlanReturns, LoopAnswers, opVars, readVars
<1> QED BY <1>1, <1>2, <1>3

\* The steps of readLoop, Serve, its caller and Close leave the agents alone.
LEMMA RestKeepsAgents ==
  ASSUME Engine!ServerInv, ReadLoop \/ Serve \/ CtxCancel \/ Close,
         NEW r \in Reqs, opPc[r] = "agent"
  PROVE  opPc'[r] = "agent" /\ method'[r] = method[r]
<1>1. CASE \E m \in ClientMethods : ReadRequest(m)
  <2>1. r # nread + 1
    BY EngineFacts DEF QueueInv, Reqs, None
  <2> QED BY <1>1, <2>1, EngineFacts DEF ReadRequest, opVars
<1>2. CASE ReadLoop /\ ~\E m \in ClientMethods : ReadRequest(m)
  BY <1>2 DEF ReadLoop, ReadGarbage, ReadFails, ReadCancelled, ReadClosed, ReadEnds, Push,
       PushAborted, opVars, readVars
<1>3. CASE Serve \/ CtxCancel \/ Close
  BY <1>3 DEF Serve, ServeCancels, ClearActiveTurn, OpWaited, WaitTimeout, ServeReturns, ServeStep,
       CtxCancel, Close, opVars, readVars
<1> QED BY <1>1, <1>2, <1>3

\* A step of the calls continues one that is under way.
LEMMA CallsContinue ==
  ASSUME Engine!ServerInv, CallSafety!RequestsInv, NEW c \in Calls, UnderWay(c)',
         \/ \E id \in Calls : Requests!ReadResponse(id, Requests!Result(id))
         \/ Requests!RouteSend \/ Requests!RouteDropped
         \/ \E io \in BOOLEAN : Requests!ReadEnds(io)
         \/ Requests!ServeCancels \/ Requests!ClosePending \/ Requests!PendingClosed
         \/ \E d \in Calls : Requests!FailCall(d)
         \/ \E d \in Calls :
              \/ Requests!WriteRequest(d) \/ Requests!Receive(d) \/ Requests!GiveUp(d)
              \/ Requests!ServeOver(d) \/ Requests!Unregister(d) \/ Requests!Drain(d)
              \/ Requests!CtxExpires(d)
  PROVE  UnderWay(c)
<1> USE DEF UnderWay, Requests!readVars, Requests!serveVars, Requests!callVars
<1>1. CASE UNCHANGED callPc
  BY <1>1
<1>2. ASSUME NEW d \in Calls,
             \/ Requests!WriteRequest(d) \/ Requests!Receive(d) \/ Requests!GiveUp(d)
             \/ Requests!ServeOver(d) \/ Requests!Unregister(d) \/ Requests!Drain(d)
      PROVE  UnderWay(c)
  <2>1. callPc \in [Calls -> CallSafety!CallPcs]
    BY DEF CallSafety!RequestsInv, CallSafety!TypeOK, Calls, CallSafety!Calls
  <2>2. \E from \in {"write", "wait", "unregister", "drain"}, to \in CallSafety!CallPcs :
          callPc[d] = from /\ callPc' = [callPc EXCEPT ![d] = to]
    BY <1>2 DEF Requests!WriteRequest, Requests!Receive, Requests!GiveUp, Requests!ServeOver,
         Requests!Unregister, Requests!Drain, Requests!Leaves, Requests!CallStep,
         CallSafety!CallPcs
  <2> QED BY <2>1, <2>2
<1>3. \/ UNCHANGED callPc
      \/ \E d \in Calls :
           \/ Requests!WriteRequest(d) \/ Requests!Receive(d) \/ Requests!GiveUp(d)
           \/ Requests!ServeOver(d) \/ Requests!Unregister(d) \/ Requests!Drain(d)
  BY DEF Requests!ReadResponse, Requests!RouteSend, Requests!RouteDropped, Requests!ReadEnds,
       Requests!ServeCancels, Requests!ClosePending, Requests!PendingClosed, Requests!FailCall,
       Requests!CtxExpires
<1> QED BY <1>1, <1>2, <1>3

\* Every step of the whole server keeps calls with turns that are in the agent.
LEMMA OwnerStep ==
  ASSUME Engine!ServerInv, CallSafety!RequestsInv, OwnerInv, [SystemNext]_systemVars
  PROVE  OwnerInv'
<1>1. ASSUME ServeLoop \/ ReadLoop \/ Serve \/ CtxCancel \/ Close, UNCHANGED <<callPc, owner>>
      PROVE  OwnerInv'
  BY <1>1, OwnersStay, LoopKeepsAgents, RestKeepsAgents DEF IsTurn
<1>2. ASSUME UNCHANGED <<turnVars, owner>>,
             \/ \E id \in Calls : Requests!ReadResponse(id, Requests!Result(id))
             \/ Requests!RouteSend \/ Requests!RouteDropped
             \/ Requests!ClosePending \/ Requests!PendingClosed
             \/ \E d \in Calls : Requests!FailCall(d)
             \/ \E d \in Calls :
                  \/ Requests!WriteRequest(d) \/ Requests!Receive(d) \/ Requests!GiveUp(d)
                  \/ Requests!ServeOver(d) \/ Requests!Unregister(d) \/ Requests!Drain(d)
                  \/ Requests!CtxExpires(d)
      PROVE  OwnerInv'
  <2>1. UNCHANGED <<opPc, method, owner>>
    BY <1>2 DEF turnVars, opVars
  <2>2. \A c \in Calls : UnderWay(c)' => UnderWay(c)
    BY <1>2, CallsContinue
  <2> QED BY <2>1, <2>2 DEF OwnerInv, IsTurn, Calls, Reqs, None
<1>3. CASE SystemReadLoop
  <2>1. ASSUME LoopEnds(ReadFails) \/ LoopEnds(ReadCancelled) \/ LoopEnds(ReadClosed)
        PROVE  OwnerInv'
    BY <1>1, <2>1 DEF LoopEnds, Requests!ReadEnds, Requests!callVars, ReadLoop
  <2> QED BY <1>1, <1>2, <1>3, <2>1 DEF SystemReadLoop, Turn, Request, ReadLoop, requestVars
<1>4. CASE SystemServe
  <2>1. ASSUME SystemServeCancels PROVE OwnerInv'
    BY <1>1, <2>1 DEF SystemServeCancels, Requests!ServeCancels, Requests!callVars, Serve
  <2> QED BY <1>1, <1>2, <1>4, <2>1 DEF SystemServe, SystemClear, Turn, Request, Serve, requestVars
<1>5. CASE Turn(ServeLoop \/ CtxCancel \/ Close)
  BY <1>1, <1>5 DEF Turn, requestVars
<1>6. ASSUME NEW r \in Reqs, Turn(EndOp(r) \/ AgentEmits(r) \/ AgentSteerInput(r))
      PROVE  OwnerInv'
  <2>1. method' = method /\ UNCHANGED <<callPc, owner>>
    BY <1>6 DEF Turn, requestVars, EndOp, TurnEmitEnd, TurnClose, TurnClear, TurnDecide, OpReply,
         ReplayClear, ReplayClose, AgentEmits, AgentSteerInput, OpStep, readVars
  <2>2. \A s \in Reqs : opPc[s] = "agent" => opPc'[s] = "agent"
    BY <1>6, EngineFacts DEF Turn, EndOp, TurnEmitEnd, TurnClose, TurnClear, TurnDecide, OpReply,
         ReplayClear, ReplayClose, AgentEmits, AgentSteerInput, OpStep
  <2> QED BY <2>1, <2>2, OwnersStay DEF IsTurn
<1>7. ASSUME NEW r \in Reqs, SystemAgentReturns(r) PROVE OwnerInv'
  <2>1. /\ \A c \in Calls : owner[c] = r => callPc[c] = "returned"
        /\ UNCHANGED <<callPc, owner, method>>
        /\ \A s \in Reqs \ {r} : opPc'[s] = opPc[s]
    BY <1>7, EngineFacts DEF SystemAgentReturns, Turn, AgentReturns, OpStep, requestVars, readVars
  <2> QED BY <2>1 DEF OwnerInv, UnderWay, IsTurn, Calls, Reqs, None
<1>8. ASSUME NEW r \in Reqs, NEW k \in Kinds, AgentCalls(r, k) PROVE OwnerInv'
  <2>1. UNCHANGED <<opPc, method>>
    BY <1>8 DEF AgentCalls, turnVars, opVars
  <2>2. callPc \in [Calls -> CallSafety!CallPcs]
    BY DEF CallSafety!RequestsInv, CallSafety!TypeOK, Calls, CallSafety!Calls
  <2>3. PICK d \in Calls : /\ owner' = [owner EXCEPT ![d] = r]
                          /\ \A c \in Calls \ {d} : callPc'[c] = callPc[c]
    <3>1. ncalls + 1 \in Calls
      BY <1>8, SystemAssumption DEF AgentCalls, Requests!Call, CallSafety!RequestsInv,
           CallSafety!TypeOK, Calls
    <3> QED BY <1>8, <2>2, <3>1 DEF AgentCalls, Requests!Call
  <2>4. IsTurn(r) /\ opPc[r] = "agent"
    BY <1>8 DEF AgentCalls
  <2> QED BY <2>1, <2>3, <2>4 DEF OwnerInv, UnderWay, IsTurn, Calls, Reqs, None
<1>9. ASSUME NEW c \in Calls, SystemCallRuns(c) \/ CallExpires(c) PROVE OwnerInv'
  BY <1>2, <1>9 DEF SystemCallRuns, CallWrites, CallExpires, Request
<1>10. CASE UNCHANGED systemVars
  BY <1>10, OwnersStay DEF systemVars, vars, requestVars, opVars, readVars, IsTurn
<1> QED BY <1>3, <1>4, <1>5, <1>6, <1>7, <1>8, <1>9, <1>10 DEF SystemNext

\* A step of the whole server is one of the turn engine, or leaves its variables
\* alone, except that readLoop may enter or leave routeResponse.
LEMMA SystemCases ==
  ASSUME [SystemNext]_systemVars
  PROVE  \/ ReadLoop \/ ServeLoop \/ Serve \/ CtxCancel \/ Close
         \/ \E r \in Reqs : EndOp(r) \/ AgentRuns(r)
         \/ UNCHANGED <<ctxDone, turnVars>>
<1>1. CASE SystemReadLoop
  BY <1>1 DEF SystemReadLoop, Turn, Request, LoopEnds, ReadLoop, Requests!ReadResponse,
       Requests!RouteSend, Requests!RouteDropped, Requests!serveVars
<1>2. CASE SystemServe
  BY <1>2 DEF SystemServe, SystemServeCancels, SystemClear, Turn, Request, Serve,
       Requests!ClosePending, Requests!PendingClosed, Requests!FailCall
<1>3. CASE Turn(ServeLoop \/ CtxCancel \/ Close)
  BY <1>3 DEF Turn
<1>4. ASSUME NEW r \in Reqs, \/ Turn(EndOp(r) \/ AgentEmits(r) \/ AgentSteerInput(r))
                             \/ SystemAgentReturns(r)
      PROVE  EndOp(r) \/ AgentRuns(r)
  BY <1>4 DEF Turn, SystemAgentReturns, AgentRuns
<1>5. ASSUME NEW r \in Reqs, NEW k \in Kinds, AgentCalls(r, k)
      PROVE  UNCHANGED <<ctxDone, turnVars>>
  BY <1>5 DEF AgentCalls, Requests!Call, Requests!serveVars
<1>6. ASSUME NEW c \in Calls, SystemCallRuns(c) \/ CallExpires(c)
      PROVE  UNCHANGED <<ctxDone, turnVars>>
  BY <1>6 DEF SystemCallRuns, CallWrites, CallExpires, Request, Requests!WriteRequest,
       Requests!Receive, Requests!GiveUp, Requests!ServeOver, Requests!Unregister,
       Requests!Drain, Requests!CtxExpires, Requests!Leaves, Requests!CallStep,
       Requests!serveVars
<1>7. CASE UNCHANGED systemVars
  BY <1>7 DEF systemVars, vars, turnVars, readVars
<1> QED BY <1>1, <1>2, <1>3, <1>4, <1>5, <1>6, <1>7 DEF SystemNext

\* Steps that neither move serveLoop nor start an operation.
LEMMA ReachFrame ==
  ASSUME ReachInv, UNCHANGED <<loopPc, loopOp>>,
         ctxDone => ctxDone', servePc' # "wait_read" => ctxDone',
         \A r \in Reqs : opPc'[r] = "agent" => opPc[r] = "agent",
         loopPc = "cancel_wait" /\ opCancel[loopOp] = TRUE => opCancel'[loopOp] = TRUE
  PROVE  ReachInv'
BY DEF ReachInv, Reqs

\* Every step of the whole server keeps the cancelled turn within reach.
LEMMA ReachStep ==
  ASSUME Engine!ServerInv, ReachInv, [SystemNext]_systemVars
  PROVE  ReachInv'
<1> USE DEF loopVars, serveVars, opVars
<1>1. CASE ReadLoop \/ Close \/ CtxCancel
  BY <1>1, ReachFrame DEF ReachInv, ReadLoop, ReadRequest, ReadGarbage, ReadFails, ReadCancelled,
       ReadClosed, ReadEnds, Push, PushAborted, Close, CtxCancel
<1>2. CASE Serve
  <2>1. UNCHANGED <<loopPc, loopOp, opPc>>
  BY <1>2 DEF Serve, ServeCancels, ClearActiveTurn, OpWaited, WaitTimeout, ServeReturns, ServeStep
  <2>2. ctxDone'
    BY <1>2 DEF ReachInv, Serve, ServeCancels, ClearActiveTurn, OpWaited, WaitTimeout,
         ServeReturns, ServeStep
  <2>3. opCancel' = opCancel \/ \E r \in Reqs : opCancel' = [opCancel EXCEPT ![r] = TRUE]
    BY <1>2, EngineFacts DEF Serve, ServeCancels, ClearActiveTurn, OpWaited, WaitTimeout,
         ServeReturns, ServeStep
  <2>4. loopPc = "cancel_wait" /\ opCancel[loopOp] = TRUE => opCancel'[loopOp] = TRUE
    BY <2>3, EngineFacts
  <2> QED BY <2>1, <2>2, <2>4, ReachFrame
<1>3. CASE HandleCancel
  <2>1. CASE loopPc' = "reply"
    BY <1>3, <2>1 DEF ReachInv, HandleCancel, Take
  <2>2. CASE activeOp # None /\ loopOp' = activeOp /\ loopPc' = "cancel_mark"
    <3>1. ~ctxDone => \A r \in Reqs : opPc[r] = "agent" => r = activeOp
      BY EngineFacts DEF ReachInv, SlotMatchesOperation, HoldsSlot, Cleared
    <3> QED BY <1>3, <2>2, <3>1 DEF ReachInv, HandleCancel, Take, Reqs
  <2> QED BY <1>3, <2>1, <2>2 DEF HandleCancel, Answer, Goto
<1>4. CASE CancelMark
  <2>1. loopOp \in Reqs /\ opCancel' = [opCancel EXCEPT ![loopOp] = TRUE]
    BY <1>4, EngineFacts DEF CancelMark
  <2> QED BY <1>4, <2>1, EngineFacts DEF ReachInv, CancelMark, Goto, Reqs
<1>5. CASE ServeLoop /\ ~HandleCancel /\ ~CancelMark
  <2>1. loopPc' \notin {"cancel_mark", "cancel_wait"}
    BY <1>5 DEF ServeLoop, LoopStep, Dispatch, HandleInitialize, HandlePrompt, HandleSteer,
         HandleReplay, HandleSetPlanMode, HandleOther, EmitTurnBegin, EndTurnReturns, SteerSend,
         SteerTooLate, SteerReturns, CancelDone, CancelShutdown, LoopReply, LoopExit, PlanEmits,
         PlanReturns, LoopAnswers, Answer, Goto
  <2>2. UNCHANGED <<servePc, ctxDone>>
    BY <1>5 DEF ServeLoop, LoopStep, Dispatch, HandleInitialize, HandlePrompt, HandleSteer,
         HandleReplay, HandleSetPlanMode, HandleOther, EmitTurnBegin, EndTurnReturns, SteerSend,
         SteerTooLate, SteerReturns, CancelDone, CancelShutdown, LoopReply, LoopExit, PlanEmits,
         PlanReturns, LoopAnswers, Take
  <2> QED BY <2>1, <2>2 DEF ReachInv
<1>6. ASSUME NEW r \in Reqs, EndOp(r) \/ AgentRuns(r) PROVE ReachInv'
  <2>1. UNCHANGED <<loopPc, loopOp, servePc, ctxDone>>
    BY <1>6 DEF EndOp, TurnEmitEnd, TurnClose, TurnClear, TurnDecide, OpReply, ReplayClear,
         ReplayClose, AgentRuns, AgentEmits, AgentSteerInput, AgentReturns, OpStep
  <2>2. \A s \in Reqs : opPc'[s] = "agent" => opPc[s] = "agent"
    BY <1>6, EngineFacts DEF EndOp, TurnEmitEnd, TurnClose, TurnClear, TurnDecide, OpReply,
         ReplayClear, ReplayClose, AgentRuns, AgentEmits, AgentSteerInput, AgentReturns, OpStep
  <2>3. opCancel' = opCancel \/ opCancel' = [opCancel EXCEPT ![r] = TRUE]
    BY <1>6 DEF EndOp, TurnEmitEnd, TurnClose, TurnClear, TurnDecide, OpReply, ReplayClear,
         ReplayClose, AgentRuns, AgentEmits, AgentSteerInput, AgentReturns
  <2>4. loopPc = "cancel_wait" /\ opCancel[loopOp] = TRUE => opCancel'[loopOp] = TRUE
    BY <2>3, EngineFacts
  <2> QED BY <2>1, <2>2, <2>4, ReachFrame DEF ReachInv
<1>7. CASE UNCHANGED <<ctxDone, turnVars>>
  BY <1>7, ReachFrame DEF turnVars, ReachInv
<1> QED BY <1>1, <1>2, <1>3, <1>4, <1>5, <1>6, <1>7, SystemCases

\* In the whole server a call under way or in s.pending is one of the turn in the
\* slot, which is still unanswered, and a cancel that waits for the turn has
\* ended the context the call was given: for any number of requests, calls and
\* responses, any agent and client, and any fault.
THEOREM CallsEndWithTurn == SystemSpec => []CallsWithinTurn
<1>1. SystemInit => OwnerInv /\ ReachInv
  BY DEF SystemInit, Init, Requests!Init, OwnerInv, ReachInv, UnderWay, Requests!Calls, Calls
<1>2. /\ Engine!ServerInv /\ CallSafety!RequestsInv /\ OwnerInv /\ ReachInv
      /\ [SystemNext]_systemVars
      => OwnerInv' /\ ReachInv'
  BY OwnerStep, ReachStep
<1>3. Engine!ServerInv /\ CallSafety!RequestsInv /\ OwnerInv /\ ReachInv => CallsWithinTurn
  <2> SUFFICES ASSUME Engine!ServerInv, CallSafety!RequestsInv, OwnerInv, ReachInv,
                      NEW c \in Calls, UnderWay(c) \/ c \in pending
               PROVE  /\ Cleared \/ activeTurn = owner[c]
                      /\ ~Answered(owner[c])
                      /\ loopPc = "cancel_wait" => OpCtxDone(owner[c])
    BY DEF CallsWithinTurn
  <2>1. UnderWay(c)
    BY DEF CallSafety!RequestsInv, CallSafety!PendingIsUnanswered, UnderWay
  <2>2. owner[c] \in Reqs /\ IsTurn(owner[c]) /\ opPc[owner[c]] = "agent"
    BY <2>1 DEF OwnerInv
  <2>3. Cleared \/ activeTurn = owner[c]
    BY <2>2, EngineFacts DEF SlotMatchesOperation, HoldsSlot, Reqs, None
  <2>4. ~Answered(owner[c])
    BY <2>2, EngineFacts DEF AnsweredInv, OpOwes
  <2>5. loopPc = "cancel_wait" => OpCtxDone(owner[c])
    BY <2>2 DEF ReachInv, OpCtxDone
  <2> QED BY <2>3, <2>4, <2>5
<1> QED BY <1>1, <1>2, <1>3, PartsStaySafe, PTL DEF SystemSpec
=============================================================================
