--------------------------- MODULE WireServerProofs ---------------------------
(***************************************************************************)
(* Proofs about WireServer, for every number of requests, every capacity   *)
(* of dispatchCh, every transport, client and agent.                       *)
(***************************************************************************)
EXTENDS WireServerInv, TLAPS, SequenceTheorems

-----------------------------------------------------------------------------
(***************************************************************************)
(* Type correctness.                                                       *)
(***************************************************************************)
\* A line of the right type is appended to wire, or nothing is written.
LEMMA WriteTyped ==
  ASSUME NEW line \in Lines, wire \in Seq(Lines), TryWrite(line)
  PROVE  wire' \in Seq(Lines)
BY DEF TryWrite, WriteLine, WriteFails

\* Serve starts in a state of the right type.
LEMMA InitTyped == Init => TypeInv
<1> SUFFICES ASSUME Init PROVE TypeInv
  OBVIOUS
<1>1. dispatchCh \in Seq(Reqs) /\ Len(dispatchCh) <= DispatchCap /\ wire \in Seq(Lines)
  BY ServerAssumption DEF Init
<1>2. nread \in 0..MaxReqs
  BY MaxReqsAssumption DEF Init
<1>3. /\ opPc \in [Reqs -> OpPcs] /\ method \in [Reqs -> Methods \cup {"none"}]
      /\ opResult \in [Reqs -> Outcomes \cup Answers \cup {"none"}]
      /\ steerCh \in [Reqs -> 0..1]
  BY DEF Init, OpPcs
<1>4. /\ opCancel \in [Reqs -> BOOLEAN] /\ opDone \in [Reqs -> BOOLEAN]
      /\ cancelled \in [Reqs -> BOOLEAN]
  BY DEF Init
<1>5. \A r \in Reqs : opPc[r] # "reply"
  BY DEF Init
<1> QED
  BY <1>1, <1>2, <1>3, <1>4, <1>5 DEF Init, TypeInv, TypeOK

\* The steps of readLoop keep the types.
LEMMA ReadLoopTyped == TypeInv /\ ReadLoop => TypeInv'
<1> SUFFICES ASSUME TypeInv, ReadLoop PROVE TypeInv'
  OBVIOUS
<1> USE ServerAssumption, MaxReqsAssumption
    DEF readVars, loopVars, serveVars, shakeVars, slotVars, opVars
<1>1. ASSUME NEW m \in ClientMethods, ReadRequest(m) PROVE TypeInv'
  BY <1>1 DEF ReadRequest, TypeInv, TypeOK, Reqs
<1>2. CASE ReadGarbage
  <2>1. wire' \in Seq(Lines)
    BY <1>2, WriteTyped DEF ReadGarbage, TypeInv, TypeOK, ParseError, Lines
  <2> QED BY <1>2, <2>1 DEF ReadGarbage, TypeInv, TypeOK
<1>3. CASE ReadFails \/ ReadCancelled \/ ReadClosed
  BY <1>3 DEF ReadFails, ReadCancelled, ReadClosed, ReadEnds, TypeInv, TypeOK
<1>4. CASE Push
  BY <1>4 DEF Push, TypeInv, TypeOK, Reqs
<1>5. CASE PushAborted
  BY <1>5 DEF PushAborted, TypeInv, TypeOK
<1> QED
  BY <1>1, <1>2, <1>3, <1>4, <1>5 DEF ReadLoop

\* The first step of every handler keeps the types.
LEMMA DispatchTyped == TypeInv /\ Dispatch => TypeInv'
<1> SUFFICES ASSUME TypeInv, Dispatch PROVE TypeInv'
  OBVIOUS
<1> USE ServerAssumption
    DEF readVars, loopVars, serveVars, shakeVars, slotVars, opVars, Take, Answer, Goto
<1>t. ASSUME dispatchCh # <<>>
      PROVE  /\ Head(dispatchCh) \in Reqs /\ Tail(dispatchCh) \in Seq(Reqs)
             /\ Len(Tail(dispatchCh)) <= DispatchCap
  BY <1>t DEF TypeInv, TypeOK
<1>1. CASE HandleInitialize
  <2>1. handshakeDone' \in BOOLEAN /\ planMode' \in BOOLEAN
    BY <1>1 DEF HandleInitialize, TypeInv, TypeOK
  <2> QED BY <1>1, <1>t, <2>1 DEF HandleInitialize, TypeInv, TypeOK, Answers
<1>2. CASE HandlePrompt
  BY <1>2, <1>t DEF HandlePrompt, TypeInv, TypeOK, Answers
<1>3. CASE HandleSteer
  BY <1>3, <1>t DEF HandleSteer, TypeInv, TypeOK, Answers
<1>4. CASE HandleCancel
  BY <1>4, <1>t DEF HandleCancel, TypeInv, TypeOK, Answers
<1>5. CASE HandleReplay
  BY SMTT(30), <1>5, <1>t DEF HandleReplay, TypeInv, TypeOK, Answers, OpPcs
<1>6. CASE HandleSetPlanMode
  BY <1>6, <1>t DEF HandleSetPlanMode, TypeInv, TypeOK, Answers
<1>7. CASE HandleOther
  BY <1>7, <1>t DEF HandleOther, TypeInv, TypeOK, Answers
<1> QED
  BY <1>1, <1>2, <1>3, <1>4, <1>5, <1>6, <1>7 DEF Dispatch

\* So do all steps of serveLoop ...
LEMMA LoopTyped == TypeInv /\ ServeLoop => TypeInv'
<1> SUFFICES ASSUME TypeInv, ServeLoop PROVE TypeInv'
  OBVIOUS
<1> USE ServerAssumption
    DEF readVars, loopVars, serveVars, shakeVars, slotVars, opVars, Answer, Goto
<1>1. CASE EmitTurnBegin
  <2>1. wire' \in Seq(Lines)
    <3>1. TurnBegin(loopReq) \in Lines
      BY DEF TypeInv, TypeOK, TurnBegin, Lines
    <3> QED BY <1>1, <3>1, WriteTyped DEF EmitTurnBegin, TypeInv, TypeOK, TryWrite
  <2>2. /\ opPc' \in [Reqs -> OpPcs]
        /\ opResult' \in [Reqs -> Outcomes \cup Answers \cup {"none"}]
        /\ \A r \in Reqs : opPc'[r] = "reply" => opResult'[r] \in Answers
    BY <1>1 DEF EmitTurnBegin, TypeInv, TypeOK, OpPcs, Outcomes
  <2> QED BY <1>1, <2>1, <2>2 DEF EmitTurnBegin, TypeInv, TypeOK
<1>2. CASE EndTurnReturns \/ LoopExit
  BY <1>2 DEF EndTurnReturns, LoopExit, TypeInv, TypeOK
<1>3. CASE SteerSend
  <2>1. steerCh' \in [Reqs -> 0..1]
    BY <1>3 DEF SteerSend, TypeInv, TypeOK
  <2> QED BY <1>3, <2>1 DEF SteerSend, TypeInv, TypeOK
<1>4. CASE SteerTooLate \/ SteerReturns \/ CancelDone \/ CancelShutdown \/ PlanReturns
  BY <1>4 DEF SteerTooLate, SteerReturns, CancelDone, CancelShutdown, PlanReturns,
              LoopAnswers, TypeInv, TypeOK, Answers
<1>5. CASE CancelMark
  <2>1. cancelled' \in [Reqs -> BOOLEAN] /\ opCancel' \in [Reqs -> BOOLEAN]
    BY <1>5 DEF CancelMark, TypeInv, TypeOK
  <2> QED BY <1>5, <2>1 DEF CancelMark, TypeInv, TypeOK
<1>6. CASE LoopReply
  <2>1. wire' \in Seq(Lines)
    BY <1>6, WriteTyped DEF LoopReply, TypeInv, TypeOK, Reply, Lines
  <2> QED BY <1>6, <2>1 DEF LoopReply, TypeInv, TypeOK
<1>7. CASE PlanEmits
  BY <1>7 DEF PlanEmits, TypeInv, TypeOK, AgentEvent, Lines
<1> QED
  BY DispatchTyped, <1>1, <1>2, <1>3, <1>4, <1>5, <1>6, <1>7 DEF ServeLoop, LoopStep

\* ... those of the goroutine of a prompt or replay ...
LEMMA OpTyped == TypeInv /\ (\E r \in Reqs : EndOp(r) \/ AgentRuns(r)) => TypeInv'
<1> SUFFICES ASSUME TypeInv, NEW r \in Reqs, EndOp(r) \/ AgentRuns(r) PROVE TypeInv'
  OBVIOUS
<1> USE DEF readVars, loopVars, serveVars, shakeVars, slotVars, opVars, OpStep
<1>1. CASE AgentEmits(r)
  BY <1>1 DEF AgentEmits, TypeInv, TypeOK, AgentEvent, Lines, OpPcs
<1>2. CASE AgentSteerInput(r)
  BY <1>2 DEF AgentSteerInput, TypeInv, TypeOK, OpPcs
<1>3. ASSUME NEW o \in AgentOutcomes, AgentReturns(r, o) PROVE TypeInv'
  <2>1. ReplayAnswer(o) \in Answers /\ o \in Outcomes
    BY ServerAssumption DEF ReplayAnswer, Answers
  <2>2. /\ opPc' \in [Reqs -> OpPcs]
        /\ opResult' \in [Reqs -> Outcomes \cup Answers \cup {"none"}]
        /\ \A q \in Reqs : opPc'[q] = "reply" => opResult'[q] \in Answers
    <3>0. /\ opPc \in [Reqs -> OpPcs]
          /\ opResult \in [Reqs -> Outcomes \cup Answers \cup {"none"}]
          /\ \A q \in Reqs : opPc[q] = "reply" => opResult[q] \in Answers
      BY DEF TypeInv, TypeOK
    <3>1. CASE IsTurn(r)
      <4>1. /\ opPc' = [opPc EXCEPT ![r] = "emit_end"]
            /\ opResult' = [opResult EXCEPT ![r] = o]
        BY <1>3, <3>1 DEF AgentReturns
      <4> QED BY <2>1, <3>0, <4>1 DEF OpPcs
    <3>2. CASE ~IsTurn(r)
      <4>1. /\ opPc' = [opPc EXCEPT ![r] = "reply"]
            /\ opResult' = [opResult EXCEPT ![r] = ReplayAnswer(o)]
        BY <1>3, <3>2 DEF AgentReturns
      <4> QED BY <2>1, <3>0, <4>1 DEF OpPcs
    <3> QED BY <3>1, <3>2
  <2> QED BY <1>3, <2>2 DEF AgentReturns, TypeInv, TypeOK
<1>4. CASE TurnEmitEnd(r)
  <2>1. wire' \in Seq(Lines)
    BY <1>4, WriteTyped DEF TurnEmitEnd, TypeInv, TypeOK, TurnEnd, Lines
  <2> QED BY <1>4, <2>1 DEF TurnEmitEnd, TypeInv, TypeOK, OpPcs
<1>5. CASE TurnClose(r) \/ ReplayClose(r)
  <2>1. opDone' \in [Reqs -> BOOLEAN] /\ opCancel' \in [Reqs -> BOOLEAN]
    BY <1>5 DEF TurnClose, ReplayClose, TypeInv, TypeOK
  <2> QED BY <1>5, <2>1 DEF TurnClose, ReplayClose, TypeInv, TypeOK, OpPcs
<1>6. CASE TurnClear(r) \/ ReplayClear(r)
  BY <1>6 DEF TurnClear, ReplayClear, TypeInv, TypeOK, OpPcs
<1>7. CASE TurnDecide(r)
  <2>1. PromptAnswer(opResult[r], cancelled[r]) \in Answers
    BY DEF PromptAnswer, Answers
  <2> QED BY <1>7, <2>1 DEF TurnDecide, TypeInv, TypeOK, OpPcs
<1>8. CASE OpReply(r)
  <2>1. wire' \in Seq(Lines)
    BY <1>8, WriteTyped DEF OpReply, TypeInv, TypeOK, Reply, Lines
  <2> QED BY <1>8, <2>1 DEF OpReply, TypeInv, TypeOK, OpPcs
<1> QED
  BY <1>1, <1>2, <1>3, <1>4, <1>5, <1>6, <1>7, <1>8 DEF EndOp, AgentRuns

\* ... and those of Serve, its caller and Close.
LEMMA ServeTyped == TypeInv /\ (Serve \/ CtxCancel \/ Close) => TypeInv'
<1> SUFFICES ASSUME TypeInv, Serve \/ CtxCancel \/ Close PROVE TypeInv'
  OBVIOUS
<1> USE DEF readVars, loopVars, serveVars, shakeVars, slotVars, opVars
<1>1. CASE ServeCancels \/ CtxCancel \/ Close
  <2>1. ctxDone' \in BOOLEAN /\ closed' \in BOOLEAN
    BY <1>1 DEF ServeCancels, CtxCancel, Close, TypeInv, TypeOK
  <2> QED BY <1>1, <2>1 DEF ServeCancels, CtxCancel, Close, TypeInv, TypeOK
<1>2. CASE ClearActiveTurn
  <2>1. opCancel' \in [Reqs -> BOOLEAN]
    BY <1>2 DEF ClearActiveTurn, TypeInv, TypeOK
  <2> QED BY <1>2, <2>1 DEF ClearActiveTurn, TypeInv, TypeOK
<1>3. CASE OpWaited \/ WaitTimeout \/ ServeReturns
  BY <1>3 DEF OpWaited, WaitTimeout, ServeReturns, ServeStep, TypeInv, TypeOK
<1> QED
  BY <1>1, <1>2, <1>3 DEF Serve

\* Every step of the server keeps the types.
LEMMA StepTyped == TypeInv /\ [Next]_vars => TypeInv'
<1>1. TypeInv /\ UNCHANGED vars => TypeInv'
  BY DEF vars, readVars, loopVars, serveVars, shakeVars, slotVars, opVars, TypeInv, TypeOK
<1> QED
  BY <1>1, ReadLoopTyped, LoopTyped, OpTyped, ServeTyped DEF Next, Terminated

\* The server's state keeps its type: in particular steerCh of a turn never
\* holds more than one input and every reply is one of the known answers.
THEOREM TypeCorrect == Spec => []TypeOK
<1>1. TypeInv => TypeOK
  BY DEF TypeInv
<1> QED
  BY InitTyped, StepTyped, <1>1, PTL DEF Spec

-----------------------------------------------------------------------------
(***************************************************************************)
(* Requests flow in order from readLoop to serveLoop to operations.        *)
(***************************************************************************)
\* What the receive on dispatchCh does to the order of requests.
LEMMA TakeInOrder ==
  ASSUME TypeInv, QueueInv, NEW m, Take(m)
  PROVE  /\ loopReq' \in Reqs /\ loopReq < loopReq' /\ loopReq' <= nread
         /\ readPc = "push" => loopReq' < nread
         /\ method[loopReq'] = m
         /\ opPc[loopReq'] = "none"
         /\ \A i \in DOMAIN dispatchCh' :
              /\ i + 1 \in DOMAIN dispatchCh
              /\ dispatchCh'[i] = dispatchCh[i + 1]
              /\ loopReq' < dispatchCh'[i]
<1>1. /\ dispatchCh \in Seq(Reqs) /\ dispatchCh # <<>>
      /\ dispatchCh' = Tail(dispatchCh) /\ loopReq' = dispatchCh[1]
      /\ 1 \in DOMAIN dispatchCh
  BY DEF TypeInv, TypeOK, Take
<1>2. \A i \in DOMAIN dispatchCh' :
        i \in Nat /\ i >= 1 /\ i + 1 \in DOMAIN dispatchCh /\ dispatchCh'[i] = dispatchCh[i + 1]
  BY <1>1
<1>3. \A i \in DOMAIN dispatchCh' : loopReq' < dispatchCh'[i]
  BY <1>1, <1>2 DEF QueueInv
<1>4. loopReq' \in Reqs /\ loopReq < loopReq' /\ loopReq' <= nread
  BY <1>1 DEF QueueInv
<1>5. readPc = "push" => loopReq' < nread
  BY <1>1 DEF QueueInv
<1> QED
  BY <1>1, <1>2, <1>3, <1>4, <1>5 DEF QueueInv, Take

\* Request numbers are natural numbers.
LEMMA Numbers ==
  ASSUME TypeInv
  PROVE  /\ Reqs \subseteq Nat /\ nread \in Nat /\ loopReq \in Nat
         /\ \A i \in DOMAIN dispatchCh : i \in Nat /\ dispatchCh[i] \in Nat
BY MaxReqsAssumption DEF TypeInv, TypeOK, Reqs, None

\* The receive on dispatchCh keeps the requests in order.
LEMMA TakeQueue ==
  ASSUME TypeInv, QueueInv, NEW m, Take(m),
         \A r \in Reqs : loopReq' < r => opPc'[r] = "none"
  PROVE  QueueInv'
<1>1. nread' = nread /\ readPc' = readPc
  BY DEF Take, readVars
<1>2. \A i \in DOMAIN dispatchCh' : loopReq' < dispatchCh'[i] /\ dispatchCh'[i] <= nread'
  BY <1>1, TakeInOrder DEF QueueInv
<1>3. \A i, j \in DOMAIN dispatchCh' : i < j => dispatchCh'[i] < dispatchCh'[j]
  <2> SUFFICES ASSUME NEW i \in DOMAIN dispatchCh', NEW j \in DOMAIN dispatchCh', i < j
               PROVE  dispatchCh'[i] < dispatchCh'[j]
    OBVIOUS
  <2>1. i \in Nat /\ j \in Nat
    BY DEF Take, TypeInv, TypeOK
  <2> QED BY <2>1, TakeInOrder DEF QueueInv
<1>4. readPc' = "push" =>
        loopReq' < nread' /\ \A i \in DOMAIN dispatchCh' : dispatchCh'[i] < nread'
  BY <1>1, TakeInOrder DEF QueueInv
<1> QED
  BY <1>1, <1>2, <1>3, <1>4, TakeInOrder DEF QueueInv

\* A step of an operation touches neither the queue nor a later request.
LEMMA OpStepQueue ==
  ASSUME TypeInv, QueueInv, NEW r \in Reqs, NEW from \in OpPcs \ {"none"}, NEW to,
         OpStep(r, from, to)
  PROVE  QueueInv'
BY DEF OpStep, QueueInv, TypeInv, TypeOK, readVars, loopVars

\* Requests pass from readLoop to serveLoop in order, whatever the step.
LEMMA QueueStep == TypeInv /\ QueueInv /\ HandsInv /\ [Next]_vars => QueueInv'
<1> SUFFICES ASSUME TypeInv, QueueInv, HandsInv, [Next]_vars PROVE QueueInv'
  OBVIOUS
<1> USE DEF readVars, loopVars, serveVars, shakeVars, slotVars, opVars
<1>1. CASE UNCHANGED <<loopReq, nread, dispatchCh, readPc, opPc>>
  BY <1>1 DEF QueueInv
<1>2. ASSUME NEW m \in ClientMethods, ReadRequest(m) PROVE QueueInv'
  BY <1>2, Numbers DEF ReadRequest, QueueInv
<1>3. CASE Push
  BY <1>3 DEF Push, QueueInv, TypeInv, TypeOK, Reqs, None
<1>4. CASE PushAborted \/ ReadFails \/ ReadCancelled \/ ReadClosed
  BY <1>4 DEF PushAborted, ReadFails, ReadCancelled, ReadClosed, ReadEnds, QueueInv
<1>5. CASE HandleReplay
  <2>1. Take("replay")
    BY <1>5 DEF HandleReplay
  <2>2. \A r \in Reqs : loopReq' < r => opPc'[r] = "none"
    <3> SUFFICES ASSUME NEW r \in Reqs, loopReq' < r PROVE opPc'[r] = "none"
      OBVIOUS
    <3>1. loopReq' \in Reqs /\ loopReq < loopReq'
      BY <2>1, TakeInOrder
    <3>2. opPc[r] = "none" /\ r # loopReq'
      BY <3>1, Numbers DEF QueueInv
    <3> QED BY <1>5, <3>2 DEF HandleReplay, TypeInv, TypeOK
  <2> QED BY <2>1, <2>2, TakeQueue
<1>6. CASE HandleInitialize \/ HandlePrompt \/ HandleSteer \/ HandleCancel
           \/ HandleSetPlanMode \/ HandleOther
  <2>1. PICK m : Take(m)
    BY <1>6 DEF HandleInitialize, HandlePrompt, HandleSteer, HandleCancel,
                HandleSetPlanMode, HandleOther
  <2>2. opPc' = opPc
    BY <1>6 DEF HandleInitialize, HandlePrompt, HandleSteer, HandleCancel,
                HandleSetPlanMode, HandleOther
  <2>3. \A r \in Reqs : loopReq' < r => opPc'[r] = "none"
    BY <2>1, <2>2, TakeInOrder DEF QueueInv, TypeInv, TypeOK, Reqs, None
  <2> QED BY <2>1, <2>3, TakeQueue
<1>7. CASE EmitTurnBegin
  <2>1. \A r \in Reqs : loopReq < r => opPc'[r] = opPc[r]
    BY <1>7, Numbers DEF EmitTurnBegin, TypeInv, TypeOK
  <2> QED BY <1>7, <2>1 DEF EmitTurnBegin, QueueInv
<1>8. CASE EndTurnReturns \/ SteerSend \/ SteerTooLate \/ SteerReturns \/ CancelMark
           \/ CancelDone \/ CancelShutdown \/ PlanEmits \/ PlanReturns \/ LoopReply
           \/ LoopExit \/ Serve \/ CtxCancel \/ Close \/ Terminated \/ ReadGarbage
  BY <1>1, <1>8 DEF EndTurnReturns, SteerSend, SteerTooLate, SteerReturns, CancelMark,
       CancelDone, CancelShutdown, PlanEmits, PlanReturns, LoopReply, LoopExit,
       LoopAnswers, Serve, ServeCancels, ClearActiveTurn, OpWaited, WaitTimeout,
       ServeReturns, ServeStep, CtxCancel, Close, Terminated, ReadGarbage, vars
<1>9. ASSUME NEW r \in Reqs, EndOp(r) \/ AgentRuns(r) PROVE QueueInv'
  BY <1>9, OpStepQueue DEF EndOp, AgentRuns, TurnEmitEnd, TurnClose, TurnClear,
       TurnDecide, OpReply, ReplayClear, ReplayClose, AgentEmits, AgentSteerInput,
       AgentReturns, OpPcs
<1> QED
  BY <1>1, <1>2, <1>3, <1>4, <1>5, <1>6, <1>7, <1>8, <1>9
  DEF Next, ReadLoop, ServeLoop, Dispatch, LoopStep, vars

-----------------------------------------------------------------------------
(***************************************************************************)
(* A request is in the hands of serveLoop or of an operation.              *)
(***************************************************************************)
\* A request has a method for good from the moment it is read: reading another
\* one does not change it for loopReq or for an operation.
LEMMA MethodKept ==
  ASSUME TypeInv, QueueInv, NEW m, ReadRequest(m), NEW r \in Reqs, r <= nread
  PROVE  method'[r] = method[r]
BY Numbers DEF ReadRequest, TypeInv, TypeOK

\* An operation exists only for a request that has been read.
LEMMA OpRead ==
  ASSUME TypeInv, QueueInv, NEW r \in Reqs, opPc[r] # "none" \/ r = loopReq
  PROVE  r <= nread
BY Numbers DEF QueueInv

\* No step leaves a request in the hands of both serveLoop and an operation.
LEMMA HandsStep == TypeInv /\ QueueInv /\ HandsInv /\ [Next]_vars => HandsInv'
<1> SUFFICES ASSUME TypeInv, QueueInv, HandsInv, [Next]_vars PROVE HandsInv'
  OBVIOUS
<1> USE DEF readVars, loopVars, serveVars, shakeVars, slotVars, opVars
<1>1. CASE UNCHANGED <<loopPc, loopReq, opPc, method>>
  BY <1>1 DEF HandsInv, LoopOwes, IsTurn
<1>2. ASSUME NEW m \in ClientMethods, ReadRequest(m) PROVE HandsInv'
  <2>1. \A r \in Reqs : opPc[r] # "none" \/ r = loopReq => method'[r] = method[r]
    BY <1>2, MethodKept, OpRead
  <2>2. UNCHANGED <<loopPc, loopReq, opPc>>
    BY <1>2 DEF ReadRequest
  <2>3. loopPc = "emit_begin" => loopReq \in Reqs
    BY DEF HandsInv, LoopOwes
  <2> QED BY <2>1, <2>2, <2>3 DEF HandsInv, LoopOwes, IsTurn
<1>3. CASE Push \/ PushAborted \/ ReadFails \/ ReadCancelled \/ ReadClosed \/ ReadGarbage
           \/ PlanEmits \/ Serve \/ CtxCancel \/ Close \/ Terminated
  BY <1>1, <1>3 DEF Push, PushAborted, ReadFails, ReadCancelled, ReadClosed, ReadEnds,
       ReadGarbage, PlanEmits, Serve, ServeCancels, ClearActiveTurn, OpWaited,
       WaitTimeout, ServeReturns, ServeStep, CtxCancel, Close, Terminated, vars
<1>4. CASE Dispatch
  <2>1. PICK m : Take(m)
    BY <1>4 DEF Dispatch, HandleInitialize, HandlePrompt, HandleSteer, HandleCancel,
                HandleReplay, HandleSetPlanMode, HandleOther
  <2>2. /\ loopReq' \in Reqs /\ opPc[loopReq'] = "none" /\ method' = method
        /\ method[loopReq'] = m
    BY <2>1, TakeInOrder DEF Take
  <2>3. CASE HandleReplay
    BY <2>2, <2>3 DEF HandleReplay, Answer, Goto, HandsInv, LoopOwes, IsTurn, TypeInv, TypeOK
  <2>4. CASE HandlePrompt
    <3>1. method[loopReq'] = "prompt"
      BY <2>2, <2>4 DEF HandlePrompt, Take
    <3> QED BY <2>2, <2>4, <3>1 DEF HandlePrompt, HandsInv, LoopOwes, IsTurn
  <2>5. CASE HandleInitialize \/ HandleSteer \/ HandleCancel \/ HandleSetPlanMode
             \/ HandleOther
    <3>1. opPc' = opPc /\ loopPc' # "emit_begin"
      BY <2>5 DEF HandleInitialize, HandleSteer, HandleCancel, HandleSetPlanMode,
                  HandleOther, Answer, Goto
    <3> QED BY <2>2, <3>1 DEF HandsInv, LoopOwes, IsTurn
  <2> QED BY <1>4, <2>3, <2>4, <2>5 DEF Dispatch
<1>5. CASE EmitTurnBegin
  BY <1>5 DEF EmitTurnBegin, Goto, HandsInv, LoopOwes, IsTurn, TypeInv, TypeOK
<1>6. CASE EndTurnReturns \/ LoopReply \/ LoopExit \/ SteerSend \/ CancelMark
           \/ SteerTooLate \/ SteerReturns \/ CancelDone \/ CancelShutdown \/ PlanReturns
  BY <1>6 DEF EndTurnReturns, LoopReply, LoopExit, SteerSend, CancelMark, SteerTooLate,
       SteerReturns, CancelDone, CancelShutdown, PlanReturns, LoopAnswers, Answer, Goto,
       HandsInv, LoopOwes, IsTurn
<1>7. ASSUME NEW r \in Reqs, EndOp(r) \/ AgentRuns(r) PROVE HandsInv'
  <2>1. PICK from \in OpPcs \ {"none"}, to \in OpPcs :
          OpStep(r, from, to) /\ (to \in {"emit_end", "decide"} => IsTurn(r))
    BY <1>7 DEF EndOp, AgentRuns, TurnEmitEnd, TurnClose, TurnClear, TurnDecide, OpReply,
         ReplayClear, ReplayClose, AgentEmits, AgentSteerInput, AgentReturns, OpPcs
  <2>2. UNCHANGED <<loopPc, loopReq, method>> /\ opPc[r] # "none"
    BY <2>1 DEF OpStep
  <2>3. LoopOwes => r # loopReq
    BY <2>2 DEF HandsInv
  <2> QED BY <2>1, <2>2, <2>3 DEF OpStep, HandsInv, LoopOwes, IsTurn, TypeInv, TypeOK
<1> QED
  BY <1>1, <1>2, <1>3, <1>4, <1>5, <1>6, <1>7
  DEF Next, ReadLoop, ServeLoop, LoopStep, vars

-----------------------------------------------------------------------------
(***************************************************************************)
(* The slot.                                                               *)
(***************************************************************************)
\* The slot stays right when nobody starts or stops holding it.
LEMMA SlotFrame ==
  ASSUME SlotMatchesOperation, TypeInv,
         UNCHANGED slotVars, Cleared => Cleared',
         \A r \in Reqs : HoldsSlot(r)' <=> HoldsSlot(r),
         \A r \in Reqs : HoldsSlot(r) => IsTurn(r)' = IsTurn(r)
  PROVE  SlotMatchesOperation'
BY DEF SlotMatchesOperation, slotVars, TypeInv, TypeOK

\* The slot of an operation that ends is freed by that operation only.
LEMMA SlotFreed ==
  ASSUME SlotMatchesOperation, TypeInv, NEW r \in Reqs, HoldsSlot(r), ~HoldsSlot(r)',
         \A q \in Reqs \ {r} : HoldsSlot(q)' <=> HoldsSlot(q),
         Cleared => Cleared', method' = method,
         IF activeOp = r THEN activeTurn' = None /\ activeOp' = None
                         ELSE UNCHANGED slotVars
  PROVE  SlotMatchesOperation'
BY DEF SlotMatchesOperation, slotVars, TypeInv, TypeOK, IsTurn, Reqs, None

\* A handler claims the slot only when it is free, and for its own request.
LEMMA SlotDispatch ==
  ASSUME TypeInv, QueueInv, HandsInv, SlotMatchesOperation, Dispatch
  PROVE  SlotMatchesOperation'
<1> USE DEF readVars, loopVars, serveVars, shakeVars, slotVars, opVars
<1>1. PICK m : Take(m)
  BY DEF Dispatch, HandleInitialize, HandlePrompt, HandleSteer, HandleCancel,
         HandleReplay, HandleSetPlanMode, HandleOther
<1>2. /\ loopReq' \in Reqs /\ opPc[loopReq'] = "none" /\ method' = method
      /\ method[loopReq'] = m /\ servePc' = servePc /\ loopPc = "select"
  BY <1>1, TakeInOrder DEF Take
<1>3. ASSUME opPc' = opPc, loopPc' # "emit_begin", UNCHANGED slotVars
      PROVE  SlotMatchesOperation'
  BY <1>2, <1>3, SlotFrame DEF HoldsSlot, Cleared, IsTurn
<1>4. CASE HandlePrompt
  <2>1. m = "prompt"
    BY <1>2, <1>4 DEF HandlePrompt, Take
  <2>2. CASE loopPc' = "reply"
    BY <1>3, <1>4, <2>2 DEF HandlePrompt, Answer, Goto
  <2>3. CASE loopPc' # "reply"
    <3>1. /\ ~Busy /\ opPc' = opPc /\ loopPc' = "emit_begin"
          /\ activeTurn' = loopReq' /\ activeOp' = loopReq'
      BY <1>4, <2>3 DEF HandlePrompt, Answer, Goto
    <3>2. \A q \in Reqs : HoldsSlot(q)' <=> HoldsSlot(q) \/ q = loopReq'
      BY <1>2, <3>1 DEF HoldsSlot, IsTurn
    <3>3. ~Cleared => \A q \in Reqs : ~HoldsSlot(q)
      BY <3>1 DEF SlotMatchesOperation, Busy, Reqs, None
    <3>4. IsTurn(loopReq)' /\ loopReq' # None
      BY <1>2, <2>1 DEF IsTurn, Reqs, None
    <3> QED BY <1>2, <3>1, <3>2, <3>3, <3>4 DEF SlotMatchesOperation, Cleared, IsTurn
  <2> QED BY <2>2, <2>3
<1>5. CASE HandleReplay
  <2>1. m = "replay"
    BY <1>2, <1>5 DEF HandleReplay, Take
  <2>2. CASE loopPc' = "reply"
    BY <1>3, <1>5, <2>2 DEF HandleReplay, Answer, Goto
  <2>3. CASE loopPc' # "reply"
    <3>1. /\ ~Busy /\ opPc' = [opPc EXCEPT ![loopReq'] = "agent"]
          /\ activeTurn' = None /\ activeOp' = loopReq' /\ loopPc' = "select"
      BY <1>5, <2>3 DEF HandleReplay, Answer, Goto, Busy
    <3>2. \A q \in Reqs : HoldsSlot(q)' <=> HoldsSlot(q) \/ q = loopReq'
      BY <1>2, <3>1 DEF HoldsSlot, IsTurn, TypeInv, TypeOK
    <3>3. ~Cleared => \A q \in Reqs : ~HoldsSlot(q)
      BY <3>1 DEF SlotMatchesOperation, Busy, Reqs, None
    <3>4. ~IsTurn(loopReq)'
      BY <1>2, <2>1 DEF IsTurn
    <3> QED BY <1>2, <3>1, <3>2, <3>3, <3>4 DEF SlotMatchesOperation, Cleared, IsTurn
  <2> QED BY <2>2, <2>3
<1>6. CASE HandleInitialize \/ HandleSteer \/ HandleCancel \/ HandleSetPlanMode
           \/ HandleOther
  BY <1>3, <1>6 DEF HandleInitialize, HandleSteer, HandleCancel, HandleSetPlanMode,
       HandleOther, Answer, Goto
<1> QED
  BY <1>4, <1>5, <1>6 DEF Dispatch

\* An operation frees the slot when, and only when, it holds it.
LEMMA SlotOp ==
  ASSUME TypeInv, HandsInv, SlotMatchesOperation, NEW r \in Reqs,
         EndOp(r) \/ AgentRuns(r)
  PROVE  SlotMatchesOperation'
<1> USE DEF readVars, loopVars, serveVars, shakeVars, slotVars, opVars
<1>1. PICK from \in OpPcs \ {"none"}, to \in OpPcs : OpStep(r, from, to)
  BY DEF EndOp, AgentRuns, TurnEmitEnd, TurnClose, TurnClear, TurnDecide, OpReply,
         ReplayClear, ReplayClose, AgentEmits, AgentSteerInput, AgentReturns, OpPcs
<1>2. /\ loopPc' = loopPc /\ loopReq' = loopReq /\ method' = method /\ servePc' = servePc
      /\ opPc[r] = from /\ opPc' = [opPc EXCEPT ![r] = to]
      /\ ~(loopPc = "emit_begin" /\ loopReq = r)
  BY <1>1 DEF OpStep, HandsInv, LoopOwes
<1>3. \A q \in Reqs \ {r} : HoldsSlot(q)' <=> HoldsSlot(q)
  BY <1>2 DEF HoldsSlot, IsTurn, TypeInv, TypeOK
<1>4. ASSUME HoldsSlot(r)' <=> HoldsSlot(r), UNCHANGED slotVars
      PROVE  SlotMatchesOperation'
  BY <1>2, <1>3, <1>4, SlotFrame DEF Cleared, IsTurn
<1>5. CASE AgentEmits(r) \/ AgentSteerInput(r)
  BY <1>2, <1>4, <1>5 DEF AgentEmits, AgentSteerInput, OpStep, HoldsSlot, IsTurn, TypeInv,
       TypeOK
<1>6. ASSUME NEW o \in AgentOutcomes, AgentReturns(r, o) PROVE SlotMatchesOperation'
  BY <1>2, <1>4, <1>6 DEF AgentReturns, OpStep, HoldsSlot, IsTurn, TypeInv, TypeOK
<1>7. CASE TurnEmitEnd(r)
  BY <1>2, <1>4, <1>7 DEF TurnEmitEnd, OpStep, HoldsSlot, IsTurn, HandsInv, TypeInv, TypeOK
<1>8. CASE TurnClose(r) \/ ReplayClose(r)
  BY <1>2, <1>4, <1>8 DEF TurnClose, ReplayClose, OpStep, HoldsSlot, IsTurn, TypeInv, TypeOK
<1>9. CASE TurnDecide(r)
  BY <1>2, <1>4, <1>9 DEF TurnDecide, OpStep, HoldsSlot, IsTurn, HandsInv, TypeInv, TypeOK
<1>10. CASE OpReply(r)
  BY <1>2, <1>4, <1>10 DEF OpReply, OpStep, HoldsSlot, IsTurn, TypeInv, TypeOK
<1>11. CASE TurnClear(r)
  <2>1. HoldsSlot(r) /\ ~HoldsSlot(r)'
    BY <1>2, <1>11 DEF TurnClear, OpStep, HoldsSlot, IsTurn, TypeInv, TypeOK
  <2>2. activeTurn = r <=> activeOp = r
    BY <1>11 DEF TurnClear, SlotMatchesOperation, Reqs, None
  <2> QED BY <1>2, <1>3, <1>11, <2>1, <2>2, SlotFreed DEF TurnClear, Cleared
<1>12. CASE ReplayClear(r)
  <2>1. HoldsSlot(r) /\ ~HoldsSlot(r)'
    BY <1>2, <1>12 DEF ReplayClear, OpStep, HoldsSlot, IsTurn, TypeInv, TypeOK
  <2>2. activeOp = r => activeTurn = None
    BY <1>12 DEF ReplayClear, SlotMatchesOperation
  <2> QED BY <1>2, <1>3, <1>12, <2>1, <2>2, SlotFreed DEF ReplayClear, Cleared
<1> QED
  BY <1>5, <1>6, <1>7, <1>8, <1>9, <1>10, <1>11, <1>12 DEF EndOp, AgentRuns

\* No step makes activeTurn and activeOp disagree with the running operation.
LEMMA SlotStep ==
  TypeInv /\ QueueInv /\ HandsInv /\ SlotMatchesOperation /\ [Next]_vars
    => SlotMatchesOperation'
<1> SUFFICES ASSUME TypeInv, QueueInv, HandsInv, SlotMatchesOperation, [Next]_vars
             PROVE  SlotMatchesOperation'
  OBVIOUS
<1> USE DEF readVars, loopVars, serveVars, shakeVars, slotVars, opVars
<1>1. CASE UNCHANGED <<servePc, loopPc, loopReq, opPc, slotVars, method>>
  BY <1>1, SlotFrame DEF Cleared, HoldsSlot, IsTurn
<1>2. ASSUME NEW m \in ClientMethods, ReadRequest(m) PROVE SlotMatchesOperation'
  <2>1. \A r \in Reqs : opPc[r] # "none" \/ r = loopReq => method'[r] = method[r]
    BY <1>2, MethodKept, OpRead
  <2>2. UNCHANGED <<servePc, loopPc, loopReq, opPc, slotVars>>
    BY <1>2 DEF ReadRequest
  <2> QED BY <2>1, <2>2, SlotFrame DEF Cleared, HoldsSlot, IsTurn
<1>3. CASE Push \/ PushAborted \/ ReadFails \/ ReadCancelled \/ ReadClosed \/ ReadGarbage
           \/ PlanEmits \/ CtxCancel \/ Close \/ Terminated
  BY <1>1, <1>3 DEF Push, PushAborted, ReadFails, ReadCancelled, ReadClosed, ReadEnds,
       ReadGarbage, PlanEmits, CtxCancel, Close, Terminated, vars
<1>4. CASE ServeCancels \/ OpWaited \/ WaitTimeout \/ ServeReturns
  BY <1>4, SlotFrame DEF ServeCancels, OpWaited, WaitTimeout, ServeReturns, ServeStep,
       Cleared, HoldsSlot, IsTurn
<1>5. CASE ClearActiveTurn
  BY <1>5 DEF ClearActiveTurn, SlotMatchesOperation, Cleared
<1>6. CASE EmitTurnBegin
  BY <1>6, SlotFrame DEF EmitTurnBegin, Goto, HandsInv, LoopOwes, HoldsSlot, IsTurn, Cleared,
       TypeInv, TypeOK
<1>7. CASE EndTurnReturns \/ LoopReply \/ LoopExit \/ SteerSend \/ CancelMark
           \/ SteerTooLate \/ SteerReturns \/ CancelDone \/ CancelShutdown \/ PlanReturns
  BY <1>7, SlotFrame DEF EndTurnReturns, LoopReply, LoopExit, SteerSend, CancelMark,
       SteerTooLate, SteerReturns, CancelDone, CancelShutdown, PlanReturns, LoopAnswers,
       Answer, Goto, HoldsSlot, IsTurn, Cleared
<1> QED
  BY <1>1, <1>2, <1>3, <1>4, <1>5, <1>6, <1>7, SlotDispatch, SlotOp
  DEF Next, ReadLoop, ServeLoop, LoopStep, Serve, vars

-----------------------------------------------------------------------------
(***************************************************************************)
(* Replies.                                                                *)
(***************************************************************************)
\* What one more line adds to the replies in a history.
LEMMA AppendedReply ==
  ASSUME wire \in Seq(Lines), NEW line \in Lines, wire' = Append(wire, line), NEW r
  PROVE  RepliedIn(wire, r)' <=> RepliedIn(wire, r) \/ (line.tag = "Reply" /\ line.req = r)
<1>1. /\ DOMAIN wire' = 1..(Len(wire) + 1) /\ DOMAIN wire = 1..Len(wire)
      /\ Len(wire) \in Nat
      /\ wire'[Len(wire) + 1] = line
      /\ \A i \in 1..Len(wire) : wire'[i] = wire[i]
  OBVIOUS
<1>2. Len(wire) + 1 \in DOMAIN wire' /\ \A i \in DOMAIN wire : i \in DOMAIN wire'
  BY <1>1
<1>3. \A i \in DOMAIN wire' : i \in DOMAIN wire \/ i = Len(wire) + 1
  BY <1>1
<1> QED
  BY <1>1, <1>2, <1>3 DEF RepliedIn

\* A reply to a request that has none keeps replies unique, and so does any
\* other line.
LEMMA AppendedUnique ==
  ASSUME wire \in Seq(Lines), AtMostOneReply, NEW line \in Lines,
         wire' = Append(wire, line), line.tag = "Reply" => ~RepliedIn(wire, line.req)
  PROVE  AtMostOneReply'
<1>1. /\ DOMAIN wire' = 1..(Len(wire) + 1) /\ DOMAIN wire = 1..Len(wire)
      /\ Len(wire) \in Nat
      /\ wire'[Len(wire) + 1] = line
      /\ \A i \in 1..Len(wire) : wire'[i] = wire[i]
  OBVIOUS
<1>2. \A i \in DOMAIN wire' : i \in DOMAIN wire \/ i = Len(wire) + 1
  BY <1>1
<1> QED
  BY <1>1, <1>2 DEF AtMostOneReply, RepliedIn

\* A step after which the same requests are answered, or to be answered.
LEMMA RepliesFrame ==
  ASSUME AnsweredInv, AtMostOneReply, wire' = wire, loopReq' = loopReq, LoopOwes' => LoopOwes,
         \A r \in Reqs : OpOwes(r)' => OpOwes(r)
  PROVE  AnsweredInv' /\ AtMostOneReply'
BY DEF AnsweredInv, AtMostOneReply, Answered, RepliedIn

\* The same for a step that writes a line which is not a reply.
LEMMA EventFrame ==
  ASSUME AnsweredInv, AtMostOneReply, wire \in Seq(Lines), NEW line \in Lines, TryWrite(line),
         line.tag # "Reply", loopReq' = loopReq, LoopOwes' => LoopOwes,
         \A r \in Reqs : OpOwes(r)' => OpOwes(r)
  PROVE  AnsweredInv' /\ AtMostOneReply'
<1>1. CASE WriteFails
  BY <1>1, RepliesFrame DEF WriteFails
<1>2. CASE WriteLine(line)
  <2>1. wire' = Append(wire, line)
    BY <1>2 DEF WriteLine
  <2>2. \A r : RepliedIn(wire, r)' <=> RepliedIn(wire, r)
    BY <2>1, AppendedReply
  <2>3. AtMostOneReply'
    BY <2>1, AppendedUnique
  <2> QED BY <2>2, <2>3 DEF AnsweredInv, Answered
<1> QED
  BY <1>1, <1>2 DEF TryWrite

\* A reply to q, by whoever owed it and no longer does.
LEMMA ReplyFrame ==
  ASSUME AnsweredInv, AtMostOneReply, wire \in Seq(Lines), NEW q \in Reqs, NEW a,
         Reply(q, a) \in Lines, TryWrite(Reply(q, a)), ~Answered(q), q <= loopReq,
         loopReq' = loopReq, ~OpOwes(q)',
         \A r \in Reqs : OpOwes(r)' => OpOwes(r),
         LoopOwes' => LoopOwes /\ q # loopReq
  PROVE  AnsweredInv' /\ AtMostOneReply'
<1>1. CASE WriteFails
  BY <1>1, RepliesFrame DEF WriteFails
<1>2. CASE WriteLine(Reply(q, a))
  <2>1. wire' = Append(wire, Reply(q, a)) /\ Reply(q, a).tag = "Reply" /\ Reply(q, a).req = q
    BY <1>2 DEF WriteLine, Reply
  <2>2. \A r : RepliedIn(wire, r)' <=> RepliedIn(wire, r) \/ r = q
    BY <2>1, AppendedReply
  <2>3. AtMostOneReply'
    BY <2>1, AppendedUnique DEF Answered
  <2> QED BY <2>2, <2>3 DEF AnsweredInv, Answered
<1> QED
  BY <1>1, <1>2 DEF TryWrite

\* An operation replies to its own request only, and once.
LEMMA RepliesOp ==
  ASSUME TypeInv, QueueInv, HandsInv, AnsweredInv, AtMostOneReply, NEW r \in Reqs,
         EndOp(r) \/ AgentRuns(r)
  PROVE  AnsweredInv' /\ AtMostOneReply'
<1> USE DEF readVars, loopVars, serveVars, shakeVars, slotVars, opVars
<1>1. PICK from \in OpPcs \ {"none"}, to \in OpPcs : OpStep(r, from, to)
  BY DEF EndOp, AgentRuns, TurnEmitEnd, TurnClose, TurnClear, TurnDecide, OpReply,
         ReplayClear, ReplayClose, AgentEmits, AgentSteerInput, AgentReturns, OpPcs
<1>2. /\ loopPc' = loopPc /\ loopReq' = loopReq /\ method' = method
      /\ opPc[r] = from /\ opPc' = [opPc EXCEPT ![r] = to] /\ LoopOwes' = LoopOwes
  BY <1>1 DEF OpStep, LoopOwes
<1>3. \A q \in Reqs \ {r} : OpOwes(q)' <=> OpOwes(q)
  BY <1>2 DEF OpOwes, IsTurn, TypeInv, TypeOK
<1>4. wire \in Seq(Lines)
  BY DEF TypeInv, TypeOK
<1>5. CASE AgentEmits(r)
  <2>1. AgentEvent(r) \in Lines /\ AgentEvent(r).tag # "Reply"
    BY DEF AgentEvent, Lines
  <2>2. wire' = Append(wire, AgentEvent(r)) /\ (OpOwes(r)' => OpOwes(r))
    BY <1>2, <1>5 DEF AgentEmits, OpStep, OpOwes, IsTurn, TypeInv, TypeOK
  <2>3. \A q : RepliedIn(wire, q)' <=> RepliedIn(wire, q)
    BY <1>4, <2>1, <2>2, AppendedReply
  <2>4. AtMostOneReply'
    BY <1>4, <2>1, <2>2, AppendedUnique
  <2> QED BY <1>2, <1>3, <2>2, <2>3, <2>4 DEF AnsweredInv, Answered
<1>6. CASE TurnEmitEnd(r)
  <2>1. TurnEnd(r) \in Lines /\ TurnEnd(r).tag # "Reply" /\ TryWrite(TurnEnd(r))
    BY <1>6 DEF TurnEnd, Lines, TurnEmitEnd
  <2>2. OpOwes(r)' => OpOwes(r)
    BY <1>2, <1>6 DEF TurnEmitEnd, OpStep, OpOwes, IsTurn, TypeInv, TypeOK
  <2> QED BY <1>2, <1>3, <1>4, <2>1, <2>2, EventFrame
<1>7. CASE OpReply(r)
  <2>1. /\ Reply(r, opResult[r]) \in Lines /\ TryWrite(Reply(r, opResult[r]))
        /\ opPc[r] = "reply"
    BY <1>7 DEF Reply, Lines, OpReply, OpStep, TypeInv
  <2>2. OpOwes(r) /\ ~OpOwes(r)'
    BY <1>2, <1>7 DEF OpReply, OpStep, OpOwes, IsTurn, TypeInv, TypeOK
  <2>3. ~Answered(r) /\ r <= loopReq
    BY <2>1, <2>2, Numbers DEF AnsweredInv, QueueInv
  <2>4. LoopOwes => r # loopReq
    BY <2>1 DEF HandsInv
  <2> QED BY <1>2, <1>3, <1>4, <2>1, <2>2, <2>3, <2>4, ReplyFrame
<1>8. ASSUME wire' = wire, OpOwes(r)' => OpOwes(r) PROVE AnsweredInv' /\ AtMostOneReply'
  BY <1>2, <1>3, <1>8, RepliesFrame
<1>9. CASE AgentSteerInput(r) \/ TurnClose(r) \/ TurnClear(r) \/ TurnDecide(r)
           \/ ReplayClear(r) \/ ReplayClose(r)
  BY <1>2, <1>8, <1>9 DEF AgentSteerInput, TurnClose, TurnClear, TurnDecide, ReplayClear,
       ReplayClose, OpStep, OpOwes, IsTurn, TypeInv, TypeOK
<1>10. ASSUME NEW o \in AgentOutcomes, AgentReturns(r, o)
       PROVE  AnsweredInv' /\ AtMostOneReply'
  BY <1>2, <1>8, <1>10 DEF AgentReturns, OpStep, OpOwes, IsTurn, TypeInv, TypeOK
<1> QED
  BY <1>5, <1>6, <1>7, <1>9, <1>10 DEF EndOp, AgentRuns

\* No step answers a request that has been answered.
LEMMA RepliesStep == ServerInv /\ [Next]_vars => AnsweredInv' /\ AtMostOneReply'
<1> SUFFICES ASSUME TypeInv, QueueInv, HandsInv, AnsweredInv, AtMostOneReply, [Next]_vars
             PROVE  AnsweredInv' /\ AtMostOneReply'
  BY DEF ServerInv
<1> USE DEF readVars, loopVars, serveVars, shakeVars, slotVars, opVars
<1>1. CASE UNCHANGED <<loopPc, loopReq, opPc, method, wire>>
  BY <1>1, RepliesFrame DEF LoopOwes, OpOwes, IsTurn
<1>2. ASSUME NEW m \in ClientMethods, ReadRequest(m)
      PROVE  AnsweredInv' /\ AtMostOneReply'
  <2>1. \A r \in Reqs : opPc[r] # "none" \/ r = loopReq => method'[r] = method[r]
    BY <1>2, MethodKept, OpRead
  <2>2. UNCHANGED <<loopPc, loopReq, opPc, wire>>
    BY <1>2 DEF ReadRequest
  <2> QED BY <2>1, <2>2, RepliesFrame DEF LoopOwes, OpOwes, IsTurn
<1>3. CASE Push \/ PushAborted \/ ReadFails \/ ReadCancelled \/ ReadClosed
           \/ Serve \/ CtxCancel \/ Close \/ Terminated
  BY <1>1, <1>3 DEF Push, PushAborted, ReadFails, ReadCancelled, ReadClosed, ReadEnds,
       Serve, ServeCancels, ClearActiveTurn, OpWaited, WaitTimeout, ServeReturns,
       ServeStep, CtxCancel, Close, Terminated, vars
<1>4. CASE ReadGarbage
  <2>1. ParseError \in Lines /\ ParseError.tag # "Reply" /\ TryWrite(ParseError)
    BY <1>4 DEF ReadGarbage, ParseError, Lines
  <2>2. UNCHANGED <<loopPc, loopReq, opPc, method>>
    BY <1>4 DEF ReadGarbage
  <2> QED BY <2>1, <2>2, EventFrame DEF LoopOwes, OpOwes, IsTurn, TypeInv, TypeOK
<1>5. CASE PlanEmits
  <2>1. /\ AgentEvent(loopReq) \in Lines /\ AgentEvent(loopReq).tag # "Reply"
        /\ TryWrite(AgentEvent(loopReq))
    BY <1>5 DEF PlanEmits, AgentEvent, Lines, TypeInv, TypeOK, TryWrite, WriteLine
  <2>2. UNCHANGED <<loopPc, loopReq, opPc, method>>
    BY <1>5 DEF PlanEmits
  <2> QED BY <2>1, <2>2, EventFrame DEF LoopOwes, OpOwes, IsTurn, TypeInv, TypeOK
<1>6. CASE Dispatch
  <2>1. PICK m : Take(m)
    BY <1>6 DEF Dispatch, HandleInitialize, HandlePrompt, HandleSteer, HandleCancel,
                HandleReplay, HandleSetPlanMode, HandleOther
  <2>2. /\ loopReq' \in Reqs /\ loopReq < loopReq' /\ method' = method /\ wire' = wire
        /\ opPc[loopReq'] = "none"
    BY <2>1, TakeInOrder DEF Take
  <2>3. \A r \in Reqs \ {loopReq'} : opPc'[r] = opPc[r]
    BY <1>6, <2>2 DEF Dispatch, HandleInitialize, HandlePrompt, HandleSteer, HandleCancel,
         HandleReplay, HandleSetPlanMode, HandleOther, TypeInv, TypeOK
  <2>4. ~Answered(loopReq')
    BY <2>2, Numbers DEF AnsweredInv
  <2>5. \A r : RepliedIn(wire, r)' <=> RepliedIn(wire, r)
    BY <2>2 DEF RepliedIn
  <2>6. \A r \in Reqs : Answered(r) => r <= loopReq' /\ r # loopReq' /\ ~OpOwes(r)
    BY <2>2, <2>4, Numbers DEF AnsweredInv
  <2>7. \A r \in Reqs : Answered(r)' => r <= loopReq' /\ ~OpOwes(r)'
    BY <2>2, <2>3, <2>5, <2>6 DEF OpOwes, IsTurn, Answered
  <2>8. ~RepliedIn(wire, loopReq)'
    BY <2>2, <2>4 DEF RepliedIn, Answered
  <2> QED BY <2>2, <2>7, <2>8 DEF AnsweredInv, AtMostOneReply, Answered
<1>7. CASE EmitTurnBegin
  <2>1. /\ TurnBegin(loopReq) \in Lines /\ TurnBegin(loopReq).tag # "Reply"
        /\ loopReq \in Reqs /\ ~Answered(loopReq) /\ loopReq' = loopReq /\ ~LoopOwes'
        /\ method' = method
    BY <1>7 DEF EmitTurnBegin, TurnBegin, Lines, HandsInv, LoopOwes, AnsweredInv, Goto
  <2>2. \A r : RepliedIn(wire, r)' <=> RepliedIn(wire, r)
    <3>1. CASE WriteFails
      BY <3>1 DEF WriteFails, RepliedIn
    <3>2. CASE WriteLine(TurnBegin(loopReq))
      BY <2>1, <3>2, AppendedReply DEF WriteLine, TypeInv, TypeOK
    <3> QED BY <1>7, <3>1, <3>2 DEF EmitTurnBegin
  <2>3. AtMostOneReply'
    <3>1. CASE WriteFails
      BY <3>1 DEF WriteFails, AtMostOneReply
    <3>2. CASE WriteLine(TurnBegin(loopReq))
      BY <2>1, <3>2, AppendedUnique DEF WriteLine, TypeInv, TypeOK
    <3> QED BY <1>7, <3>1, <3>2 DEF EmitTurnBegin
  <2>4. \A r \in Reqs \ {loopReq} : opPc'[r] = opPc[r]
    BY <1>7 DEF EmitTurnBegin, TypeInv, TypeOK
  <2>5. \A r \in Reqs : Answered(r)' => r <= loopReq' /\ ~OpOwes(r)'
    BY <2>1, <2>2, <2>4 DEF AnsweredInv, Answered, OpOwes, IsTurn
  <2> QED BY <2>1, <2>3, <2>5 DEF AnsweredInv
<1>8. CASE LoopReply
  <2>1. /\ Reply(loopReq, loopOut) \in Lines /\ loopReq \in Reqs /\ ~Answered(loopReq)
        /\ TryWrite(Reply(loopReq, loopOut)) /\ opPc[loopReq] = "none"
        /\ UNCHANGED <<loopReq, opPc, method>> /\ ~LoopOwes'
    BY <1>8 DEF LoopReply, Reply, Lines, HandsInv, LoopOwes, AnsweredInv, Goto, TypeInv, TypeOK
  <2>2. loopReq <= loopReq /\ ~OpOwes(loopReq)' /\ \A r \in Reqs : OpOwes(r)' <=> OpOwes(r)
    BY <2>1, Numbers DEF OpOwes, IsTurn
  <2> QED BY <2>1, <2>2, ReplyFrame DEF TypeInv, TypeOK
<1>9. CASE EndTurnReturns \/ LoopExit \/ SteerSend \/ CancelMark
           \/ SteerTooLate \/ SteerReturns \/ CancelDone \/ CancelShutdown \/ PlanReturns
  BY <1>9, RepliesFrame DEF EndTurnReturns, LoopExit, SteerSend, CancelMark, SteerTooLate,
       SteerReturns, CancelDone, CancelShutdown, PlanReturns, LoopAnswers, Answer, Goto,
       LoopOwes, OpOwes, IsTurn
<1> QED
  BY <1>1, <1>2, <1>3, <1>4, <1>5, <1>6, <1>7, <1>8, <1>9, RepliesOp
  DEF Next, ReadLoop, ServeLoop, LoopStep, vars

-----------------------------------------------------------------------------
(***************************************************************************)
(* The theorems.                                                           *)
(***************************************************************************)
\* The invariant holds when Serve starts.
LEMMA InitInv == Init => ServerInv
<1> SUFFICES ASSUME Init PROVE ServerInv
  OBVIOUS
<1>1. \A r \in Reqs : opPc[r] = "none"
  BY DEF Init
<1>2. DOMAIN dispatchCh = {} /\ DOMAIN wire = {}
  BY DEF Init
<1>3. QueueInv
  BY <1>1, <1>2 DEF Init, QueueInv, None
<1>4. HandsInv
  BY <1>1 DEF Init, HandsInv, LoopOwes
<1>5. SlotMatchesOperation
  BY <1>1 DEF Init, SlotMatchesOperation, HoldsSlot
<1>6. AnsweredInv /\ AtMostOneReply
  BY <1>2 DEF Init, AnsweredInv, AtMostOneReply, Answered, RepliedIn, LoopOwes
<1> QED
  BY <1>3, <1>4, <1>5, <1>6, InitTyped DEF ServerInv

\* ServerInv is inductive and holds in every reachable state of the server.
THEOREM Invariance == Spec => []ServerInv
<1>1. ServerInv /\ [Next]_vars => ServerInv'
  BY StepTyped, QueueStep, HandsStep, SlotStep, RepliesStep DEF ServerInv
<1> QED
  BY InitInv, <1>1, PTL DEF Spec

\* At any time before Serve takes the slot over, at most one prompt or replay is
\* under way and the slot names it; the slot never keeps one that has ended.
THEOREM SlotCorrect == Spec => []SlotMatchesOperation
<1>1. ServerInv => SlotMatchesOperation
  BY DEF ServerInv
<1> QED
  BY Invariance, <1>1, PTL

\* No request is answered twice, with any transport and any agent, through
\* cancels, lost writes and shutdown.
THEOREM RepliesUnique == Spec => []AtMostOneReply
<1>1. ServerInv => AtMostOneReply
  BY DEF ServerInv
<1> QED
  BY Invariance, <1>1, PTL

\* An answered turn has freed the slot, so a client that waits for the answer
\* of its turn is not refused, with any interleaving of endTurn and serveLoop.
THEOREM TurnsFreeTheSlot == Spec => []AnsweredTurnFreesSlot
<1>1. ServerInv => AnsweredTurnFreesSlot
  <2> SUFFICES ASSUME ServerInv, activeTurn # None
               PROVE  ~Answered(activeTurn)
    BY DEF AnsweredTurnFreesSlot
  <2>1. /\ activeTurn = activeOp /\ activeOp \in Reqs
        /\ IsTurn(activeOp) /\ HoldsSlot(activeOp)
    BY DEF ServerInv, SlotMatchesOperation, TypeInv, TypeOK
  <2>2. (LoopOwes /\ loopReq = activeOp) \/ OpOwes(activeOp)
    BY <2>1 DEF HoldsSlot, OpOwes, LoopOwes
  <2> QED
    BY <2>1, <2>2 DEF ServerInv, AnsweredInv
<1> QED
  BY Invariance, <1>1, PTL

-----------------------------------------------------------------------------
(***************************************************************************)
(* The lines the turn engine writes are a history TurnProtocol allows.     *)
(***************************************************************************)
\* The server is shutting down, and lines may be lost.
Down == ctxDone \/ closed

\* The operation of r is at work: its frame is open if it is a turn.
Running(r) == opPc[r] \in {"agent", "emit_end"}

\* What serveLoop and the operations do fits the request they do it for, and
\* Serve goes on only once serveCtx is cancelled.
OriginInv ==
  /\ servePc # "wait_read" => ctxDone
  /\ \A r \in Reqs : nread < r => method[r] = "none"
  /\ \A r \in Reqs : opPc[r] # "none" => method[r] \in {"prompt", "replay"}
  /\ \A r \in Reqs : opDone[r] => opPc[r] # "none" /\ ~Running(r)
  /\ loopPc = "plan_call" => method[loopReq] = "set_plan_mode"
  /\ loopPc \in {"steer_send", "steer_call"} => method[loopReq] = "steer"
  /\ loopPc = "reply" => loopOut \in Answers

\* Nothing starts while handleCancel waits for the operation it has cancelled,
\* and nothing runs when it is about to acknowledge the cancel.
CancelInv ==
  /\ loopPc \in {"cancel_mark", "cancel_wait"} => \A r \in Reqs : Running(r) => r = loopOp
  /\ loopPc = "reply" /\ method[loopReq] = "cancel" /\ loopOut = "ok" =>
       \A r \in Reqs : ~Running(r)

\* A frame belongs to an operation that was started.
BegunInv ==
  \A r \in Reqs : Has(wire, TurnBegin(r)) \/ Has(wire, TurnEnd(r)) => opPc[r] # "none"

\* A frame is open as long as its turn runs.
FrameInv == \A r \in Reqs : OpenIn(wire, r) <=> IsTurn(r) /\ Running(r)

\* The invariant of the refinement.  While the server shuts down frames and
\* acknowledgements are not what they were, because lines are lost.
LinesInv ==
  /\ OriginInv
  /\ BegunInv
  /\ ~Down => CancelInv /\ FrameInv

-----------------------------------------------------------------------------
(***************************************************************************)
(* Who does what for which request.                                        *)
(***************************************************************************)
\* OriginInv depends on few variables; this is what a step must preserve.
LEMMA OriginFrame ==
  ASSUME OriginInv, UNCHANGED <<nread, method, loopPc, loopReq, loopOut, opPc, opDone>>,
         servePc' # "wait_read" => servePc # "wait_read" \/ ctxDone', ctxDone => ctxDone'
  PROVE  OriginInv'
BY DEF OriginInv, Running

\* A step of serveLoop that starts no operation.
LEMMA OriginLoop ==
  ASSUME OriginInv, UNCHANGED <<nread, method, opPc, opDone, servePc, ctxDone>>,
         loopPc' = "plan_call" => method[loopReq'] = "set_plan_mode",
         loopPc' \in {"steer_send", "steer_call"} => method[loopReq'] = "steer",
         loopPc' = "reply" => loopOut' \in Answers
  PROVE  OriginInv'
BY DEF OriginInv, Running

\* Every step keeps the requests in the right hands.
LEMMA OriginStep == ServerInv /\ OriginInv /\ [Next]_vars => OriginInv'
<1> SUFFICES ASSUME TypeInv, QueueInv, HandsInv, OriginInv, [Next]_vars PROVE OriginInv'
  BY DEF ServerInv
<1> USE DEF readVars, loopVars, serveVars, shakeVars, slotVars, opVars
<1>1. ASSUME NEW m \in ClientMethods, ReadRequest(m) PROVE OriginInv'
  <2>1. \A r \in Reqs : opPc[r] # "none" \/ r = loopReq => method'[r] = method[r]
    BY <1>1, MethodKept, OpRead
  <2>2. UNCHANGED <<loopPc, loopReq, loopOut, opPc, opDone, servePc, ctxDone>>
    BY <1>1 DEF ReadRequest
  <2>3. \A r \in Reqs : nread' < r => method'[r] = "none"
    BY <1>1, Numbers DEF ReadRequest, OriginInv, TypeInv, TypeOK
  <2>4. LoopOwes => loopReq \in Reqs
    BY DEF HandsInv
  <2> QED BY <2>1, <2>2, <2>3, <2>4 DEF OriginInv, Running, LoopOwes
<1>2. CASE Push \/ PushAborted \/ ReadFails \/ ReadCancelled \/ ReadClosed \/ ReadGarbage
           \/ PlanEmits \/ CtxCancel \/ Close
  <2>1. UNCHANGED <<nread, method, loopPc, loopReq, loopOut, opPc, opDone, servePc>>
    BY <1>2 DEF Push, PushAborted, ReadFails, ReadCancelled, ReadClosed, ReadEnds, ReadGarbage,
         PlanEmits, CtxCancel, Close
  <2>2. ctxDone => ctxDone'
    BY <1>2 DEF Push, PushAborted, ReadFails, ReadCancelled, ReadClosed, ReadEnds, ReadGarbage,
         PlanEmits, CtxCancel, Close
  <2> QED BY <2>1, <2>2, OriginFrame
<1>3. CASE Serve
  <2>1. UNCHANGED <<nread, method, loopPc, loopReq, loopOut, opPc, opDone>>
    BY <1>3 DEF Serve, ServeCancels, ClearActiveTurn, OpWaited, WaitTimeout, ServeReturns, ServeStep
  <2>2. (ctxDone => ctxDone') /\ (servePc # "wait_read" \/ ctxDone')
    BY <1>3 DEF Serve, ServeCancels, ClearActiveTurn, OpWaited, WaitTimeout, ServeReturns, ServeStep
  <2> QED BY <2>1, <2>2, OriginFrame
<1>4. CASE UNCHANGED vars
  BY <1>4, OriginFrame DEF vars
<1>5. CASE Dispatch
  <2>1. PICK m : Take(m)
    BY <1>5 DEF Dispatch, HandleInitialize, HandlePrompt, HandleSteer, HandleCancel,
                HandleReplay, HandleSetPlanMode, HandleOther
  <2>2. /\ loopReq' \in Reqs /\ opPc[loopReq'] = "none" /\ method[loopReq'] = m
        /\ UNCHANGED <<nread, method, servePc, ctxDone>>
    BY <2>1, TakeInOrder DEF Take
  <2>3. CASE HandleReplay
    <3>1. method[loopReq'] = "replay" /\ UNCHANGED opDone
      BY <2>1, <2>3 DEF HandleReplay, Take
    <3>2. \/ loopPc' = "reply" /\ loopOut' \in Answers /\ UNCHANGED opPc
          \/ loopPc' = "select" /\ opPc' = [opPc EXCEPT ![loopReq'] = "agent"]
      BY <2>3 DEF HandleReplay, Answer, Goto, Answers
    <3>3. CASE loopPc' = "reply" /\ loopOut' \in Answers /\ UNCHANGED opPc
      BY <2>2, <3>1, <3>3, OriginLoop
    <3>4. CASE loopPc' = "select" /\ opPc' = [opPc EXCEPT ![loopReq'] = "agent"]
      <4>1. ~opDone[loopReq']
        BY <2>2 DEF OriginInv
      <4>2. \A r \in Reqs : opPc'[r] = IF r = loopReq' THEN "agent" ELSE opPc[r]
        BY <2>2, <3>4 DEF TypeInv, TypeOK
      <4> QED BY <2>2, <3>1, <3>4, <4>1, <4>2 DEF OriginInv, Running
    <3> QED BY <3>2, <3>3, <3>4
  <2>4. CASE HandleInitialize \/ HandlePrompt \/ HandleCancel \/ HandleOther
    <3>1. UNCHANGED <<opPc, opDone>>
      BY <2>4 DEF HandleInitialize, HandlePrompt, HandleCancel, HandleOther
    <3>2. /\ loopPc' \in {"reply", "emit_begin", "cancel_mark"}
          /\ loopPc' = "reply" => loopOut' \in Answers
      BY <2>4 DEF HandleInitialize, HandlePrompt, HandleCancel, HandleOther, Answer, Goto, Answers
    <3> QED BY <2>2, <3>1, <3>2, OriginLoop
  <2>5. CASE HandleSteer
    <3>1. method[loopReq'] = "steer" /\ UNCHANGED <<opPc, opDone>>
      BY <2>1, <2>5 DEF HandleSteer, Take
    <3>2. loopPc' \in {"reply", "steer_send"} /\ (loopPc' = "reply" => loopOut' \in Answers)
      BY <2>5 DEF HandleSteer, Answer, Goto, Answers
    <3> QED BY <2>2, <3>1, <3>2, OriginLoop
  <2>6. CASE HandleSetPlanMode
    <3>1. method[loopReq'] = "set_plan_mode" /\ UNCHANGED <<opPc, opDone>>
      BY <2>1, <2>6 DEF HandleSetPlanMode, Take
    <3>2. loopPc' \in {"reply", "plan_call"} /\ (loopPc' = "reply" => loopOut' \in Answers)
      BY <2>6 DEF HandleSetPlanMode, Answer, Goto, Answers
    <3> QED BY <2>2, <3>1, <3>2, OriginLoop
  <2> QED BY <1>5, <2>3, <2>4, <2>5, <2>6 DEF Dispatch
<1>6. CASE EmitTurnBegin
  <2>1. /\ UNCHANGED <<nread, method, servePc, ctxDone, opDone, loopReq>> /\ loopPc = "emit_begin"
        /\ loopPc' \in {"select", "end_turn"}
        /\ \E to \in {"agent", "emit_end"} : opPc' = [opPc EXCEPT ![loopReq] = to]
    BY <1>6 DEF EmitTurnBegin, Goto
  <2>2. loopReq \in Reqs /\ opPc[loopReq] = "none" /\ method[loopReq] = "prompt"
    BY <2>1 DEF HandsInv, LoopOwes, IsTurn
  <2>3. ~opDone[loopReq]
    BY <2>2 DEF OriginInv
  <2>4. \A r \in Reqs : r # loopReq => opPc'[r] = opPc[r]
    BY <2>1 DEF TypeInv, TypeOK
  <2> QED BY <2>1, <2>2, <2>3, <2>4 DEF OriginInv, Running
<1>7. CASE EndTurnReturns \/ LoopReply \/ LoopExit \/ SteerSend \/ CancelMark
           \/ SteerTooLate \/ SteerReturns \/ CancelDone \/ CancelShutdown \/ PlanReturns
  <2>1. UNCHANGED <<nread, method, opPc, opDone, servePc, ctxDone, loopReq>>
    BY <1>7 DEF EndTurnReturns, LoopReply, LoopExit, SteerSend, CancelMark, SteerTooLate,
         SteerReturns, CancelDone, CancelShutdown, PlanReturns, LoopAnswers
  <2>2. /\ loopPc' \in {"select", "reply", "steer_call", "cancel_wait", "done"}
        /\ loopPc' = "steer_call" => loopPc = "steer_send"
        /\ loopPc' = "reply" => loopOut' \in Answers
    BY <1>7 DEF EndTurnReturns, LoopReply, LoopExit, SteerSend, CancelMark, SteerTooLate,
         SteerReturns, CancelDone, CancelShutdown, PlanReturns, LoopAnswers, Answer, Goto, Answers
  <2>3. loopPc' = "steer_call" => method[loopReq] = "steer"
    BY <2>2 DEF OriginInv
  <2> QED BY <2>1, <2>2, <2>3, OriginLoop
<1>8. ASSUME NEW r \in Reqs, EndOp(r) \/ AgentRuns(r) PROVE OriginInv'
  <2>1. PICK from \in OpPcs \ {"none"}, to \in OpPcs \ {"none"} :
          /\ OpStep(r, from, to)
          /\ from \notin {"agent", "emit_end"} => to \notin {"agent", "emit_end"}
          /\ \/ UNCHANGED opDone
             \/ opDone' = [opDone EXCEPT ![r] = TRUE] /\ to \notin {"agent", "emit_end"}
    BY <1>8 DEF EndOp, AgentRuns, TurnEmitEnd, TurnClose, TurnClear, TurnDecide, OpReply,
         ReplayClear, ReplayClose, AgentEmits, AgentSteerInput, AgentReturns, OpPcs
  <2>2. /\ UNCHANGED <<nread, method, servePc, ctxDone, loopPc, loopReq, loopOut>>
        /\ opPc[r] = from /\ opPc'[r] = to /\ \A q \in Reqs : q # r => opPc'[q] = opPc[q]
    BY <2>1 DEF OpStep, TypeInv, TypeOK
  <2>3. \A q \in Reqs : opDone'[q] => opPc'[q] # "none" /\ ~Running(q)'
    <3>1. \A q \in Reqs : q # r => opDone'[q] = opDone[q]
      BY <2>1 DEF TypeInv, TypeOK
    <3>2. opDone'[r] => to \notin {"agent", "emit_end"}
      BY <2>1, <2>2 DEF OriginInv, Running
    <3> QED BY <2>1, <2>2, <3>1, <3>2 DEF OriginInv, Running
  <2> QED BY <2>1, <2>2, <2>3 DEF OriginInv
<1> QED
  BY <1>1, <1>2, <1>3, <1>4, <1>5, <1>6, <1>7, <1>8
  DEF Next, ReadLoop, ServeLoop, LoopStep, Terminated

-----------------------------------------------------------------------------
(***************************************************************************)
(* Cancels.                                                                *)
(***************************************************************************)
\* As long as the server is not going down, what runs is in the slot.
LEMMA RunningIsActive ==
  ASSUME ServerInv, OriginInv, ~Down, NEW r \in Reqs, Running(r)
  PROVE  activeOp = r
<1>1. HoldsSlot(r) /\ ~Cleared
  BY DEF OriginInv, Down, Running, HoldsSlot, Cleared
<1> QED BY <1>1 DEF ServerInv, SlotMatchesOperation

\* CancelInv is kept by a step of another process that starts nothing.
LEMMA CancelFrame ==
  ASSUME CancelInv, UNCHANGED <<loopPc, loopReq, loopOp, loopOut>>,
         loopPc = "reply" => method'[loopReq] = method[loopReq],
         \A r \in Reqs : Running(r)' => Running(r)
  PROVE  CancelInv'
BY DEF CancelInv

\* An operation that moves on was started before.
LEMMA OpKeepsRunning ==
  ASSUME TypeInv, NEW r \in Reqs, EndOp(r) \/ AgentRuns(r)
  PROVE  /\ UNCHANGED <<loopPc, loopReq, loopOp, loopOut, method, ctxDone, closed>>
         /\ \A q \in Reqs : Running(q)' => Running(q)
         /\ \A q \in Reqs : opPc[q] # "none" => opPc'[q] # "none"
<1> USE DEF readVars, loopVars
<1>1. PICK from \in OpPcs \ {"none"}, to \in OpPcs \ {"none"} :
        /\ OpStep(r, from, to)
        /\ from \notin {"agent", "emit_end"} => to \notin {"agent", "emit_end"}
  BY DEF EndOp, AgentRuns, TurnEmitEnd, TurnClose, TurnClear, TurnDecide, OpReply,
       ReplayClear, ReplayClose, AgentEmits, AgentSteerInput, AgentReturns, OpPcs
<1>2. UNCHANGED <<loopPc, loopReq, loopOp, loopOut, method, ctxDone, closed>>
  BY <1>1 DEF OpStep
<1>3. opPc[r] = from /\ opPc'[r] = to /\ \A q \in Reqs : q # r => opPc'[q] = opPc[q]
  BY <1>1 DEF OpStep, TypeInv, TypeOK
<1> QED BY <1>1, <1>2, <1>3 DEF Running

\* No cancel is acknowledged while an operation runs.
LEMMA CancelStep ==
  ASSUME ServerInv, OriginInv, CancelInv, [Next]_vars, ~Down, ~Down'
  PROVE  CancelInv'
<1> USE DEF readVars, loopVars, serveVars, shakeVars, slotVars, opVars
<1>0. TypeInv /\ QueueInv /\ HandsInv
  BY DEF ServerInv
<1>1. ASSUME NEW m \in ClientMethods, ReadRequest(m) PROVE CancelInv'
  <2>1. loopPc = "reply" => method'[loopReq] = method[loopReq]
    BY <1>0, <1>1, MethodKept, OpRead DEF HandsInv, LoopOwes
  <2>2. UNCHANGED <<loopPc, loopReq, loopOp, loopOut, opPc>>
    BY <1>1 DEF ReadRequest
  <2> QED BY <2>1, <2>2, CancelFrame DEF Running
<1>2. CASE Push \/ PushAborted \/ ReadFails \/ ReadCancelled \/ ReadClosed \/ ReadGarbage
           \/ PlanEmits \/ Serve \/ CtxCancel \/ Close \/ UNCHANGED vars
  <2>1. UNCHANGED <<loopPc, loopReq, loopOp, loopOut, opPc, method>>
    BY <1>2 DEF Push, PushAborted, ReadFails, ReadCancelled, ReadClosed, ReadEnds, ReadGarbage,
         PlanEmits, Serve, ServeCancels, ClearActiveTurn, OpWaited, WaitTimeout, ServeReturns,
         ServeStep, CtxCancel, Close, vars
  <2> QED BY <2>1, CancelFrame DEF Running
<1>3. ASSUME loopPc' \notin {"cancel_mark", "cancel_wait", "reply"} PROVE CancelInv'
  BY <1>3 DEF CancelInv
<1>4. ASSUME loopPc' = "reply", method'[loopReq'] # "cancel" \/ loopOut' # "ok" PROVE CancelInv'
  BY <1>4 DEF CancelInv
<1>5. CASE HandleCancel
  <2>1. CASE loopPc' = "reply" /\ loopOut' = "no_turn"
    BY <1>4, <2>1
  <2>2. CASE loopPc' = "cancel_mark" /\ loopOp' = activeOp
    <3>1. UNCHANGED opPc
      BY <1>5 DEF HandleCancel
    <3>2. \A r \in Reqs : Running(r)' => r = activeOp
      BY <3>1, RunningIsActive DEF Running
    <3> QED BY <2>2, <3>2 DEF CancelInv
  <2> QED BY <1>5, <2>1, <2>2 DEF HandleCancel, Answer, Goto
<1>6. CASE HandlePrompt \/ HandleReplay \/ HandleSteer \/ HandleSetPlanMode \/ HandleOther
  <2>1. \/ loopPc' \in {"select", "emit_begin", "steer_send", "plan_call"}
        \/ loopPc' = "reply" /\ loopOut' # "ok"
    BY <1>6 DEF HandlePrompt, HandleReplay, HandleSteer, HandleSetPlanMode, HandleOther, Answer,
         Goto
  <2> QED BY <1>3, <1>4, <2>1
<1>7. CASE HandleInitialize
  <2>1. loopPc' = "reply" /\ Take("initialize") /\ UNCHANGED method
    BY <1>7 DEF HandleInitialize, Answer, Take
  <2>2. method'[loopReq'] = "initialize"
    BY <1>0, <2>1, TakeInOrder
  <2> QED BY <1>4, <2>1, <2>2
<1>8. CASE EmitTurnBegin \/ EndTurnReturns \/ LoopReply \/ LoopExit \/ SteerSend
  BY <1>3, <1>8 DEF EmitTurnBegin, EndTurnReturns, LoopReply, LoopExit, SteerSend, Goto
<1>9. CASE CancelMark
  <2>1. /\ loopPc = "cancel_mark" /\ loopPc' = "cancel_wait" /\ UNCHANGED <<loopOp, opPc>>
    BY <1>9 DEF CancelMark, Goto
  <2> QED BY <2>1 DEF CancelInv, Running
<1>10. CASE CancelDone
  <2>1. /\ loopPc = "cancel_wait" /\ opDone[loopOp] /\ UNCHANGED opPc /\ loopPc' = "reply"
    BY <1>10 DEF CancelDone, LoopAnswers, Answer
  <2>2. loopOp \in Reqs
    BY <1>0, <2>1 DEF TypeInv
  <2>3. \A r \in Reqs : ~Running(r)
    BY <2>1, <2>2 DEF CancelInv, OriginInv
  <2> QED BY <2>1, <2>3 DEF CancelInv, Running
<1>11. CASE CancelShutdown
  BY <1>11 DEF CancelShutdown, Down
<1>12. CASE SteerTooLate \/ SteerReturns \/ PlanReturns
  <2>1. /\ loopPc \in {"steer_send", "steer_call", "plan_call"} /\ loopPc' = "reply"
        /\ UNCHANGED <<loopReq, method>>
    BY <1>12 DEF SteerTooLate, SteerReturns, PlanReturns, LoopAnswers, Answer
  <2>2. method[loopReq] \in {"steer", "set_plan_mode"}
    BY <2>1 DEF OriginInv
  <2> QED BY <1>4, <2>1, <2>2
<1>13. ASSUME NEW r \in Reqs, EndOp(r) \/ AgentRuns(r) PROVE CancelInv'
  BY <1>0, <1>13, OpKeepsRunning, CancelFrame
<1> QED
  BY <1>1, <1>2, <1>5, <1>6, <1>7, <1>8, <1>9, <1>10, <1>11, <1>12, <1>13
  DEF Next, ReadLoop, ServeLoop, LoopStep, Dispatch, Terminated

-----------------------------------------------------------------------------
(***************************************************************************)
(* Frames.                                                                 *)
(***************************************************************************)
\* What a line adds to the history.
LEMMA AppendedLine ==
  ASSUME wire \in Seq(Lines), NEW line, line \in Lines, wire' = Append(wire, line), NEW x
  PROVE  Has(wire, x)' <=> Has(wire, x) \/ line = x
<1>1. /\ DOMAIN wire' = 1..(Len(wire) + 1) /\ DOMAIN wire = 1..Len(wire)
      /\ Len(wire) \in Nat /\ wire'[Len(wire) + 1] = line
      /\ \A i \in 1..Len(wire) : wire'[i] = wire[i]
  OBVIOUS
<1>2. Len(wire) + 1 \in DOMAIN wire' /\ \A i \in DOMAIN wire : i \in DOMAIN wire'
  BY <1>1
<1>3. \A i \in DOMAIN wire' : i \in DOMAIN wire \/ i = Len(wire) + 1
  BY <1>1
<1> QED BY <1>1, <1>2, <1>3 DEF Has

\* No line is written, or one that neither begins nor ends a frame.
NoFrameLine ==
  \/ UNCHANGED wire
  \/ \E line \in Lines : line.tag \notin {"TurnBegin", "TurnEnd"} /\ wire' = Append(wire, line)

\* Such a step, if it changes nothing about the turns that run.
LEMMA FramesKept ==
  ASSUME TypeInv, BegunInv, NoFrameLine,
         \A r \in Reqs : opPc[r] # "none" => opPc'[r] # "none",
         \A r \in Reqs : (IsTurn(r) /\ Running(r))' <=> IsTurn(r) /\ Running(r)
  PROVE  BegunInv' /\ (FrameInv => FrameInv')
<1>1. \A r \in Reqs : /\ Has(wire, TurnBegin(r))' <=> Has(wire, TurnBegin(r))
                      /\ Has(wire, TurnEnd(r))' <=> Has(wire, TurnEnd(r))
  <2>1. CASE UNCHANGED wire
    BY <2>1 DEF Has, TurnBegin, TurnEnd
  <2>2. ASSUME NEW line \in Lines, line.tag \notin {"TurnBegin", "TurnEnd"},
               wire' = Append(wire, line), NEW r \in Reqs
        PROVE  /\ Has(wire, TurnBegin(r))' <=> Has(wire, TurnBegin(r))
               /\ Has(wire, TurnEnd(r))' <=> Has(wire, TurnEnd(r))
    <3>1. line # TurnBegin(r) /\ line # TurnEnd(r)
      BY <2>2 DEF TurnBegin, TurnEnd
    <3>2. wire \in Seq(Lines)
      BY DEF TypeInv, TypeOK
    <3>3. \A x : Has(wire, x)' <=> Has(wire, x) \/ line = x
      BY <2>2, <3>2, AppendedLine
    <3> QED BY <3>1, <3>3 DEF TurnBegin, TurnEnd
  <2> QED BY <2>1, <2>2 DEF NoFrameLine
<1> QED BY <1>1 DEF BegunInv, FrameInv, OpenIn

\* A write that neither begins nor ends a frame.
LEMMA TriedLine ==
  ASSUME NEW line \in Lines, TryWrite(line), line.tag \notin {"TurnBegin", "TurnEnd"}
  PROVE  NoFrameLine
BY DEF TryWrite, WriteLine, WriteFails, NoFrameLine

\* TurnBegin is written when the operation of the turn is started, and only then.
LEMMA FrameBegins ==
  ASSUME TypeInv, HandsInv, BegunInv, EmitTurnBegin
  PROVE  BegunInv' /\ ("write" \notin Faults /\ ~Down' /\ FrameInv => FrameInv')
<1>1. /\ loopReq \in Reqs /\ opPc[loopReq] = "none" /\ IsTurn(loopReq)
  BY DEF EmitTurnBegin, HandsInv, LoopOwes
<1>2. /\ UNCHANGED <<method, ctxDone, closed>>
      /\ \A r \in Reqs : r # loopReq => opPc'[r] = opPc[r]
      /\ opPc'[loopReq] \in {"agent", "emit_end"}
  BY <1>1 DEF EmitTurnBegin, TypeInv, TypeOK, readVars
<1>3. CASE WriteFails
  <2>1. UNCHANGED wire /\ CanFail
    BY <1>3 DEF WriteFails
  <2>2. BegunInv'
    BY <1>1, <1>2, <2>1 DEF BegunInv, Has, TurnBegin, TurnEnd
  <2>3. "write" \in Faults \/ Down'
    BY <1>2, <2>1 DEF CanFail, Down
  <2> QED BY <2>2, <2>3
<1>4. CASE WriteLine(TurnBegin(loopReq))
  <2>1. TurnBegin(loopReq) \in Lines /\ wire \in Seq(Lines)
    BY <1>1 DEF TurnBegin, Lines, TypeInv, TypeOK
  <2>2. \A x : Has(wire, x)' <=> Has(wire, x) \/ TurnBegin(loopReq) = x
    <3>1. wire' = Append(wire, TurnBegin(loopReq))
      BY <1>4 DEF WriteLine
    <3> QED BY <2>1, <3>1, AppendedLine
  <2>3. \A r \in Reqs : /\ TurnBegin(loopReq) = TurnBegin(r) <=> r = loopReq
                        /\ TurnBegin(loopReq) # TurnEnd(r)
    BY DEF TurnBegin, TurnEnd
  <2>4. \A r \in Reqs : /\ Has(wire, TurnBegin(r))' <=> Has(wire, TurnBegin(r)) \/ r = loopReq
                        /\ Has(wire, TurnEnd(r))' <=> Has(wire, TurnEnd(r))
    BY <2>2, <2>3 DEF TurnBegin, TurnEnd
  <2>5. BegunInv'
    BY <1>2, <2>4 DEF BegunInv
  <2>6. ASSUME FrameInv PROVE FrameInv'
    <3>1. ~Has(wire, TurnEnd(loopReq))
      BY <1>1 DEF BegunInv
    <3> QED BY <1>1, <1>2, <2>4, <2>6, <3>1 DEF FrameInv, OpenIn, IsTurn, Running
  <2> QED BY <2>5, <2>6
<1> QED BY <1>3, <1>4 DEF EmitTurnBegin

\* TurnEnd is written when the turn has ended, before it is answered.
LEMMA FrameEnds ==
  ASSUME TypeInv, HandsInv, BegunInv, NEW q \in Reqs, TurnEmitEnd(q)
  PROVE  BegunInv' /\ ("write" \notin Faults /\ ~Down' /\ FrameInv => FrameInv')
<1>1. /\ UNCHANGED <<method, ctxDone, closed>> /\ opPc[q] = "emit_end" /\ opPc'[q] = "close"
      /\ \A r \in Reqs : r # q => opPc'[r] = opPc[r]
  BY DEF TurnEmitEnd, OpStep, TypeInv, TypeOK, readVars
<1>2. CASE WriteFails
  <2>1. UNCHANGED wire /\ CanFail
    BY <1>2 DEF WriteFails
  <2>2. BegunInv'
    BY <1>1, <2>1 DEF BegunInv, Has, TurnBegin, TurnEnd
  <2>3. "write" \in Faults \/ Down'
    BY <1>1, <2>1 DEF CanFail, Down
  <2> QED BY <2>2, <2>3
<1>3. CASE WriteLine(TurnEnd(q))
  <2>1. TurnEnd(q) \in Lines /\ wire \in Seq(Lines)
    BY DEF TurnEnd, Lines, TypeInv, TypeOK
  <2>2. \A x : Has(wire, x)' <=> Has(wire, x) \/ TurnEnd(q) = x
    <3>1. wire' = Append(wire, TurnEnd(q))
      BY <1>3 DEF WriteLine
    <3> QED BY <2>1, <3>1, AppendedLine
  <2>3. \A r \in Reqs : /\ TurnEnd(q) = TurnEnd(r) <=> r = q
                        /\ TurnEnd(q) # TurnBegin(r)
    BY DEF TurnBegin, TurnEnd
  <2>4. \A r \in Reqs : /\ Has(wire, TurnBegin(r))' <=> Has(wire, TurnBegin(r))
                        /\ Has(wire, TurnEnd(r))' <=> Has(wire, TurnEnd(r)) \/ r = q
    BY <2>2, <2>3 DEF TurnBegin, TurnEnd
  <2>5. BegunInv'
    BY <1>1, <2>4 DEF BegunInv
  <2>6. FrameInv => FrameInv'
    BY <1>1, <2>4 DEF FrameInv, OpenIn, IsTurn, Running
  <2> QED BY <2>5, <2>6
<1> QED BY <1>2, <1>3 DEF TurnEmitEnd, TryWrite

\* The frames written follow the turns that run, whatever the step.
LEMMA FrameStep ==
  ASSUME ServerInv, BegunInv, [Next]_vars
  PROVE  BegunInv' /\ ("write" \notin Faults /\ ~Down' /\ FrameInv => FrameInv')
<1> USE DEF readVars, loopVars, serveVars, shakeVars, slotVars, opVars
<1>0. TypeInv /\ QueueInv /\ HandsInv
  BY DEF ServerInv
<1>1. ASSUME NoFrameLine, UNCHANGED <<opPc, method>>
      PROVE  BegunInv' /\ (FrameInv => FrameInv')
  BY <1>0, <1>1, FramesKept DEF IsTurn, Running
<1>2. ASSUME NEW m \in ClientMethods, ReadRequest(m) PROVE BegunInv' /\ (FrameInv => FrameInv')
  <2>1. \A r \in Reqs : opPc[r] # "none" => method'[r] = method[r]
    BY <1>0, <1>2, MethodKept, OpRead
  <2>2. NoFrameLine /\ UNCHANGED opPc
    BY <1>2 DEF ReadRequest, NoFrameLine
  <2>3. \A r \in Reqs : (IsTurn(r) /\ Running(r))' <=> IsTurn(r) /\ Running(r)
    BY <2>1, <2>2 DEF IsTurn, Running
  <2> QED BY <1>0, <2>2, <2>3, FramesKept
<1>3. CASE Push \/ PushAborted \/ ReadFails \/ ReadCancelled \/ ReadClosed
           \/ Serve \/ CtxCancel \/ Close \/ UNCHANGED vars
  BY <1>1, <1>3 DEF Push, PushAborted, ReadFails, ReadCancelled, ReadClosed, ReadEnds,
       Serve, ServeCancels, ClearActiveTurn, OpWaited, WaitTimeout, ServeReturns,
       ServeStep, CtxCancel, Close, vars, NoFrameLine
<1>4. CASE ReadGarbage
  <2>1. ParseError \in Lines /\ ParseError.tag \notin {"TurnBegin", "TurnEnd"}
    BY DEF ParseError, Lines
  <2> QED BY <1>1, <1>4, <2>1, TriedLine DEF ReadGarbage
<1>5. CASE PlanEmits
  <2>1. /\ AgentEvent(loopReq) \in Lines
        /\ AgentEvent(loopReq).tag \notin {"TurnBegin", "TurnEnd"}
    BY <1>0 DEF AgentEvent, Lines, TypeInv, TypeOK
  <2>2. NoFrameLine
    BY <1>5, <2>1 DEF PlanEmits, NoFrameLine
  <2> QED BY <1>1, <1>5, <2>2 DEF PlanEmits
<1>6. CASE HandleReplay
  <2>1. /\ loopReq' \in Reqs /\ opPc[loopReq'] = "none" /\ method[loopReq'] = "replay"
        /\ UNCHANGED <<method, wire>>
    BY <1>0, <1>6, TakeInOrder DEF HandleReplay, Take
  <2>2. \A r \in Reqs : r # loopReq' => opPc'[r] = opPc[r]
    BY <1>0, <1>6 DEF HandleReplay, TypeInv, TypeOK
  <2>3. \A r \in Reqs : opPc[r] # "none" => opPc'[r] # "none"
    BY <2>1, <2>2
  <2>4. \A r \in Reqs : (IsTurn(r) /\ Running(r))' <=> IsTurn(r) /\ Running(r)
    BY <2>1, <2>2 DEF IsTurn, Running
  <2> QED BY <1>0, <2>1, <2>3, <2>4, FramesKept DEF NoFrameLine
<1>7. CASE HandleInitialize \/ HandlePrompt \/ HandleSteer \/ HandleCancel
           \/ HandleSetPlanMode \/ HandleOther
  BY <1>1, <1>7 DEF HandleInitialize, HandlePrompt, HandleSteer, HandleCancel,
       HandleSetPlanMode, HandleOther, Take, NoFrameLine
<1>8. CASE EmitTurnBegin
  BY <1>0, <1>8, FrameBegins
<1>9. CASE LoopReply
  <2>1. /\ Reply(loopReq, loopOut) \in Lines
        /\ Reply(loopReq, loopOut).tag \notin {"TurnBegin", "TurnEnd"}
    BY <1>0 DEF Reply, Lines, TypeInv, TypeOK
  <2> QED BY <1>1, <1>9, <2>1, TriedLine DEF LoopReply
<1>10. CASE EndTurnReturns \/ LoopExit \/ SteerSend \/ CancelMark
           \/ SteerTooLate \/ SteerReturns \/ CancelDone \/ CancelShutdown \/ PlanReturns
  BY <1>1, <1>10 DEF EndTurnReturns, LoopExit, SteerSend, CancelMark, SteerTooLate,
       SteerReturns, CancelDone, CancelShutdown, PlanReturns, LoopAnswers, NoFrameLine
<1>11. ASSUME NEW q \in Reqs, EndOp(q) \/ AgentRuns(q), ~TurnEmitEnd(q)
       PROVE  BegunInv' /\ (FrameInv => FrameInv')
  <2>1. PICK from \in OpPcs \ {"none"}, to \in OpPcs \ {"none"} :
          /\ OpStep(q, from, to)
          /\ IsTurn(q) => (from \in {"agent", "emit_end"} <=> to \in {"agent", "emit_end"})
    BY <1>0, <1>11 DEF EndOp, AgentRuns, TurnClose, TurnClear, TurnDecide, OpReply,
         ReplayClear, ReplayClose, AgentEmits, AgentSteerInput, AgentReturns, OpPcs
  <2>2. /\ UNCHANGED method /\ opPc[q] = from /\ opPc'[q] = to
        /\ \A r \in Reqs : r # q => opPc'[r] = opPc[r]
    BY <1>0, <2>1 DEF OpStep, TypeInv, TypeOK
  <2>3. NoFrameLine
    <3>1. CASE AgentEmits(q)
      <4>1. AgentEvent(q) \in Lines /\ AgentEvent(q).tag \notin {"TurnBegin", "TurnEnd"}
        BY DEF AgentEvent, Lines
      <4> QED BY <3>1, <4>1 DEF AgentEmits, NoFrameLine
    <3>2. CASE OpReply(q)
      <4>1. /\ Reply(q, opResult[q]) \in Lines
            /\ Reply(q, opResult[q]).tag \notin {"TurnBegin", "TurnEnd"}
        BY <1>0, <3>2 DEF Reply, Lines, TypeInv, OpReply, OpStep
      <4> QED BY <3>2, <4>1, TriedLine DEF OpReply
    <3> QED BY <1>11, <3>1, <3>2 DEF EndOp, AgentRuns, TurnClose, TurnClear, TurnDecide,
          ReplayClear, ReplayClose, AgentSteerInput, AgentReturns, NoFrameLine
  <2>4. \A r \in Reqs : opPc[r] # "none" => opPc'[r] # "none"
    BY <2>1, <2>2
  <2>5. \A r \in Reqs : (IsTurn(r) /\ Running(r))' <=> IsTurn(r) /\ Running(r)
    BY <2>1, <2>2 DEF IsTurn, Running
  <2> QED BY <1>0, <2>3, <2>4, <2>5, FramesKept
<1>12. ASSUME NEW q \in Reqs, TurnEmitEnd(q)
       PROVE  BegunInv' /\ ("write" \notin Faults /\ ~Down' /\ FrameInv => FrameInv')
  BY <1>0, <1>12, FrameEnds
<1> QED
  BY <1>2, <1>3, <1>4, <1>5, <1>6, <1>7, <1>8, <1>9, <1>10, <1>11, <1>12
  DEF Next, ReadLoop, ServeLoop, LoopStep, Dispatch, Terminated

-----------------------------------------------------------------------------
(***************************************************************************)
(* The refinement.                                                         *)
(***************************************************************************)
\* The server starts with nothing written and nothing open.
LEMMA LinesInit == Init => LinesInv
<1> SUFFICES ASSUME Init PROVE LinesInv
  OBVIOUS
<1>1. \A r \in Reqs : opPc[r] = "none" /\ method[r] = "none" /\ ~opDone[r]
  BY DEF Init
<1>2. DOMAIN wire = {}
  BY DEF Init
<1>3. \A x : ~Has(wire, x)
  BY <1>2 DEF Has
<1>4. OriginInv /\ CancelInv
  BY <1>1 DEF Init, OriginInv, CancelInv, Running
<1>5. BegunInv /\ FrameInv
  BY <1>1, <1>3 DEF BegunInv, FrameInv, OpenIn, Running
<1> QED BY <1>4, <1>5 DEF LinesInv

\* A server that is going down stays down.
LEMMA DownForGood ==
  ASSUME [Next]_vars, Down
  PROVE  Down'
<1> USE DEF readVars, loopVars, serveVars, shakeVars, slotVars, opVars, Down
<1>1. CASE ReadLoop \/ UNCHANGED vars \/ Terminated
  BY <1>1 DEF ReadLoop, ReadRequest, ReadGarbage, ReadFails, ReadCancelled, ReadClosed, ReadEnds,
       Push, PushAborted, Terminated, vars
<1>2. CASE ServeLoop
  BY <1>2 DEF ServeLoop, LoopStep, Dispatch, HandleInitialize, HandlePrompt, HandleSteer,
       HandleCancel, HandleReplay, HandleSetPlanMode, HandleOther, Take, EmitTurnBegin,
       EndTurnReturns, SteerSend, SteerTooLate, SteerReturns, CancelMark, CancelDone,
       CancelShutdown, LoopReply, LoopExit, PlanEmits, PlanReturns, LoopAnswers
<1>3. CASE Serve \/ CtxCancel \/ Close
  BY <1>3 DEF Serve, ServeCancels, ClearActiveTurn, OpWaited, WaitTimeout, ServeReturns,
       ServeStep, CtxCancel, Close
<1>4. ASSUME NEW r \in Reqs, EndOp(r) \/ AgentRuns(r) PROVE Down'
  BY <1>4 DEF EndOp, AgentRuns, TurnEmitEnd, TurnClose, TurnClear, TurnDecide, OpReply,
       ReplayClear, ReplayClose, AgentEmits, AgentSteerInput, AgentReturns, OpStep
<1> QED BY <1>1, <1>2, <1>3, <1>4 DEF Next

\* LinesInv is inductive if lines are lost in a shutdown only.
LEMMA LinesStep ==
  ASSUME "write" \notin Faults, ServerInv, LinesInv, [Next]_vars
  PROVE  LinesInv'
<1>1. OriginInv' /\ BegunInv'
  BY OriginStep, FrameStep DEF LinesInv
<1>2. ASSUME ~Down' PROVE CancelInv' /\ FrameInv'
  <2>1. ~Down
    BY <1>2, DownForGood
  <2> QED BY <1>2, <2>1, CancelStep, FrameStep DEF LinesInv
<1> QED BY <1>1, <1>2 DEF LinesInv

\* TurnProtocol, as the server instantiates it, speaks of the same lines.
LEMMA SameLines ==
  /\ Protocol!Reqs = Reqs /\ Protocol!Methods = Methods /\ Protocol!Answers = Answers
  /\ Protocol!ParseError = ParseError
  /\ \A r : /\ Protocol!TurnBegin(r) = TurnBegin(r) /\ Protocol!TurnEnd(r) = TurnEnd(r)
            /\ Protocol!AgentEvent(r) = AgentEvent(r)
            /\ \A a : Protocol!Reply(r, a) = Reply(r, a)
  /\ \A w, x : Protocol!Has(w, x) <=> Has(w, x)
  /\ \A w, r : Protocol!RepliedIn(w, r) <=> RepliedIn(w, r)
  /\ \A w, r : Protocol!OpenIn(w, r) <=> OpenIn(w, r)
BY DEF Protocol!Reqs, Reqs, Protocol!Methods, Methods, Protocol!Answers, Answers,
     Protocol!ParseError, ParseError, Protocol!None, None, Protocol!TurnBegin, TurnBegin,
     Protocol!TurnEnd, TurnEnd, Protocol!AgentEvent, AgentEvent, Protocol!Reply, Reply,
     Protocol!Has, Has, Protocol!RepliedIn, RepliedIn, Protocol!OpenIn, OpenIn

\* A step that the client does not see.
LEMMA Unseen ==
  ASSUME UNCHANGED <<method, wire, ctxDone, closed>>
  PROVE  [Protocol!Next]_(Protocol!protocolVars)
BY DEF Protocol!protocolVars

\* A line that the protocol allows; if it is lost the client sees nothing.
LEMMA LineAllowed ==
  ASSUME NEW line, TryWrite(line), UNCHANGED <<method, ctxDone, closed>>,
         Protocol!Write(line) => Protocol!Next
  PROVE  [Protocol!Next]_(Protocol!protocolVars)
<1>1. CASE WriteFails
  BY <1>1, Unseen DEF WriteFails
<1>2. CASE WriteLine(line)
  BY <1>2 DEF WriteLine, Protocol!Write
<1> QED BY <1>1, <1>2 DEF TryWrite

\* As long as the server is not going down, the only open frame is that of the
\* turn in the slot.
LEMMA OpenIsActive ==
  ASSUME ServerInv, LinesInv, ~Down, NEW r \in Reqs, OpenIn(wire, r)
  PROVE  activeOp = r /\ IsTurn(r) /\ Running(r)
BY RunningIsActive DEF LinesInv, FrameInv

\* A request that arrives is one the client had not yet sent.
LEMMA AskAllowed ==
  ASSUME ServerInv, LinesInv, NEW m \in ClientMethods, ReadRequest(m)
  PROVE  Protocol!Next
<1>1. PICK r : r = nread + 1
  OBVIOUS
<1>2. r \in Reqs /\ nread < r
  BY <1>1, MaxReqsAssumption DEF ReadRequest, ServerInv, TypeInv, TypeOK, Reqs
<1>3. method[r] = "none"
  BY <1>2 DEF LinesInv, OriginInv
<1>4. method' = [method EXCEPT ![r] = m] /\ UNCHANGED <<wire, ctxDone, closed>>
  BY <1>1 DEF ReadRequest
<1>5. Protocol!Ask(r, m)
  BY <1>3, <1>4 DEF Protocol!Ask
<1>6. m \in Methods
  BY ServerAssumption
<1> QED BY <1>2, <1>5, <1>6, SameLines DEF Protocol!Next

\* A frame begins when no other is open, once, and before the turn's answer.
LEMMA BeginAllowed ==
  ASSUME ServerInv, LinesInv, loopPc = "emit_begin", Protocol!Write(TurnBegin(loopReq))
  PROVE  Protocol!Next
<1>1. loopReq \in Reqs /\ opPc[loopReq] = "none"
  BY DEF ServerInv, HandsInv, LoopOwes
<1>2. ~Has(wire, TurnBegin(loopReq)) /\ ~RepliedIn(wire, loopReq)
  BY <1>1 DEF ServerInv, AnsweredInv, Answered, LoopOwes, LinesInv, BegunInv
<1>3. ASSUME ~Down PROVE \A r \in Reqs : ~OpenIn(wire, r)
  <2>1. activeOp = loopReq
    <3>1. HoldsSlot(loopReq) /\ ~Cleared
      BY <1>3 DEF HoldsSlot, Cleared, LinesInv, OriginInv, Down
    <3> QED BY <1>1, <3>1 DEF ServerInv, SlotMatchesOperation
  <2> QED BY <1>1, <1>3, <2>1, OpenIsActive DEF Running
<1>4. Protocol!Begin(loopReq)
  BY <1>2, <1>3, SameLines DEF Protocol!Begin, Protocol!MayBegin, Protocol!NoFrameOpen, Down
<1> QED BY <1>1, <1>4, SameLines DEF Protocol!Next

\* A frame ends if it is open.
LEMMA EndAllowed ==
  ASSUME ServerInv, LinesInv, NEW r \in Reqs, opPc[r] = "emit_end", Protocol!Write(TurnEnd(r))
  PROVE  Protocol!Next
<1>1. IsTurn(r) /\ Running(r)
  BY DEF ServerInv, HandsInv, Running
<1>2. Down \/ OpenIn(wire, r)
  BY <1>1 DEF LinesInv, FrameInv
<1>3. Protocol!End(r)
  BY <1>2, SameLines DEF Protocol!End, Protocol!MayEnd, Down
<1> QED BY <1>3, SameLines DEF Protocol!Next

\* A turn emits inside its frame, a replay between frames and before its answer.
LEMMA EmitAllowed ==
  ASSUME ServerInv, LinesInv, NEW r \in Reqs, opPc[r] = "agent", Protocol!Write(AgentEvent(r))
  PROVE  Protocol!Next
<1>1. Running(r) /\ ~RepliedIn(wire, r)
  BY DEF Running, ServerInv, AnsweredInv, Answered, OpOwes
<1>2. ASSUME ~Down, method[r] = "prompt" PROVE OpenIn(wire, r)
  BY <1>1, <1>2 DEF LinesInv, FrameInv, IsTurn
<1>3. ASSUME ~Down, method[r] = "replay" PROVE \A q \in Reqs : ~OpenIn(wire, q)
  <2>1. activeOp = r
    BY <1>1, <1>3, RunningIsActive DEF LinesInv
  <2> QED BY <1>3, <2>1, OpenIsActive DEF IsTurn
<1>4. Protocol!Emit(r)
  BY <1>1, <1>2, <1>3, SameLines DEF Protocol!Emit, Protocol!MayEmit, Protocol!NoFrameOpen, Down
<1> QED BY <1>4, SameLines DEF Protocol!Next

\* SetPlanMode emits on behalf of a request that has no frame.
LEMMA PlanEmitAllowed ==
  ASSUME ServerInv, LinesInv, loopPc = "plan_call", Protocol!Write(AgentEvent(loopReq))
  PROVE  Protocol!Next
<1>1. loopReq \in Reqs /\ method[loopReq] = "set_plan_mode"
  BY DEF ServerInv, HandsInv, LoopOwes, LinesInv, OriginInv
<1>2. Protocol!Emit(loopReq)
  BY <1>1, SameLines DEF Protocol!Emit, Protocol!MayEmit
<1> QED BY <1>1, <1>2, SameLines DEF Protocol!Next

\* serveLoop answers a request once, with no frame of it open, and acknowledges
\* a cancel when no frame is open at all.
LEMMA LoopReplyAllowed ==
  ASSUME ServerInv, LinesInv, loopPc = "reply", Protocol!Write(Reply(loopReq, loopOut))
  PROVE  Protocol!Next
<1>1. loopReq \in Reqs /\ opPc[loopReq] = "none" /\ loopOut \in Answers
  BY DEF ServerInv, HandsInv, LoopOwes, LinesInv, OriginInv
<1>2. ~RepliedIn(wire, loopReq)
  BY DEF ServerInv, AnsweredInv, Answered, LoopOwes
<1>3. Down \/ ~OpenIn(wire, loopReq)
  BY <1>1, OpenIsActive DEF Running
<1>4. ASSUME method[loopReq] = "cancel", loopOut = "ok", ~Down
      PROVE  \A r \in Reqs : ~OpenIn(wire, r)
  BY <1>4, OpenIsActive DEF LinesInv, CancelInv
<1>5. Protocol!MayReply(loopReq, loopOut)
  BY <1>2, <1>3, <1>4, SameLines DEF Protocol!MayReply, Protocol!NoFrameOpen, Down
<1>6. Protocol!Answer(loopReq)
  BY <1>1, <1>5, SameLines DEF Protocol!Answer
<1> QED BY <1>1, <1>6, SameLines DEF Protocol!Next

\* An operation answers its request once, after its frame.
LEMMA OpReplyAllowed ==
  ASSUME ServerInv, LinesInv, NEW r \in Reqs, opPc[r] = "reply",
         Protocol!Write(Reply(r, opResult[r]))
  PROVE  Protocol!Next
<1>1. opResult[r] \in Answers /\ method[r] # "cancel"
  BY DEF ServerInv, TypeInv, LinesInv, OriginInv
<1>2. ~RepliedIn(wire, r)
  BY DEF ServerInv, AnsweredInv, Answered, OpOwes
<1>3. Down \/ ~OpenIn(wire, r)
  BY OpenIsActive DEF Running
<1>4. Protocol!MayReply(r, opResult[r])
  BY <1>1, <1>2, <1>3, SameLines DEF Protocol!MayReply, Down
<1>5. Protocol!Answer(r)
  BY <1>1, <1>4, SameLines DEF Protocol!Answer
<1> QED BY <1>5, SameLines DEF Protocol!Next

\* Every step of the server is one the protocol allows, or not seen by the client.
LEMMA ProtocolStep ==
  ASSUME ServerInv, LinesInv, [Next]_vars
  PROVE  [Protocol!Next]_(Protocol!protocolVars)
<1> USE DEF readVars, loopVars, serveVars, shakeVars, slotVars, opVars
<1>1. ASSUME NEW m \in ClientMethods, ReadRequest(m) PROVE Protocol!Next
  BY <1>1, AskAllowed
<1>2. CASE ReadGarbage
  <2>1. Protocol!Write(ParseError) => Protocol!Next
    BY SameLines DEF Protocol!Complain, Protocol!Next
  <2> QED BY <1>2, <2>1, LineAllowed DEF ReadGarbage
<1>3. CASE Push \/ PushAborted \/ ReadFails \/ ReadCancelled \/ ReadClosed
           \/ ClearActiveTurn \/ OpWaited \/ WaitTimeout \/ ServeReturns \/ UNCHANGED vars
  BY <1>3, Unseen DEF Push, PushAborted, ReadFails, ReadCancelled, ReadClosed, ReadEnds,
       ClearActiveTurn, OpWaited, WaitTimeout, ServeReturns, ServeStep, vars
<1>4. CASE ServeCancels \/ CtxCancel \/ Close
  <2>1. UNCHANGED <<method, wire>> /\ Down'
    BY <1>4 DEF ServeCancels, CtxCancel, Close, Down
  <2>2. CASE Down
    <3>1. (ctxDone \/ closed)' = (ctxDone \/ closed)
      BY <2>1, <2>2 DEF Down
    <3> QED BY <2>1, <3>1 DEF Protocol!protocolVars
  <2>3. CASE ~Down
    <3>1. Protocol!GoDown
      BY <2>1, <2>3 DEF Protocol!GoDown, Down
    <3> QED BY <3>1 DEF Protocol!Next
  <2> QED BY <2>2, <2>3
<1>5. CASE Dispatch
  BY <1>5, Unseen DEF Dispatch, HandleInitialize, HandlePrompt, HandleSteer, HandleCancel,
       HandleReplay, HandleSetPlanMode, HandleOther, Take
<1>6. CASE EmitTurnBegin
  <2>1. /\ loopPc = "emit_begin" /\ TryWrite(TurnBegin(loopReq))
        /\ UNCHANGED <<method, ctxDone, closed>>
    BY <1>6 DEF EmitTurnBegin, TryWrite
  <2> QED BY <2>1, BeginAllowed, LineAllowed
<1>7. CASE EndTurnReturns \/ LoopExit \/ SteerSend \/ CancelMark
           \/ SteerTooLate \/ SteerReturns \/ CancelDone \/ CancelShutdown \/ PlanReturns
  BY <1>7, Unseen DEF EndTurnReturns, LoopExit, SteerSend, CancelMark, SteerTooLate,
       SteerReturns, CancelDone, CancelShutdown, PlanReturns, LoopAnswers
<1>8. CASE LoopReply
  <2>1. /\ loopPc = "reply" /\ TryWrite(Reply(loopReq, loopOut))
        /\ UNCHANGED <<method, ctxDone, closed>>
    BY <1>8 DEF LoopReply
  <2> QED BY <2>1, LoopReplyAllowed, LineAllowed
<1>9. CASE PlanEmits
  <2>1. /\ loopPc = "plan_call" /\ TryWrite(AgentEvent(loopReq))
        /\ UNCHANGED <<method, ctxDone, closed>>
    BY <1>9 DEF PlanEmits, TryWrite, WriteLine
  <2> QED BY <2>1, PlanEmitAllowed, LineAllowed
<1>10. ASSUME NEW r \in Reqs, EndOp(r) \/ AgentRuns(r)
       PROVE  [Protocol!Next]_(Protocol!protocolVars)
  <2>1. CASE TurnEmitEnd(r)
    <3>1. /\ opPc[r] = "emit_end" /\ TryWrite(TurnEnd(r)) /\ UNCHANGED <<method, ctxDone, closed>>
      BY <2>1 DEF TurnEmitEnd, OpStep
    <3> QED BY <3>1, EndAllowed, LineAllowed
  <2>2. CASE OpReply(r)
    <3>1. /\ opPc[r] = "reply" /\ TryWrite(Reply(r, opResult[r]))
          /\ UNCHANGED <<method, ctxDone, closed>>
      BY <2>2 DEF OpReply, OpStep
    <3> QED BY <3>1, OpReplyAllowed, LineAllowed
  <2>3. CASE AgentEmits(r)
    <3>1. /\ opPc[r] = "agent" /\ wire' = Append(wire, AgentEvent(r))
          /\ UNCHANGED <<method, ctxDone, closed>>
      BY <2>3 DEF AgentEmits, OpStep
    <3>2. Protocol!Write(AgentEvent(r))
      BY <3>1 DEF Protocol!Write
    <3> QED BY <3>1, <3>2, EmitAllowed
  <2>4. CASE TurnClose(r) \/ TurnClear(r) \/ TurnDecide(r) \/ ReplayClear(r) \/ ReplayClose(r)
             \/ AgentSteerInput(r) \/ \E o \in AgentOutcomes : AgentReturns(r, o)
    BY <2>4, Unseen DEF TurnClose, TurnClear, TurnDecide, ReplayClear, ReplayClose,
         AgentSteerInput, AgentReturns, OpStep
  <2> QED BY <1>10, <2>1, <2>2, <2>3, <2>4 DEF EndOp, AgentRuns
<1> QED
  BY <1>1, <1>2, <1>3, <1>4, <1>5, <1>6, <1>7, <1>8, <1>9, <1>10
  DEF Next, ReadLoop, ServeLoop, LoopStep, Serve, Terminated

\* The lines a server writes follow the protocol of TurnProtocol: frames do not
\* overlap, events lie inside the frame of their turn, replies come after it and
\* once, no frame is open when a cancel is acknowledged.  This is so for any
\* number of requests, any agent and any interleaving of serveLoop with endTurn,
\* provided WriteLine fails only once the server is going down: a TurnEnd lost to
\* a full buffer would leave its frame open for good.
THEOREM LinesFollowProtocol ==
  ASSUME "write" \notin Faults
  PROVE  Spec => ProtocolSpec
<1>1. Init => Protocol!Init
  BY SameLines DEF Init, Protocol!Init
<1>2. Spec => []LinesInv
  <2>1. ServerInv /\ LinesInv /\ [Next]_vars => LinesInv'
    BY LinesStep
  <2> QED BY LinesInit, <2>1, Invariance, PTL DEF Spec
<1>3. ServerInv /\ LinesInv /\ [Next]_vars => [Protocol!Next]_(Protocol!protocolVars)
  BY ProtocolStep
<1> QED BY <1>1, <1>2, <1>3, Invariance, PTL DEF Spec, ProtocolSpec, Protocol!Spec
=============================================================================
