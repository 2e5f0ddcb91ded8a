----------------------------- MODULE ServerSystem -----------------------------
(***************************************************************************)
(* The whole server: the turn engine of WireServer and the requests to the *)
(* client of ServerRequests, with what they share.  One readLoop takes the *)
(* client's requests and its responses from one line of messages, so it    *)
(* serves neither while it waits for the other; Serve ends both; a call    *)
(* belongs to the turn whose agent made it, uses the turn's context and    *)
(* keeps the agent from returning.                                         *)
(***************************************************************************)
EXTENDS WireServer

CONSTANTS MaxCalls, MaxResponses, Kinds, DefaultTimeout, SupportsQuestion

VARIABLES
  ioError, nresp, route, toFail, ncalls, kind, callPc, callDone, outcome, pending, ch,
  pendPc,      \* Serve with respect to the calls: ServerRequests!servePc
  owner        \* the turn each call belongs to

Requests == INSTANCE ServerRequests WITH serveDone <- ctxDone, servePc <- pendPc

ASSUME SystemAssumption ==
  /\ MaxCalls \in Nat \ {0} /\ MaxResponses \in Nat
  /\ Kinds \subseteq Requests!AllKinds
  /\ DefaultTimeout \in BOOLEAN /\ SupportsQuestion \in BOOLEAN

Calls == 1..MaxCalls

requestVars == <<ioError, nresp, route, toFail, ncalls, kind, callPc, callDone, outcome,
                 pending, ch, pendPc>>
\* Everything but readPc and ctxDone.
turnVars   == <<closed, nread, method, dispatchCh, loopVars, serveVars, shakeVars,
                slotVars, opVars, wire>>
systemVars == <<vars, requestVars, owner>>

\* A step of the turn engine, and a step of the calls.
Turn(A)    == A /\ UNCHANGED <<requestVars, owner>>
Request(A) == A /\ UNCHANGED <<turnVars, owner>>

-----------------------------------------------------------------------------
(***************************************************************************)
(* What the two share: the end of readLoop, Serve, and the agent.          *)
(***************************************************************************)
\* readErr tells EOF and context.Canceled from other errors.
LoopEnds(A) == A /\ (\E io \in BOOLEAN : Requests!ReadEnds(io)) /\ UNCHANGED owner

\* Mutant: Serve never fails the calls that are left.
SystemServeCancels_NoPending ==
  /\ ServeCancels /\ pendPc' = "done"
  /\ UNCHANGED <<ioError, nresp, route, toFail, ncalls, kind, callPc, callDone, outcome,
                 pending, ch, owner>>

SystemServeCancels == ServeCancels /\ Requests!ServeCancels /\ UNCHANGED owner

\* Mutant: Serve leaves the active turn to itself.
SystemClear_Skipped == pendPc = "done" /\ Turn(ServeStep("clear", "wait_loop"))

\* Serve fails the calls that are left, then clears the active turn.
SystemClear == pendPc = "done" /\ Turn(ClearActiveTurn)

\* The methods of Turn, called from Agent.Prompt.
AgentCalls(r, k) ==
  /\ IsTurn(r) /\ opPc[r] = "agent"
  /\ Requests!Call(k)
  /\ owner' = [owner EXCEPT ![ncalls'] = r]
  /\ UNCHANGED turnVars

CallWrites(c) ==
  /\ Request(Requests!WriteRequest(c))
  /\ IF callPc'[c] = "wait" THEN ~closed ELSE CanFail \/ callDone[c]

\* Mutant: the call uses a context of its own and not the turn's.
CallExpires_Detached(c) ==
  Requests!HasDeadline(kind[c]) /\ Request(Requests!CtxExpires(c))

\* The call's own deadline passes, or the turn's context is done.
CallExpires(c) ==
  /\ Request(Requests!CtxExpires(c))
  /\ Requests!HasDeadline(kind[c]) \/ OpCtxDone(owner[c])

SystemCallRuns(c) ==
  \/ CallWrites(c)
  \/ Request(Requests!Receive(c) \/ Requests!GiveUp(c) \/ Requests!ServeOver(c)
             \/ Requests!Unregister(c) \/ Requests!Drain(c))

\* Agent.Prompt returns when the calls it made have returned.
SystemAgentReturns(r) ==
  /\ \A c \in Calls : owner[c] = r => callPc[c] = "returned"
  /\ Turn(\E o \in AgentOutcomes : AgentReturns(r, o))

-----------------------------------------------------------------------------
SystemInit ==
  /\ Init
  /\ Requests!Init
  /\ owner = [c \in Calls |-> None]

\* Responses carry the result that was asked for; ServerRequests has the others.
SystemReadLoop ==
  \/ Turn(\/ \E m \in ClientMethods : ReadRequest(m)
          \/ ReadGarbage \/ Push \/ PushAborted)
  \/ Request(\/ \E id \in Calls : Requests!ReadResponse(id, Requests!Result(id))
             \/ Requests!RouteSend \/ Requests!RouteDropped)
  \/ LoopEnds(ReadFails) \/ LoopEnds(ReadCancelled) \/ LoopEnds(ReadClosed)

SystemServe ==
  \/ SystemServeCancels \/ SystemClear
  \/ Request(\/ Requests!ClosePending \/ Requests!PendingClosed
             \/ \E c \in Calls : Requests!FailCall(c))
  \/ Turn(OpWaited \/ WaitTimeout \/ ServeReturns)

SystemNext ==
  \/ SystemReadLoop \/ SystemServe
  \/ Turn(ServeLoop \/ CtxCancel \/ Close)
  \/ \E r \in Reqs : \/ Turn(EndOp(r) \/ AgentEmits(r) \/ AgentSteerInput(r))
                     \/ SystemAgentReturns(r)
                     \/ \E k \in Kinds : AgentCalls(r, k)
  \/ \E c \in Calls : SystemCallRuns(c) \/ CallExpires(c)

\* As in the two modules; an agent whose context is done returns once its
\* calls have.
SystemFairness ==
  /\ WF_systemVars(Turn(Push \/ PushAborted))
  /\ WF_systemVars(Request(Requests!RouteSend \/ Requests!RouteDropped))
  /\ WF_systemVars(LoopEnds(ReadClosed))
  /\ ReadHonoursCtx => WF_systemVars(LoopEnds(ReadCancelled))
  /\ WF_systemVars(Turn(Dispatch \/ LoopStep))
  /\ WF_systemVars(Turn(SteerReturns)) /\ WF_systemVars(Turn(PlanReturns))
  /\ \A r \in Reqs : /\ WF_systemVars(Turn(EndOp(r)))
                     /\ WF_systemVars(OpCtxDone(r) /\ SystemAgentReturns(r))
  /\ \A c \in Calls : WF_systemVars(SystemCallRuns(c)) /\ WF_systemVars(CallExpires(c))
  /\ WF_systemVars(SystemServe)

SystemSpec == SystemInit /\ [][SystemNext]_systemVars /\ SystemFairness

-----------------------------------------------------------------------------
(***************************************************************************)
(* Properties.                                                             *)
(***************************************************************************)
\* The composed server implements each of its parts: to the turn engine,
\* routing a response is reading, and to the calls, pushing a request is.  What
\* is shown of WireServer and ServerRequests alone holds of both together.
TurnEngine == INSTANCE WireServer WITH readPc <- IF readPc = "send" THEN "read" ELSE readPc
ImplementsTurnEngine == TurnEngine!Spec

CallEngine == INSTANCE ServerRequests WITH
                serveDone <- ctxDone, servePc <- pendPc,
                readPc <- IF readPc = "push" THEN "read" ELSE readPc
ImplementsRequests == CallEngine!Spec

UnderWay(c) == callPc[c] \notin {"none", "returned"}

\* A call under way, or still in s.pending, is a call of the turn that holds the
\* slot and has not been answered: once a client has the answer to its prompt,
\* no response it may still send is routed to anybody.  While handleCancel waits
\* for the turn, the context of each such call can end, so that none of them
\* keeps the turn, and with it serveLoop, waiting for the client.
CallsWithinTurn ==
  \A c \in Calls : UnderWay(c) \/ c \in pending =>
    /\ Cleared \/ activeTurn = owner[c]
    /\ ~Answered(owner[c])
    /\ loopPc = "cancel_wait" => OpCtxDone(owner[c])

\* readLoop never stays in a push or in routeResponse: with an agent that does
\* not steer, neither a full dispatchCh nor a cancel waiting for a turn that
\* waits for a response keeps responses from being read.
ReadLoopMovesOn == readPc \in {"push", "send"} ~> readPc \in {"read", "done"}

\* handleCancel answers though the turn it cancels waits for a response that
\* never comes: the cancelled context reaches the call, the call returns, the
\* agent returns, the turn ends and closes done.
CancelReturns == loopPc = "cancel_wait" ~> loopPc = "reply"
=============================================================================
