---------------------------- MODULE ServeLifecycle ----------------------------
(***************************************************************************)
(* Calls of Serve and Close on one Server (server/server.go).  Serve keeps *)
(* the state of the call that runs in fields of the Server: serveCtx,      *)
(* cancelServe, readDone and serveDone are overwritten by the next call,   *)
(* and the goroutines of a call, those of prompts and replays included,    *)
(* look them up when they use them.  The flag serving is what keeps a      *)
(* second call out; Close, which may come at any time, resets it.          *)
(*                                                                         *)
(* A channel and a context are named by the call of Serve that made them,  *)
(* so `field = i' says that the four fields are those of call i.           *)
(***************************************************************************)
EXTENDS Naturals, FiniteSets

CONSTANTS
  MaxServes,       \* bound: calls of Serve, from as many goroutines
  Turns, Replays   \* bound: prompts and replays that clients ask for

Calls == 1..MaxServes
Ops   == Turns \cup Replays
None  == 0

ASSUME LifecycleAssumption ==
  /\ MaxServes \in Nat \ {0}
  /\ Turns \cap Replays = {} /\ None \notin Ops

VARIABLES
  serving,      \* s.serving
  field,        \* the call whose context and channels the fields hold
  pc,           \* where each call of Serve is
  waitsOn,      \* the channel a blocked receive of Serve has evaluated
  taken,        \* the operation the clearActiveTurn of each call waits for
  readPc,       \* readLoop of each call: "none", "run" or "done"
  loopPc,       \* serveLoop of each call: "none", "start", "run" or "done"
  loopDone,     \* the channel serveLoop will close, evaluated by its defer
  ctxDone,      \* contexts that are cancelled
  readDone,     \* readDone channels that are closed
  serveDone,    \* serveDone channels that are closed
  ended,        \* the transport has ended: every ReadLine returns EOF
  panicked,     \* a channel was closed twice
  slot,         \* the operation in s.activeTurn and s.activeOp
  opPc,         \* goroutine of each operation: its agent is at work ("run"), or
                \* it has got as far as "ended", "freed" or "over"
  opOf,         \* the call whose context an operation derives its own from
  \* Histories:
  closed,       \* Close has been called
  late,         \* calls of Serve that got in after that
  overtaken,    \* a call of Serve got in while another was running
  abandoned,    \* operations clearActiveTurn no longer waited for
  usedCtx       \* contexts an operation took from the field to write with

goVars == <<readPc, loopPc, loopDone, readDone, serveDone, panicked>>
opVars == <<slot, opPc, opOf, abandoned, usedCtx>>
gateVars == <<closed, late, overtaken>>
vars == <<serving, field, pc, waitsOn, taken, ctxDone, ended, goVars, opVars, gateVars>>

-----------------------------------------------------------------------------
Step(i, from, to) == pc[i] = from /\ pc' = [pc EXCEPT ![i] = to]

Running(i) == pc[i] \notin {"idle", "refused", "returned"}

Enter(i) ==
  /\ IF serving
       THEN Step(i, "idle", "refused") /\ UNCHANGED <<serving, late, overtaken>>
       ELSE /\ Step(i, "idle", "assign") /\ serving' = TRUE
            /\ late' = IF closed THEN late \cup {i} ELSE late
            /\ overtaken' = (overtaken \/ \E j \in Calls : Running(j))
  /\ UNCHANGED <<field, waitsOn, taken, ctxDone, ended, closed, goVars, opVars>>

\* Assign the fields and start the two goroutines.
Assign(i) ==
  /\ Step(i, "assign", "recv_read")
  /\ field' = i
  /\ readPc' = [readPc EXCEPT ![i] = "run"]
  /\ loopPc' = [loopPc EXCEPT ![i] = "start"]
  /\ UNCHANGED <<serving, waitsOn, taken, ctxDone, ended, loopDone, readDone, serveDone,
                 panicked, opVars, gateVars>>

\* <-s.readDone evaluates the field and then blocks.
RecvRead(i) ==
  /\ Step(i, "recv_read", "wait_read")
  /\ waitsOn' = [waitsOn EXCEPT ![i] = field]
  /\ UNCHANGED <<serving, field, taken, ctxDone, ended, goVars, opVars, gateVars>>

\* Mutant: the server is declared free as soon as reading has ended.
Cancel_FreesEarly(i) ==
  /\ Step(i, "wait_read", "clear") /\ waitsOn[i] \in readDone
  /\ ctxDone' = ctxDone \cup {field}
  /\ serving' = FALSE
  /\ UNCHANGED <<field, waitsOn, taken, ended, goVars, opVars, gateVars>>

\* readDone is closed; s.cancelServe().
Cancel(i) ==
  /\ Step(i, "wait_read", "clear") /\ waitsOn[i] \in readDone
  /\ ctxDone' = ctxDone \cup {field}
  /\ UNCHANGED <<serving, field, waitsOn, taken, ended, goVars, opVars, gateVars>>

\* done of a turn is closed by endTurn before it frees the slot, done of a
\* replay by the last of its deferred functions.
Done(o) == opPc[o] \in IF o \in Turns THEN {"ended", "freed", "over"} ELSE {"over"}

\* clearActiveTurn empties the slot and cancels what was in it ...
Clear(i) ==
  /\ Step(i, "clear", "wait_op")
  /\ taken' = [taken EXCEPT ![i] = slot] /\ slot' = None
  /\ UNCHANGED <<serving, field, waitsOn, ctxDone, ended, goVars, opPc, opOf, abandoned,
                 usedCtx, gateVars>>

\* ... and waits for it, but not for more than ten seconds.
Waited(i) ==
  /\ Step(i, "wait_op", "recv_serve") /\ (taken[i] # None => Done(taken[i]))
  /\ UNCHANGED <<serving, field, waitsOn, taken, ctxDone, ended, goVars, opVars, gateVars>>

GivesUp(i) ==
  /\ Step(i, "wait_op", "recv_serve") /\ taken[i] # None
  /\ abandoned' = abandoned \cup {taken[i]}
  /\ UNCHANGED <<serving, field, waitsOn, taken, ctxDone, ended, goVars, slot, opPc, opOf,
                 usedCtx, gateVars>>

\* <-s.serveDone evaluates the field and then blocks.
RecvServe(i) ==
  /\ Step(i, "recv_serve", "wait_serve")
  /\ waitsOn' = [waitsOn EXCEPT ![i] = field]
  /\ UNCHANGED <<serving, field, taken, ctxDone, ended, goVars, opVars, gateVars>>

\* Mutant: Serve does not wait for serveDone.
Return_NoWait(i) ==
  /\ Step(i, "wait_serve", "returned")
  /\ ctxDone' = ctxDone \cup {i}
  /\ serving' = FALSE
  /\ UNCHANGED <<field, waitsOn, taken, ended, goVars, opVars, gateVars>>

\* serveDone is closed; the deferred functions run (the cancel function was
\* evaluated by the defer statement, so it is the call's own).
Return(i) ==
  /\ Step(i, "wait_serve", "returned") /\ waitsOn[i] \in serveDone
  /\ ctxDone' = ctxDone \cup {i}
  /\ serving' = FALSE
  /\ UNCHANGED <<field, waitsOn, taken, ended, goVars, opVars, gateVars>>

\* The caller of Serve cancels the context it gave.
CtxCancel(i) ==
  /\ readPc[i] # "none" /\ i \notin ctxDone
  /\ ctxDone' = ctxDone \cup {i}
  /\ UNCHANGED <<serving, field, pc, waitsOn, taken, ended, goVars, opVars, gateVars>>

-----------------------------------------------------------------------------
\* readLoop ends when the transport has ended or a context is done, that of its
\* own call or the one in the field when it comes round again; its deferred
\* function closes the channel the field holds then.
ReadLoopEnds(i) ==
  /\ readPc[i] = "run" /\ (ended \/ i \in ctxDone \/ field \in ctxDone)
  /\ readPc' = [readPc EXCEPT ![i] = "done"]
  /\ readDone' = readDone \cup {field}
  /\ panicked' = (panicked \/ field \in readDone)
  /\ UNCHANGED <<serving, field, pc, waitsOn, taken, ctxDone, ended, loopPc, loopDone,
                 serveDone, opVars, gateVars>>

\* Mutant: serveLoop waits on dispatchCh alone.
LoopEnds_NoCtx(i) ==
  /\ FALSE /\ loopPc[i] = "run" /\ UNCHANGED vars

LoopStarts(i) ==
  /\ loopPc[i] = "start" /\ loopPc' = [loopPc EXCEPT ![i] = "run"]
  /\ loopDone' = [loopDone EXCEPT ![i] = field]
  /\ UNCHANGED <<serving, field, pc, waitsOn, taken, ctxDone, ended, readPc, readDone,
                 serveDone, panicked, opVars, gateVars>>

\* The select of serveLoop sees a context in the same way.
LoopEnds(i) ==
  /\ loopPc[i] = "run" /\ (i \in ctxDone \/ field \in ctxDone)
  /\ loopPc' = [loopPc EXCEPT ![i] = "done"]
  /\ serveDone' = serveDone \cup {loopDone[i]}
  /\ panicked' = (panicked \/ loopDone[i] \in serveDone)
  /\ UNCHANGED <<serving, field, pc, waitsOn, taken, ctxDone, ended, readPc, loopDone,
                 readDone, opVars, gateVars>>

-----------------------------------------------------------------------------
(***************************************************************************)
(* Operations, as far as the slot, done and the field go.                  *)
(***************************************************************************)
OpStep(o, from, to) ==
  /\ opPc[o] = from /\ opPc' = [opPc EXCEPT ![o] = to]
  /\ UNCHANGED <<serving, field, pc, waitsOn, taken, ctxDone, ended, goVars, abandoned,
                 gateVars>>

\* A write takes s.serveCtx when it begins.
Writes(o) == usedCtx' = [usedCtx EXCEPT ![o] = @ \cup {field}]

\* serveLoop takes a prompt or a replay from dispatchCh, which it may prefer to
\* a context that is done, and the slot is free.  A turn emits TurnBegin; if that
\* fails, serveLoop itself ends the turn, here like any other.
Begins(i, o) ==
  /\ loopPc[i] = "run" /\ slot = None
  /\ OpStep(o, "none", "run")
  /\ slot' = o /\ opOf' = [opOf EXCEPT ![o] = field]
  /\ IF o \in Turns THEN Writes(o) ELSE UNCHANGED usedCtx

\* The agent has returned: a turn emits TurnEnd and closes done, a replay
\* answers its request.
Ends(o) == OpStep(o, "run", "ended") /\ Writes(o) /\ UNCHANGED <<slot, opOf>>

Frees(o) ==
  /\ OpStep(o, "ended", "freed")
  /\ slot' = IF slot = o THEN None ELSE slot
  /\ UNCHANGED <<opOf, usedCtx>>

\* A turn answers its request, a replay closes done.
Leaves(o) ==
  /\ OpStep(o, "freed", "over")
  /\ IF o \in Turns THEN Writes(o) ELSE UNCHANGED usedCtx
  /\ UNCHANGED <<slot, opOf>>

-----------------------------------------------------------------------------
\* Close resets serving and closes the transport.
Close ==
  /\ ~closed \/ serving
  /\ serving' = FALSE /\ ended' = TRUE /\ closed' = TRUE
  /\ UNCHANGED <<field, pc, waitsOn, taken, ctxDone, goVars, opVars, late, overtaken>>

\* The peer hangs up.
HangUp ==
  /\ ~ended /\ ended' = TRUE
  /\ UNCHANGED <<serving, field, pc, waitsOn, taken, ctxDone, goVars, opVars, gateVars>>

Init ==
  /\ serving = FALSE /\ field = None
  /\ pc = [i \in Calls |-> "idle"] /\ waitsOn = [i \in Calls |-> None]
  /\ taken = [i \in Calls |-> None]
  /\ readPc = [i \in Calls |-> "none"] /\ loopPc = [i \in Calls |-> "none"]
  /\ loopDone = [i \in Calls |-> None]
  /\ ctxDone = {} /\ readDone = {} /\ serveDone = {}
  /\ ended = FALSE /\ panicked = FALSE
  /\ slot = None /\ opPc = [o \in Ops |-> "none"] /\ opOf = [o \in Ops |-> None]
  /\ closed = FALSE /\ late = {} /\ overtaken = FALSE
  /\ abandoned = {} /\ usedCtx = [o \in Ops |-> {}]

Serve(i) ==
  \/ Assign(i) \/ RecvRead(i) \/ Cancel(i) \/ Clear(i) \/ Waited(i) \/ GivesUp(i)
  \/ RecvServe(i) \/ Return(i)

Goroutines(i) == ReadLoopEnds(i) \/ LoopStarts(i) \/ LoopEnds(i)

Operation(o) ==
  (\E i \in Calls : Begins(i, o)) \/ Ends(o) \/ Frees(o) \/ Leaves(o)

\* Every call has come back, or calls have got hold of each other's channels and
\* may wait for ever.
Terminated ==
  /\ overtaken \/ \A i \in Calls : pc[i] \in {"refused", "returned"}
  /\ UNCHANGED vars

Next ==
  \/ Close \/ HangUp \/ Terminated
  \/ \E i \in Calls : Enter(i) \/ Serve(i) \/ Goroutines(i) \/ CtxCancel(i)
  \/ \E o \in Ops : Operation(o)

\* Goroutines that can run do run and ten seconds pass.  Nothing is asked of
\* the agent: an operation need not end.
Fairness == \A i \in Calls : WF_vars(Serve(i)) /\ WF_vars(Goroutines(i))

Spec == Init /\ [][Next]_vars
FairSpec == Spec /\ Fairness

-----------------------------------------------------------------------------
\* One call of Serve at a time gets past the check "server already serving"
\* until Close is called, and Close may be called while one runs.  Of calls that
\* run together after that, one at most had got in before it.
OneServe ==
  \A i, j \in Calls : Running(i) /\ Running(j) /\ i # j => closed /\ {i, j} \cap late # {}

\* The server still knows of an operation: it is in the slot or clearActiveTurn
\* waits for it.
Known(o) == slot = o \/ \E i \in Calls : pc[i] = "wait_op" /\ taken[i] = o

\* What a call of Serve leaves behind when it returns, as long as no other got in
\* while it ran: neither of its two loops, and no channel is closed twice; of its
\* operations only ones whose context is done and that clearActiveTurn gave up
\* after ten seconds or, because they were taken from dispatchCh after it had
\* emptied the slot, the server still knows of.  Until its call has returned, no
\* operation writes with the context of another.
WhatOutlivesServe ==
  overtaken \/
    /\ ~panicked
    /\ \A i \in Calls : pc[i] = "returned" => readPc[i] = "done" /\ loopPc[i] = "done"
    /\ \A o \in Ops : opPc[o] # "none" =>
         IF pc[opOf[o]] = "returned"
           THEN opPc[o] = "run" => opOf[o] \in ctxDone /\ (o \in abandoned \/ Known(o))
           ELSE usedCtx[o] \subseteq {opOf[o]}

\* Once the transport has ended, every call of Serve that got in returns, even
\* when the agent does not, unless a second call got in beside one.
EveryServeReturns ==
  \A i \in Calls : ended /\ Running(i) ~> pc[i] = "returned" \/ overtaken
=============================================================================
