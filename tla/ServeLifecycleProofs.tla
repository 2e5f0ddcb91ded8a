------------------------- MODULE ServeLifecycleProofs -------------------------
(***************************************************************************)
(* Any number of calls of Serve, any operations, and Close at any time:    *)
(* which calls can run together, and what one of them leaves behind.       *)
(***************************************************************************)
EXTENDS ServeLifecycle, TLAPS

\* The call has assigned the fields and not yet returned.
Assigned(i) == pc[i] \in {"recv_read", "wait_read", "clear", "wait_op", "recv_serve",
                          "wait_serve"}

\* Where each call and each of its goroutines can be.
TypeInv ==
  /\ pc \in [Calls -> {"idle", "assign", "refused", "returned", "recv_read",
                       "wait_read", "clear", "wait_op", "recv_serve", "wait_serve"}]
  /\ serving \in BOOLEAN /\ closed \in BOOLEAN /\ overtaken \in BOOLEAN
  /\ waitsOn \in [Calls -> Calls \cup {None}]
  /\ taken \in [Calls -> Ops \cup {None}]
  /\ readPc \in [Calls -> {"none", "run", "done"}]
  /\ loopPc \in [Calls -> {"none", "start", "run", "done"}]
  /\ loopDone \in [Calls -> Calls \cup {None}]
  /\ field \in Calls \cup {None} /\ slot \in Ops \cup {None}
  /\ opPc \in [Ops -> {"none", "run", "ended", "freed", "over"}]
  /\ opOf \in [Ops -> Calls \cup {None}]
  /\ usedCtx \in [Ops -> SUBSET (Calls \cup {None})]

\* The flag keeps others out while a call runs, until Close resets it.
Gate ==
  /\ OneServe
  /\ \A i \in Calls : Running(i) => serving \/ closed

\* As long as a call runs alone, the fields stay its own.
OwnsFields ==
  /\ \A i, j \in Calls : Running(i) /\ Running(j) => i = j
  /\ \A i \in Calls : Assigned(i) => field = i
  /\ \A i \in Calls : pc[i] \in {"wait_read", "wait_serve"} => waitsOn[i] = i

\* A goroutine of a call that runs belongs to a call that has assigned the
\* fields; it closes the channel of its own call, when it ends and not before.
OwnGoroutines ==
  /\ \A i \in Calls : readPc[i] = "run" \/ loopPc[i] \in {"start", "run"} => Assigned(i)
  /\ \A i \in Calls : pc[i] \in {"idle", "assign", "refused"} =>
       readPc[i] = "none" /\ loopPc[i] = "none"
  /\ \A i \in Calls : loopPc[i] = "run" => loopDone[i] = i
  /\ \A i \in Calls : i \in readDone <=> readPc[i] = "done"
  /\ \A i \in Calls : i \in serveDone <=> loopPc[i] = "done"

\* Serve returns after both channels, and after it has cancelled its context.
WaitsForBoth ==
  /\ \A i \in Calls : pc[i] \in {"clear", "wait_op", "recv_serve", "wait_serve"} =>
       readPc[i] = "done" /\ i \in ctxDone
  /\ \A i \in Calls : pc[i] = "returned" =>
       readPc[i] = "done" /\ loopPc[i] = "done" /\ i \in ctxDone
  /\ ~panicked

\* An operation belongs to a call that has assigned the fields and, while its
\* agent is at work, is known to the server or given up; it has written with no
\* context but its own, unless its call has returned.
Operations ==
  \A o \in Ops : opPc[o] # "none" =>
    /\ opOf[o] \in Calls /\ (Assigned(opOf[o]) \/ pc[opOf[o]] = "returned")
    /\ Assigned(opOf[o]) => usedCtx[o] \subseteq {opOf[o]}
    /\ opPc[o] = "run" => o \in abandoned \/ Known(o)

\* Nothing has been written before an operation begins.
Unwritten == \A o \in Ops : opPc[o] = "none" => usedCtx[o] = {}

Alone == OwnsFields /\ OwnGoroutines /\ WaitsForBoth /\ Operations /\ Unwritten

LifecycleInv == TypeInv /\ Gate /\ (overtaken \/ Alone)

\* The parts of the invariant that do not depend on who owns the fields.
LEMMA TypeStep == TypeInv /\ [Next]_vars => TypeInv'
<1> SUFFICES ASSUME TypeInv, [Next]_vars PROVE TypeInv'
  OBVIOUS
<1> USE DEF TypeInv, Step, goVars, opVars, gateVars
<1>1. CASE Close \/ HangUp \/ Terminated \/ UNCHANGED vars
  BY <1>1 DEF Close, HangUp, Terminated, vars
<1>2. ASSUME NEW i \in Calls, Enter(i) PROVE TypeInv'
  BY ZenonT(30), <1>2 DEF Enter
<1>3. ASSUME NEW i \in Calls, Assign(i) \/ RecvRead(i) \/ Cancel(i) PROVE TypeInv'
  BY <1>3 DEF Assign, RecvRead, Cancel
<1>4. ASSUME NEW i \in Calls, Clear(i) \/ Waited(i) \/ GivesUp(i) PROVE TypeInv'
  BY <1>4 DEF Clear, Waited, GivesUp
<1>5. ASSUME NEW i \in Calls, RecvServe(i) \/ Return(i) \/ CtxCancel(i) PROVE TypeInv'
  <2>1. CASE RecvServe(i)
    BY <2>1 DEF RecvServe
  <2>2. CASE Return(i)
    BY <2>2 DEF Return
  <2>3. CASE CtxCancel(i)
    BY <2>3 DEF CtxCancel
  <2> QED BY <1>5, <2>1, <2>2, <2>3
<1>6. ASSUME NEW i \in Calls, Goroutines(i) PROVE TypeInv'
  BY <1>6 DEF Goroutines, ReadLoopEnds, LoopStarts, LoopEnds
<1>7. ASSUME NEW o \in Ops, NEW i \in Calls, Begins(i, o) PROVE TypeInv'
  BY <1>7 DEF Begins, OpStep, Writes
<1>8. ASSUME NEW o \in Ops, Ends(o) \/ Frees(o) \/ Leaves(o) PROVE TypeInv'
  BY <1>8 DEF Ends, Frees, Leaves, OpStep, Writes
<1> QED BY <1>1, <1>2, <1>3, <1>4, <1>5, <1>6, <1>7, <1>8 DEF Next, Serve, Operation

LEMMA GateStep == TypeInv /\ Gate /\ [Next]_vars => Gate'
<1> SUFFICES ASSUME TypeInv, Gate, [Next]_vars PROVE Gate'
  OBVIOUS
<1> USE DEF TypeInv, Gate, OneServe, Running, gateVars
<1>1. CASE Close
  BY <1>1 DEF Close
<1>2. CASE HangUp \/ Terminated \/ UNCHANGED vars
  BY <1>2 DEF HangUp, Terminated, vars
<1>3. ASSUME NEW i \in Calls, Enter(i) PROVE Gate'
  <2>1. CASE serving
    BY <1>3, <2>1 DEF Enter, Step
  <2>2. CASE ~serving
    <3>1. closed' = closed /\ serving' /\ (closed => i \in late') /\ late \subseteq late'
      BY <1>3, <2>2 DEF Enter
    <3>2. \A j \in Calls : Running(j)' => Running(j) \/ j = i
      BY <1>3 DEF Enter, Step
    <3>3. ~closed => \A j \in Calls : ~Running(j)
      BY <2>2
    <3> HIDE DEF Running
    <3> QED BY <3>1, <3>2, <3>3
  <2> QED BY <2>1, <2>2
<1>4. ASSUME NEW i \in Calls, Assign(i) \/ RecvRead(i) \/ Cancel(i) PROVE Gate'
  BY <1>4 DEF Assign, RecvRead, Cancel, Step
<1>5. ASSUME NEW i \in Calls, Clear(i) \/ Waited(i) \/ GivesUp(i) \/ RecvServe(i) PROVE Gate'
  BY <1>5 DEF Clear, Waited, GivesUp, RecvServe, Step
<1>6. ASSUME NEW i \in Calls, Return(i) PROVE Gate'
  BY <1>6 DEF Return, Step
<1>7. ASSUME NEW i \in Calls, Goroutines(i) \/ CtxCancel(i) PROVE Gate'
  BY <1>7 DEF Goroutines, ReadLoopEnds, LoopStarts, LoopEnds, CtxCancel
<1>8. ASSUME NEW o \in Ops, Operation(o) PROVE Gate'
  BY <1>8 DEF Operation, Begins, Ends, Frees, Leaves, OpStep
<1> QED BY <1>1, <1>2, <1>3, <1>4, <1>5, <1>6, <1>7, <1>8 DEF Next, Serve

\* The steps of a call of Serve.
LEMMA ServeKeeps ==
  ASSUME TypeInv, TypeInv', Alone, ~overtaken', NEW i \in Calls, Enter(i) \/ Serve(i)
  PROVE  Alone'
<1> USE DEF Step, goVars, opVars, gateVars, Running, Assigned, TypeInv
<1>1. CASE Enter(i)
  <2>1. \A j \in Calls : pc'[j] # pc[j] => j = i /\ pc[i] = "idle" /\ pc'[i] \in {"assign", "refused"}
    BY <1>1 DEF Enter
  <2>2. OwnsFields'
    BY <1>1 DEF Enter, Alone, OwnsFields
  <2>3. OwnGoroutines' /\ WaitsForBoth' /\ Unwritten'
    BY <1>1 DEF Enter, Alone, OwnGoroutines, WaitsForBoth, Unwritten
  <2>4. Operations'
    BY <1>1, <2>1 DEF Enter, Alone, Operations, Known
  <2> QED BY <2>2, <2>3, <2>4 DEF Alone
<1>2. CASE Assign(i)
  <2>2. OwnsFields'
    BY <1>2 DEF Assign, Alone, OwnsFields
  <2>3. OwnGoroutines' /\ WaitsForBoth' /\ Unwritten'
    BY <1>2 DEF Assign, Alone, OwnsFields, OwnGoroutines, WaitsForBoth, Unwritten
  <2>4. Operations'
    BY <1>2 DEF Assign, Alone, OwnsFields, Operations, Known
  <2> QED BY <2>2, <2>3, <2>4 DEF Alone
<1>3. CASE RecvRead(i) \/ RecvServe(i)
  <2>2. OwnsFields'
    BY <1>3 DEF RecvRead, RecvServe, Alone, OwnsFields
  <2>3. OwnGoroutines' /\ WaitsForBoth' /\ Unwritten'
    BY <1>3 DEF RecvRead, RecvServe, Alone, OwnGoroutines, WaitsForBoth, Unwritten
  <2>4. Operations'
    BY <1>3 DEF RecvRead, RecvServe, Alone, Operations, Known
  <2> QED BY <2>2, <2>3, <2>4 DEF Alone
<1>4. CASE Cancel(i)
  <2>2. OwnsFields' /\ OwnGoroutines' /\ Unwritten'
    BY <1>4 DEF Cancel, Alone, OwnsFields, OwnGoroutines, Unwritten
  <2>3. WaitsForBoth'
    BY <1>4 DEF Cancel, Alone, OwnsFields, OwnGoroutines, WaitsForBoth
  <2>4. Operations'
    BY <1>4 DEF Cancel, Alone, Operations, Known
  <2> QED BY <2>2, <2>3, <2>4 DEF Alone
<1>5. CASE Clear(i)
  <2>2. OwnsFields' /\ OwnGoroutines' /\ WaitsForBoth' /\ Unwritten'
    BY <1>5 DEF Clear, Alone, OwnsFields, OwnGoroutines, WaitsForBoth, Unwritten
  <2>3. ASSUME NEW o \in Ops, Known(o) PROVE Known(o)'
    BY <1>5, <2>3 DEF Clear, Known
  <2>4. Operations'
    BY <1>5, <2>3 DEF Clear, Alone, Operations
  <2> QED BY <2>2, <2>4 DEF Alone
<1>6. CASE Waited(i) \/ GivesUp(i)
  <2>2. OwnsFields' /\ OwnGoroutines' /\ WaitsForBoth' /\ Unwritten'
    BY <1>6 DEF Waited, GivesUp, Alone, OwnsFields, OwnGoroutines, WaitsForBoth, Unwritten
  <2>3. ASSUME NEW o \in Ops, Known(o), opPc[o] = "run" PROVE Known(o)' \/ o \in abandoned'
    BY <1>6, <2>3, LifecycleAssumption DEF Waited, GivesUp, Known, Done
  <2>4. Operations'
    BY <1>6, <2>3 DEF Waited, GivesUp, Alone, Operations
  <2> QED BY <2>2, <2>4 DEF Alone
<1>7. CASE Return(i)
  <2>2. OwnsFields'
    BY <1>7 DEF Return, Alone, OwnsFields
  <2>3. OwnGoroutines' /\ WaitsForBoth' /\ Unwritten'
    BY <1>7 DEF Return, Alone, OwnsFields, OwnGoroutines, WaitsForBoth, Unwritten
  <2>4. Operations'
    BY <1>7 DEF Return, Alone, Operations, Known
  <2> QED BY <2>2, <2>3, <2>4 DEF Alone
<1> QED BY <1>1, <1>2, <1>3, <1>4, <1>5, <1>6, <1>7 DEF Serve

\* The steps of its two loops.
LEMMA GoroutinesKeep ==
  ASSUME TypeInv, Alone, NEW i \in Calls, Goroutines(i)
  PROVE  Alone'
<1> USE DEF goVars, opVars, gateVars, Running, Assigned, TypeInv
<1>1. OwnsFields' /\ Operations' /\ Unwritten'
  BY DEF Goroutines, ReadLoopEnds, LoopStarts, LoopEnds, Alone, OwnsFields, Operations,
         Unwritten, Known
<1>2. CASE ReadLoopEnds(i)
  <2>1. field = i /\ i \notin readDone
    BY <1>2 DEF ReadLoopEnds, Alone, OwnsFields, OwnGoroutines
  <2>2. OwnGoroutines'
    BY <1>2, <2>1 DEF ReadLoopEnds, Alone, OwnGoroutines
  <2>3. ~panicked'
    BY <1>2, <2>1 DEF ReadLoopEnds, Alone, WaitsForBoth
  <2>4. \A j \in Calls : readPc[j] = "done" => readPc'[j] = "done"
    BY <1>2 DEF ReadLoopEnds
  <2>5. WaitsForBoth'
    BY <1>2, <2>3, <2>4 DEF ReadLoopEnds, Alone, WaitsForBoth
  <2> QED BY <1>1, <2>2, <2>5 DEF Alone
<1>3. CASE LoopStarts(i)
  <2>1. field = i
    BY <1>3 DEF LoopStarts, Alone, OwnsFields, OwnGoroutines
  <2>2. OwnGoroutines' /\ WaitsForBoth'
    BY <1>3, <2>1 DEF LoopStarts, Alone, OwnGoroutines, WaitsForBoth
  <2> QED BY <1>1, <2>2 DEF Alone
<1>4. CASE LoopEnds(i)
  <2>1. loopDone[i] = i /\ i \notin serveDone
    BY <1>4 DEF LoopEnds, Alone, OwnGoroutines
  <2>2. OwnGoroutines'
    BY <1>4, <2>1 DEF LoopEnds, Alone, OwnGoroutines
  <2>3. ~panicked'
    BY <1>4, <2>1 DEF LoopEnds, Alone, WaitsForBoth
  <2>4. \A j \in Calls : loopPc[j] = "done" => loopPc'[j] = "done"
    BY <1>4 DEF LoopEnds
  <2>5. WaitsForBoth'
    BY <1>4, <2>3, <2>4 DEF LoopEnds, Alone, WaitsForBoth
  <2> QED BY <1>1, <2>2, <2>5 DEF Alone
<1> QED BY <1>2, <1>3, <1>4 DEF Goroutines

\* The steps of operations.
LEMMA OperationsKeep ==
  ASSUME TypeInv, Alone, NEW o \in Ops, Operation(o)
  PROVE  Alone'
<1> USE DEF goVars, opVars, gateVars, Running, Assigned, TypeInv
<1>1. OwnsFields' /\ OwnGoroutines' /\ WaitsForBoth'
  BY DEF Operation, Begins, Ends, Frees, Leaves, OpStep, Alone, OwnsFields, OwnGoroutines,
         WaitsForBoth
<1>2. ASSUME NEW i \in Calls, Begins(i, o) PROVE Alone'
  <2>1. field = i /\ Assigned(i) /\ usedCtx[o] = {}
    BY <1>2 DEF Begins, OpStep, Alone, OwnsFields, OwnGoroutines, Unwritten
  <2>2. Operations' /\ Unwritten'
    BY <1>2, <2>1, LifecycleAssumption DEF Begins, OpStep, Writes, Alone, Operations, Unwritten, Known
  <2> QED BY <1>1, <2>2 DEF Alone
<1>3. CASE Ends(o) \/ Leaves(o)
  <2>1. Assigned(opOf[o]) => field = opOf[o]
    BY <1>3 DEF Ends, Leaves, OpStep, Alone, Operations, OwnsFields
  <2>2. Operations' /\ Unwritten'
    BY <1>3, <2>1 DEF Ends, Leaves, OpStep, Writes, Alone, Operations, Unwritten, Known
  <2> QED BY <1>1, <2>2 DEF Alone
<1>4. CASE Frees(o)
  <2>1. Operations' /\ Unwritten'
    BY <1>4 DEF Frees, OpStep, Alone, Operations, Unwritten, Known
  <2> QED BY <1>1, <2>1 DEF Alone
<1> QED BY <1>2, <1>3, <1>4 DEF Operation

\* LifecycleInv is inductive, whenever Close is called.
THEOREM LifecycleInvariance == Spec => []LifecycleInv
<1>1. Init => LifecycleInv
  <2> SUFFICES ASSUME Init PROVE LifecycleInv
    OBVIOUS
  <2> USE DEF Init, Running, Assigned
  <2>1. TypeInv
    BY DEF TypeInv
  <2>2. Gate
    BY DEF Gate, OneServe
  <2>3. Alone
    BY LifecycleAssumption DEF Alone, OwnsFields, OwnGoroutines, WaitsForBoth, Operations, Unwritten, Known,
           Calls, None
  <2> QED BY <2>1, <2>2, <2>3 DEF LifecycleInv
<1>2. LifecycleInv /\ [Next]_vars => LifecycleInv'
  <2> SUFFICES ASSUME LifecycleInv, [Next]_vars PROVE LifecycleInv'
    OBVIOUS
  <2>1. TypeInv' /\ Gate'
    BY TypeStep, GateStep DEF LifecycleInv
  <2>2. overtaken => overtaken'
    BY DEF Next, Close, HangUp, Terminated, Enter, Serve, Assign, RecvRead, Cancel, Clear,
           Waited, GivesUp, RecvServe, Return, Goroutines, ReadLoopEnds, LoopStarts, LoopEnds,
           CtxCancel, Operation, Begins, Ends, Frees, Leaves, OpStep, gateVars, vars
  <2> SUFFICES ASSUME ~overtaken' PROVE Alone'
    BY <2>1 DEF LifecycleInv
  <2>3. TypeInv /\ Alone
    BY <2>2 DEF LifecycleInv
  <2>4. CASE Close \/ HangUp \/ Terminated \/ UNCHANGED vars
    BY <2>3, <2>4 DEF Close, HangUp, Terminated, vars, goVars, opVars, gateVars, Alone,
         OwnsFields, OwnGoroutines, WaitsForBoth, Operations, Unwritten, Running, Assigned, Known
  <2>5. ASSUME NEW i \in Calls, CtxCancel(i) PROVE Alone'
    BY <2>3, <2>5 DEF CtxCancel, goVars, opVars, gateVars, Alone,
         OwnsFields, OwnGoroutines, WaitsForBoth, Operations, Unwritten, Running, Assigned, Known
  <2> QED
    BY <2>1, <2>3, <2>4, <2>5, ServeKeeps, GoroutinesKeep, OperationsKeep DEF Next
<1> QED BY <1>1, <1>2, PTL DEF Spec

\* However many calls of Serve there are and whenever Close comes, one call at a
\* time runs until Close is called, and of those that run together afterwards
\* one at most had got in before: serving is reset by nothing but Close and the
\* return of the call that set it.
THEOREM ServesOneByOne == Spec => []OneServe
<1>1. LifecycleInv => OneServe
  BY DEF LifecycleInv, Gate
<1> QED BY LifecycleInvariance, <1>1, PTL

\* Whenever Close comes, a call of Serve that no other got in beside leaves
\* neither of its loops behind, closes no channel twice and leaves only operations
\* whose context is done and that were given up or are still known, though every
\* goroutine looks up its channel and its context in a field that the next call
\* assigns.
THEOREM LeavesOnlyOperations == Spec => []WhatOutlivesServe
<1>1. LifecycleInv => WhatOutlivesServe
  <2> SUFFICES ASSUME LifecycleInv, ~overtaken PROVE WhatOutlivesServe
    BY DEF WhatOutlivesServe
  <2>1. WaitsForBoth /\ Operations
    BY DEF LifecycleInv, Alone
  <2> QED BY <2>1 DEF WaitsForBoth, Operations, WhatOutlivesServe
<1> QED BY LifecycleInvariance, <1>1, PTL
=============================================================================
