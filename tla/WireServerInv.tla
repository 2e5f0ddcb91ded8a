---------------------------- MODULE WireServerInv ----------------------------
(***************************************************************************)
(* The inductive invariant behind the safety theorems of WireServer.  TLC  *)
(* checks it on small instances, WireServerProofs proves it.               *)
(***************************************************************************)
EXTENDS WireServer

\* Types, with what makes them inductive: a reply written by an operation is
\* one of Answers only because its result has become an answer by then, what
\* readLoop pushes is a request it has read, and what a steer or a cancel acts
\* on is a request.
TypeInv ==
  /\ TypeOK
  /\ readPc = "push" => nread \in Reqs
  /\ loopPc \in {"steer_send", "steer_call", "cancel_mark", "cancel_wait"} =>
       loopOp \in Reqs
  /\ \A r \in Reqs : opPc[r] = "reply" => opResult[r] \in Answers

\* serveLoop takes the requests in the order readLoop read them, each once, and
\* no operation exists for a request serveLoop has not taken.
QueueInv ==
  /\ loopReq <= nread
  /\ \A i \in DOMAIN dispatchCh : loopReq < dispatchCh[i] /\ dispatchCh[i] <= nread
  /\ \A i, j \in DOMAIN dispatchCh : i < j => dispatchCh[i] < dispatchCh[j]
  /\ readPc = "push" =>
       loopReq < nread /\ \A i \in DOMAIN dispatchCh : dispatchCh[i] < nread
  /\ \A r \in Reqs : loopReq < r => opPc[r] = "none"

\* serveLoop has taken loopReq and neither answered it nor handed it over.
LoopOwes == loopPc \in {"reply", "emit_begin", "steer_send", "steer_call",
                        "cancel_mark", "cancel_wait", "plan_call"}

\* The operation of r has an answer to write.
OpOwes(r) ==
  \/ opPc[r] \in {"agent", "emit_end", "decide", "reply"}
  \/ IsTurn(r) /\ opPc[r] \in {"close", "clear"}

\* A request is in the hands of serveLoop or of an operation, never of both,
\* and the steps of endTurn are taken by turns only.
HandsInv ==
  /\ LoopOwes => loopReq \in Reqs /\ opPc[loopReq] = "none"
  /\ loopPc = "emit_begin" => IsTurn(loopReq)
  /\ \A r \in Reqs : opPc[r] \in {"emit_end", "decide"} => IsTurn(r)

\* An answered request is behind serveLoop and nobody will answer it again.
AnsweredInv ==
  /\ \A r \in Reqs : Answered(r) => r <= loopReq /\ ~OpOwes(r)
  /\ LoopOwes => ~Answered(loopReq)

\* The inductive invariant: requests flow in order from readLoop to serveLoop
\* to at most one operation, which alone holds the slot; whoever has the
\* request is the only one to answer it.
ServerInv ==
  /\ TypeInv /\ QueueInv /\ HandsInv /\ SlotMatchesOperation
  /\ AnsweredInv /\ AtMostOneReply
=============================================================================
