-------------------------- MODULE MCServeLifecycle --------------------------
(***************************************************************************)
(* ServeLifecycle for TLC, up to the step by which a second call of Serve  *)
(* gets in beside one that runs: from there on the goroutines of both use  *)
(* the fields without synchronisation, and only OneServe says something of *)
(* what follows, which is left to the proof.                               *)
(***************************************************************************)
EXTENDS ServeLifecycle

MCNext ==
  \/ Terminated
  \/ /\ ~overtaken
     /\ \/ Close \/ HangUp
        \/ \E i \in Calls : Enter(i) \/ Serve(i) \/ Goroutines(i) \/ CtxCancel(i)
        \/ \E o \in Ops : Operation(o)

MCSpec == Init /\ [][MCNext]_vars /\ Fairness
=============================================================================
