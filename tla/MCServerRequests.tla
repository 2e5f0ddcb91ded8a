-------------------------- MODULE MCServerRequests --------------------------
(***************************************************************************)
(* ServerRequests for TLC: the first call is one that has no deadline of   *)
(* its own, the second one of the other kinds.  The constants are given in *)
(* the .cfg files.                                                         *)
(***************************************************************************)
EXTENDS ServerRequests

\* Restricts the agent's choice of calls, of which no fairness is asked.
MCNext ==
  \/ ncalls = 0 /\ Call("approval")
  \/ \E k \in Kinds \ {"approval"} : ncalls > 0 /\ Call(k)
  \/ ReadLoop \/ Serve \/ CtxCancel \/ Terminated
  \/ \E c \in Calls : CallRuns(c) \/ CtxExpires(c)

MCSpec == Init /\ [][MCNext]_vars /\ Fairness
=============================================================================
