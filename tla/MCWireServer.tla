---------------------------- MODULE MCWireServer ----------------------------
(***************************************************************************)
(* WireServer for TLC.  The instances are .cfg files, which give the       *)
(* constants their values: strings, small numbers and sets of them.        *)
(***************************************************************************)
EXTENDS WireServerInv

\* The client sends MaxReqs lines, unparsable ones included.
LineLeft == nread + Cardinality({i \in DOMAIN wire : wire[i] = ParseError}) < MaxReqs

\* Restricts the client only, of whom no fairness is asked.
MCNext ==
  \/ \E m \in ClientMethods : LineLeft /\ ReadRequest(m)
  \/ LineLeft /\ ReadGarbage
  \/ ReadFails \/ ReadCancelled \/ ReadClosed \/ Push \/ PushAborted
  \/ ServeLoop \/ Serve \/ CtxCancel \/ Close \/ Terminated
  \/ \E r \in Reqs : EndOp(r) \/ AgentRuns(r)

MCSpec == Init /\ [][MCNext]_vars /\ Fairness
=============================================================================
