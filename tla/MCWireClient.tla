---------------------------- MODULE MCWireClient ----------------------------
(***************************************************************************)
(* WireClient for TLC: many calls and lines as long as the connection is   *)
(* up, fewer in behaviours in which the peer hangs up or the application   *)
(* calls Shutdown.  The constants are given in the .cfg files.             *)
(***************************************************************************)
EXTENDS WireClient

CONSTANT Few     \* bound: calls and lines of a connection that ends

CanEnd  == ~hungup /\ ~stop /\ nsent + ncalls <= Few
CanGoOn == hungup \/ stop => nsent + ncalls < Few

\* Restricts the peer and the application, of whom no fairness is asked.
MCNext ==
  \/ CanGoOn /\ PeerSends
  \/ CanGoOn /\ WriteRequest
  \/ CanEnd /\ PeerHangsUp
  \/ CanEnd /\ Shutdown
  \/ Reader \/ Dispatch \/ ShutRuns \/ ReadRawMessage \/ Terminated
  \/ \E c \in Calls : CallRuns(c)

MCSpec == Init /\ [][MCNext]_vars

MCFairSpec == MCSpec /\ Fairness
=============================================================================
