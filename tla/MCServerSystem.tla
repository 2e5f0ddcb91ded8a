---------------------------- MODULE MCServerSystem ----------------------------
(***************************************************************************)
(* Two scenarios for ServerSystem: a client that sends many requests to a  *)
(* server nobody stops, and one that sends few to a server whose context   *)
(* is cancelled at any time.  Both begin with a prompt and a cancel.       *)
(***************************************************************************)
EXTENDS ServerSystem

CONSTANT Few     \* bound: requests read in the second scenario

VARIABLE stopped     \* which scenario: may the context be cancelled

MCInit == SystemInit /\ stopped \in BOOLEAN

\* Restricts the client and the caller of Serve, of whom no fairness is asked.
MCNext ==
  /\ SystemNext
  /\ IF stopped THEN nread' <= Few ELSE ~ctxDone'
  /\ nread' > 0 => method'[1] = "prompt"
  /\ nread' > 1 => method'[2] = "cancel"
  /\ UNCHANGED stopped

MCSpec == MCInit /\ [][MCNext]_<<systemVars, stopped>> /\ SystemFairness
=============================================================================
