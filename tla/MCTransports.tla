----------------------------- MODULE MCTransports -----------------------------
(***************************************************************************)
(* One run for the transports: each behaviour exercises one of them, which *)
(* share nothing.                                                          *)
(***************************************************************************)
EXTENDS ChildProcess, MemoryTransport, StderrLog

VARIABLE which   \* the transport this behaviour is about

MCInit ==
  /\ Init /\ MemoryInit /\ LogInit
  /\ \/ which = "process" /\ kind = "channel" /\ input = <<>>
     \/ which = "memory" /\ callers = {} /\ input = <<>>
     \/ which = "stderr" /\ callers = {} /\ kind = "channel"

ProcessStep == which = "process" /\ Next /\ UNCHANGED <<which, memoryVars, logVars>>
MemoryStep  == which = "memory" /\ MemoryNext /\ UNCHANGED <<which, vars, logVars>>
StderrStep  == which = "stderr" /\ LogNext /\ UNCHANGED <<which, vars, memoryVars>>

MCSpec ==
  /\ MCInit
  /\ [][ProcessStep \/ MemoryStep \/ StderrStep]_<<vars, which, memoryVars, logVars>>
  /\ Fairness
=============================================================================
