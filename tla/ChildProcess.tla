----------------------------- MODULE ChildProcess -----------------------------
(***************************************************************************)
(* ChildProcessTransport (transport/transport_process.go): spawning the    *)
(* child, ReadLine and WriteLine on its pipes by concurrent callers, their *)
(* deadlines, Close, and the child, which may stop reading, exit in the    *)
(* middle of a line or ignore the interrupt.                               *)
(*                                                                         *)
(* A line crosses a pipe in two parts, the second of which carries the     *)
(* newline: enough for a write or a read to be cut short.  Each caller     *)
(* makes one call.  The context of a caller in Timed has a deadline; that  *)
(* of another can only be cancelled.  os.File and the pipes are external:  *)
(* one writer at a time holds the descriptor until its whole line is       *)
(* written or fails, a deadline applies to whatever operation is blocked   *)
(* on the descriptor, and closing it wakes everybody.                      *)
(***************************************************************************)
EXTENDS Naturals, Sequences

CONSTANTS
  Writers, Readers,  \* callers of WriteLine and of ReadLine
  Timed,             \* callers whose context has a deadline
  Companies,         \* bound: sets of callers that are at work together
  PipeCap,           \* capacity of a pipe, in parts
  MaxOut,            \* bound: lines the child writes
  None

Callers == Writers \cup Readers

ASSUME ProcessAssumption ==
  /\ Writers \cap Readers = {} /\ None \notin Callers
  /\ Timed \subseteq Callers /\ Companies \subseteq SUBSET Callers
  /\ PipeCap \in Nat \ {0} /\ MaxOut \in Nat

VARIABLES
  spawn,       \* step of SpawnChildProcessTransport, then "up"; "unstarted" or
               \* "failed" when it failed before cmd.Start or in it
  attempt,
  files,       \* descriptors the parent has open
  proc,        \* the child: "none", "running", "exited"
  closed,
  closePc,     \* step of Close
  callers,     \* who calls in this execution
  over,        \* callers whose context is done
  pc, result,  \* where each call is, and what it returned
  writeDl,     \* whose deadline is set on stdin
  fdLock,      \* who is writing on stdin
  stream,      \* parts written to stdin so far
  taken,       \* how many of them the child has read
  readMu,
  out,         \* parts the child has written to stdout
  pos,         \* how many of them ReadLine has consumed
  from,        \* ... of which those after from belong to no line yet
  got,         \* what ReadLine returned, as intervals of parts
  lost         \* parts discarded by a ReadLine that failed

spawnVars == <<spawn, attempt, files, proc>>
closeVars == <<closed, closePc>>
ctxVars   == <<callers, over>>
callVars  == <<pc, result>>
writeVars == <<writeDl, fdLock, stream, taken>>
readVars  == <<readMu, out, pos, from, got, lost>>
vars == <<spawnVars, closeVars, ctxVars, callVars, writeVars, readVars>>

-----------------------------------------------------------------------------
(***************************************************************************)
(* SpawnChildProcessTransport: three attempts.  StdinPipe and StderrPipe   *)
(* open both ends of a pipe or nothing; os/exec keeps the child's ends and *)
(* closes them in cmd.Start, whether that succeeds or not (external).      *)
(***************************************************************************)
ChildEnds == {"stdinRd", "stderrWr"}

SpawnStep(now, next) ==
  /\ spawn = now /\ spawn' = next
  /\ UNCHANGED <<closeVars, ctxVars, callVars, writeVars, readVars>>

Opens(now, fs, next) ==
  SpawnStep(now, next) /\ files' = files \cup fs /\ UNCHANGED <<attempt, proc>>

\* An error path closes, one by one, what it holds of the steps before it:
\* not the child's end of stdin, which nobody closes unless cmd.Start is called.
Closes(now) == CASE now = "stdin"  -> {}
                 [] now = "stdout" -> {"stdin"}
                 [] now = "stderr" -> {"stdin", "stdoutRd", "stdoutWr"}
                 [] OTHER          -> {"stdin", "stdoutRd", "stdoutWr", "stderr"} \cup ChildEnds

SpawnFails(now) ==
  /\ SpawnStep(now, IF now = "start" THEN "failed" ELSE "unstarted")
  /\ files' = files \ Closes(now) /\ UNCHANGED <<attempt, proc>>

\* cmd.Start fails with ETXTBSY.
SpawnRetries ==
  /\ attempt < 2 /\ attempt' = attempt + 1
  /\ SpawnStep("start", "stdin") /\ files' = files \ Closes("start") /\ UNCHANGED proc

\* Mutant: the parent keeps the write side of stdout.
SpawnStarts_KeepsWr ==
  /\ SpawnStep("start", "up") /\ proc' = "running"
  /\ files' = files \ ChildEnds /\ UNCHANGED attempt

\* The child has its own copy of stdoutWr.
SpawnStarts ==
  /\ SpawnStep("start", "up") /\ proc' = "running"
  /\ files' = files \ ({"stdoutWr"} \cup ChildEnds) /\ UNCHANGED attempt

Spawn ==
  \/ Opens("stdin", {"stdin", "stdinRd"}, "stdout")
  \/ Opens("stdout", {"stdoutRd", "stdoutWr"}, "stderr")
  \/ Opens("stderr", {"stderr", "stderrWr"}, "start")
  \/ \E now \in {"stdin", "stdout", "stderr", "start"} : SpawnFails(now)
  \/ SpawnRetries \/ SpawnStarts

-----------------------------------------------------------------------------
(***************************************************************************)
(* Calls.                                                                  *)
(***************************************************************************)
Goto(c, to)    == pc' = [pc EXCEPT ![c] = to] /\ UNCHANGED result
Returns(c, to, r) == pc' = [pc EXCEPT ![c] = to] /\ result' = [result EXCEPT ![c] = r]

\* The deadline of a context passes, or it is cancelled.
CtxDone(c) ==
  /\ over' = over \cup {c}
  /\ UNCHANGED <<callers, spawnVars, closeVars, callVars, writeVars, readVars>>

\* WriteLine up to the point where the mutex is released.
WriteStart(w) ==
  /\ spawn = "up" /\ pc[w] = "idle"
  /\ CASE w \in over -> Returns(w, "returned", "timeout")
       [] w \notin over /\ closed -> Returns(w, "returned", "closed")
       [] OTHER -> Goto(w, IF w \in Timed THEN "deadline" ELSE "lock")
  /\ UNCHANGED <<spawnVars, closeVars, ctxVars, writeVars, readVars>>

\* Mutant: stdin is not recognised as a writeDeadliner.
SetWriteDeadline_Skipped(w) ==
  /\ pc[w] = "deadline" /\ Goto(w, "lock")
  /\ UNCHANGED <<spawnVars, closeVars, ctxVars, writeVars, readVars>>

SetWriteDeadline(w) ==
  /\ pc[w] = "deadline" /\ Goto(w, "lock")
  /\ writeDl' = w
  /\ UNCHANGED <<spawnVars, closeVars, ctxVars, fdLock, stream, taken, readVars>>

\* Mutant: the line and its newline are two writes.
WriteLock_TwoWrites(w) ==
  /\ pc[w] = "lock" /\ ~closed
  /\ Goto(w, "first") /\ fdLock' = w
  /\ UNCHANGED <<spawnVars, closeVars, ctxVars, writeDl, stream, taken, readVars>>

WriteLock(w) ==
  /\ pc[w] = "lock" /\ fdLock = None /\ ~closed
  /\ Goto(w, "first") /\ fdLock' = w
  /\ UNCHANGED <<spawnVars, closeVars, ctxVars, writeDl, stream, taken, readVars>>

PipeFull == Len(stream) - taken >= PipeCap

WritePart(w) ==
  /\ pc[w] \in {"first", "second"}
  /\ ~closed /\ proc = "running" /\ ~PipeFull
  /\ IF pc[w] = "first"
       THEN /\ Goto(w, "second") /\ UNCHANGED fdLock
            /\ stream' = Append(stream, [of |-> w, part |-> 1])
       ELSE /\ Returns(w, IF w \in Timed THEN "reset" ELSE "returned", "ok") /\ fdLock' = None
            /\ stream' = Append(stream, [of |-> w, part |-> 2])
  /\ UNCHANGED <<spawnVars, closeVars, ctxVars, writeDl, taken, readVars>>

\* Closed here, closed there, or the deadline on the descriptor has passed,
\* whoever set it.
WriteFails(w) ==
  /\ pc[w] \in {"lock", "first", "second"}
  /\ \/ closed
     \/ pc[w] # "lock" /\ proc = "exited" /\ "stdinRd" \notin files
     \/ pc[w] # "lock" /\ writeDl \in over /\ (pc[w] = "first" \/ PipeFull)
  /\ Returns(w, IF w \in Timed THEN "reset" ELSE "returned",
                IF w \in over THEN "timeout" ELSE "io_error")
  /\ fdLock' = IF fdLock = w THEN None ELSE fdLock
  /\ UNCHANGED <<spawnVars, closeVars, ctxVars, writeDl, stream, taken, readVars>>

ResetWriteDeadline(w) ==
  /\ pc[w] = "reset" /\ Goto(w, "returned")
  /\ writeDl' = None
  /\ UNCHANGED <<spawnVars, closeVars, ctxVars, fdLock, stream, taken, readVars>>

ReadStart(r) ==
  /\ spawn = "up" /\ pc[r] = "idle"
  /\ IF r \in over THEN Returns(r, "returned", "timeout") ELSE Goto(r, "lock")
  /\ UNCHANGED <<spawnVars, closeVars, ctxVars, writeVars, readVars>>

\* readMu is taken, and the deadline set under it.
ReadLock(r) ==
  /\ pc[r] = "lock" /\ readMu = None /\ Goto(r, "read")
  /\ readMu' = r
  /\ UNCHANGED <<spawnVars, closeVars, ctxVars, writeVars, out, pos, from, got, lost>>

\* ReadString consumes a part; the newline completes the line.
ReadPart(r) ==
  /\ pc[r] = "read" /\ pos < out /\ pos' = pos + 1
  /\ IF pos' % 2 = 0
       THEN /\ Returns(r, "returned", "ok") /\ readMu' = None
            /\ got' = Append(got, <<from + 1, pos'>>) /\ from' = pos'
       ELSE UNCHANGED <<callVars, readMu, got, from>>
  /\ UNCHANGED <<spawnVars, closeVars, ctxVars, writeVars, out, lost>>

StdoutClosed == "stdoutRd" \notin files

\* Mutant: what was read before the deadline is returned as a line.
ReadFails_Partial(r) ==
  /\ pc[r] = "read"
  /\ \/ r \in Timed \cap over /\ Returns(r, "returned", "timeout")
     \/ StdoutClosed /\ Returns(r, "returned", "io_error")
  /\ got' = IF from < pos THEN Append(got, <<from + 1, pos>>) ELSE got
  /\ readMu' = None /\ from' = pos
  /\ UNCHANGED <<spawnVars, closeVars, ctxVars, writeVars, out, pos, lost>>

\* The deadline has passed or stdout was closed: what had been read of a line
\* is discarded.
ReadFails(r) ==
  /\ pc[r] = "read"
  /\ \/ r \in Timed \cap over /\ Returns(r, "returned", "timeout")
     \/ StdoutClosed /\ Returns(r, "returned", "io_error")
  /\ lost' = lost \cup from + 1 .. pos
  /\ readMu' = None /\ from' = pos
  /\ UNCHANGED <<spawnVars, closeVars, ctxVars, writeVars, out, pos, got>>

\* End of file needs every write end closed; a line without a newline counts.
ReadEOF(r) ==
  /\ pc[r] = "read" /\ pos = out
  /\ proc = "exited" /\ "stdoutWr" \notin files /\ ~StdoutClosed
  /\ IF from < pos
       THEN Returns(r, "returned", "ok") /\ got' = Append(got, <<from + 1, pos>>)
       ELSE Returns(r, "returned", "eof") /\ UNCHANGED got
  /\ readMu' = None /\ from' = pos
  /\ UNCHANGED <<spawnVars, closeVars, ctxVars, writeVars, out, pos, lost>>

-----------------------------------------------------------------------------
(***************************************************************************)
(* Close (once) and the child.                                             *)
(***************************************************************************)
CloseStep(now, next) ==
  /\ spawn = "up" /\ closePc = now /\ closePc' = next
  /\ UNCHANGED <<spawn, attempt, ctxVars, callVars, writeVars, readVars>>

CloseStdin ==
  /\ CloseStep("none", "stdout") /\ closed' = TRUE
  /\ files' = files \ {"stdin"} /\ UNCHANGED proc

\* Mutant: stdout is left open.
CloseStdout_Missing == CloseStep("stdout", "wait") /\ UNCHANGED <<closed, files, proc>>

\* stdout is closed, the child interrupted, and a goroutine waits for it.
CloseStdout ==
  /\ CloseStep("stdout", "wait")
  /\ files' = files \ {"stdoutRd"} /\ UNCHANGED <<closed, proc>>

CloseWaited  == CloseStep("wait", "done") /\ proc = "exited" /\ UNCHANGED <<closed, files, proc>>
\* time.After(3 s), then Kill
CloseKills   == CloseStep("wait", "done") /\ proc' = "exited" /\ UNCHANGED <<closed, files>>

ChildStep == proc = "running" /\ UNCHANGED <<spawn, attempt, files, closeVars, ctxVars, callVars>>

ChildReads  == /\ ChildStep /\ taken < Len(stream) /\ taken' = taken + 1
               /\ UNCHANGED <<proc, writeDl, fdLock, stream, readVars>>
ChildWrites == /\ ChildStep /\ out < 2 * MaxOut /\ out - pos < PipeCap /\ out' = out + 1
               /\ UNCHANGED <<proc, writeVars, readMu, pos, from, got, lost>>
ChildExits  == ChildStep /\ proc' = "exited" /\ UNCHANGED <<writeVars, readVars>>

\* logStderr sees the end of stderr and closes it.
StderrEnds ==
  /\ proc = "exited" /\ "stderrWr" \notin files
  /\ "stderr" \in files /\ files' = files \ {"stderr"}
  /\ UNCHANGED <<spawn, attempt, proc, closeVars, ctxVars, callVars, writeVars, readVars>>

-----------------------------------------------------------------------------
Init ==
  /\ spawn = "stdin" /\ attempt = 0 /\ files = {} /\ proc = "none"
  /\ closed = FALSE /\ closePc = "none"
  /\ callers \in Companies /\ over = {}
  /\ pc = [c \in Callers |-> "idle"] /\ result = [c \in Callers |-> "none"]
  /\ writeDl = None /\ fdLock = None /\ stream = <<>> /\ taken = 0
  /\ readMu = None /\ out = 0 /\ pos = 0 /\ from = 0 /\ got = <<>> /\ lost = {}

WriteRuns(w) == SetWriteDeadline(w) \/ WriteLock(w) \/ WritePart(w) \/ WriteFails(w)
                \/ ResetWriteDeadline(w)
ReadRuns(r)  == ReadLock(r) \/ ReadPart(r) \/ ReadFails(r) \/ ReadEOF(r)
CloseRuns    == CloseStdout \/ CloseWaited \/ CloseKills

\* The spawn has failed, or the child is gone and so is logStderr.
Terminated ==
  /\ spawn \in {"failed", "unstarted"} \/ (proc = "exited" /\ "stderr" \notin files)
  /\ UNCHANGED vars

Next ==
  \/ Spawn \/ CloseStdin \/ CloseRuns \/ StderrEnds
  \/ ChildReads \/ ChildWrites \/ ChildExits \/ Terminated
  \/ \E c \in callers \ over : CtxDone(c)
  \/ \E w \in callers \cap Writers : WriteStart(w) \/ WriteRuns(w)
  \/ \E r \in callers \cap Readers : ReadStart(r) \/ ReadRuns(r)

\* Goroutines that can run do run, deadlines pass and Kill works.  Nothing is
\* asked of the child or of the callers, and no other context is ever done.
Fairness ==
  /\ WF_vars(CloseRuns) /\ WF_vars(StderrEnds)
  /\ \A c \in Timed : WF_vars(c \in callers \ over /\ CtxDone(c))
  /\ \A w \in Writers : WF_vars(WriteRuns(w))
  /\ \A r \in Readers : WF_vars(ReadRuns(r))

Spec == Init /\ [][Next]_vars /\ Fairness

-----------------------------------------------------------------------------
(***************************************************************************)
(* Properties.                                                             *)
(***************************************************************************)
Started(c) == pc[c] \notin {"idle", "returned"}

\* A line reaches the child as it was written, whatever other callers,
\* deadlines, Close and the child do: nothing comes between its parts, and a
\* call that returned nil has written both.  (A line may still be glued to the
\* first part of one whose write failed.)
LinesUnbroken ==
  /\ \A i \in DOMAIN stream : stream[i].part = 2 =>
       i > 1 /\ stream[i - 1] = [of |-> stream[i].of, part |-> 1]
  /\ \A w \in Writers : result[w] = "ok" =>
       \E i \in DOMAIN stream : stream[i] = [of |-> w, part |-> 2]

\* ReadLine returns the child's lines in order, each once and whole: a line
\* begins where the one before it ended or after parts a failed call lost, and
\* stops short of a newline only at the end of the output.
ReadsWhole ==
  \A i \in DOMAIN got :
    /\ got[i][1] = (IF i = 1 THEN 0 ELSE got[i - 1][2]) + 1 \/ got[i][1] - 1 \in lost
    /\ got[i][1] % 2 = 1 \/ got[i][1] - 1 \in lost
    /\ got[i][2] % 2 = 0 \/ (proc = "exited" /\ got[i][2] = out)

\* Close releases every call, also those blocked in a pipe, and afterwards no
\* descriptor is left open.  A spawn whose cmd.Start failed, at the first attempt
\* or after others, leaves none either; one that failed before it, for want of a
\* pipe, leaves at most the child's end of stdin (until os.File's finalizer).
CloseReleases ==
  closePc = "done" \/ spawn \in {"failed", "unstarted"} ~>
    /\ files \subseteq IF spawn = "unstarted" THEN {"stdinRd"} ELSE {}
    /\ \A c \in Callers : ~Started(c)

\* When the child exits, a ReadLine that waits for output returns.
ExitSeen == \A r \in Readers : pc[r] = "read" /\ proc = "exited" ~> pc[r] = "returned"

\* A call whose deadline has passed returns.
DeadlineRespected == \A c \in Timed : c \in over /\ Started(c) ~> pc[c] = "returned"
=============================================================================
