-------------------------- MODULE ChildProcessProofs --------------------------
(***************************************************************************)
(* The lines of ChildProcessTransport stay whole, in both directions, for  *)
(* any number of callers, any deadlines, any capacity of the pipes and any *)
(* length of the child's output; and logStderr logs every line of stderr   *)
(* once, in order, the lines of a key block together.                      *)
(***************************************************************************)
EXTENDS ChildProcess, StderrLog, TLAPS

\* The parts of the lines in the pipe.
Parts == [of : Writers, part : {1, 2}]

\* The writer between the parts of its line holds the descriptor, so the first
\* part is still the last thing in the pipe; nil is returned after the second.
WriteInv ==
  /\ pc \in [Callers -> {"idle", "deadline", "lock", "first", "second", "reset", "read",
                         "returned"}]
  /\ result \in [Callers -> {"none", "ok", "timeout", "closed", "io_error", "eof"}]
  /\ stream \in Seq(Parts)
  /\ \A w \in Writers : pc[w] \in {"first", "second"} => fdLock = w
  /\ \A w \in Writers : pc[w] = "second" =>
       Len(stream) > 0 /\ stream[Len(stream)] = [of |-> w, part |-> 1]
  /\ LinesUnbroken

\* Where the last line returned ends.
LastEnd == IF got = <<>> THEN 0 ELSE got[Len(got)][2]

\* What ReadLine has consumed beyond from is the beginning of a line; at from
\* ends the last line returned, or what a failed call has lost.  An unfinished
\* line is returned only once the child is gone and all is read.
ReadInv ==
  /\ out \in Nat /\ pos \in Nat /\ from \in Nat /\ from <= pos /\ pos <= out
  /\ got \in Seq(Nat \X Nat) /\ lost \subseteq Nat
  /\ spawn # "up" => proc = "none"
  /\ LastEnd = from \/ from \in lost
  /\ from % 2 = 0 \/ from \in lost \/ (proc = "exited" /\ from = out)
  /\ ReadsWhole

-----------------------------------------------------------------------------
(***************************************************************************)
(* Writing.                                                                *)
(***************************************************************************)
\* A writer that is not about to write leaves the pipe as it is.
LEMMA MovesOn ==
  ASSUME WriteInv, NEW c \in Callers,
         NEW to \in {"deadline", "lock", "reset", "read", "returned"},
         NEW r \in {"timeout", "closed", "io_error", "eof", result[c]},
         pc' = [pc EXCEPT ![c] = to], result' = [result EXCEPT ![c] = r],
         UNCHANGED stream, fdLock' = fdLock \/ (fdLock = c /\ fdLock' = None)
  PROVE  WriteInv'
<1>1. /\ pc' \in [Callers -> {"idle", "deadline", "lock", "first", "second", "reset", "read",
                              "returned"}]
      /\ result' \in [Callers -> {"none", "ok", "timeout", "closed", "io_error", "eof"}]
  BY DEF WriteInv
<1>2. \A w \in Writers : pc'[w] \in {"first", "second"} => w # c /\ pc'[w] = pc[w]
  BY DEF WriteInv, Callers
<1>3. \A w \in Writers : result'[w] = "ok" => result[w] = "ok"
  BY DEF WriteInv, Callers
<1>4. LinesUnbroken'
  BY <1>3 DEF WriteInv, LinesUnbroken
<1> QED BY <1>1, <1>2, <1>4 DEF WriteInv

\* A part of a line appended by the writer that holds the descriptor keeps the
\* lines whole.
LEMMA WritesWhole ==
  ASSUME WriteInv, NEW w \in Writers, WritePart(w)
  PROVE  WriteInv'
<1>0. w \in Callers /\ stream \in Seq(Parts) /\ pc \in [Callers -> {"idle", "deadline", "lock",
        "first", "second", "reset", "read", "returned"}]
      /\ result \in [Callers -> {"none", "ok", "timeout", "closed", "io_error", "eof"}]
  BY DEF WriteInv, Callers
<1>1. \A v \in Writers : v # w => pc[v] \notin {"first", "second"}
  BY DEF WriteInv, WritePart
<1>2. CASE pc[w] = "first"
  <2>1. /\ pc' = [pc EXCEPT ![w] = "second"] /\ result' = result /\ fdLock' = fdLock
        /\ stream' = Append(stream, [of |-> w, part |-> 1])
    BY <1>2 DEF WritePart, Goto
  <2>2. [of |-> w, part |-> 1] \in Parts
    BY DEF Parts
  <2>3. /\ stream' \in Seq(Parts) /\ Len(stream') = Len(stream) + 1
        /\ stream'[Len(stream')] = [of |-> w, part |-> 1]
        /\ \A i \in 1..Len(stream) : stream'[i] = stream[i]
        /\ DOMAIN stream = 1..Len(stream) /\ DOMAIN stream' = 1..Len(stream')
    BY <1>0, <2>1, <2>2
  <2>4. LinesUnbroken'
    <3>1. ASSUME NEW i \in DOMAIN stream', stream'[i].part = 2
          PROVE  i > 1 /\ stream'[i - 1] = [of |-> stream'[i].of, part |-> 1]
      <4>1. i \in 1..Len(stream) /\ stream[i].part = 2
        BY <1>0, <2>3, <3>1
      <4>2. i > 1 /\ stream[i - 1] = [of |-> stream[i].of, part |-> 1]
        BY <2>3, <4>1 DEF WriteInv, LinesUnbroken
      <4>3. i - 1 \in 1..Len(stream)
        BY <1>0, <4>1, <4>2
      <4> QED BY <2>3, <4>1, <4>2, <4>3
    <3>2. ASSUME NEW v \in Writers, result'[v] = "ok"
          PROVE  \E i \in DOMAIN stream' : stream'[i] = [of |-> v, part |-> 2]
      <4>1. PICK i \in DOMAIN stream : stream[i] = [of |-> v, part |-> 2]
        BY <2>1, <3>2 DEF WriteInv, LinesUnbroken
      <4> QED BY <1>0, <2>3, <4>1
    <3> QED BY <3>1, <3>2 DEF LinesUnbroken
  <2>5. \A v \in Writers : /\ pc'[v] \in {"first", "second"} => v = w
                           /\ pc'[v] = "second" => v = w
    BY <1>0, <1>1, <2>1 DEF Callers
  <2>6. pc' \in [Callers -> {"idle", "deadline", "lock", "first", "second", "reset", "read",
                             "returned"}]
    BY <1>0, <2>1
  <2>7. fdLock = w /\ Len(stream') > 0
    BY <1>0, <1>2, <2>3 DEF WriteInv
  <2> QED BY <1>0, <2>1, <2>3, <2>4, <2>5, <2>6, <2>7 DEF WriteInv
<1>3. CASE pc[w] = "second"
  <2>1. /\ \E to \in {"reset", "returned"} : pc' = [pc EXCEPT ![w] = to]
        /\ result' = [result EXCEPT ![w] = "ok"]
        /\ stream' = Append(stream, [of |-> w, part |-> 2])
    BY <1>3 DEF WritePart, Returns
  <2>2. [of |-> w, part |-> 2] \in Parts
    BY DEF Parts
  <2>3. /\ stream' \in Seq(Parts) /\ Len(stream') = Len(stream) + 1
        /\ stream'[Len(stream) + 1] = [of |-> w, part |-> 2]
        /\ \A i \in 1..Len(stream) : stream'[i] = stream[i]
        /\ DOMAIN stream = 1..Len(stream) /\ DOMAIN stream' = 1..Len(stream')
    BY <1>0, <2>1, <2>2
  <2>4. Len(stream) > 0 /\ stream[Len(stream)] = [of |-> w, part |-> 1]
    BY <1>3 DEF WriteInv
  <2>5. LinesUnbroken'
    <3>1. ASSUME NEW i \in DOMAIN stream', stream'[i].part = 2
          PROVE  i > 1 /\ stream'[i - 1] = [of |-> stream'[i].of, part |-> 1]
      <4>1. CASE i = Len(stream) + 1
        <5>1. i > 1 /\ i - 1 = Len(stream) /\ Len(stream) \in 1..Len(stream)
          BY <1>0, <2>4, <4>1
        <5>2. stream'[i - 1] = [of |-> w, part |-> 1]
          BY <2>3, <2>4, <5>1
        <5>3. stream'[i].of = w
          BY <2>3, <4>1
        <5> QED BY <5>1, <5>2, <5>3
      <4>2. CASE i \in 1..Len(stream)
        <5>1. stream[i].part = 2
          BY <2>3, <3>1, <4>2
        <5>2. i > 1 /\ stream[i - 1] = [of |-> stream[i].of, part |-> 1]
          BY <2>3, <4>2, <5>1 DEF WriteInv, LinesUnbroken
        <5>3. i - 1 \in 1..Len(stream)
          BY <1>0, <4>2, <5>2
        <5> QED BY <2>3, <4>2, <5>2, <5>3
      <4> QED BY <1>0, <2>3, <4>1, <4>2
    <3>2. ASSUME NEW v \in Writers, result'[v] = "ok"
          PROVE  \E i \in DOMAIN stream' : stream'[i] = [of |-> v, part |-> 2]
      <4>1. CASE v = w
        <5>1. Len(stream) + 1 \in DOMAIN stream'
          BY <1>0, <2>3
        <5> QED BY <2>3, <4>1, <5>1
      <4>2. CASE v # w
        <5>1. result[v] = "ok"
          BY <1>0, <2>1, <3>2, <4>2 DEF Callers
        <5>2. PICK i \in DOMAIN stream : stream[i] = [of |-> v, part |-> 2]
          BY <5>1 DEF WriteInv, LinesUnbroken
        <5> QED BY <1>0, <2>3, <5>2
      <4> QED BY <4>1, <4>2
    <3> QED BY <3>1, <3>2 DEF LinesUnbroken
  <2>6. \A v \in Writers : pc'[v] \notin {"first", "second"}
    BY <1>0, <1>1, <2>1 DEF Callers
  <2>7. /\ pc' \in [Callers -> {"idle", "deadline", "lock", "first", "second", "reset", "read",
                                "returned"}]
        /\ result' \in [Callers -> {"none", "ok", "timeout", "closed", "io_error", "eof"}]
    BY <1>0, <2>1
  <2> QED BY <2>3, <2>5, <2>6, <2>7 DEF WriteInv
<1> QED BY <1>2, <1>3 DEF WritePart

\* Nothing a reader does with its own call matters to the writers.
LEMMA ReaderMovesOn ==
  ASSUME WriteInv, NEW r \in Readers,
         \/ UNCHANGED callVars
         \/ \E to \in {"lock", "read", "returned"} :
              \E res \in {"ok", "timeout", "io_error", "eof", result[r]} : Returns(r, to, res),
         UNCHANGED <<stream, fdLock>>
  PROVE  WriteInv'
<1>1. CASE UNCHANGED callVars
  BY <1>1 DEF WriteInv, LinesUnbroken, callVars
<1>2. ASSUME NEW to \in {"lock", "read", "returned"},
             NEW res \in {"ok", "timeout", "io_error", "eof", result[r]}, Returns(r, to, res)
      PROVE  WriteInv'
  <2>0. /\ pc' = [pc EXCEPT ![r] = to] /\ result' = [result EXCEPT ![r] = res]
        /\ r \in Callers /\ r \notin Writers
    BY <1>2, ProcessAssumption DEF Returns, Callers
  <2>1. /\ pc' \in [Callers -> {"idle", "deadline", "lock", "first", "second", "reset", "read",
                                "returned"}]
        /\ result' \in [Callers -> {"none", "ok", "timeout", "closed", "io_error", "eof"}]
    BY <2>0 DEF WriteInv
  <2>2. \A w \in Writers : pc'[w] = pc[w] /\ result'[w] = result[w]
    BY <2>0 DEF WriteInv, Callers
  <2>3. LinesUnbroken'
    BY <2>2 DEF WriteInv, LinesUnbroken
  <2> QED BY <2>1, <2>2, <2>3 DEF WriteInv
<1> QED BY <1>1, <1>2

\* Every step keeps the lines to the child whole.
LEMMA WritesKept == WriteInv /\ [Next]_vars => WriteInv'
<1> SUFFICES ASSUME WriteInv, [Next]_vars PROVE WriteInv'
  OBVIOUS
<1>1. CASE UNCHANGED <<callVars, fdLock, stream>>
  BY <1>1 DEF WriteInv, LinesUnbroken, callVars
<1>2. CASE Spawn
  BY <1>1, <1>2 DEF Spawn, Opens, SpawnFails, SpawnRetries, SpawnStarts, SpawnStep, writeVars
<1>3. CASE CloseStdin \/ CloseRuns
  BY <1>1, <1>3 DEF CloseStdin, CloseRuns, CloseStdout, CloseWaited, CloseKills, CloseStep, writeVars
<1>4. CASE StderrEnds \/ ChildReads \/ ChildWrites \/ ChildExits
  BY <1>1, <1>4 DEF StderrEnds, ChildReads, ChildWrites, ChildExits, ChildStep, writeVars
<1>5. CASE UNCHANGED vars
  BY <1>1, <1>5 DEF vars, writeVars
<1>6. CASE \E c \in callers \ over : CtxDone(c)
  BY <1>1, <1>6 DEF CtxDone, writeVars
<1>7. ASSUME NEW w \in Writers, WriteStart(w) \/ WriteRuns(w)
      PROVE  WriteInv'
  <2>0. w \in Callers /\ result = [result EXCEPT ![w] = result[w]]
    BY DEF Callers, WriteInv
  <2>1. CASE WriteStart(w)
    <3>1. UNCHANGED <<stream, fdLock>>
      BY <2>1 DEF WriteStart, writeVars
    <3>2. \E to \in {"deadline", "lock", "returned"} : \E r \in {"timeout", "closed", result[w]} :
            pc' = [pc EXCEPT ![w] = to] /\ result' = [result EXCEPT ![w] = r]
      BY <2>0, <2>1 DEF WriteStart, Goto, Returns
    <3> QED BY <2>0, <3>1, <3>2, MovesOn
  <2>2. CASE SetWriteDeadline(w)
    <3>1. /\ UNCHANGED <<stream, fdLock>> /\ pc' = [pc EXCEPT ![w] = "lock"]
          /\ result' = [result EXCEPT ![w] = result[w]]
      BY <2>0, <2>2 DEF SetWriteDeadline, Goto
    <3> QED BY <2>0, <3>1, MovesOn
  <2>3. CASE WriteLock(w)
    <3>1. /\ pc' = [pc EXCEPT ![w] = "first"] /\ UNCHANGED <<result, stream>> /\ fdLock = None
          /\ fdLock' = w
      BY <2>3 DEF WriteLock, Goto
    <3>2. \A v \in Writers : pc[v] \notin {"first", "second"}
      BY <3>1, ProcessAssumption DEF WriteInv, Callers
    <3>3. pc' \in [Callers -> {"idle", "deadline", "lock", "first", "second", "reset", "read",
                               "returned"}]
      BY <2>0, <3>1 DEF WriteInv
    <3>4. \A v \in Writers : /\ pc'[v] \in {"first", "second"} => v = w
                             /\ pc'[v] # "second"
      BY <2>0, <3>1, <3>2 DEF WriteInv, Callers
    <3>5. LinesUnbroken'
      BY <3>1 DEF WriteInv, LinesUnbroken
    <3> QED BY <3>1, <3>3, <3>4, <3>5 DEF WriteInv
  <2>4. CASE WritePart(w)
    BY <2>4, WritesWhole
  <2>5. CASE WriteFails(w)
    <3>1. UNCHANGED stream /\ (fdLock' = fdLock \/ (fdLock = w /\ fdLock' = None))
      BY <2>5 DEF WriteFails
    <3>2. \E to \in {"reset", "returned"} : \E r \in {"timeout", "io_error"} :
            pc' = [pc EXCEPT ![w] = to] /\ result' = [result EXCEPT ![w] = r]
      BY <2>5 DEF WriteFails, Returns
    <3> QED BY <2>0, <3>1, <3>2, MovesOn
  <2>6. CASE ResetWriteDeadline(w)
    <3>1. /\ UNCHANGED <<stream, fdLock>> /\ pc' = [pc EXCEPT ![w] = "returned"]
          /\ result' = [result EXCEPT ![w] = result[w]]
      BY <2>0, <2>6 DEF ResetWriteDeadline, Goto
    <3> QED BY <2>0, <3>1, MovesOn
  <2> QED BY <1>7, <2>1, <2>2, <2>3, <2>4, <2>5, <2>6 DEF WriteRuns
<1>8. ASSUME NEW r \in Readers, ReadStart(r) \/ ReadRuns(r)
      PROVE  WriteInv'
  <2>0. result = [result EXCEPT ![r] = result[r]]
    BY DEF Callers, WriteInv
  <2>1. UNCHANGED <<stream, fdLock>>
    BY <1>8 DEF ReadStart, ReadRuns, ReadLock, ReadPart, ReadFails, ReadEOF, writeVars
  <2>2. \/ UNCHANGED callVars
        \/ \E to \in {"lock", "read", "returned"} :
             \E res \in {"ok", "timeout", "io_error", "eof", result[r]} : Returns(r, to, res)
    <3>1. CASE ReadStart(r) \/ ReadLock(r)
      BY <2>0, <3>1 DEF ReadStart, ReadLock, Goto, Returns
    <3>2. CASE ReadPart(r)
      BY <3>2 DEF ReadPart
    <3>3. CASE ReadFails(r)
      BY <3>3 DEF ReadFails
    <3>4. CASE ReadEOF(r)
      BY <3>4 DEF ReadEOF
    <3> QED BY <1>8, <3>1, <3>2, <3>3, <3>4 DEF ReadRuns
  <2> QED BY <2>1, <2>2, ReaderMovesOn
<1> QED BY <1>2, <1>3, <1>4, <1>5, <1>6, <1>7, <1>8 DEF Next, Terminated

\* WriteLine: whatever other callers, deadlines, Close and the child do, a line
\* reaches the child whole, and nil means that it was written.
THEOREM LinesStayWhole == Spec => []LinesUnbroken
<1>1. Init => WriteInv
  BY DEF Init, WriteInv, LinesUnbroken, Callers
<1>2. WriteInv => LinesUnbroken
  BY DEF WriteInv
<1> QED BY <1>1, <1>2, WritesKept, PTL DEF Spec

-----------------------------------------------------------------------------
(***************************************************************************)
(* Reading.                                                                *)
(***************************************************************************)
\* What stands of ReadInv when no line is returned: the lines returned earlier
\* stay as good as they were.
LEMMA ReadsStand ==
  ASSUME ReadInv, UNCHANGED got, lost \subseteq lost',
         proc = "exited" => UNCHANGED <<proc, out>>
  PROVE  ReadsWhole' /\ LastEnd' = LastEnd
<1>1. LastEnd' = LastEnd
  BY DEF LastEnd
<1>2. ASSUME NEW i \in DOMAIN got'
      PROVE  /\ got'[i][1] = (IF i = 1 THEN 0 ELSE got'[i - 1][2]) + 1 \/ got'[i][1] - 1 \in lost'
             /\ got'[i][1] % 2 = 1 \/ got'[i][1] - 1 \in lost'
             /\ got'[i][2] % 2 = 0 \/ (proc' = "exited" /\ got'[i][2] = out')
  <2>1. /\ got[i][1] = (IF i = 1 THEN 0 ELSE got[i - 1][2]) + 1 \/ got[i][1] - 1 \in lost
        /\ got[i][1] % 2 = 1 \/ got[i][1] - 1 \in lost
        /\ got[i][2] % 2 = 0 \/ (proc = "exited" /\ got[i][2] = out)
    BY <1>2 DEF ReadInv, ReadsWhole
  <2> QED BY <2>1
<1> QED BY <1>1, <1>2 DEF ReadsWhole

\* A line has two parts: after a whole line comes the first part of the next.
LEMMA OddAfterEven == \A n \in Nat : n % 2 = 0 => (n + 1) % 2 = 1
  OBVIOUS

\* A line returned begins after from and ends at a newline, or at the end of
\* the output of a child that is gone.
LEMMA LineReturned ==
  ASSUME ReadInv, NEW p \in Nat, from < p, got' = Append(got, <<from + 1, p>>),
         from % 2 = 0 \/ from \in lost, p % 2 = 0 \/ (proc = "exited" /\ p = out),
         UNCHANGED <<proc, out, lost>>
  PROVE  ReadsWhole' /\ got' \in Seq(Nat \X Nat) /\ LastEnd' = p
<1>0. /\ got \in Seq(Nat \X Nat) /\ <<from + 1, p>> \in Nat \X Nat /\ from \in Nat
      /\ LastEnd = from \/ from \in lost
  BY DEF ReadInv
<1>1. /\ got' \in Seq(Nat \X Nat) /\ Len(got') = Len(got) + 1 /\ Len(got) \in Nat
      /\ got'[Len(got) + 1] = <<from + 1, p>>
      /\ \A i \in 1..Len(got) : got'[i] = got[i]
      /\ DOMAIN got = 1..Len(got) /\ DOMAIN got' = 1..Len(got) + 1
  BY <1>0
<1>2. LastEnd' = p
  BY <1>1 DEF LastEnd
<1>3. LastEnd = IF Len(got) = 0 THEN 0 ELSE got'[Len(got)][2]
  <2>1. CASE Len(got) = 0
    <3>1. got = <<>>
      BY <1>0, <2>1
    <3> QED BY <2>1, <3>1 DEF LastEnd
  <2>2. CASE Len(got) # 0
    <3>1. got # <<>> /\ Len(got) \in 1..Len(got)
      BY <1>1, <2>2
    <3>2. got'[Len(got)] = got[Len(got)]
      BY <1>1, <3>1
    <3> QED BY <2>2, <3>1, <3>2 DEF LastEnd
  <2> QED BY <2>1, <2>2
<1>4. ASSUME NEW i \in DOMAIN got'
      PROVE  /\ got'[i][1] = (IF i = 1 THEN 0 ELSE got'[i - 1][2]) + 1 \/ got'[i][1] - 1 \in lost
             /\ got'[i][1] % 2 = 1 \/ got'[i][1] - 1 \in lost
             /\ got'[i][2] % 2 = 0 \/ (proc = "exited" /\ got'[i][2] = out)
  <2>1. CASE i \in 1..Len(got)
    <3>1. /\ got[i][1] = (IF i = 1 THEN 0 ELSE got[i - 1][2]) + 1 \/ got[i][1] - 1 \in lost
          /\ got[i][1] % 2 = 1 \/ got[i][1] - 1 \in lost
          /\ got[i][2] % 2 = 0 \/ (proc = "exited" /\ got[i][2] = out)
      BY <1>1, <2>1 DEF ReadInv, ReadsWhole
    <3>2. got'[i] = got[i] /\ (i # 1 => got'[i - 1] = got[i - 1])
      BY <1>1, <2>1
    <3> QED BY <3>1, <3>2
  <2>2. CASE i = Len(got) + 1
    <3>1. got'[i][1] = from + 1 /\ got'[i][2] = p /\ got'[i][1] - 1 = from
      BY <1>0, <1>1, <2>2
    <3>2. (IF i = 1 THEN 0 ELSE got'[i - 1][2]) = LastEnd
      <4>1. i - 1 = Len(got) /\ (i = 1 <=> Len(got) = 0)
        BY <1>1, <2>2
      <4> QED BY <1>3, <4>1
    <3>3. from % 2 = 0 => (from + 1) % 2 = 1
      BY <1>0, OddAfterEven
    <3>4. got'[i][1] = LastEnd + 1 \/ got'[i][1] - 1 \in lost
      BY <1>0, <3>1
    <3>5. got'[i][1] % 2 = 1 \/ got'[i][1] - 1 \in lost
      BY <3>1, <3>3
    <3> QED BY <3>1, <3>2, <3>4, <3>5
  <2>3. i \in 1..Len(got) \/ i = Len(got) + 1
    <3>1. i \in 1..Len(got) + 1
      BY <1>1, <1>4
    <3> QED BY <1>1, <3>1
  <2> QED BY ONLY <2>1, <2>2, <2>3
<1> QED BY <1>1, <1>2, <1>4 DEF ReadsWhole

\* Every step keeps the lines from the child whole.
LEMMA ReadsKept == ReadInv /\ [Next]_vars => ReadInv'
<1> SUFFICES ASSUME ReadInv, [Next]_vars PROVE ReadInv'
  OBVIOUS
<1>0. /\ out \in Nat /\ pos \in Nat /\ from \in Nat /\ from <= pos /\ pos <= out
      /\ got \in Seq(Nat \X Nat) /\ lost \subseteq Nat
      /\ spawn # "up" => proc = "none"
      /\ LastEnd = from \/ from \in lost
      /\ from % 2 = 0 \/ from \in lost \/ (proc = "exited" /\ from = out)
  BY DEF ReadInv
<1>1. ASSUME UNCHANGED <<pos, from, got, lost>>, out' \in {out, out + 1},
             proc = "exited" => UNCHANGED <<proc, out>>, spawn' # "up" => proc' = "none"
      PROVE  ReadInv'
  <2>1. ReadsWhole' /\ LastEnd' = LastEnd
    BY <1>1, ReadsStand
  <2>2. out' \in Nat /\ pos' <= out'
    BY <1>0, <1>1
  <2>3. from' % 2 = 0 \/ from' \in lost' \/ (proc' = "exited" /\ from' = out')
    BY <1>0, <1>1
  <2> QED BY <1>0, <1>1, <2>1, <2>2, <2>3 DEF ReadInv
<1>2. CASE Spawn
  <2>1. UNCHANGED <<pos, from, got, lost, out>>
    BY <1>2 DEF Spawn, Opens, SpawnFails, SpawnRetries, SpawnStarts, SpawnStep, readVars
  <2>2. spawn # "up" /\ (spawn' # "up" => proc' = proc)
    BY <1>2 DEF Spawn, Opens, SpawnFails, SpawnRetries, SpawnStarts, SpawnStep
  <2> QED BY <1>0, <1>1, <2>1, <2>2
<1>3. CASE CloseStdin \/ CloseRuns
  <2>1. UNCHANGED <<pos, from, got, lost, out, spawn>>
    BY <1>3 DEF CloseStdin, CloseRuns, CloseStdout, CloseWaited, CloseKills, CloseStep, readVars
  <2>2. spawn = "up" /\ (proc' = proc \/ proc' = "exited")
    BY <1>3 DEF CloseStdin, CloseRuns, CloseStdout, CloseWaited, CloseKills, CloseStep
  <2> QED BY <1>0, <1>1, <2>1, <2>2
<1>4. CASE StderrEnds \/ ChildReads \/ ChildExits
  <2>1. UNCHANGED <<pos, from, got, lost, out, spawn>>
    BY <1>4 DEF StderrEnds, ChildReads, ChildExits, ChildStep, readVars
  <2>2. proc' = proc \/ (proc = "running" /\ proc' = "exited")
    BY <1>4 DEF StderrEnds, ChildReads, ChildExits, ChildStep
  <2> QED BY <1>0, <1>1, <2>1, <2>2
<1>5. CASE ChildWrites
  BY <1>0, <1>1, <1>5 DEF ChildWrites, ChildStep
<1>6. CASE UNCHANGED <<spawnVars, readVars>>
  BY <1>0, <1>1, <1>6 DEF readVars, spawnVars
<1>7. CASE \E c \in callers \ over : CtxDone(c)
  BY <1>6, <1>7 DEF CtxDone
<1>8. ASSUME NEW w, WriteStart(w) \/ WriteRuns(w) PROVE ReadInv'
  BY <1>6, <1>8 DEF WriteStart, WriteRuns, SetWriteDeadline, WriteLock, WritePart, WriteFails,
    ResetWriteDeadline
<1>9. ASSUME NEW r, ReadStart(r) \/ ReadRuns(r) PROVE ReadInv'
  <2>1. CASE ReadStart(r) \/ ReadLock(r)
    BY <1>0, <1>1, <2>1 DEF ReadStart, ReadLock, readVars, spawnVars
  <2>2. CASE ReadPart(r)
    <3>1. /\ pos < out /\ pos' = pos + 1 /\ UNCHANGED <<spawn, proc, out, lost>>
          /\ \/ pos' % 2 = 0 /\ got' = Append(got, <<from + 1, pos'>>) /\ from' = pos'
             \/ UNCHANGED <<got, from>>
      BY <2>2 DEF ReadPart, spawnVars
    <3>2. CASE UNCHANGED <<got, from>>
      <4>1. ReadsWhole' /\ LastEnd' = LastEnd
        BY <3>1, <3>2, ReadsStand
      <4> QED BY <1>0, <3>1, <3>2, <4>1 DEF ReadInv
    <3>3. CASE pos' % 2 = 0 /\ got' = Append(got, <<from + 1, pos'>>) /\ from' = pos'
      <4>1. pos' \in Nat /\ from < pos' /\ pos' <= out /\ (from % 2 = 0 \/ from \in lost)
        BY <1>0, <3>1
      <4>2. ReadsWhole' /\ got' \in Seq(Nat \X Nat) /\ LastEnd' = pos'
        BY <3>1, <3>3, <4>1, LineReturned
      <4> QED BY <1>0, <3>1, <3>3, <4>1, <4>2 DEF ReadInv
    <3> QED BY <3>1, <3>2, <3>3
  <2>3. CASE ReadFails(r)
    <3>1. /\ UNCHANGED <<spawn, proc, out, pos, got>> /\ from' = pos
          /\ lost' = lost \cup from + 1 .. pos
      BY <2>3 DEF ReadFails, spawnVars
    <3>2. ReadsWhole' /\ LastEnd' = LastEnd
      BY <3>1, ReadsStand
    <3>3. from' = from \/ from' \in lost'
      BY <1>0, <3>1
    <3>4. lost' \subseteq Nat /\ lost \subseteq lost'
      BY <1>0, <3>1
    <3>5. LastEnd' = from' \/ from' \in lost'
      BY <1>0, <3>2, <3>3, <3>4
    <3> QED BY <1>0, <3>1, <3>2, <3>3, <3>4, <3>5 DEF ReadInv
  <2>4. CASE ReadEOF(r)
    <3>1. /\ UNCHANGED <<spawn, proc, out, pos, lost>> /\ from' = pos /\ pos = out /\ proc = "exited"
          /\ \/ from < pos /\ got' = Append(got, <<from + 1, pos>>)
             \/ ~(from < pos) /\ got' = got
      BY <2>4 DEF ReadEOF, spawnVars
    <3>2. CASE from < pos /\ got' = Append(got, <<from + 1, pos>>)
      <4>1. from % 2 = 0 \/ from \in lost
        BY <1>0, <3>1, <3>2
      <4>2. ReadsWhole' /\ got' \in Seq(Nat \X Nat) /\ LastEnd' = pos
        BY <1>0, <3>1, <3>2, <4>1, LineReturned
      <4> QED BY <1>0, <3>1, <4>2 DEF ReadInv
    <3>3. CASE ~(from < pos) /\ got' = got
      <4>1. ReadsWhole' /\ LastEnd' = LastEnd
        BY <3>1, <3>3, ReadsStand
      <4>2. from' = from
        BY <1>0, <3>1, <3>3
      <4> QED BY <1>0, <3>1, <3>3, <4>1, <4>2 DEF ReadInv
    <3> QED BY <3>1, <3>2, <3>3
  <2> QED BY <1>9, <2>1, <2>2, <2>3, <2>4 DEF ReadRuns
<1> QED BY <1>2, <1>3, <1>4, <1>5, <1>6, <1>7, <1>8, <1>9 DEF Next, Terminated, vars

\* ReadLine: whatever other callers, deadlines, Close and the child do, the
\* lines of the child are returned in order, each once and whole.
THEOREM ReadsStayWhole == Spec => []ReadsWhole
<1>1. Init => ReadInv
  BY DEF Init, ReadInv, ReadsWhole, LastEnd
<1>2. ReadInv => ReadsWhole
  BY DEF ReadInv
<1> QED BY <1>1, <1>2, ReadsKept, PTL DEF Spec

-----------------------------------------------------------------------------
(***************************************************************************)
(* StderrLog: the goroutine that logs the child's stderr, for a text of    *)
(* any length.                                                             *)
(***************************************************************************)
\* The line the last entry ends with.
LastLogged == IF logged = <<>> THEN 0 ELSE logged[Len(logged)][2]

\* The entries are joined end to end, and they reach as far as the lines read
\* except for those of a block that is not finished, which begins at accum.
LogInv ==
  /\ read \in Nat /\ accum \in Nat
  /\ inBlock \in BOOLEAN /\ stopped \in BOOLEAN
  /\ logged \in Seq(Nat \X Nat)
  /\ inBlock => accum \in 1..read
  /\ LoggedInOrder

\* An entry that begins after the last one keeps the entries joined.
LEMMA FlushJoins ==
  ASSUME LogInv, NEW a \in Nat, NEW b \in Nat, a = LastLogged + 1, Flush(a, b)
  PROVE  /\ logged' \in Seq(Nat \X Nat) /\ LastLogged' = b
         /\ \A n \in DOMAIN logged' :
              logged'[n][1] = (IF n = 1 THEN 0 ELSE logged'[n - 1][2]) + 1
<1>1. logged \in Seq(Nat \X Nat) /\ logged' = Append(logged, <<a, b>>)
  BY DEF LogInv, Flush
<1>2. /\ Len(logged') = Len(logged) + 1 /\ logged'[Len(logged) + 1] = <<a, b>>
      /\ \A n \in 1..Len(logged) : logged'[n] = logged[n]
      /\ logged' \in Seq(Nat \X Nat) /\ DOMAIN logged' = 1..(Len(logged) + 1)
  BY <1>1
<1>5. \A n \in 1..Len(logged) :
        logged[n][1] = (IF n = 1 THEN 0 ELSE logged[n - 1][2]) + 1
  <2>1. \A n \in DOMAIN logged :
          logged[n][1] = (IF n = 1 THEN 0 ELSE logged[n - 1][2]) + 1
    BY DEF LogInv, LoggedInOrder
  <2> QED BY SMTT(30), <1>1, <2>1
<1>3. LastLogged' = b
  BY <1>2 DEF LastLogged
<1>4. ASSUME NEW n \in DOMAIN logged'
      PROVE  logged'[n][1] = (IF n = 1 THEN 0 ELSE logged'[n - 1][2]) + 1
  <2>1. CASE n \in 1..Len(logged)
    <3>1. logged[n][1] = (IF n = 1 THEN 0 ELSE logged[n - 1][2]) + 1
      BY <1>5, <2>1
    <3>2. n # 1 => n - 1 \in 1..Len(logged)
      BY <1>1, <2>1
    <3> QED BY <1>2, <2>1, <3>1, <3>2
  <2>2. CASE n = Len(logged) + 1
    <3>1. CASE logged = <<>>
      BY <1>2, <2>2, <3>1 DEF LastLogged
    <3>2. CASE logged # <<>>
      <4>1. Len(logged) \in 1..Len(logged) /\ n # 1 /\ n - 1 = Len(logged)
        BY <1>1, <2>2, <3>2
      <4>2. logged'[n - 1] = logged[Len(logged)] /\ logged'[n][1] = a
        BY <1>2, <2>2, <4>1
      <4> QED BY <3>2, <4>1, <4>2 DEF LastLogged
    <3> QED BY <3>1, <3>2
  <2>3. Len(logged) \in Nat /\ n \in 1..(Len(logged) + 1)
    BY <1>1, <1>2
  <2>4. n \in 1..Len(logged) \/ n = Len(logged) + 1
    BY <2>3
  <2> QED BY <2>1, <2>2, <2>4
<1> QED BY <1>2, <1>3, <1>4

\* LogInv is inductive: an entry is flushed at the line after the last one, be
\* it a single line, a finished block or what the end of stderr leaves of one.
THEOREM LogInvariance == LogSpec => []LogInv
<1>1. LogInit => LogInv
  <2> SUFFICES ASSUME LogInit PROVE LogInv
    OBVIOUS
  <2>1. /\ read = 0 /\ inBlock = FALSE /\ accum = 0 /\ logged = <<>> /\ stopped = FALSE
    BY DEF LogInit
  <2>2. logged \in Seq(Nat \X Nat) /\ DOMAIN logged = {}
    BY <2>1
  <2>3. LoggedInOrder
    BY <2>1, <2>2 DEF LoggedInOrder
  <2> QED BY <2>1, <2>2, <2>3 DEF LogInv
<1>2. LogInv /\ [LogNext]_logVars => LogInv'
  <2> SUFFICES ASSUME LogInv, [LogNext]_logVars PROVE LogInv'
    OBVIOUS
  <2>0. LastLogged = IF inBlock /\ ~stopped THEN accum - 1 ELSE read
    BY DEF LogInv, LoggedInOrder, LastLogged
  <2>1. CASE LogLine
    <3> DEFINE n == read + 1
    <3>1. n \in Nat /\ n >= 1 /\ read' = n /\ ~stopped /\ UNCHANGED <<input, stopped>>
      BY <2>1 DEF LogLine, LogInv
    <3>2. CASE inBlock /\ Flush(accum, n) /\ inBlock' = FALSE /\ UNCHANGED accum
      <4>1. accum = LastLogged + 1 /\ accum \in Nat
        BY <2>0, <3>1, <3>2 DEF LogInv
      <4>2. /\ logged' \in Seq(Nat \X Nat) /\ LastLogged' = n
            /\ \A m \in DOMAIN logged' :
                 logged'[m][1] = (IF m = 1 THEN 0 ELSE logged'[m - 1][2]) + 1
        BY <3>1, <3>2, <4>1, FlushJoins
      <4> QED BY <3>1, <3>2, <4>2 DEF LogInv, LoggedInOrder, LastLogged
    <3>3. CASE inBlock /\ UNCHANGED <<inBlock, accum, logged>>
      BY <3>1, <3>3 DEF LogInv, LoggedInOrder
    <3>4. CASE ~inBlock /\ inBlock' = TRUE /\ accum' = n /\ UNCHANGED logged
      BY <3>1, <3>4 DEF LogInv, LoggedInOrder
    <3>5. CASE ~inBlock /\ Flush(n, n) /\ UNCHANGED <<inBlock, accum>>
      <4>1. n = LastLogged + 1
        BY <2>0, <3>5
      <4>2. /\ logged' \in Seq(Nat \X Nat) /\ LastLogged' = n
            /\ \A m \in DOMAIN logged' :
                 logged'[m][1] = (IF m = 1 THEN 0 ELSE logged'[m - 1][2]) + 1
        BY <3>1, <3>5, <4>1, FlushJoins
      <4> QED BY <3>1, <3>5, <4>2 DEF LogInv, LoggedInOrder, LastLogged
    <3> QED BY <2>1, <3>2, <3>3, <3>4, <3>5 DEF LogLine
  <2>2. CASE ReadEnds
    <3>1. ~stopped /\ stopped' = TRUE /\ UNCHANGED <<input, read, inBlock, accum>>
      BY <2>2 DEF ReadEnds
    <3>2. CASE inBlock /\ Flush(accum, read)
      <4>1. accum = LastLogged + 1 /\ accum \in Nat /\ read \in Nat
        BY <2>0, <3>1, <3>2 DEF LogInv
      <4>2. /\ logged' \in Seq(Nat \X Nat) /\ LastLogged' = read
            /\ \A m \in DOMAIN logged' :
                 logged'[m][1] = (IF m = 1 THEN 0 ELSE logged'[m - 1][2]) + 1
        BY <3>2, <4>1, FlushJoins
      <4> QED BY <3>1, <4>2 DEF LogInv, LoggedInOrder, LastLogged
    <3>3. CASE ~inBlock /\ UNCHANGED logged
      BY <3>1, <3>3 DEF LogInv, LoggedInOrder
    <3> QED BY <2>2, <3>2, <3>3 DEF ReadEnds
  <2>3. CASE LogDone \/ UNCHANGED logVars
    BY <2>3 DEF LogDone, logVars, LogInv, LoggedInOrder
  <2> QED BY <2>1, <2>2, <2>3 DEF LogNext
<1> QED BY <1>1, <1>2, PTL DEF LogSpec

\* No line of stderr is lost or logged twice, whatever key blocks the child
\* writes and wherever its output ends.
THEOREM LoggedOnce == LogSpec => []LoggedInOrder
<1>1. LogInv => LoggedInOrder
  BY DEF LogInv
<1> QED BY LogInvariance, <1>1, PTL

-----------------------------------------------------------------------------
(***************************************************************************)
(* Key blocks.                                                             *)
(***************************************************************************)
\* The entry <<i, e>> of a block: e is the first end read since line i.
FirstEnd(i, e) == e \in ClosedBy(i) /\ \A f \in ClosedBy(i) : e <= f

\* Until the read fails, inBlock says that the line accum has opened a block
\* whose end has not been read, and ~inBlock that every begin has met an end:
\* the flags of logStderr agree with the text.
BlockInv ==
  /\ read \in Nat /\ read <= Len(input) /\ input \in Seq(LineKinds)
  /\ inBlock \in BOOLEAN /\ stopped \in BOOLEAN /\ logged \in Seq(Nat \X Nat)
  /\ inBlock /\ ~stopped => accum \in 1..read /\ OpensBlock(accum) /\ ClosedBy(accum) = {}
  /\ ~inBlock /\ ~stopped =>
       \A b \in 1..read : IsBegin(input[b]) => \E e \in b..read : IsEnd(input[e])
  /\ \A i \in 1..read : OpensBlock(i) /\ ClosedBy(i) # {} =>
       \E n \in 1..Len(logged), e \in Nat : FirstEnd(i, e) /\ logged[n] = <<i, e>>

\* One more line read: a block that had met its end keeps its entry, and so the
\* entries are right if those of the other blocks are.
LEMMA LineKeepsBlocks ==
  ASSUME BlockInv, read < Len(input), read' = read + 1, UNCHANGED <<input, stopped>>,
         inBlock' \in BOOLEAN,
         logged' = logged \/ \E a, b \in Nat : logged' = Append(logged, <<a, b>>),
         inBlock' /\ ~stopped =>
           accum' \in 1..read' /\ OpensBlock(accum)' /\ ClosedBy(accum)' = {},
         ~inBlock' /\ ~stopped =>
           \A b \in 1..read' : IsBegin(input[b]) => \E e \in b..read' : IsEnd(input[e]),
         IsEnd(input[read + 1]) =>
           \A i \in 1..read + 1 : OpensBlock(i) /\ (i <= read => ClosedBy(i) = {}) =>
             logged' = Append(logged, <<i, read + 1>>)
  PROVE  BlockInv'
<1>0. /\ read \in Nat /\ input \in Seq(LineKinds) /\ logged \in Seq(Nat \X Nat)
      /\ read' \in Nat /\ read' <= Len(input)
  BY DEF BlockInv
<1>1. /\ logged' \in Seq(Nat \X Nat) /\ Len(logged) \in Nat
      /\ Len(logged) <= Len(logged')
      /\ \A n \in 1..Len(logged) : n \in 1..Len(logged') /\ logged'[n] = logged[n]
  <2>1. CASE logged' = logged
    BY <1>0, <2>1
  <2>2. ASSUME NEW a \in Nat, NEW b \in Nat, logged' = Append(logged, <<a, b>>)
        PROVE  <1>1!1 /\ <1>1!2 /\ <1>1!3
    BY <1>0, <2>2
  <2> QED BY <2>1, <2>2
<1>2. \A i : OpensBlock(i)' <=> OpensBlock(i)
  BY DEF OpensBlock
<1>3. ASSUME NEW i \in 1..read', OpensBlock(i)', ClosedBy(i)' # {}
      PROVE  \E n \in 1..Len(logged'), e \in Nat : FirstEnd(i, e)' /\ logged'[n] = <<i, e>>
  <2>1. OpensBlock(i) /\ i \in 1..read + 1
    BY <1>2, <1>3
  <2>2. ClosedBy(i)' = {e \in i..read + 1 : IsEnd(input[e])}
    BY DEF ClosedBy
  <2>3. CASE i <= read /\ ClosedBy(i) # {}
    <3>1. i \in 1..read
      BY <1>0, <2>1, <2>3
    <3>2. PICK n \in 1..Len(logged), e \in Nat : FirstEnd(i, e) /\ logged[n] = <<i, e>>
      BY <2>1, <2>3, <3>1 DEF BlockInv
    <3>3. e \in i..read /\ IsEnd(input[e]) /\ \A f \in i..read : IsEnd(input[f]) => e <= f
      BY <3>2 DEF FirstEnd, ClosedBy
    <3>4. FirstEnd(i, e)'
      BY <1>0, <2>1, <2>2, <3>3 DEF FirstEnd
    <3> QED BY <1>1, <3>2, <3>4
  <2>4. CASE i <= read => ClosedBy(i) = {}
    <3>0. PICK m \in Nat : m = read + 1
      BY <1>0
    <3>1. ClosedBy(i)' \subseteq {m}
      <4>1. ASSUME NEW e \in ClosedBy(i)' PROVE e = m
        <5>1. e \in i..read + 1 /\ IsEnd(input[e])
          BY <2>2, <4>1
        <5>2. ASSUME e \in i..read PROVE FALSE
          <6>1. i <= read /\ e \in ClosedBy(i)
            BY <1>0, <2>1, <5>1, <5>2 DEF ClosedBy
          <6> QED BY <2>4, <6>1
        <5> QED BY <1>0, <2>1, <3>0, <5>1, <5>2
      <4> QED BY <4>1
    <3>2. ClosedBy(i)' = {m} /\ IsEnd(input[m])
      BY <1>3, <2>2, <3>1
    <3>3. logged' = Append(logged, <<i, m>>)
      BY <2>1, <2>4, <3>0, <3>2
    <3>4. Len(logged) + 1 \in 1..Len(logged') /\ logged'[Len(logged) + 1] = <<i, m>>
      BY <1>0, <1>1, <3>3
    <3>5. FirstEnd(i, m)'
      BY <3>2 DEF FirstEnd
    <3> QED BY <3>4, <3>5
  <2> QED BY <2>3, <2>4
<1>4. stopped' \in BOOLEAN
  BY DEF BlockInv
<1>5. inBlock' /\ ~stopped' => accum' \in 1..read' /\ OpensBlock(accum)' /\ ClosedBy(accum)' = {}
  OBVIOUS
<1>6. ~inBlock' /\ ~stopped' =>
        \A b \in 1..read' : IsBegin(input'[b]) => \E e \in b..read' : IsEnd(input'[e])
  OBVIOUS
<1> QED BY <1>0, <1>1, <1>3, <1>4, <1>5, <1>6 DEF BlockInv

\* The flags agree with the text at every step, and every block that has met
\* its end has its entry.
LEMMA BlocksKept == BlockInv /\ [LogNext]_logVars => BlockInv'
<1> SUFFICES ASSUME BlockInv, [LogNext]_logVars PROVE BlockInv'
  OBVIOUS
<1>0. /\ read \in Nat /\ read <= Len(input) /\ input \in Seq(LineKinds)
      /\ inBlock \in BOOLEAN /\ stopped \in BOOLEAN /\ logged \in Seq(Nat \X Nat)
  BY DEF BlockInv
<1>1. CASE LogLine
  <2>0. PICK m \in Nat : m = read + 1
    BY <1>0
  <2>1. /\ ~stopped /\ read < Len(input) /\ read' = m /\ UNCHANGED <<input, stopped>>
        /\ m \in 1..Len(input) /\ input[m] \in LineKinds
    BY <1>0, <1>1, <2>0 DEF LogLine
  <2>2. CASE inBlock /\ IsEnd(input[m]) /\ Flush(accum, m) /\ inBlock' = FALSE /\ UNCHANGED accum
    <3>1. accum \in 1..read /\ OpensBlock(accum) /\ ClosedBy(accum) = {}
      BY <2>1, <2>2 DEF BlockInv
    <3>2. logged' = Append(logged, <<accum, m>>) /\ accum \in Nat
      BY <1>0, <2>2, <3>1 DEF Flush
    <3>3. ASSUME NEW i \in 1..m, OpensBlock(i), i <= read => ClosedBy(i) = {}
          PROVE  i = accum
      <4>1. CASE i < accum
        <5>1. i \in 1..accum-1 /\ i <= read /\ accum - 1 <= read
          BY <1>0, <3>1, <3>2, <4>1
        <5>2. PICK e \in i..accum-1 : IsEnd(input[e])
          BY <3>1, <3>3, <5>1 DEF OpensBlock
        <5>3. e \in ClosedBy(i)
          BY <1>0, <3>1, <3>2, <5>1, <5>2 DEF ClosedBy
        <5> QED BY <3>3, <5>1, <5>3
      <4>2. CASE accum < i
        <5>1. accum \in 1..i-1 /\ i - 1 <= read
          BY <1>0, <2>0, <3>1, <3>2, <4>2
        <5>2. PICK e \in accum..i-1 : IsEnd(input[e])
          BY <3>1, <3>3, <5>1 DEF OpensBlock
        <5>3. e \in ClosedBy(accum)
          BY <1>0, <3>1, <3>2, <5>1, <5>2 DEF ClosedBy
        <5> QED BY <3>1, <5>3
      <4> QED BY <3>2, <4>1, <4>2
    <3>4. \A b \in 1..read' : IsBegin(input[b]) => \E e \in b..read' : IsEnd(input[e])
      BY <2>0, <2>1, <2>2
    <3>5. \A i \in 1..read + 1 : OpensBlock(i) /\ (i <= read => ClosedBy(i) = {}) =>
            logged' = Append(logged, <<i, read + 1>>)
      BY <2>0, <3>2, <3>3
    <3> QED BY <2>0, <2>1, <2>2, <3>2, <3>4, <3>5, LineKeepsBlocks
  <2>3. CASE inBlock /\ ~IsEnd(input[m]) /\ UNCHANGED <<inBlock, accum, logged>>
    <3>1. accum \in 1..read /\ OpensBlock(accum) /\ ClosedBy(accum) = {}
      BY <2>1, <2>3 DEF BlockInv
    <3>2. accum' \in 1..read' /\ OpensBlock(accum)'
      BY <1>0, <2>0, <2>1, <2>3, <3>1 DEF OpensBlock
    <3>3. ClosedBy(accum)' = {}
      <4>1. ASSUME NEW e \in accum..m, IsEnd(input[e]) PROVE FALSE
        <5>1. e # m
          BY <2>3, <4>1
        <5>2. e \in accum..read
          BY <1>0, <2>0, <3>1, <4>1, <5>1
        <5> QED BY <3>1, <4>1, <5>2 DEF ClosedBy
      <4> QED BY <2>1, <2>3, <4>1 DEF ClosedBy
    <3>4. inBlock' /\ inBlock' \in BOOLEAN
      BY <1>0, <2>3
    <3> QED BY <2>0, <2>1, <2>3, <3>2, <3>3, <3>4, LineKeepsBlocks
  <2>4. CASE ~inBlock /\ input[m] = "begin" /\ inBlock' = TRUE /\ accum' = m /\ UNCHANGED logged
    <3>1. \A b \in 1..read : IsBegin(input[b]) => \E e \in b..read : IsEnd(input[e])
      BY <2>1, <2>4 DEF BlockInv
    <3>2. OpensBlock(m)
      BY <1>0, <2>0, <2>4, <3>1 DEF OpensBlock, IsBegin
    <3>3. ~IsEnd(input[m])
      BY <2>4 DEF IsEnd
    <3>4. accum' \in 1..read' /\ OpensBlock(accum)'
      BY <1>0, <2>0, <2>1, <2>4, <3>2 DEF OpensBlock
    <3>5. ClosedBy(accum)' = {}
      <4>1. \A e \in m..m : ~IsEnd(input[e])
        BY <3>3
      <4> QED BY <2>1, <2>4, <4>1 DEF ClosedBy
    <3> QED BY <2>0, <2>1, <2>4, <3>3, <3>4, <3>5, LineKeepsBlocks
  <2>5. CASE ~inBlock /\ input[m] # "begin" /\ Flush(m, m) /\ UNCHANGED <<inBlock, accum>>
    <3>1. \A b \in 1..read : IsBegin(input[b]) => \E e \in b..read : IsEnd(input[e])
      BY <2>1, <2>5 DEF BlockInv
    <3>2. logged' = Append(logged, <<m, m>>)
      BY <2>5 DEF Flush
    <3>3. IsBegin(input[m]) => IsEnd(input[m])
      BY <2>5 DEF IsBegin, IsEnd
    <3>4. \A b \in 1..read' : IsBegin(input[b]) => \E e \in b..read' : IsEnd(input[e])
      <4>1. ASSUME NEW b \in 1..m, IsBegin(input[b]) PROVE \E e \in b..m : IsEnd(input[e])
        <5>1. CASE b = m
          BY <3>3, <4>1, <5>1
        <5>2. CASE b # m
          <6>1. b \in 1..read
            BY <1>0, <2>0, <4>1, <5>2
          <6>2. PICK e \in b..read : IsEnd(input[e])
            BY <3>1, <4>1, <6>1
          <6> QED BY <1>0, <2>0, <6>2
        <5> QED BY <5>1, <5>2
      <4> QED BY <2>1, <4>1
    <3>5. ASSUME NEW i \in 1..m, OpensBlock(i), i <= read => ClosedBy(i) = {}
          PROVE  i = m
      <4>1. ASSUME i # m PROVE FALSE
        <5>1. i \in 1..read /\ i <= read
          BY <1>0, <2>0, <3>5, <4>1
        <5>2. PICK e \in i..read : IsEnd(input[e])
          BY <3>1, <3>5, <5>1 DEF OpensBlock
        <5>3. e \in ClosedBy(i)
          BY <5>2 DEF ClosedBy
        <5> QED BY <3>5, <5>1, <5>3
      <4> QED BY <4>1
    <3>6. \A i \in 1..read + 1 : OpensBlock(i) /\ (i <= read => ClosedBy(i) = {}) =>
            logged' = Append(logged, <<i, read + 1>>)
      BY <2>0, <3>2, <3>5
    <3>7. ~inBlock' /\ inBlock' \in BOOLEAN
      BY <1>0, <2>5
    <3> QED BY <2>0, <2>1, <3>2, <3>4, <3>6, <3>7, LineKeepsBlocks
  <2> QED BY <1>1, <2>0, <2>2, <2>3, <2>4, <2>5 DEF LogLine
<1>2. CASE ReadEnds
  <2>1. /\ stopped' = TRUE /\ UNCHANGED <<input, read, inBlock, accum>>
        /\ logged' = logged \/ (inBlock /\ ~stopped /\ logged' = Append(logged, <<accum, read>>))
    BY <1>2 DEF ReadEnds, Flush
  <2>2. /\ logged' \in Seq(Nat \X Nat)
        /\ \A n \in 1..Len(logged) : n \in 1..Len(logged') /\ logged'[n] = logged[n]
    <3>1. CASE logged' = logged
      BY <1>0, <3>1
    <3>2. CASE inBlock /\ ~stopped /\ logged' = Append(logged, <<accum, read>>)
      <4>1. <<accum, read>> \in Nat \X Nat
        BY <1>0, <3>2 DEF BlockInv
      <4> QED BY <1>0, <3>2, <4>1
    <3> QED BY <2>1, <3>1, <3>2
  <2>3. \A i : (OpensBlock(i)' <=> OpensBlock(i)) /\ ClosedBy(i)' = ClosedBy(i)
    BY <2>1 DEF OpensBlock, ClosedBy
  <2>4. ASSUME NEW i \in 1..read', OpensBlock(i)', ClosedBy(i)' # {}
        PROVE  \E n \in 1..Len(logged'), e \in Nat : FirstEnd(i, e)' /\ logged'[n] = <<i, e>>
    <3>1. PICK n \in 1..Len(logged), e \in Nat : FirstEnd(i, e) /\ logged[n] = <<i, e>>
      BY <2>1, <2>3, <2>4 DEF BlockInv
    <3>2. FirstEnd(i, e)'
      BY <2>3, <3>1 DEF FirstEnd
    <3> QED BY <2>2, <3>1, <3>2
  <2> QED BY <1>0, <2>1, <2>2, <2>4 DEF BlockInv
<1>3. CASE LogDone \/ UNCHANGED logVars
  <2>1. UNCHANGED <<input, read, inBlock, accum, logged, stopped>>
    BY <1>3 DEF LogDone, logVars
  <2>2. /\ \A i : (OpensBlock(i)' <=> OpensBlock(i)) /\ ClosedBy(i)' = ClosedBy(i)
        /\ OpensBlock(accum)' <=> OpensBlock(accum) /\ ClosedBy(accum)' = ClosedBy(accum)
    BY <2>1 DEF OpensBlock, ClosedBy
  <2>3. \A i, e : FirstEnd(i, e)' <=> FirstEnd(i, e)
    BY <2>2 DEF FirstEnd
  <2> QED BY <2>1, <2>2, <2>3 DEF BlockInv
<1> QED BY <1>1, <1>2, <1>3 DEF LogNext

\* A key block whose end has been read was passed to redactString as one text,
\* whatever surrounds it: lines, other blocks, stray ends, blocks in one line.
THEOREM BlocksRedactedWhole == LogSpec => []BlocksTogether
<1>1. LogInit => BlockInv
  <2> SUFFICES ASSUME LogInit PROVE BlockInv
    OBVIOUS
  <2>1. read = 0 /\ inBlock = FALSE /\ logged = <<>> /\ stopped = FALSE
    BY DEF LogInit
  <2>2. input \in Seq(LineKinds) /\ Len(input) \in Nat
    <3>1. PICK n \in 0..MaxStderr : input \in [1..n -> LineKinds]
      BY DEF LogInit
    <3> QED BY <3>1
  <2>3. /\ read \in Nat /\ read <= Len(input) /\ logged \in Seq(Nat \X Nat)
        /\ \A i \in 1..read : FALSE
    BY <2>1, <2>2
  <2>4. ~inBlock /\ inBlock \in BOOLEAN /\ stopped \in BOOLEAN
    BY <2>1
  <2> QED BY <2>2, <2>3, <2>4 DEF BlockInv
<1>2. BlockInv => BlocksTogether
  <2> SUFFICES ASSUME BlockInv, NEW i \in 1..read, OpensBlock(i), ClosedBy(i) # {}
               PROVE  \E n \in DOMAIN logged :
                        logged[n] = <<i, CHOOSE e \in ClosedBy(i) : \A f \in ClosedBy(i) : e <= f>>
    BY DEF BlocksTogether
  <2>1. PICK n \in 1..Len(logged), e \in Nat : FirstEnd(i, e) /\ logged[n] = <<i, e>>
    BY DEF BlockInv
  <2> DEFINE c == CHOOSE x \in ClosedBy(i) : \A f \in ClosedBy(i) : x <= f
  <2>2. c \in ClosedBy(i) /\ \A f \in ClosedBy(i) : c <= f
    BY <2>1 DEF FirstEnd
  <2>3. c \in Nat /\ e <= c /\ c <= e
    <3>1. c \in i..read /\ i \in Nat /\ read \in Nat
      BY <2>2 DEF ClosedBy, BlockInv
    <3> HIDE DEF c
    <3> QED BY <2>1, <2>2, <3>1 DEF FirstEnd
  <2>4. c = e
    BY <2>1, <2>3
  <2>5. n \in DOMAIN logged
    BY <2>1 DEF BlockInv
  <2> QED BY <2>1, <2>4, <2>5
<1> QED BY <1>1, <1>2, BlocksKept, PTL DEF LogSpec
=============================================================================
