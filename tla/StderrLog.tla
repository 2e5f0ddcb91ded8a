------------------------------ MODULE StderrLog ------------------------------
(***************************************************************************)
(* ChildProcessTransport.logStderr (transport/transport_process.go): the   *)
(* lines of the child's stderr are logged one by one, except that those of *)
(* a private key block are held back and passed to redactString together.  *)
(* A line is what pemBeginRe and pemEndRe say of it; a log entry is the    *)
(* interval of lines redacted as one text.                                 *)
(***************************************************************************)
EXTENDS Naturals, Sequences

CONSTANT MaxStderr   \* bound: lines of stderr

\* "both" is a block in one line.
LineKinds == {"plain", "begin", "end", "both"}
IsBegin(k) == k \in {"begin", "both"}
IsEnd(k)   == k \in {"end", "both"}

VARIABLES
  input,    \* the lines the child writes
  read,     \* how many logStderr has read
  inBlock,
  accum,    \* where the lines held back begin
  logged,   \* entries, oldest first
  stopped   \* the read has failed: end of file, or cmd.Wait closed the pipe

logVars == <<input, read, inBlock, accum, logged, stopped>>

\* flushRedacted of the lines a..b
Flush(a, b) == logged' = Append(logged, <<a, b>>)

\* Mutant: the test for the end of a block is missing where a block begins.
LogLine_BothLost ==
  LET n == read + 1  k == input[n] IN
  /\ ~stopped /\ read < Len(input) /\ read' = n
  /\ \/ inBlock /\ IsEnd(k) /\ Flush(accum, n) /\ inBlock' = FALSE /\ UNCHANGED accum
     \/ inBlock /\ ~IsEnd(k) /\ UNCHANGED <<inBlock, accum, logged>>
     \/ ~inBlock /\ IsBegin(k) /\ inBlock' = TRUE /\ accum' = n /\ UNCHANGED logged
     \/ ~inBlock /\ ~IsBegin(k) /\ Flush(n, n) /\ UNCHANGED <<inBlock, accum>>
  /\ UNCHANGED <<input, stopped>>

LogLine ==
  LET n == read + 1  k == input[n] IN
  /\ ~stopped /\ read < Len(input) /\ read' = n
  /\ \/ inBlock /\ IsEnd(k) /\ Flush(accum, n) /\ inBlock' = FALSE /\ UNCHANGED accum
     \/ inBlock /\ ~IsEnd(k) /\ UNCHANGED <<inBlock, accum, logged>>
     \/ ~inBlock /\ k = "begin" /\ inBlock' = TRUE /\ accum' = n /\ UNCHANGED logged
     \/ ~inBlock /\ k # "begin" /\ Flush(n, n) /\ UNCHANGED <<inBlock, accum>>
  /\ UNCHANGED <<input, stopped>>

\* Mutant: an unfinished block is dropped.
ReadEnds_Drops == /\ ~stopped /\ stopped' = TRUE
                  /\ UNCHANGED <<input, read, inBlock, accum, logged>>

\* An unfinished block is flushed as it is.
ReadEnds ==
  /\ ~stopped /\ stopped' = TRUE
  /\ IF inBlock THEN Flush(accum, read) ELSE UNCHANGED logged
  /\ UNCHANGED <<input, read, inBlock, accum>>

LogInit ==
  /\ input \in UNION {[1..n -> LineKinds] : n \in 0..MaxStderr}
  /\ read = 0 /\ inBlock = FALSE /\ accum = 0 /\ logged = <<>> /\ stopped = FALSE

LogDone == stopped /\ UNCHANGED logVars

LogNext == LogLine \/ ReadEnds \/ LogDone

LogSpec == LogInit /\ [][LogNext]_logVars

-----------------------------------------------------------------------------
\* Where a line stands in the text, said without an automaton: line i opens a
\* block if it begins one and the last begin before it has met its end.
OpensBlock(i) ==
  /\ IsBegin(input[i])
  /\ \A b \in 1..i-1 : IsBegin(input[b]) => \E e \in b..i-1 : IsEnd(input[e])
ClosedBy(i) == {e \in i..read : IsEnd(input[e])}

\* A key block is redacted as one text: once its end has been read, the lines
\* from the one that opens it to the first end are one entry, and an end outside
\* a block, like any other line, is an entry of its own.
BlocksTogether ==
  \A i \in 1..read : OpensBlock(i) /\ ClosedBy(i) # {} =>
    \E n \in DOMAIN logged :
      logged[n] = <<i, CHOOSE e \in ClosedBy(i) : \A f \in ClosedBy(i) : e <= f>>

\* No line is lost or logged twice, and they are logged in order; what is held
\* back is the block being read, and nothing once the read has failed.
LoggedInOrder ==
  LET last == IF logged = <<>> THEN 0 ELSE logged[Len(logged)][2] IN
  /\ \A n \in DOMAIN logged :
       logged[n][1] = (IF n = 1 THEN 0 ELSE logged[n - 1][2]) + 1
  /\ last = IF inBlock /\ ~stopped THEN accum - 1 ELSE read
=============================================================================
