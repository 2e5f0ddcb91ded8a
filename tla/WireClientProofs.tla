--------------------------- MODULE WireClientProofs ---------------------------
(***************************************************************************)
(* Proofs about WireClient, for any number of calls and lines, any         *)
(* capacity of dispatchCh, any peer and any fault.                         *)
(***************************************************************************)
EXTENDS WireClient, TLAPS, SequenceTheorems

\* The lines readerLoop hands to a call, and the ones it hands to a queue.
Responses  == {Response(c, a) : c \in Calls, a \in Answers}
Dispatched == {Message(t, n) : t \in {"event", "request", "malformed"}, n \in 1..MaxLines}

\* What readerLoop passes on is of the kind its next step expects, Dispatch
\* finds only lines it can handle, and a request in hand was taken.
ClientTypes ==
  /\ TypeOK
  /\ ch \in [Calls -> {<<>>} \cup {<<a>> : a \in Answers \cup {"read_error"}}]
  /\ readPc = "deliver" => readLine \in Responses
  /\ readPc = "dispatch" => readLine \in Dispatched
  /\ dispatchCh \in Seq(Dispatched)
  /\ dispPc = "request" => taken # <<>>

-----------------------------------------------------------------------------
(***************************************************************************)
(* Lines and sequences.                                                    *)
(***************************************************************************)
\* The tag of a line tells what the rest of it is.
LEMMA LineFacts ==
  ASSUME NEW line \in LineSet
  PROVE  /\ line.tag = "response" => line \in Responses
         /\ line.tag \in {"event", "request", "malformed"} => line \in Dispatched
BY DEF LineSet, Responses, Dispatched, Response, Message

\* The fields of what readerLoop delivers and of what it queues.
LEMMA FieldFacts ==
  /\ \A line \in Responses : /\ line \in LineSet /\ line.id \in Calls
                             /\ line.says \in Answers
  /\ \A line \in Dispatched : /\ line \in LineSet /\ line.id \in 1..MaxLines
                              /\ line.tag \in {"event", "request", "malformed"}
BY DEF LineSet, Responses, Dispatched, Response, Message, Tags

\* t is s without its element i, as readResponse leaves oooBuffer.
IsWithout(t, s, i) == t = SubSeq(s, 1, i - 1) \o SubSeq(s, i + 1, Len(s))

\* Taking one response out of a sequence leaves responses it had.
LEMMA TakeOut ==
  ASSUME NEW s \in Seq(Responses), NEW i \in 1..Len(s), NEW t, IsWithout(t, s, i)
  PROVE  /\ t \in Seq(Responses)
         /\ \A j \in 1..Len(t) : \E k \in 1..Len(s) : t[j] = s[k]
<1>1. i \in 1..Len(s) /\ Len(s) \in Nat
  OBVIOUS
<1>2. ASSUME NEW a, a = SubSeq(s, 1, i - 1)
      PROVE  a \in Seq(Responses) /\ Len(a) = i - 1 /\ \A j \in 1..i-1 : a[j] = s[j]
  <2>1. \A j \in 1..i-1 : s[j] \in Responses
    BY <1>1
  <2> QED BY <1>1, <1>2, <2>1, SubSeqProperties
<1>3. ASSUME NEW b, b = SubSeq(s, i + 1, Len(s))
      PROVE  b \in Seq(Responses) /\ Len(b) = Len(s) - i /\ \A j \in 1..Len(s)-i : b[j] = s[i + j]
  <2>1. \A j \in i+1..Len(s) : s[j] \in Responses
    BY <1>1
  <2>2. /\ b \in Seq(Responses) /\ Len(b) = IF i + 1 <= Len(s) THEN Len(s) - (i + 1) + 1 ELSE 0
        /\ \A j \in 1..Len(s)-(i + 1)+1 : b[j] = s[i + 1 + j - 1]
    BY <1>1, <1>3, <2>1, SubSeqProperties
  <2>3. Len(b) = Len(s) - i
    BY <1>1, <2>2
  <2>4. ASSUME NEW j \in 1..Len(s)-i
        PROVE  b[j] = s[i + j]
    <3>1. j \in 1..Len(s)-(i + 1)+1 /\ i + 1 + j - 1 = i + j
      BY <1>1
    <3>2. b[j] = s[i + 1 + j - 1]
      BY <2>2, <3>1
    <3> QED BY <3>1, <3>2
  <2> QED BY <2>2, <2>3, <2>4
<1>4. ASSUME NEW a \in Seq(Responses), NEW b \in Seq(Responses), t = a \o b
      PROVE  /\ t \in Seq(Responses) /\ Len(t) = Len(a) + Len(b)
             /\ \A j \in 1..Len(a)+Len(b) :
                  t[j] = IF j <= Len(a) THEN a[j] ELSE b[j - Len(a)]
  BY <1>4, ConcatProperties
<1>5. \E a, b \in Seq(Responses) :
        /\ Len(a) = i - 1 /\ \A j \in 1..i-1 : a[j] = s[j]
        /\ Len(b) = Len(s) - i /\ \A j \in 1..Len(s)-i : b[j] = s[i + j]
        /\ t = a \o b
  <2>1. PICK a, b : a = SubSeq(s, 1, i - 1) /\ b = SubSeq(s, i + 1, Len(s)) /\ t = a \o b
    BY DEF IsWithout
  <2>2. a \in Seq(Responses) /\ Len(a) = i - 1 /\ \A j \in 1..i-1 : a[j] = s[j]
    BY <1>2, <2>1
  <2>3. b \in Seq(Responses) /\ Len(b) = Len(s) - i /\ \A j \in 1..Len(s)-i : b[j] = s[i + j]
    BY <1>3, <2>1
  <2>4. t = a \o b
    BY <2>1
  <2> QED BY <2>2, <2>3, <2>4
<1>6. ASSUME NEW a \in Seq(Responses), NEW b \in Seq(Responses), t = a \o b,
             Len(a) = i - 1, \A j \in 1..i-1 : a[j] = s[j],
             Len(b) = Len(s) - i, \A j \in 1..Len(s)-i : b[j] = s[i + j]
      PROVE  /\ t \in Seq(Responses)
             /\ \A j \in 1..Len(t) : \E k \in 1..Len(s) : t[j] = s[k]
  <2>1. /\ t \in Seq(Responses) /\ Len(t) = Len(a) + Len(b)
        /\ \A j \in 1..Len(a)+Len(b) : t[j] = IF j <= Len(a) THEN a[j] ELSE b[j - Len(a)]
    BY <1>4, <1>6
  <2>2. Len(a) = i - 1 /\ Len(b) = Len(s) - i
    BY <1>6
  <2>3. Len(t) = Len(s) - 1 /\ 1..Len(t) = 1..Len(s)-1
    BY <1>1, <2>1, <2>2
  <2>4. ASSUME NEW j \in 1..Len(s)-1, j <= i - 1 PROVE t[j] = s[j] /\ j \in 1..Len(s)
    BY <1>1, <1>6, <2>1, <2>2, <2>4
  <2>5. ASSUME NEW j \in 1..Len(s)-1, j > i - 1 PROVE t[j] = s[j + 1] /\ j + 1 \in 1..Len(s)
    <3>1. j \in 1..Len(a)+Len(b) /\ ~(j <= Len(a)) /\ j - Len(a) \in 1..Len(s)-i
      BY <1>1, <2>2, <2>5
    <3>2. t[j] = b[j - Len(a)]
      BY <2>1, <3>1
    <3>3. b[j - Len(a)] = s[i + (j - Len(a))]
      BY <1>6, <3>1
    <3>4. i + (j - Len(a)) = j + 1
      BY <1>1, <2>2
    <3> QED BY <1>1, <3>2, <3>3, <3>4
  <2>6. ASSUME NEW j \in 1..Len(t) PROVE \E k \in 1..Len(s) : t[j] = s[k]
    <3>1. j \in 1..Len(s)-1
      BY <2>3
    <3>2. j <= i - 1 \/ j > i - 1
      BY <1>1, <3>1
    <3> QED BY <2>4, <2>5, <3>1, <3>2
  <2> QED BY <2>1, <2>6
<1> QED BY <1>5, <1>6

-----------------------------------------------------------------------------
(***************************************************************************)
(* Type correctness.                                                       *)
(***************************************************************************)
\* The client starts in a state of the right type.
LEMMA InitTyped == Init => ClientTypes
<1> SUFFICES ASSUME Init PROVE ClientTypes
  OBVIOUS
<1>1. /\ inbox \in Seq(LineSet) /\ dispatchCh \in Seq(LineSet) /\ dispatchCh \in Seq(Dispatched)
      /\ oooBuffer \in Seq({Response(c, a) : c \in Calls, a \in Answers})
      /\ queued \in Seq(1..MaxLines) /\ taken \in Seq(1..MaxLines)
  BY DEF Init
<1>2. Len(dispatchCh) <= DispatchCap /\ nsent \in 0..MaxLines /\ ncalls \in 0..MaxCalls
  BY ClientAssumption DEF Init
<1>3. /\ callPc \in [Calls -> CallPcs] /\ outcome \in [Calls -> Outcomes \cup {"none"}]
      /\ ch \in [Calls -> {<<>>} \cup {<<a>> : a \in Answers \cup {"read_error"}}]
      /\ \A c \in Calls : ch[c] = <<>>
  BY DEF Init, CallPcs
<1>4. dispPc \in {"select", "done"}
  BY DEF Init
<1>5. /\ hungup \in BOOLEAN /\ handshakeDone \in BOOLEAN /\ stop \in BOOLEAN /\ closed \in BOOLEAN
      /\ readLine \in LineSet \cup {NoLine}
  BY DEF Init
<1>6. TypeOK
  BY <1>1, <1>2, <1>3, <1>4, <1>5 DEF Init, TypeOK
<1> QED BY <1>1, <1>3, <1>4, <1>6 DEF Init, ClientTypes

\* The peer and the application's ReadRawMessage keep the types.
LEMMA PeerTyped ==
  ASSUME ClientTypes, PeerSends \/ PeerHangsUp \/ ReadRawMessage PROVE ClientTypes'
<1> USE ClientAssumption DEF readVars, callVars, dispVars, shutVars, peerVars
<1>1. ASSUME NEW line \in LineSet, Sends(line) PROVE ClientTypes'
  <2>1. inbox' \in Seq(LineSet) /\ nsent' \in 0..MaxLines
    BY <1>1 DEF Sends, ClientTypes, TypeOK
  <2>2. TypeOK'
    BY <1>1, <2>1 DEF Sends, ClientTypes, TypeOK
  <2> QED BY <1>1, <2>2 DEF Sends, ClientTypes
<1>2. \A c \in Calls, a \in PeerAnswers : Response(c, a) \in LineSet
  BY DEF LineSet
<1>3. \A t \in PeerTags \ {"response"} : nsent < MaxLines => Message(t, nsent + 1) \in LineSet
  <2>1. nsent < MaxLines => nsent + 1 \in 1..MaxLines
    BY DEF ClientTypes, TypeOK
  <2> QED BY <2>1 DEF LineSet
<1>4. CASE PeerSends
  BY <1>1, <1>2, <1>3, <1>4 DEF PeerSends, Sends
<1>5. CASE PeerHangsUp
  BY <1>5 DEF PeerHangsUp, ClientTypes, TypeOK
<1>6. CASE ReadRawMessage
  BY <1>6 DEF ReadRawMessage, ClientTypes, TypeOK
<1> QED BY <1>4, <1>5, <1>6

\* readerLoop takes lines of the kind it asks for off the inbox.
LEMMA ReadTyped ==
  ASSUME ClientTypes, NEW tags, Reads(tags)
  PROVE  inbox' \in Seq(LineSet) /\ Head(inbox) \in LineSet /\ Head(inbox).tag \in tags
BY DEF Reads, ClientTypes, TypeOK

\* The steps of readerLoop keep the types.
LEMMA ReaderTyped == ASSUME ClientTypes, Reader PROVE ClientTypes'
<1> USE ClientAssumption DEF readVars, callVars, dispVars, shutVars, peerVars
<1>1. CASE ReadResponse
  <2>1. /\ inbox' \in Seq(LineSet) /\ Head(inbox) \in Responses /\ Head(inbox) \in LineSet
    BY <1>1, ReadTyped, LineFacts DEF ReadResponse
  <2>2. /\ readLine' \in LineSet \cup {NoLine} /\ oooBuffer' \in Seq(Responses)
        /\ readPc' \in {"read", "deliver"} /\ (readPc' = "deliver" => readLine' \in Responses)
    <3>1. oooBuffer \in Seq(Responses) /\ readPc = "read" /\ readLine \in LineSet \cup {NoLine}
      BY <1>1 DEF ReadResponse, Reads, ClientTypes, TypeOK, Responses
    <3>2. \/ readPc' = "deliver" /\ readLine' = Head(inbox) /\ oooBuffer' = oooBuffer
          \/ oooBuffer' = Append(oooBuffer, Head(inbox)) /\ UNCHANGED <<readPc, readLine>>
      BY <1>1 DEF ReadResponse
    <3> QED BY SMTT(30), <2>1, <3>1, <3>2
  <2>3. TypeOK'
    BY <1>1, <2>1, <2>2 DEF ReadResponse, Reads, ClientTypes, TypeOK, Responses
  <2> QED BY <1>1, <2>2, <2>3 DEF ReadResponse, Reads, ClientTypes
<1>2. CASE ReadMessage
  <2>1. /\ inbox' \in Seq(LineSet) /\ Head(inbox) \in Dispatched /\ Head(inbox) \in LineSet
        /\ Head(inbox).id \in 1..MaxLines
    BY <1>2, ReadTyped, LineFacts, FieldFacts DEF ReadMessage
  <2>2. queued' \in Seq(1..MaxLines)
    BY <1>2, <2>1 DEF ReadMessage, ClientTypes, TypeOK
  <2>3. TypeOK'
    BY <1>2, <2>1, <2>2 DEF ReadMessage, Reads, ClientTypes, TypeOK
  <2> QED BY <1>2, <2>1, <2>3 DEF ReadMessage, Reads, ClientTypes
<1>3. CASE ReadUnknown
  <2>1. inbox' \in Seq(LineSet)
    BY <1>3, ReadTyped DEF ReadUnknown
  <2>2. TypeOK'
    BY <1>3, <2>1 DEF ReadUnknown, Reads, ClientTypes, TypeOK
  <2> QED BY <1>3, <2>2 DEF ReadUnknown, Reads, ClientTypes
<1>4. CASE ReadGarbage
  <2>1. inbox' \in Seq(LineSet)
    BY <1>4, ReadTyped DEF ReadGarbage
  <2>2. TypeOK'
    BY <1>4, <2>1 DEF ReadGarbage, ClosePending, Reads, ClientTypes, TypeOK
  <2> QED BY <1>4, <2>2 DEF ReadGarbage, ClosePending, Reads, ClientTypes
<1>5. CASE ReadFails
  <2>1. TypeOK'
    BY <1>5 DEF ReadFails, ClosePending, ClientTypes, TypeOK
  <2> QED BY <1>5, <2>1 DEF ReadFails, ClosePending, ClientTypes
<1>6. CASE PendingClosed
  <2>1. TypeOK'
    BY <1>6 DEF PendingClosed, ReaderStep, ClientTypes, TypeOK
  <2> QED BY <1>6, <2>1 DEF PendingClosed, ReaderStep, ClientTypes
<1>7. CASE Deliver
  <2>1. readLine.id \in Calls /\ readLine.says \in Answers
    BY <1>7, FieldFacts DEF Deliver, ReaderStep, ClientTypes
  <2>2. ch' \in [Calls -> {<<>>} \cup {<<a>> : a \in Answers \cup {"read_error"}}]
    BY <1>7, <2>1 DEF Deliver, ClientTypes
  <2>3. TypeOK'
    BY <1>7, <2>2 DEF Deliver, ReaderStep, ClientTypes, TypeOK
  <2> QED BY <1>7, <2>2, <2>3 DEF Deliver, ReaderStep, ClientTypes
<1>8. CASE Queue
  <2>1. readLine \in Dispatched /\ readLine \in LineSet
    BY <1>8, FieldFacts DEF Queue, ReaderStep, ClientTypes
  <2>2. /\ dispatchCh' \in Seq(Dispatched) /\ dispatchCh' \in Seq(LineSet)
        /\ Len(dispatchCh') <= DispatchCap
    BY <1>8, <2>1 DEF Queue, ClientTypes, TypeOK
  <2>3. TypeOK'
    BY <1>8, <2>2 DEF Queue, ReaderStep, ClientTypes, TypeOK
  <2> QED BY <1>8, <2>2, <2>3 DEF Queue, ReaderStep, ClientTypes
<1>9. CASE ReaderStopped
  <2>0. /\ readPc' = "done"
        /\ UNCHANGED <<peerVars, readLine, toFail, queued, callVars, dispVars, shutVars,
                       oooBuffer, pending, ch, dispatchCh>>
    BY <1>9 DEF ReaderStopped, ReaderStep
  <2>1. TypeOK'
    BY <2>0 DEF ClientTypes, TypeOK
  <2> QED BY <2>0, <2>1 DEF ClientTypes
<1>10. ASSUME NEW c \in Calls, FailCall(c) PROVE ClientTypes'
  <2>1. ch' \in [Calls -> {<<>>} \cup {<<a>> : a \in Answers \cup {"read_error"}}]
    BY <1>10 DEF FailCall, ClientTypes
  <2>2. TypeOK'
    BY <1>10, <2>1 DEF FailCall, ClientTypes, TypeOK
  <2> QED BY <1>10, <2>1, <2>2 DEF FailCall, ClientTypes
<1> QED
  BY <1>1, <1>2, <1>3, <1>4, <1>5, <1>6, <1>7, <1>8, <1>9, <1>10 DEF Reader

\* A call returns one of the outcomes.
LEMMA OutcomeTyped ==
  ASSUME NEW c, NEW m \in Answers \cup {"read_error"}
  PROVE  Outcome(c, m) \in Outcomes
BY DEF Outcome, Outcomes, Answers

\* The steps of calls keep the types.
LEMMA CallTyped ==
  ASSUME ClientTypes, WriteRequest \/ \E c \in Calls : CallRuns(c) PROVE ClientTypes'
<1> USE ClientAssumption DEF readVars, callVars, dispVars, shutVars, peerVars
<1>1. CASE WriteRequest
  <2>1. ncalls' \in 0..MaxCalls /\ ncalls + 1 \in Calls
    BY <1>1 DEF WriteRequest, ClientTypes, TypeOK, Calls
  <2>2. callPc' \in [Calls -> CallPcs] /\ outcome' \in [Calls -> Outcomes \cup {"none"}]
    <3>1. callPc \in [Calls -> CallPcs] /\ outcome \in [Calls -> Outcomes \cup {"none"}]
      BY DEF ClientTypes, TypeOK
    <3> QED BY <1>1, <2>1, <3>1 DEF WriteRequest, CallPcs, Outcomes
  <2>3. TypeOK'
    BY <1>1, <2>1, <2>2 DEF WriteRequest, ClientTypes, TypeOK
  <2> QED BY <1>1, <2>3 DEF WriteRequest, ClientTypes
<1>2. ASSUME NEW c \in Calls, NEW from, NEW to \in CallPcs, NEW o \in Outcomes, Leaves(c, from, to, o)
      PROVE  /\ callPc' \in [Calls -> CallPcs] /\ outcome' \in [Calls -> Outcomes \cup {"none"}]
             /\ handshakeDone' \in BOOLEAN
             /\ UNCHANGED <<peerVars, readVars, ncalls, dispVars, shutVars, dispatchCh>>
  BY <1>2 DEF Leaves, CallStep, ClientTypes, TypeOK
<1>3. ASSUME NEW c \in Calls, Register(c) PROVE ClientTypes'
  <2>1. ASSUME NEW i \in Buffered(c),
               oooBuffer' = SubSeq(oooBuffer, 1, i - 1) \o SubSeq(oooBuffer, i + 1, Len(oooBuffer)),
               Leaves(c, "written", "returned", Outcome(c, oooBuffer[i].says)),
               UNCHANGED <<pending, ch>>
        PROVE  ClientTypes'
    <3>1. oooBuffer \in Seq(Responses) /\ i \in 1..Len(oooBuffer)
      BY DEF ClientTypes, TypeOK, Responses, Buffered
    <3>2. oooBuffer' \in Seq(Responses)
      <4>1. IsWithout(oooBuffer', oooBuffer, i)
        BY <2>1 DEF IsWithout
      <4> QED BY <3>1, <4>1, TakeOut
    <3>3. oooBuffer[i].says \in Answers
      BY <3>1, FieldFacts
    <3>4. Outcome(c, oooBuffer[i].says) \in Outcomes
      BY <3>3, OutcomeTyped
    <3>5. /\ callPc' \in [Calls -> CallPcs] /\ outcome' \in [Calls -> Outcomes \cup {"none"}]
          /\ handshakeDone' \in BOOLEAN
          /\ UNCHANGED <<peerVars, readVars, ncalls, dispVars, shutVars, dispatchCh>>
      BY <1>2, <2>1, <3>4 DEF CallPcs
    <3>6. TypeOK'
      <4>1. UNCHANGED <<pending, ch>>
        BY <2>1
      <4> QED BY <3>2, <3>5, <4>1 DEF ClientTypes, TypeOK, Responses
    <3> QED BY <2>1, <3>5, <3>6 DEF ClientTypes
  <2>2. ASSUME CallStep(c, "written", "wait"), pending' = pending \cup {c},
               UNCHANGED <<outcome, handshakeDone, oooBuffer, ch>>
        PROVE  ClientTypes'
    <3>1. TypeOK'
      BY <2>2 DEF CallStep, CallPcs, ClientTypes, TypeOK
    <3> QED BY <2>2, <3>1 DEF CallStep, ClientTypes
  <2> QED BY <1>3, <2>1, <2>2 DEF Register
<1>4. ASSUME NEW c \in Calls, Receive(c) PROVE ClientTypes'
  <2>1. Head(ch[c]) \in Answers \cup {"read_error"}
    BY <1>4 DEF Receive, ClientTypes
  <2>2. Outcome(c, Head(ch[c])) \in Outcomes
    BY <2>1, OutcomeTyped
  <2>3. /\ callPc' \in [Calls -> CallPcs] /\ outcome' \in [Calls -> Outcomes \cup {"none"}]
        /\ handshakeDone' \in BOOLEAN
        /\ UNCHANGED <<peerVars, readVars, ncalls, dispVars, shutVars, dispatchCh>>
    BY <1>2, <1>4, <2>2 DEF CallPcs, Receive
  <2>4. ch' \in [Calls -> {<<>>} \cup {<<a>> : a \in Answers \cup {"read_error"}}]
    BY <1>4 DEF Receive, ClientTypes
  <2>5. TypeOK'
    BY <1>4, <2>3, <2>4 DEF Receive, ClientTypes, TypeOK
  <2> QED BY <2>3, <2>4, <2>5 DEF ClientTypes
<1>5. ASSUME NEW c \in Calls, Timeout(c) PROVE ClientTypes'
  <2>1. /\ callPc' \in [Calls -> CallPcs] /\ outcome' \in [Calls -> Outcomes \cup {"none"}]
        /\ handshakeDone' \in BOOLEAN
        /\ UNCHANGED <<peerVars, readVars, ncalls, dispVars, shutVars, dispatchCh>>
    BY <1>2, <1>5 DEF CallPcs, Outcomes, Timeout
  <2>2. TypeOK'
    BY <1>5, <2>1 DEF Timeout, ClientTypes, TypeOK
  <2> QED BY <1>5, <2>1, <2>2 DEF Timeout, ClientTypes
<1>6. ASSUME NEW c \in Calls, Cleanup(c) PROVE ClientTypes'
  <2>1. ch' \in [Calls -> {<<>>} \cup {<<a>> : a \in Answers \cup {"read_error"}}]
    BY <1>6 DEF Cleanup, ClientTypes
  <2>2. TypeOK'
    BY <1>6, <2>1 DEF Cleanup, CallStep, CallPcs, ClientTypes, TypeOK
  <2> QED BY <1>6, <2>1, <2>2 DEF Cleanup, CallStep, ClientTypes
<1> QED BY <1>1, <1>3, <1>4, <1>5, <1>6 DEF CallRuns

\* Dispatch and Shutdown keep the types.
LEMMA DispatchTyped ==
  ASSUME ClientTypes, Dispatch \/ Shutdown \/ ShutRuns PROVE ClientTypes'
<1> USE ClientAssumption DEF readVars, callVars, dispVars, shutVars, peerVars
<1>1. CASE Take
  <2>1. /\ Head(dispatchCh) \in Dispatched /\ dispatchCh' \in Seq(Dispatched)
        /\ dispatchCh' \in Seq(LineSet) /\ Len(dispatchCh') <= DispatchCap
    BY <1>1 DEF Take, ClientTypes, TypeOK
  <2>2. /\ Head(dispatchCh).id \in 1..MaxLines
        /\ Head(dispatchCh).tag \in {"event", "request", "malformed"}
    BY <2>1, FieldFacts
  <2>3. taken' \in Seq(1..MaxLines) /\ taken' # <<>> /\ dispPc' \in {"select", "event", "request"}
    <3>1. taken \in Seq(1..MaxLines)
      BY DEF ClientTypes, TypeOK
    <3>2. taken' \in Seq(1..MaxLines) /\ taken' # <<>>
      BY <1>1, <2>2, <3>1 DEF Take
    <3> QED BY <1>1, <2>2, <3>2 DEF Take, DispStep, Handling
  <2>4. TypeOK'
    BY <1>1, <2>1, <2>3 DEF Take, DispStep, ClientTypes, TypeOK
  <2> QED BY <1>1, <2>1, <2>3, <2>4 DEF Take, DispStep, ClientTypes
<1>2. CASE EventHandled \/ DispatchEnds
  <2>0. /\ dispPc' \in {"select", "done"}
        /\ UNCHANGED <<peerVars, readVars, callVars, shutVars, oooBuffer, pending, ch,
                       dispatchCh, taken, replied>>
    BY <1>2 DEF EventHandled, DispatchEnds, DispStep
  <2>1. TypeOK'
    BY <2>0 DEF ClientTypes, TypeOK
  <2> QED BY <2>0, <2>1 DEF ClientTypes
<1>3. CASE RequestHandled
  <2>1. taken[Len(taken)] \in 1..MaxLines
    BY <1>3 DEF RequestHandled, DispStep, ClientTypes, TypeOK
  <2>2. /\ dispPc' \in {"select", "done"} /\ replied' \subseteq replied \cup {taken[Len(taken)]}
        /\ UNCHANGED <<peerVars, readVars, callVars, shutVars, oooBuffer, pending, ch,
                       dispatchCh, taken>>
    BY <1>3 DEF RequestHandled, DispStep
  <2>3. TypeOK'
    BY <2>1, <2>2 DEF ClientTypes, TypeOK
  <2> QED BY <2>2, <2>3 DEF ClientTypes
<1>4. CASE Shutdown \/ ShutRuns
  <2>0. /\ shutPc' \in {"close", "wait", "returned"}
        /\ stop' \in {stop, TRUE} /\ closed' \in {closed, TRUE}
        /\ UNCHANGED <<peerVars, readVars, callVars, dispVars, oooBuffer, pending, ch, dispatchCh>>
    BY <1>4 DEF Shutdown, ShutRuns, ShutCloses, ShutReturns, ShutStep
  <2>1. stop' \in BOOLEAN /\ closed' \in BOOLEAN
    <3>1. stop \in BOOLEAN /\ closed \in BOOLEAN
      BY DEF ClientTypes, TypeOK
    <3> QED BY <2>0, <3>1
  <2>2. TypeOK'
    BY <2>0, <2>1 DEF ClientTypes, TypeOK
  <2> QED BY <2>0, <2>2 DEF ClientTypes
<1> QED BY <1>1, <1>2, <1>3, <1>4 DEF Dispatch

\* Every step of the client and of its peer keeps the types.
LEMMA StepTyped == ClientTypes /\ [Next]_vars => ClientTypes'
<1> SUFFICES ASSUME ClientTypes, [Next]_vars PROVE ClientTypes'
  OBVIOUS
<1>1. CASE Terminated \/ UNCHANGED vars
  <2>1. UNCHANGED vars
    BY <1>1 DEF Terminated
  <2>2. TypeOK'
    BY <2>1 DEF vars, readVars, callVars, dispVars, shutVars, peerVars, ClientTypes, TypeOK
  <2> QED
    BY <2>1, <2>2 DEF vars, readVars, callVars, dispVars, shutVars, peerVars, ClientTypes
<1> QED
  BY <1>1, PeerTyped, ReaderTyped, CallTyped, DispatchTyped DEF Next

\* Every variable of the client keeps its type in every behaviour: dispatchCh and
\* the channels of the calls stay within their capacities, and readerLoop and
\* Dispatch never meet a line they cannot handle.
THEOREM ClientTypeCorrect == Spec => []TypeOK
<1>1. Spec => []ClientTypes
  BY InitTyped, StepTyped, PTL DEF Spec
<1>2. ClientTypes => TypeOK
  BY DEF ClientTypes
<1> QED BY <1>1, <1>2, PTL

-----------------------------------------------------------------------------
(***************************************************************************)
(* Responses.                                                              *)
(***************************************************************************)
\* A call starts to wait in Register only, which looks into oooBuffer and
\* registers the call, and no other step of a call touches an entry of another.
LEMMA CallKeepsOthers ==
  ASSUME ClientTypes, NoResponseMissed, WriteRequest \/ \E d \in Calls : CallRuns(d)
  PROVE  NoResponseMissed'
<1> USE DEF readVars, callVars, dispVars, shutVars, peerVars
<1>0. callPc \in [Calls -> CallPcs] /\ oooBuffer \in Seq(Responses)
  BY DEF ClientTypes, TypeOK, Responses
<1>1. CASE WriteRequest
  <2>1. ncalls + 1 \in Calls
    BY <1>1, ClientAssumption DEF WriteRequest, ClientTypes, TypeOK, Calls
  <2>2. \A c \in Calls : callPc'[c] = "wait" => callPc[c] = "wait"
    BY <1>0, <1>1, <2>1 DEF WriteRequest
  <2> QED BY <1>1, <2>2 DEF WriteRequest, NoResponseMissed, Buffered
<1>2. ASSUME NEW d \in Calls, Register(d) PROVE NoResponseMissed'
  <2>1. ASSUME NEW i \in Buffered(d),
               oooBuffer' = SubSeq(oooBuffer, 1, i - 1) \o SubSeq(oooBuffer, i + 1, Len(oooBuffer)),
               Leaves(d, "written", "returned", Outcome(d, oooBuffer[i].says)),
               UNCHANGED <<pending, ch>>
        PROVE  NoResponseMissed'
    <3>1. \A j \in DOMAIN oooBuffer' : \E k \in DOMAIN oooBuffer : oooBuffer'[j] = oooBuffer[k]
      <4>1. i \in 1..Len(oooBuffer)
        BY <1>0 DEF Buffered
      <4>2. IsWithout(oooBuffer', oooBuffer, i)
        BY <2>1 DEF IsWithout
      <4>3. /\ oooBuffer' \in Seq(Responses)
            /\ \A j \in 1..Len(oooBuffer') :
                 \E k \in 1..Len(oooBuffer) : oooBuffer'[j] = oooBuffer[k]
        BY <1>0, <4>1, <4>2, TakeOut
      <4> QED BY <1>0, <4>3
    <3>2. /\ \A c \in Calls : callPc'[c] = "wait" => callPc[c] = "wait"
          /\ UNCHANGED <<pending, readPc>>
      BY <1>0, <2>1 DEF Leaves, CallStep
    <3> QED BY <3>1, <3>2 DEF NoResponseMissed, Buffered
  <2>2. ASSUME Buffered(d) = {}, CallStep(d, "written", "wait"), pending' = pending \cup {d},
               UNCHANGED <<outcome, handshakeDone, oooBuffer, ch>>
        PROVE  NoResponseMissed'
    <3>1. \A c \in Calls : callPc'[c] = "wait" => callPc[c] = "wait" \/ c = d
      BY <1>0, <2>2 DEF CallStep
    <3> QED BY <2>2, <3>1 DEF CallStep, NoResponseMissed, Buffered
  <2> QED BY <1>2, <2>1, <2>2 DEF Register
<1>3. ASSUME NEW d \in Calls, Receive(d) \/ Timeout(d) PROVE NoResponseMissed'
  <2>1. /\ \A c \in Calls : callPc'[c] = "wait" => callPc[c] = "wait"
        /\ UNCHANGED <<pending, oooBuffer, readPc>>
    BY <1>0, <1>3 DEF Receive, Timeout, Leaves, CallStep
  <2> QED BY <2>1 DEF NoResponseMissed, Buffered
<1>4. ASSUME NEW d \in Calls, Cleanup(d) PROVE NoResponseMissed'
  <2>1. \A c \in Calls : callPc'[c] = "wait" => callPc[c] = "wait" /\ c # d
    BY <1>0, <1>4 DEF Cleanup, CallStep
  <2> QED BY <1>4, <2>1 DEF Cleanup, CallStep, NoResponseMissed, Buffered
<1> QED BY <1>1, <1>2, <1>3, <1>4 DEF CallRuns

\* readerLoop parks a response only when its call is not registered, and takes
\* registrations away only when it stops reading for good.
LEMMA ReaderFindsCalls ==
  ASSUME ClientTypes, NoResponseMissed, Reader PROVE NoResponseMissed'
<1> USE DEF readVars, callVars, dispVars, shutVars, peerVars
<1>1. CASE ReadResponse
  <2>1. oooBuffer \in Seq(Responses) /\ readPc = "read" /\ UNCHANGED <<callPc, pending>>
    BY <1>1 DEF ReadResponse, Reads, ClientTypes, TypeOK, Responses
  <2>2. CASE Head(inbox).id \in pending
    BY <1>1, <2>1, <2>2 DEF ReadResponse, NoResponseMissed, Buffered
  <2>3. CASE Head(inbox).id \notin pending
    <3>1. oooBuffer' = Append(oooBuffer, Head(inbox)) /\ readPc' = readPc
      BY <1>1, <2>3 DEF ReadResponse
    <3>2. \A j \in DOMAIN oooBuffer' : \/ j \in DOMAIN oooBuffer /\ oooBuffer'[j] = oooBuffer[j]
                                       \/ oooBuffer'[j] = Head(inbox)
      BY <2>1, <3>1
    <3> QED BY <2>1, <2>3, <3>1, <3>2 DEF NoResponseMissed, Buffered
  <2> QED BY <2>2, <2>3
<1>2. CASE ReadMessage \/ ReadUnknown
  <2>1. readPc = "read" /\ UNCHANGED <<callPc, pending, oooBuffer>>
    BY <1>2 DEF ReadMessage, ReadUnknown, Reads
  <2> QED BY <2>1 DEF NoResponseMissed, Buffered
<1>3. CASE ReadGarbage \/ ReadFails
  <2>1. readPc' = "fail" /\ UNCHANGED <<callPc, oooBuffer>>
    BY <1>3 DEF ReadGarbage, ReadFails, Reads, ClosePending
  <2> QED BY <2>1 DEF NoResponseMissed, Buffered
<1>4. CASE PendingClosed \/ ReaderStopped
  <2>1. readPc' = "done" /\ UNCHANGED <<callPc, oooBuffer>>
    BY <1>4 DEF PendingClosed, ReaderStopped, ReaderStep
  <2> QED BY <2>1 DEF NoResponseMissed, Buffered
<1>5. CASE Deliver \/ Queue
  <2>1. readPc \in {"deliver", "dispatch"} /\ UNCHANGED <<callPc, pending, oooBuffer>>
    BY <1>5 DEF Deliver, Queue, ReaderStep
  <2> QED BY <2>1 DEF NoResponseMissed, Buffered
<1>6. ASSUME NEW c \in Calls, FailCall(c) PROVE NoResponseMissed'
  BY <1>6 DEF FailCall, NoResponseMissed, Buffered
<1> QED BY <1>1, <1>2, <1>3, <1>4, <1>5, <1>6 DEF Reader

\* In every behaviour, a call that waits has no response parked in oooBuffer and
\* is registered as long as readerLoop reads: the section under c.mu in
\* readResponse leaves no gap between the look into oooBuffer and the
\* registration, for any number of calls and any order of responses.
THEOREM ResponsesFound == Spec => []NoResponseMissed
<1>1. Init => NoResponseMissed
  BY DEF Init, NoResponseMissed
<1>2. ClientTypes /\ NoResponseMissed /\ [Next]_vars => NoResponseMissed'
  <2> SUFFICES ASSUME ClientTypes, NoResponseMissed, [Next]_vars PROVE NoResponseMissed'
    OBVIOUS
  <2>1. CASE PeerSends \/ PeerHangsUp \/ ReadRawMessage \/ Dispatch \/ Shutdown \/ ShutRuns
             \/ Terminated \/ UNCHANGED vars
    <3>1. UNCHANGED <<callPc, pending, oooBuffer, readPc>>
      BY <2>1 DEF PeerSends, Sends, PeerHangsUp, ReadRawMessage, Dispatch, Take, EventHandled,
                  RequestHandled, DispatchEnds, DispStep, Shutdown, ShutRuns, ShutCloses,
                  ShutReturns, ShutStep, Terminated, vars, readVars, callVars, dispVars,
                  shutVars, peerVars
    <3> QED BY <3>1 DEF NoResponseMissed, Buffered
  <2> QED BY <2>1, CallKeepsOthers, ReaderFindsCalls DEF Next
<1> QED BY <1>1, <1>2, InitTyped, StepTyped, PTL DEF Spec

-----------------------------------------------------------------------------
(***************************************************************************)
(* Events and requests.                                                    *)
(***************************************************************************)
\* DispatchInOrder position by position: queued is what Dispatch has taken, then
\* what dispatchCh holds, then the line readerLoop is about to queue.
InOrder ==
  LET n == Len(taken)  m == Len(dispatchCh) IN
  /\ Len(queued) = n + m + (IF readPc = "dispatch" THEN 1 ELSE 0)
  /\ \A i \in 1..n : queued[i] = taken[i]
  /\ \A i \in 1..m : queued[n + i] = dispatchCh[i].id
  /\ readPc = "dispatch" => queued[n + m + 1] = readLine.id

\* Before Shutdown the order holds.
OrderInv == ~stop => InOrder

\* The steps that move lines keep the order.
LEMMA OrderKept ==
  ASSUME ClientTypes, OrderInv, ReadMessage \/ Queue \/ Take PROVE OrderInv'
<1> USE DEF readVars, callVars, dispVars, shutVars, peerVars
<1>0. /\ taken \in Seq(1..MaxLines) /\ queued \in Seq(1..MaxLines) /\ dispatchCh \in Seq(Dispatched)
      /\ Len(taken) \in Nat /\ Len(dispatchCh) \in Nat
  BY DEF ClientTypes, TypeOK
<1> SUFFICES ASSUME ~stop' PROVE InOrder'
  BY DEF OrderInv
<1>1. stop' = stop /\ InOrder
  BY DEF ReadMessage, Reads, Queue, ReaderStep, Take, DispStep, OrderInv
<1>2. CASE ReadMessage
  <2>1. /\ Head(inbox).id \in 1..MaxLines /\ readPc = "read" /\ readPc' = "dispatch"
        /\ readLine' = Head(inbox) /\ queued' = Append(queued, Head(inbox).id)
        /\ UNCHANGED <<taken, dispatchCh>>
    BY <1>2, ReadTyped, LineFacts, FieldFacts DEF ReadMessage, Reads
  <2>2. Len(queued) = Len(taken) + Len(dispatchCh)
    BY <1>0, <1>1, <2>1 DEF InOrder
  <2>3. /\ Len(queued') = Len(queued) + 1 /\ queued'[Len(queued) + 1] = Head(inbox).id
        /\ \A i \in 1..Len(queued) : queued'[i] = queued[i]
    BY <1>0, <2>1
  <2> QED BY <1>0, <1>1, <2>1, <2>2, <2>3 DEF InOrder
<1>3. CASE Queue
  <2>1. /\ readPc = "dispatch" /\ readPc' = "read" /\ readLine \in Dispatched
        /\ dispatchCh' = Append(dispatchCh, readLine) /\ UNCHANGED <<taken, queued>>
    BY <1>3 DEF Queue, ReaderStep, ClientTypes
  <2>2. /\ Len(dispatchCh') = Len(dispatchCh) + 1
        /\ dispatchCh'[Len(dispatchCh) + 1] = readLine
        /\ \A i \in 1..Len(dispatchCh) : dispatchCh'[i] = dispatchCh[i]
    BY <1>0, <2>1
  <2>3. /\ Len(queued) = Len(taken) + Len(dispatchCh) + 1
        /\ queued[Len(taken) + Len(dispatchCh) + 1] = readLine.id
        /\ \A i \in 1..Len(dispatchCh) : queued[Len(taken) + i] = dispatchCh[i].id
    BY <1>1, <2>1 DEF InOrder
  <2>4. ASSUME NEW i \in 1..Len(dispatchCh') PROVE queued[Len(taken) + i] = dispatchCh'[i].id
    <3>1. i \in 1..Len(dispatchCh) \/ i = Len(dispatchCh) + 1
      BY <1>0, <2>2
    <3>2. Len(taken) + (Len(dispatchCh) + 1) = Len(taken) + Len(dispatchCh) + 1
      BY <1>0
    <3> QED BY <2>2, <2>3, <3>1, <3>2
  <2> QED BY <1>0, <1>1, <2>1, <2>2, <2>3, <2>4 DEF InOrder
<1>4. CASE Take
  <2>1. /\ dispatchCh # <<>> /\ dispatchCh' = Tail(dispatchCh)
        /\ taken' = Append(taken, Head(dispatchCh).id)
        /\ UNCHANGED <<queued, readPc, readLine>>
    BY <1>4 DEF Take, DispStep
  <2>2. /\ Len(dispatchCh') = Len(dispatchCh) - 1 /\ Head(dispatchCh) = dispatchCh[1]
        /\ Len(dispatchCh) >= 1
        /\ \A i \in 1..Len(dispatchCh') : dispatchCh'[i] = dispatchCh[i + 1]
    BY <1>0, <2>1
  <2>3. Head(dispatchCh).id \in 1..MaxLines
    BY <1>0, <2>1, FieldFacts
  <2>4. /\ Len(taken') = Len(taken) + 1 /\ taken'[Len(taken) + 1] = dispatchCh[1].id
        /\ \A i \in 1..Len(taken) : taken'[i] = taken[i]
    BY <1>0, <2>1, <2>2, <2>3
  <2>5. queued[Len(taken) + 1] = dispatchCh[1].id
    BY <1>0, <1>1, <2>2 DEF InOrder
  <2>6. \A i \in 1..Len(taken') : queued'[i] = taken'[i]
    BY <1>0, <1>1, <2>1, <2>4, <2>5 DEF InOrder
  <2>7. \A i \in 1..Len(dispatchCh') : queued'[Len(taken') + i] = dispatchCh'[i].id
    <3> SUFFICES ASSUME NEW i \in 1..Len(dispatchCh')
                 PROVE  queued'[Len(taken') + i] = dispatchCh'[i].id
      OBVIOUS
    <3>1. i + 1 \in 1..Len(dispatchCh) /\ Len(taken') + i = Len(taken) + (i + 1)
      BY <1>0, <2>2, <2>4
    <3>2. queued[Len(taken) + (i + 1)] = dispatchCh[i + 1].id
      BY <1>1, <3>1 DEF InOrder
    <3> QED BY <2>1, <2>2, <3>1, <3>2
  <2>8. Len(taken') + Len(dispatchCh') = Len(taken) + Len(dispatchCh)
    BY <1>0, <2>2, <2>4
  <2> QED BY <1>0, <1>1, <2>1, <2>6, <2>7, <2>8 DEF InOrder
<1> QED BY <1>2, <1>3, <1>4

\* The other steps leave queue and histories alone; readerLoop gives a line up
\* only after Shutdown.
LEMMA OrderUntouched ==
  ASSUME OrderInv, [Next]_vars, ~(ReadMessage \/ Queue \/ Take) PROVE OrderInv'
<1> USE DEF readVars, callVars, dispVars, shutVars, peerVars
<1>1. CASE ReaderStopped \/ Shutdown
  BY <1>1 DEF ReaderStopped, ReaderStep, Shutdown, ShutStep, OrderInv
<1>2. ASSUME UNCHANGED <<taken, queued, dispatchCh, stop>>,
             readPc # "dispatch", readPc' # "dispatch"
      PROVE  OrderInv'
  BY <1>2 DEF OrderInv, InOrder
<1>3. ASSUME UNCHANGED <<taken, queued, dispatchCh, stop, readPc, readLine>> PROVE OrderInv'
  BY <1>3 DEF OrderInv, InOrder
<1>4. CASE ReadResponse \/ ReadUnknown \/ ReadGarbage \/ ReadFails \/ PendingClosed \/ Deliver
  BY <1>2, <1>4 DEF ReadResponse, ReadUnknown, ReadGarbage, ReadFails, Reads, ClosePending,
                    PendingClosed, Deliver, ReaderStep
<1>5. ASSUME NEW c \in Calls, FailCall(c) \/ CallRuns(c) PROVE OrderInv'
  BY <1>3, <1>5 DEF FailCall, CallRuns, Register, Receive, Timeout, Cleanup, Leaves, CallStep
<1>6. CASE PeerSends \/ PeerHangsUp \/ WriteRequest \/ ReadRawMessage
  BY <1>3, <1>6 DEF PeerSends, Sends, PeerHangsUp, WriteRequest, ReadRawMessage
<1>7. CASE EventHandled \/ RequestHandled \/ DispatchEnds
  BY <1>3, <1>7 DEF EventHandled, RequestHandled, DispatchEnds, DispStep
<1>8. CASE ShutRuns \/ Terminated \/ UNCHANGED vars
  BY <1>3, <1>8 DEF ShutRuns, ShutCloses, ShutReturns, ShutStep, Terminated, vars
<1> QED
  BY <1>1, <1>4, <1>5, <1>6, <1>7, <1>8 DEF Next, Reader, Dispatch

\* Sequences that agree position by position are equal.
LEMMA JoinTwo ==
  ASSUME NEW L, NEW a \in Seq(L), NEW b \in Seq(L), NEW s \in Seq(L),
         Len(s) = Len(a) + Len(b),
         \A i \in 1..Len(a) : s[i] = a[i],
         \A i \in 1..Len(b) : s[Len(a) + i] = b[i]
  PROVE  a \o b = s
<1>1. /\ a \o b \in Seq(L) /\ Len(a \o b) = Len(a) + Len(b)
      /\ \A i \in 1..Len(a) + Len(b) :
           (a \o b)[i] = IF i <= Len(a) THEN a[i] ELSE b[i - Len(a)]
  BY ConcatProperties
<1>2. ASSUME NEW i \in 1..Len(s) PROVE (a \o b)[i] = s[i]
  <2>1. CASE i <= Len(a)
    BY <1>1, <2>1
  <2>2. CASE i > Len(a)
    <3>1. i - Len(a) \in 1..Len(b) /\ Len(a) + (i - Len(a)) = i
      BY <2>2
    <3>2. s[Len(a) + (i - Len(a))] = b[i - Len(a)]
      BY <3>1
    <3> QED BY <1>1, <2>2, <3>1, <3>2
  <2> QED BY <2>1, <2>2
<1> QED BY <1>1, <1>2, SeqEqual

\* The same for three parts.
LEMMA JoinThree ==
  ASSUME NEW L, NEW a \in Seq(L), NEW b \in Seq(L), NEW c \in Seq(L), NEW s \in Seq(L),
         Len(s) = Len(a) + Len(b) + Len(c),
         \A i \in 1..Len(a) : s[i] = a[i],
         \A i \in 1..Len(b) : s[Len(a) + i] = b[i],
         \A i \in 1..Len(c) : s[Len(a) + Len(b) + i] = c[i]
  PROVE  a \o b \o c = s
<1>1. /\ a \o b \in Seq(L) /\ Len(a \o b) = Len(a) + Len(b)
      /\ \A i \in 1..Len(a) + Len(b) :
           (a \o b)[i] = IF i <= Len(a) THEN a[i] ELSE b[i - Len(a)]
  BY ConcatProperties
<1>2. ASSUME NEW p \in Seq(L), p = a \o b PROVE p \o c = s
  <2>1. /\ Len(p) = Len(a) + Len(b)
        /\ \A i \in 1..Len(a) + Len(b) : p[i] = IF i <= Len(a) THEN a[i] ELSE b[i - Len(a)]
    BY <1>1, <1>2
  <2>2. ASSUME NEW i \in 1..Len(p) PROVE s[i] = p[i]
    <3>1. CASE i <= Len(a)
      <4>1. i \in 1..Len(a) /\ i \in 1..Len(a) + Len(b)
        BY <2>1, <3>1
      <4> QED BY <2>1, <3>1, <4>1
    <3>2. CASE i > Len(a)
      <4>1. i - Len(a) \in 1..Len(b) /\ Len(a) + (i - Len(a)) = i
        BY <2>1, <3>2
      <4>2. s[Len(a) + (i - Len(a))] = b[i - Len(a)]
        BY <4>1
      <4> QED BY <2>1, <3>2, <4>1, <4>2
    <3> QED BY <2>1, <3>1, <3>2
  <2>3. Len(s) = Len(p) + Len(c) /\ \A i \in 1..Len(c) : s[Len(p) + i] = c[i]
    BY <2>1
  <2> QED BY <2>2, <2>3, JoinTwo
<1> QED BY <1>1, <1>2

\* The order position by position is what DispatchInOrder says.
LEMMA OrderMeans == ClientTypes /\ OrderInv => DispatchInOrder
<1> SUFFICES ASSUME ClientTypes, OrderInv, ~stop
             PROVE  LET held == IF readPc = "dispatch" THEN <<readLine.id>> ELSE <<>>
                        ids  == [i \in DOMAIN dispatchCh |-> dispatchCh[i].id]
                    IN  taken \o ids \o held = queued
  BY DEF DispatchInOrder
<1> DEFINE held == IF readPc = "dispatch" THEN <<readLine.id>> ELSE <<>>
           ids  == [i \in DOMAIN dispatchCh |-> dispatchCh[i].id]
           L    == 1..MaxLines
<1>1. /\ taken \in Seq(L) /\ queued \in Seq(L) /\ dispatchCh \in Seq(Dispatched) /\ InOrder
  BY DEF ClientTypes, TypeOK, OrderInv
<1>2. /\ ids \in Seq(L) /\ Len(ids) = Len(dispatchCh)
      /\ \A i \in 1..Len(dispatchCh) : ids[i] = dispatchCh[i].id
  <2>1. \A i \in 1..Len(dispatchCh) : dispatchCh[i].id \in L
    BY <1>1, FieldFacts
  <2>2. ids = [i \in 1..Len(dispatchCh) |-> dispatchCh[i].id] /\ Len(dispatchCh) \in Nat
    BY <1>1
  <2> HIDE DEF ids, L
  <2> QED BY <2>1, <2>2
<1>3. /\ held \in Seq(L) /\ Len(held) = IF readPc = "dispatch" THEN 1 ELSE 0
      /\ readPc = "dispatch" => held[1] = readLine.id
  <2>1. CASE readPc = "dispatch"
    <3>1. readLine.id \in L /\ held = <<readLine.id>>
      <4>1. readLine.id \in L
        BY <2>1, FieldFacts DEF ClientTypes
      <4> QED BY <2>1, <4>1
    <3> HIDE DEF held, L
    <3> QED BY <2>1, <3>1
  <2>2. CASE readPc # "dispatch"
    BY <2>2
  <2> QED BY <2>1, <2>2
<1> HIDE DEF held, ids, L
<1>4. /\ Len(queued) = Len(taken) + Len(ids) + Len(held)
      /\ \A i \in 1..Len(taken) : queued[i] = taken[i]
      /\ \A i \in 1..Len(ids) : queued[Len(taken) + i] = ids[i]
  BY <1>1, <1>2, <1>3 DEF InOrder
<1>5. \A i \in 1..Len(held) : queued[Len(taken) + Len(ids) + i] = held[i]
  <2>1. CASE readPc = "dispatch"
    <3>1. queued[Len(taken) + Len(ids) + 1] = held[1] /\ Len(held) = 1
      BY <1>1, <1>2, <1>3, <2>1 DEF InOrder
    <3> QED BY <3>1
  <2>2. CASE readPc # "dispatch"
    BY <1>3, <2>2
  <2> QED BY <2>1, <2>2
<1>6. taken \o ids \o held = queued
  BY ZenonT(30), <1>1, <1>2, <1>3, <1>4, <1>5, JoinThree
<1> QED BY <1>6 DEF held, ids

\* In every behaviour, until Shutdown, Dispatch is handed the events and requests
\* readerLoop has read in the order of the wire, none lost and none twice, for
\* any capacity of dispatchCh and however slow the Handler is.
THEOREM DispatchOrdered == Spec => []DispatchInOrder
<1>1. Init => OrderInv
  BY DEF Init, OrderInv, InOrder
<1>2. ClientTypes /\ OrderInv /\ [Next]_vars => OrderInv'
  BY OrderKept, OrderUntouched
<1> QED BY <1>1, <1>2, OrderMeans, InitTyped, StepTyped, PTL DEF Spec
=============================================================================
