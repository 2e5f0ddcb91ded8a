------------------------------ MODULE WireClient ------------------------------
(***************************************************************************)
(* The Wire protocol client (client.go, dispatch.go): the goroutines       *)
(*                                                                         *)
(*   readerLoop  reads lines; hands a response to the call that waits for  *)
(*               its id, or keeps it in oooBuffer; queues events and       *)
(*               requests on dispatchCh;                                   *)
(*   calls       Initialize, Prompt, Steer, ...: write the request, then   *)
(*               readResponse;                                             *)
(*   Dispatch    takes dispatchCh, runs the Handler, answers requests;     *)
(*   Shutdown    closes stopCh and the transport, waits for readerLoop.    *)
(*                                                                         *)
(* A step is what one goroutine does between two points where another can  *)
(* observe it: a section under c.mu, a channel operation or one write.     *)
(* The peer is free: it answers in any order, early, late, twice or never. *)
(***************************************************************************)
EXTENDS Naturals, Sequences, FiniteSets

CONSTANTS
  MaxCalls,     \* bound: calls the application makes
  MaxLines,     \* bound: lines the peer sends
  DispatchCap,  \* capacity of dispatchCh (1024 in the code)
  PeerTags,     \* kinds of line the peer sends
  PeerAnswers,  \* kinds of answer in its responses
  InitCalls,    \* the calls that are Initialize
  TimedCalls,   \* calls with a deadline, their own or WithDefaultTimeout
  RunsDispatch, \* the application runs Dispatch
  Faults        \* what may go wrong (see Mishaps)

\* A response; an event or a request; one of these whose params do not parse;
\* a method the client does not know; a line that is not JSON.
Tags == {"response", "event", "request", "malformed", "unknown", "garbage"}

\* The peer hangs up or ReadLine fails; WriteLine fails at any time; Shutdown
\* is called; the Handler returns an error; Dispatch's context is cancelled;
\* Shutdown's context ends; the application calls ReadRawMessage.
Mishaps == {"hangup", "write", "shutdown", "handler", "dispatch_ctx",
            "shutdown_ctx", "read_raw"}

\* What a response says: a result that decodes, one that is missing or does
\* not decode, an error, or the error code MethodNotFound.
Answers == {"ok", "bad_result", "error", "not_found"}

ASSUME ClientAssumption ==
  /\ MaxCalls \in Nat \ {0} /\ MaxLines \in Nat /\ DispatchCap \in Nat \ {0}
  /\ PeerTags \subseteq Tags /\ PeerAnswers \subseteq Answers
  /\ InitCalls \subseteq 1..MaxCalls /\ TimedCalls \subseteq 1..MaxCalls
  /\ RunsDispatch \in BOOLEAN /\ Faults \subseteq Mishaps

\* nextID counts up, so a call is named by the number of its id.
Calls == 1..MaxCalls

Response(c, a) == [tag |-> "response", id |-> c, says |-> a]
Message(t, n)  == [tag |-> t, id |-> n, says |-> "none"]  \* n numbers the lines
NoLine         == Message("none", 0)

Outcomes == Answers \cup {"legacy", "read_error", "write_error", "timeout"}

VARIABLES
  inbox,         \* lines sent by the peer and not yet read
  nsent,         \* lines the peer has sent
  hungup,        \* the peer has closed its end
  closed,        \* our end of the transport is closed
  readPc,        \* readerLoop: "read", "dispatch", "deliver", "fail", "done"
  readLine,      \* the line it is about to pass on
  toFail,        \* pendingCopy of closePending
  oooBuffer,     \* responses that came before anybody waited for them
  pending,       \* calls registered in c.pending
  ch,            \* what the channel of each call holds (capacity 1)
  ncalls,        \* requestCounter
  callPc,        \* where each call is
  outcome,       \* what each call returns
  handshakeDone,
  dispatchCh,    \* lines waiting for Dispatch
  queued,        \* numbers of the lines readerLoop had to queue, in order
  taken,         \* numbers of the lines Dispatch has taken, in order
  dispPc,        \* Dispatch: "select", "event", "request" or "done"
  replied,       \* numbers of the requests Dispatch has answered
  stop,          \* stopCh is closed
  shutPc         \* Shutdown: "none", "close", "wait" or "returned"

peerVars == <<inbox, nsent, hungup>>
readVars == <<readPc, readLine, toFail, queued>>
callVars == <<ncalls, callPc, outcome, handshakeDone>>
dispVars == <<taken, dispPc, replied>>
shutVars == <<stop, shutPc, closed>>
vars == <<peerVars, readVars, callVars, dispVars, shutVars,
          oooBuffer, pending, ch, dispatchCh>>

-----------------------------------------------------------------------------
(***************************************************************************)
(* The peer and the transport.                                             *)
(***************************************************************************)
Sends(line) ==
  /\ nsent < MaxLines /\ ~hungup
  /\ nsent' = nsent + 1
  /\ inbox' = Append(inbox, line)
  /\ UNCHANGED <<hungup, readVars, callVars, dispVars, shutVars, oooBuffer,
                 pending, ch, dispatchCh>>

PeerSends ==
  \/ "response" \in PeerTags /\ \E c \in Calls, a \in PeerAnswers : Sends(Response(c, a))
  \/ \E t \in PeerTags \ {"response"} : Sends(Message(t, nsent + 1))

PeerHangsUp ==
  /\ "hangup" \in Faults /\ ~hungup /\ hungup' = TRUE
  /\ UNCHANGED <<inbox, nsent, readVars, callVars, dispVars, shutVars, oooBuffer,
                 pending, ch, dispatchCh>>

CanWrite == ~closed
CanFail  == closed \/ "write" \in Faults

-----------------------------------------------------------------------------
(***************************************************************************)
(* readerLoop.                                                             *)
(***************************************************************************)
\* ReadLine returns a line of one of the given kinds.
Reads(tags) ==
  /\ readPc = "read" /\ inbox # <<>> /\ Head(inbox).tag \in tags
  /\ inbox' = Tail(inbox)
  /\ UNCHANGED <<nsent, hungup, callVars, dispVars, shutVars, ch, dispatchCh>>

\* Mutant: only the most recent call is known.
ReadResponse_LastOnly ==
  /\ Reads({"response"})
  /\ LET line == Head(inbox) IN
     IF line.id \in pending /\ line.id = ncalls
       THEN readPc' = "deliver" /\ readLine' = line /\ UNCHANGED oooBuffer
       ELSE oooBuffer' = Append(oooBuffer, line) /\ UNCHANGED <<readPc, readLine>>
  /\ UNCHANGED <<toFail, queued, pending>>

\* The id is looked up under c.mu; the entry is not removed.
ReadResponse ==
  /\ Reads({"response"})
  /\ LET line == Head(inbox) IN
     IF line.id \in pending
       THEN readPc' = "deliver" /\ readLine' = line /\ UNCHANGED oooBuffer
       ELSE oooBuffer' = Append(oooBuffer, line) /\ UNCHANGED <<readPc, readLine>>
  /\ UNCHANGED <<toFail, queued, pending>>

ReadMessage ==
  /\ Reads({"event", "request", "malformed"})
  /\ readPc' = "dispatch" /\ readLine' = Head(inbox)
  /\ queued' = Append(queued, Head(inbox).id)
  /\ UNCHANGED <<toFail, oooBuffer, pending>>

ReadUnknown == Reads({"unknown"}) /\ UNCHANGED <<readVars, oooBuffer, pending>>

\* Mutant: the entries are deleted before they are copied.
ClosePending_Empty ==
  /\ readPc' = "fail" /\ toFail' = {} /\ pending' = {}
  /\ UNCHANGED <<readLine, queued, oooBuffer>>

\* closePending: the section under c.mu.
ClosePending ==
  /\ readPc' = "fail" /\ toFail' = pending /\ pending' = {}
  /\ UNCHANGED <<readLine, queued, oooBuffer>>

ReadGarbage == Reads({"garbage"}) /\ ClosePending

\* ReadLine fails: the peer hung up and everything it sent has been read, or
\* our own end is closed.
ReadFails ==
  /\ readPc = "read" /\ ((hungup /\ inbox = <<>>) \/ closed)
  /\ ClosePending
  /\ UNCHANGED <<peerVars, callVars, dispVars, shutVars, ch, dispatchCh>>

\* closePending: one send that does not block per copied entry, in any order.
FailCall(c) ==
  /\ readPc = "fail" /\ c \in toFail
  /\ toFail' = toFail \ {c}
  /\ ch' = IF ch[c] = <<>> THEN [ch EXCEPT ![c] = <<"read_error">>] ELSE ch
  /\ UNCHANGED <<peerVars, readPc, readLine, queued, callVars, dispVars, shutVars,
                 oooBuffer, pending, dispatchCh>>

ReaderStep(from, to) ==
  /\ readPc = from /\ readPc' = to
  /\ UNCHANGED <<peerVars, readLine, toFail, queued, callVars, dispVars, shutVars,
                 oooBuffer, pending>>

\* readerLoop is over: its deferred functions close dispatchCh and readerDone.
PendingClosed == ReaderStep("fail", "done") /\ toFail = {} /\ UNCHANGED <<ch, dispatchCh>>

Deliver ==
  /\ ReaderStep("deliver", "read") /\ ch[readLine.id] = <<>>
  /\ ch' = [ch EXCEPT ![readLine.id] = <<readLine.says>>]
  /\ UNCHANGED dispatchCh

\* Mutant: a full dispatchCh drops the message.
Queue_Drops ==
  /\ ReaderStep("dispatch", "read")
  /\ dispatchCh' = IF Len(dispatchCh) < DispatchCap THEN Append(dispatchCh, readLine)
                                                    ELSE dispatchCh
  /\ UNCHANGED ch

\* Mutant: dispatchCh has no bound.
Queue_Unbounded ==
  /\ ReaderStep("dispatch", "read")
  /\ dispatchCh' = Append(dispatchCh, readLine)
  /\ UNCHANGED ch

Queue ==
  /\ ReaderStep("dispatch", "read") /\ Len(dispatchCh) < DispatchCap
  /\ dispatchCh' = Append(dispatchCh, readLine)
  /\ UNCHANGED ch

\* Mutant: readerLoop does not watch stopCh while it passes a line on.
ReaderStopped_Missing == FALSE /\ UNCHANGED vars

\* stopCh is closed: readerLoop returns, and does not run closePending.
ReaderStopped ==
  /\ stop /\ (ReaderStep("deliver", "done") \/ ReaderStep("dispatch", "done"))
  /\ UNCHANGED <<ch, dispatchCh>>

-----------------------------------------------------------------------------
(***************************************************************************)
(* Calls.                                                                  *)
(***************************************************************************)
CallStep(c, from, to) ==
  /\ callPc[c] = from /\ callPc' = [callPc EXCEPT ![c] = to]
  /\ UNCHANGED <<peerVars, readVars, ncalls, dispVars, shutVars, dispatchCh>>

\* Initialize takes MethodNotFound for a server without a handshake.
Outcome(c, m) == IF c \in InitCalls /\ m = "not_found" THEN "legacy" ELSE m

Leaves(c, from, to, o) ==
  /\ CallStep(c, from, to)
  /\ outcome' = [outcome EXCEPT ![c] = o]
  /\ handshakeDone' = (handshakeDone \/ (c \in InitCalls /\ o \in {"ok", "legacy"}))

\* nextID, then writeMessage: nobody waits for the answer yet.
WriteRequest ==
  LET c == ncalls + 1 IN
  /\ ncalls < MaxCalls /\ ncalls' = c
  /\ \/ CanWrite /\ callPc' = [callPc EXCEPT ![c] = "written"] /\ UNCHANGED outcome
     \/ /\ CanFail
        /\ callPc' = [callPc EXCEPT ![c] = "returned"]
        /\ outcome' = [outcome EXCEPT ![c] = "write_error"]
  /\ UNCHANGED <<peerVars, readVars, handshakeDone, dispVars, shutVars, oooBuffer,
                 pending, ch, dispatchCh>>

Buffered(c) == {i \in DOMAIN oooBuffer : oooBuffer[i].id = c}

\* Mutant: the call registers without a look at oooBuffer.
Register_NoLook(c) ==
  /\ CallStep(c, "written", "wait")
  /\ pending' = pending \cup {c}
  /\ UNCHANGED <<outcome, handshakeDone, oooBuffer, ch>>

\* readResponse, the section under c.mu: take the first response with our id
\* from oooBuffer, or register the channel.
Register(c) ==
  \/ \E i \in Buffered(c) :
       /\ \A j \in Buffered(c) : i <= j
       /\ oooBuffer' = SubSeq(oooBuffer, 1, i - 1)
                       \o SubSeq(oooBuffer, i + 1, Len(oooBuffer))
       /\ Leaves(c, "written", "returned", Outcome(c, oooBuffer[i].says))
       /\ UNCHANGED <<pending, ch>>
  \/ /\ Buffered(c) = {}
     /\ CallStep(c, "written", "wait")
     /\ pending' = pending \cup {c}
     /\ UNCHANGED <<outcome, handshakeDone, oooBuffer, ch>>

Receive(c) ==
  /\ ch[c] # <<>>
  /\ Leaves(c, "wait", "cleanup", Outcome(c, Head(ch[c])))
  /\ ch' = [ch EXCEPT ![c] = <<>>]
  /\ UNCHANGED <<oooBuffer, pending>>

Timeout(c) ==
  /\ c \in TimedCalls
  /\ Leaves(c, "wait", "cleanup", "timeout")
  /\ UNCHANGED <<oooBuffer, pending, ch>>

\* Mutant: the channel is not drained.
Cleanup_NoDrain(c) ==
  /\ CallStep(c, "cleanup", "returned")
  /\ pending' = pending \ {c}
  /\ UNCHANGED <<outcome, handshakeDone, oooBuffer, ch>>

\* The deferred function: delete and drain, both under c.mu.
Cleanup(c) ==
  /\ CallStep(c, "cleanup", "returned")
  /\ pending' = pending \ {c}
  /\ ch' = [ch EXCEPT ![c] = <<>>]
  /\ UNCHANGED <<outcome, handshakeDone, oooBuffer>>

\* ReadRawMessage takes a line away from readerLoop.
ReadRawMessage ==
  /\ "read_raw" \in Faults /\ inbox # <<>> /\ inbox' = Tail(inbox)
  /\ UNCHANGED <<nsent, hungup, readVars, callVars, dispVars, shutVars, oooBuffer,
                 pending, ch, dispatchCh>>

-----------------------------------------------------------------------------
(***************************************************************************)
(* Dispatch.                                                               *)
(***************************************************************************)
DispStep(from, to) ==
  /\ dispPc = from /\ dispPc' = to
  /\ UNCHANGED <<peerVars, readVars, callVars, shutVars, oooBuffer, pending, ch>>

\* What Dispatch does with a line: a malformed one is dropped.
Handling(line) == IF line.tag = "malformed" THEN "select" ELSE line.tag

Take ==
  /\ dispatchCh # <<>>
  /\ DispStep("select", Handling(Head(dispatchCh)))
  /\ dispatchCh' = Tail(dispatchCh)
  /\ taken' = Append(taken, Head(dispatchCh).id)
  /\ UNCHANGED replied

\* dispatchCh is closed and drained, or the context is done.
DispatchEnds ==
  /\ (dispatchCh = <<>> /\ readPc = "done") \/ "dispatch_ctx" \in Faults
  /\ DispStep("select", "done")
  /\ UNCHANGED <<dispatchCh, taken, replied>>

EventHandled ==
  /\ DispStep("event", "select") \/ ("handler" \in Faults /\ DispStep("event", "done"))
  /\ UNCHANGED <<dispatchCh, taken, replied>>

\* Mutant: a request the handler fails on is not answered.
RequestHandled_NoError ==
  /\ \/ /\ CanWrite /\ DispStep("request", "select")
        /\ replied' = replied \cup {taken[Len(taken)]}
     \/ CanFail /\ DispStep("request", "done") /\ UNCHANGED replied
     \/ DispStep("request", "select") /\ UNCHANGED replied
  /\ UNCHANGED <<dispatchCh, taken>>

\* SendResponse, or SendError when the handler failed.
RequestHandled ==
  /\ \/ /\ CanWrite /\ DispStep("request", "select")
        /\ replied' = replied \cup {taken[Len(taken)]}
     \/ CanFail /\ DispStep("request", "done") /\ UNCHANGED replied
  /\ UNCHANGED <<dispatchCh, taken>>

-----------------------------------------------------------------------------
(***************************************************************************)
(* Shutdown.                                                               *)
(***************************************************************************)
ShutStep(from, to) ==
  /\ shutPc = from /\ shutPc' = to
  /\ UNCHANGED <<peerVars, readVars, callVars, dispVars, oooBuffer, pending, ch,
                 dispatchCh>>

Shutdown ==
  "shutdown" \in Faults /\ ShutStep("none", "close") /\ stop' = TRUE /\ UNCHANGED closed

ShutCloses == ShutStep("close", "wait") /\ closed' = TRUE /\ UNCHANGED stop

ShutReturns ==
  /\ readPc = "done" \/ "shutdown_ctx" \in Faults
  /\ ShutStep("wait", "returned") /\ UNCHANGED <<stop, closed>>

-----------------------------------------------------------------------------
Init ==
  /\ inbox = <<>> /\ nsent = 0 /\ hungup = FALSE
  /\ readPc = "read" /\ readLine = NoLine /\ toFail = {} /\ queued = <<>>
  /\ oooBuffer = <<>> /\ pending = {} /\ ch = [c \in Calls |-> <<>>]
  /\ ncalls = 0 /\ handshakeDone = FALSE
  /\ callPc = [c \in Calls |-> "none"] /\ outcome = [c \in Calls |-> "none"]
  /\ dispatchCh = <<>> /\ taken = <<>> /\ replied = {}
  /\ dispPc = IF RunsDispatch THEN "select" ELSE "done"
  /\ stop = FALSE /\ shutPc = "none" /\ closed = FALSE

Reader ==
  \/ ReadResponse \/ ReadMessage \/ ReadUnknown \/ ReadGarbage \/ ReadFails
  \/ PendingClosed \/ Deliver \/ Queue \/ ReaderStopped
  \/ \E c \in Calls : FailCall(c)

CallRuns(c) == Register(c) \/ Receive(c) \/ Timeout(c) \/ Cleanup(c)

Dispatch == Take \/ EventHandled \/ RequestHandled \/ DispatchEnds

ShutRuns == ShutCloses \/ ShutReturns

\* No goroutine can run: readerLoop has ended, waits for the peer, or waits for
\* a Dispatch that does not run; every call has returned or waits.
Terminated ==
  /\ \/ readPc = "done"
     \/ readPc = "read" /\ inbox = <<>>
     \/ readPc = "dispatch" /\ dispPc = "done"
  /\ \A c \in Calls : callPc[c] \in {"none", "wait", "returned"}
  /\ UNCHANGED vars

Next ==
  \/ PeerSends \/ PeerHangsUp \/ Reader \/ Dispatch \/ Shutdown \/ ShutRuns
  \/ WriteRequest \/ ReadRawMessage \/ Terminated
  \/ \E c \in Calls : CallRuns(c)

Spec == Init /\ [][Next]_vars

\* Goroutines that can run do run, a blocked select is served, the Handler
\* returns and deadlines pass.  Nothing is asked of the peer or of the
\* application, and no context without a deadline ends.
Fairness ==
  /\ WF_vars(Reader) /\ WF_vars(Dispatch) /\ WF_vars(ShutRuns)
  /\ \A c \in Calls : WF_vars(CallRuns(c))

FairSpec == Spec /\ Fairness

-----------------------------------------------------------------------------
(***************************************************************************)
(* Properties.                                                             *)
(***************************************************************************)
CallPcs == {"none", "written", "wait", "cleanup", "returned"}
LineSet == {Response(c, a) : c \in Calls, a \in Answers}
           \cup {Message(t, n) : t \in Tags \ {"response"}, n \in 1..MaxLines}

\* Every variable has its type; dispatchCh and the channel of a call stay
\* within their capacities.
TypeOK ==
  /\ inbox \in Seq(LineSet) /\ nsent \in 0..MaxLines /\ hungup \in BOOLEAN
  /\ readPc \in {"read", "dispatch", "deliver", "fail", "done"}
  /\ readLine \in LineSet \cup {NoLine} /\ toFail \subseteq Calls
  /\ oooBuffer \in Seq({Response(c, a) : c \in Calls, a \in Answers})
  /\ pending \subseteq Calls
  /\ \A c \in Calls : ch[c] = <<>> \/ \E a \in Answers \cup {"read_error"} : ch[c] = <<a>>
  /\ ncalls \in 0..MaxCalls /\ handshakeDone \in BOOLEAN
  /\ callPc \in [Calls -> CallPcs] /\ outcome \in [Calls -> Outcomes \cup {"none"}]
  /\ dispatchCh \in Seq(LineSet) /\ Len(dispatchCh) <= DispatchCap
  /\ queued \in Seq(1..MaxLines) /\ taken \in Seq(1..MaxLines)
  /\ dispPc \in {"select", "event", "request", "done"}
  /\ replied \subseteq 1..MaxLines
  /\ stop \in BOOLEAN /\ closed \in BOOLEAN
  /\ shutPc \in {"none", "close", "wait", "returned"}

\* A response is never parked where its call will not look: while a call waits
\* on its channel, oooBuffer holds nothing for it, and unless closePending has
\* taken it the call is still registered, so the next response finds it.  This
\* is what the single section under c.mu in readResponse is for.
NoResponseMissed ==
  \A c \in Calls : callPc[c] = "wait" =>
    /\ Buffered(c) = {}
    /\ c \in pending \/ readPc \in {"fail", "done"}

\* Dispatch is handed every event and request readerLoop has read, in the order
\* of the wire and exactly once: a full dispatchCh holds readerLoop back instead
\* of losing messages (until Shutdown).
DispatchInOrder ==
  LET held == IF readPc = "dispatch" THEN <<readLine.id>> ELSE <<>>
      ids  == [i \in DOMAIN dispatchCh |-> dispatchCh[i].id]
  IN  ~stop => taken \o ids \o held = queued

\* readerLoop is never stuck on the channel of a call that has given up, even
\* when the peer answers the same call more than once.
DeliverEnds == readPc = "deliver" ~> readPc # "deliver"

\* When readerLoop ends because of a read error or an unparsable line, every
\* call that waited while it was reading returns.
TransportErrorReleases ==
  \A c \in Calls :
    [](callPc[c] = "wait" /\ readPc = "read"
         => (<>(readPc = "done") => <>(callPc[c] = "returned" \/ stop)))

\* A response the peer has sent reaches the call that waits for it, whatever
\* is on the wire before it.
ResponseDelivered ==
  \A c \in Calls :
    callPc[c] = "wait" /\ (\E i \in DOMAIN inbox : inbox[i].id = c /\ inbox[i].tag = "response")
      ~> callPc[c] = "returned" \/ stop

\* After Shutdown, readerLoop and Dispatch end and Shutdown returns, whatever
\* the peer has sent and however full dispatchCh is.
ShutdownEnds == stop ~> shutPc = "returned" /\ readPc = "done" /\ dispPc = "done"

\* After Shutdown every call returns.
ShutdownReleasesCalls == \A c \in Calls : stop /\ callPc[c] = "wait" ~> callPc[c] = "returned"

\* Every request handed to Dispatch is answered, unless Dispatch ends.
RequestsReplied ==
  \A n \in 1..MaxLines :
    (\E i \in DOMAIN dispatchCh : dispatchCh[i] = Message("request", n))
      ~> n \in replied \/ dispPc = "done"
=============================================================================
