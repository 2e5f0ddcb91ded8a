------------------------- MODULE ServerRequestsProofs -------------------------
(***************************************************************************)
(* Proofs about the requests the server sends to its client: for any       *)
(* number of calls and responses, s.pending holds exactly calls that have  *)
(* been sent nothing, and readLoop never waits in routeResponse.           *)
(***************************************************************************)
EXTENDS ServerRequests, TLAPS

\* The values that routes and channels take.
LEMMA Values ==
  /\ NoRoute \in Routes /\ NoRoute.call = None /\ None \notin Calls
  /\ <<>> \in Chans /\ <<ReadError>> \in Chans
  /\ \A c \in Calls, b \in Bodies :
       [call |-> c, body |-> b] \in Routes /\ [call |-> c, body |-> b].call = c
  /\ \A b \in Bodies : <<b>> \in Chans
  /\ \A x \in Routes : x.call \in Calls \cup {None} /\ x.body \in Bodies
  <1>1. ReadError \in Bodies
    BY DEF Bodies
  <1>2. None \notin Calls
    BY RequestsAssumption DEF None, Calls
  <1> QED
    BY <1>1, <1>2 DEF NoRoute, Routes, Chans

\* No call has been made when Serve starts.
LEMMA InitRequests == Init => RequestsInv
  <1> SUFFICES ASSUME Init PROVE RequestsInv
    OBVIOUS
  <1>1. TypeOK
    <2>1. nresp \in 0..MaxResponses /\ ncalls \in 0..MaxCalls
      BY RequestsAssumption DEF Init
    <2>2. /\ kind \in [Calls -> AllKinds \cup {"none"}] /\ callPc \in [Calls -> CallPcs]
          /\ outcome \in [Calls -> Outcomes \cup {"none"}] /\ ch \in [Calls -> Chans]
      BY Values DEF Init, CallPcs
    <2>3. callDone \in [Calls -> BOOLEAN]
      BY DEF Init
    <2> QED
      BY <2>1, <2>2, <2>3, Values DEF Init, TypeOK
  <1> QED
    BY <1>1, Values, RequestsAssumption DEF Init, RequestsInv, PendingIsUnanswered,
       RouteNeverBlocks

\* The steps of a call: it registers under a number nobody has used, and leaves
\* its entry behind in no case.
LEMMA CallKeeps ==
  ASSUME RequestsInv,
         \/ \E k \in Kinds : Call(k)
         \/ \E c \in Calls : CallRuns(c) \/ CtxExpires(c)
  PROVE  RequestsInv'
  <1> USE RequestsAssumption DEF RequestsInv, TypeOK, PendingIsUnanswered, RouteNeverBlocks,
          CallPcs, readVars, serveVars
  <1>1. ASSUME NEW k \in Kinds, Call(k) PROVE RequestsInv'
    <2>1. ncalls + 1 \in Calls
      BY <1>1 DEF Call, Calls
    <2>2. k \in AllKinds
      OBVIOUS
    <2>3. callPc[ncalls + 1] = "none"
      BY <2>1
    <2>4. TypeOK'
      <3>1. ncalls' \in 0..MaxCalls
        BY <1>1 DEF Call
      <3>2. /\ kind' \in [Calls -> AllKinds \cup {"none"}]
            /\ callPc' \in [Calls -> CallPcs]
            /\ outcome' \in [Calls -> Outcomes \cup {"none"}]
        BY <1>1, <2>1, <2>2 DEF Call, Outcomes
      <3>3. pending' \subseteq Calls
        BY <1>1, <2>1 DEF Call
      <3> QED
        BY <1>1, <3>1, <3>2, <3>3 DEF Call
    <2>5. PendingIsUnanswered' /\ RouteNeverBlocks'
      BY <1>1, <2>1, <2>3 DEF Call
    <2>6. \A c \in Calls : ncalls' < c => callPc'[c] = "none"
      <3>1. \A c \in Calls : ncalls + 1 < c => c # ncalls + 1 /\ ncalls < c
        BY DEF Calls
      <3> QED
        BY <1>1, <2>1, <3>1 DEF Call
    <2>7. \A c \in Calls : callPc'[c] = "none" => callPc[c] = "none"
      BY <1>1, <2>1, <2>3 DEF Call
    <2> QED
      BY <1>1, <2>4, <2>5, <2>6, <2>7 DEF Call
  <1>2. ASSUME NEW c \in Calls, WriteRequest(c) PROVE RequestsInv'
    BY <1>2 DEF WriteRequest, CallStep, Leaves, Outcomes
  <1>3. ASSUME NEW c \in Calls, Receive(c) PROVE RequestsInv'
    <2>1. PICK b \in Bodies : ch[c] = <<b>>
      BY <1>3 DEF Receive, Chans
    <2>2. Decode(c, Head(ch[c])) \in Outcomes
      BY <2>1 DEF Decode, Bodies, Result, Failure, ReadError, Outcomes
    <2> QED
      BY Values, <1>3, <2>2 DEF Receive, CallStep, Leaves
  <1>4. ASSUME NEW c \in Calls, GiveUp(c) \/ ServeOver(c) PROVE RequestsInv'
    BY <1>4 DEF GiveUp, ServeOver, CallStep, Leaves, Outcomes
  <1>5. ASSUME NEW c \in Calls, Unregister(c) \/ Drain(c) PROVE RequestsInv'
    BY Values, <1>5 DEF Unregister, Drain, CallStep
  <1>6. ASSUME NEW c \in Calls, CtxExpires(c) PROVE RequestsInv'
    BY <1>6 DEF CtxExpires
  <1> QED
    BY <1>1, <1>2, <1>3, <1>4, <1>5, <1>6 DEF CallRuns

\* The steps of readLoop: a response takes its call out of s.pending before it
\* is sent, so a repeated one finds nobody.
LEMMA ReadLoopKeeps == RequestsInv /\ ReadLoop => RequestsInv'
  <1> SUFFICES ASSUME RequestsInv, ReadLoop PROVE RequestsInv'
    OBVIOUS
  <1> USE DEF RequestsInv, TypeOK, PendingIsUnanswered, RouteNeverBlocks, serveVars, callVars
  <1>1. ASSUME NEW id \in Calls, NEW body \in Bodies, ReadResponse(id, body)
        PROVE  RequestsInv'
    BY Values, <1>1, RequestsAssumption DEF ReadResponse
  <1>2. ASSUME RouteSend PROVE RequestsInv'
    BY Values, <1>2 DEF RouteSend
  <1>3. ASSUME RouteDropped PROVE RequestsInv'
    BY Values, <1>3 DEF RouteDropped
  <1>4. ASSUME NEW io \in BOOLEAN, ReadEnds(io) PROVE RequestsInv'
    BY <1>4 DEF ReadEnds
  <1> QED
    BY <1>1, <1>2, <1>3, <1>4 DEF ReadLoop, ReadEOF, ReadIOError, ReadCancelled

\* The steps of Serve: closePending takes over whole entries of s.pending.
LEMMA ServeKeeps == RequestsInv /\ (Serve \/ CtxCancel) => RequestsInv'
  <1> SUFFICES ASSUME RequestsInv, Serve \/ CtxCancel PROVE RequestsInv'
    OBVIOUS
  <1> USE DEF RequestsInv, TypeOK, PendingIsUnanswered, RouteNeverBlocks, readVars, callVars
  <1>1. ASSUME ServeCancels PROVE RequestsInv'
    BY <1>1 DEF ServeCancels
  <1>2. ASSUME ClosePending PROVE RequestsInv'
    BY Values, <1>2 DEF ClosePending
  <1>3. ASSUME PendingClosed PROVE RequestsInv'
    BY <1>3 DEF PendingClosed
  <1>4. ASSUME NEW c \in Calls, FailCall(c) PROVE RequestsInv'
    BY Values, <1>4 DEF FailCall
  <1>5. ASSUME CtxCancel PROVE RequestsInv'
    BY <1>5 DEF CtxCancel
  <1> QED
    BY <1>1, <1>2, <1>3, <1>4, <1>5 DEF Serve

\* RequestsInv is inductive and holds in every reachable state.
THEOREM RequestsInvariance == Spec => []RequestsInv
  <1>1. RequestsInv /\ [Next]_vars => RequestsInv'
    <2> SUFFICES ASSUME RequestsInv, [Next]_vars PROVE RequestsInv'
      OBVIOUS
    <2>1. CASE UNCHANGED vars
      BY <2>1 DEF vars, readVars, serveVars, callVars, RequestsInv, TypeOK,
         PendingIsUnanswered, RouteNeverBlocks
    <2> QED
      BY <2>1, CallKeeps, ReadLoopKeeps, ServeKeeps DEF Next, Terminated
  <1> QED
    BY <1>1, InitRequests, PTL DEF Spec

\* A call in s.pending is under way and has been sent nothing, neither by
\* routeResponse nor by closePending; a call that is over has no entry.
THEOREM PendingCorrect == Spec => []PendingIsUnanswered
  BY RequestsInvariance, PTL DEF RequestsInv

\* The channel routeResponse was handed is empty: readLoop never waits there,
\* however often and however late the client answers.
THEOREM RouteFree == Spec => []RouteNeverBlocks
  BY RequestsInvariance, PTL DEF RequestsInv
=============================================================================
