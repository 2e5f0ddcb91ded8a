---------------------------- MODULE ServerRequests ----------------------------
(***************************************************************************)
(* The requests the server sends to its client (server/request.go) and the *)
(* way responses come back (readLoop, routeResponse, closePending in       *)
(* server/server.go).  The goroutines of an agent call RequestApproval,    *)
(* CallExternalTool, AskQuestion and TriggerHook; each call registers a    *)
(* channel under a fresh id, writes the request and waits for a response,  *)
(* its own context or the end of Serve.  readLoop routes responses; Serve  *)
(* fails the calls that are left when reading ends with an I/O error.      *)
(*                                                                         *)
(* The client is free: it may answer late, twice, in any order, with an    *)
(* error, with an id it has not been given yet or with the answer to       *)
(* another request.  Requests of the client are in module WireServer.      *)
(***************************************************************************)
EXTENDS Naturals, Sequences, FiniteSets

CONSTANTS
  MaxCalls,        \* bound: calls the agent makes
  MaxResponses,    \* bound: responses the client sends
  Kinds,           \* request kinds the agent uses
  DefaultTimeout,  \* WithDefaultTimeout was given a positive duration
  SupportsQuestion \* what the client announced in initialize

AllKinds == {"approval", "tool", "question", "hook"}

ASSUME RequestsAssumption ==
  /\ MaxCalls \in Nat \ {0} /\ MaxResponses \in Nat
  /\ Kinds \subseteq AllKinds
  /\ DefaultTimeout \in BOOLEAN /\ SupportsQuestion \in BOOLEAN

\* nextRequestID counts up, so a call is named by the number of its id.
Calls == 1..MaxCalls
None  == 0

\* The body of a response: a result that carries the ID of some request (None:
\* one that does not decode), or an error, the client's own or the one that
\* closePending makes up.
Result(c)  == [what |-> "result", of |-> c]
Failure(e) == [what |-> e, of |-> None]
ReadError  == Failure("read_error")
Bodies == {Result(c) : c \in Calls \cup {None}} \cup {Failure("client_error"), ReadError}

Outcomes == {"ok", "bad_result", "client_error", "read_error", "write_error",
             "ctx_done", "serve_done", "allow", "unsupported"}

VARIABLES
  serveDone,   \* serveCtx is cancelled
  readPc,      \* readLoop: "read", "send" (in routeResponse) or "done"
  ioError,     \* readLoop ended with an error other than EOF or Canceled
  nresp,       \* responses read so far
  route,       \* what routeResponse is about to send: the call and the body
  servePc,     \* Serve: "wait_read", "close_pending", "fail_calls", "done"
  toFail,      \* pendingCopy of closePending
  ncalls,      \* requestCounter
  kind,        \* kind of each call
  callPc,      \* where each call is
  pending,     \* calls registered in s.pending
  ch,          \* the channel of each call, of capacity 1
  callDone,    \* the context of the call is done (cancelled or timed out)
  outcome      \* what each call returns

readVars  == <<readPc, ioError, nresp, route>>
serveVars == <<serveDone, servePc, toFail>>
callVars  == <<ncalls, kind, callPc, callDone, outcome>>
vars == <<readVars, serveVars, callVars, pending, ch>>

NoRoute == [call |-> None, body |-> ReadError]

-----------------------------------------------------------------------------
(***************************************************************************)
(* The calls of the agent.                                                 *)
(***************************************************************************)
CallStep(c, from, to) ==
  /\ callPc[c] = from /\ callPc' = [callPc EXCEPT ![c] = to]
  /\ UNCHANGED <<readVars, serveVars, ncalls, kind>>

Leaves(c, from, o) ==
  /\ CallStep(c, from, "unregister")
  /\ outcome' = [outcome EXCEPT ![c] = o]
  /\ UNCHANGED <<pending, callDone>>

\* AskQuestion refuses without the capability, TriggerHook allows at once when
\* no subscription matches; every other call registers its channel.
Call(k) ==
  LET c == ncalls + 1 IN
  /\ ncalls < MaxCalls /\ ncalls' = c
  /\ kind' = [kind EXCEPT ![c] = k]
  /\ \/ /\ k = "question" /\ ~SupportsQuestion
        /\ callPc' = [callPc EXCEPT ![c] = "returned"]
        /\ outcome' = [outcome EXCEPT ![c] = "unsupported"]
        /\ UNCHANGED pending
     \/ /\ k = "hook"
        /\ callPc' = [callPc EXCEPT ![c] = "returned"]
        /\ outcome' = [outcome EXCEPT ![c] = "allow"]
        /\ UNCHANGED pending
     \/ /\ k = "question" => SupportsQuestion
        /\ callPc' = [callPc EXCEPT ![c] = "write"]
        /\ pending' = pending \cup {c}
        /\ UNCHANGED outcome
  /\ UNCHANGED <<readVars, serveVars, ch, callDone>>

WriteRequest(c) ==
  \/ CallStep(c, "write", "wait") /\ UNCHANGED <<callDone, outcome, pending, ch>>
  \/ Leaves(c, "write", "write_error") /\ UNCHANGED ch

\* applyDefaultTimeout and applyHookTimeout: a call whose context gets a
\* deadline.  RequestApproval waits as long as the agent's context lives.
HasDeadline(k) == k = "hook" \/ (k \in {"tool", "question"} /\ DefaultTimeout)

\* The deadline passes, or the agent's own context is cancelled.
CtxExpires(c) ==
  /\ callPc[c] \in {"write", "wait"} /\ ~callDone[c]
  /\ callDone' = [callDone EXCEPT ![c] = TRUE]
  /\ UNCHANGED <<readVars, serveVars, ncalls, kind, callPc, outcome, pending, ch>>

\* What the caller makes of the message: the ID inside the result must be the
\* one of its request.
Decode(c, body) == CASE body.what # "result" -> body.what
                     [] body = Result(c)     -> "ok"
                     [] OTHER                -> "bad_result"

Receive(c) ==
  /\ ch[c] # <<>>
  /\ Leaves(c, "wait", Decode(c, Head(ch[c])))
  /\ ch' = [ch EXCEPT ![c] = <<>>]

GiveUp(c)    == callDone[c] /\ Leaves(c, "wait", "ctx_done") /\ UNCHANGED ch
\* Mutant: sendRequestAndWait does not watch serveCtx.
ServeOver_Missing(c) == FALSE /\ Leaves(c, "wait", "serve_done") /\ UNCHANGED ch

ServeOver(c) == serveDone /\ Leaves(c, "wait", "serve_done") /\ UNCHANGED ch

\* Mutant: the deferred function drains the channel but leaves the entry.
Unregister_Keeps(c) ==
  CallStep(c, "unregister", "drain") /\ UNCHANGED <<callDone, outcome, ch, pending>>

\* The deferred function: delete under s.mu, then drain without blocking.
Unregister(c) ==
  /\ CallStep(c, "unregister", "drain")
  /\ pending' = pending \ {c}
  /\ UNCHANGED <<callDone, outcome, ch>>

Drain(c) ==
  /\ CallStep(c, "drain", "returned")
  /\ ch' = [ch EXCEPT ![c] = <<>>]
  /\ UNCHANGED <<callDone, outcome, pending>>

-----------------------------------------------------------------------------
(***************************************************************************)
(* readLoop with routeResponse.                                            *)
(***************************************************************************)
\* Mutant: the entry stays in s.pending.
ReadResponse_NoDelete(id, body) ==
  /\ readPc = "read" /\ nresp < MaxResponses /\ nresp' = nresp + 1
  /\ IF id \in pending
       THEN /\ route' = [call |-> id, body |-> body]
            /\ readPc' = "send"
       ELSE UNCHANGED <<route, readPc>>
  /\ UNCHANGED <<ioError, pending, serveVars, callVars, ch>>

\* A response is read and its channel looked up under s.mu.
ReadResponse(id, body) ==
  /\ readPc = "read" /\ nresp < MaxResponses /\ nresp' = nresp + 1
  /\ IF id \in pending
       THEN /\ pending' = pending \ {id}
            /\ route' = [call |-> id, body |-> body]
            /\ readPc' = "send"
       ELSE UNCHANGED <<pending, route, readPc>>
  /\ UNCHANGED <<ioError, serveVars, callVars, ch>>

RouteSend ==
  /\ readPc = "send" /\ ch[route.call] = <<>>
  /\ ch' = [ch EXCEPT ![route.call] = <<route.body>>]
  /\ readPc' = "read" /\ route' = NoRoute
  /\ UNCHANGED <<ioError, nresp, serveVars, callVars, pending>>

RouteDropped ==
  /\ readPc = "send" /\ serveDone
  /\ readPc' = "read" /\ route' = NoRoute
  /\ UNCHANGED <<ioError, nresp, serveVars, callVars, pending, ch>>

ReadEnds(io) ==
  /\ readPc = "read" /\ readPc' = "done" /\ ioError' = io
  /\ UNCHANGED <<nresp, route, serveVars, callVars, pending, ch>>

ReadEOF       == ReadEnds(FALSE)
ReadIOError   == ReadEnds(TRUE)
ReadCancelled == serveDone /\ ReadEnds(FALSE)

-----------------------------------------------------------------------------
(***************************************************************************)
(* Serve.                                                                  *)
(***************************************************************************)
\* Mutant: closePending does not wait for readLoop to end.
ServeCancels_Early ==
  /\ servePc = "wait_read"
  /\ serveDone' = TRUE
  /\ servePc' = "close_pending"
  /\ UNCHANGED <<readVars, toFail, callVars, pending, ch>>

ServeCancels ==
  /\ servePc = "wait_read" /\ readPc = "done"
  /\ serveDone' = TRUE
  /\ servePc' = IF ioError THEN "close_pending" ELSE "done"
  /\ UNCHANGED <<readVars, toFail, callVars, pending, ch>>

\* closePending empties s.pending under s.mu ...
ClosePending ==
  /\ servePc = "close_pending" /\ servePc' = "fail_calls"
  /\ toFail' = pending /\ pending' = {}
  /\ UNCHANGED <<serveDone, readVars, callVars, ch>>

\* ... and sends without blocking, one channel after the other, in any order.
FailCall(c) ==
  /\ servePc = "fail_calls" /\ c \in toFail
  /\ toFail' = toFail \ {c}
  /\ ch' = IF ch[c] = <<>> THEN [ch EXCEPT ![c] = <<ReadError>>] ELSE ch
  /\ UNCHANGED <<serveDone, servePc, readVars, callVars, pending>>

PendingClosed ==
  /\ servePc = "fail_calls" /\ toFail = {} /\ servePc' = "done"
  /\ UNCHANGED <<serveDone, toFail, readVars, callVars, pending, ch>>

\* The caller of Serve cancels its context.
CtxCancel ==
  /\ ~serveDone /\ serveDone' = TRUE
  /\ UNCHANGED <<servePc, toFail, readVars, callVars, pending, ch>>

-----------------------------------------------------------------------------
Init ==
  /\ serveDone = FALSE /\ servePc = "wait_read" /\ toFail = {}
  /\ readPc = "read" /\ ioError = FALSE /\ nresp = 0 /\ route = NoRoute
  /\ ncalls = 0
  /\ kind = [c \in Calls |-> "none"] /\ callPc = [c \in Calls |-> "none"]
  /\ callDone = [c \in Calls |-> FALSE] /\ outcome = [c \in Calls |-> "none"]
  /\ pending = {} /\ ch = [c \in Calls |-> <<>>]

\* The steps of a call that wait for nobody outside the server.
CallRuns(c) ==
  WriteRequest(c) \/ Receive(c) \/ GiveUp(c) \/ ServeOver(c) \/ Unregister(c) \/ Drain(c)

ReadLoop ==
  \/ \E id \in Calls, body \in Bodies \ {ReadError} : ReadResponse(id, body)
  \/ RouteSend \/ RouteDropped \/ ReadEOF \/ ReadIOError \/ ReadCancelled

Serve == ServeCancels \/ ClosePending \/ PendingClosed \/ \E c \in Calls : FailCall(c)

Terminated ==
  /\ servePc = "done"
  /\ \A c \in Calls : callPc[c] \in {"none", "returned"}
  /\ UNCHANGED vars

Next ==
  \/ ReadLoop \/ Serve \/ CtxCancel \/ Terminated
  \/ \E k \in Kinds : Call(k)
  \/ \E c \in Calls : CallRuns(c) \/ CtxExpires(c)

Spec == Init /\ [][Next]_vars

\* Goroutines that can run do run, a blocked select is served, deadlines pass.
\* Nothing is asked of the client, and no context without a deadline expires.
Fairness ==
  /\ \A c \in Calls : /\ WF_vars(CallRuns(c))
                      /\ WF_vars(HasDeadline(kind[c]) /\ CtxExpires(c))
  /\ WF_vars(RouteSend \/ RouteDropped) /\ WF_vars(ReadCancelled) /\ WF_vars(Serve)

FairSpec == Spec /\ Fairness

-----------------------------------------------------------------------------
(***************************************************************************)
(* Properties.                                                             *)
(***************************************************************************)
CallPcs == {"none", "write", "wait", "unregister", "drain", "returned"}
Routes  == [call : Calls \cup {None}, body : Bodies]
Chans   == {<<>>} \cup {<<b>> : b \in Bodies}

\* Every variable has its type; no channel ever holds more than one message.
TypeOK ==
  /\ serveDone \in BOOLEAN
  /\ servePc \in {"wait_read", "close_pending", "fail_calls", "done"}
  /\ toFail \subseteq Calls
  /\ readPc \in {"read", "send", "done"} /\ ioError \in BOOLEAN
  /\ nresp \in 0..MaxResponses
  /\ route \in Routes
  /\ ncalls \in 0..MaxCalls
  /\ kind \in [Calls -> AllKinds \cup {"none"}]
  /\ callPc \in [Calls -> CallPcs]
  /\ callDone \in [Calls -> BOOLEAN]
  /\ outcome \in [Calls -> Outcomes \cup {"none"}]
  /\ pending \subseteq Calls
  /\ ch \in [Calls -> Chans]

\* A call in s.pending is still under way and has been sent nothing: each call
\* gets at most one message, from routeResponse or from closePending, and one
\* that returned (answered, timed out, failed) leaves no entry behind.
PendingIsUnanswered ==
  \A c \in pending :
    /\ callPc[c] \in {"write", "wait", "unregister"}
    /\ ch[c] = <<>> /\ route.call # c /\ c \notin toFail

\* routeResponse never makes readLoop wait: the channel it was handed has room,
\* whatever the client repeats or sends late.
RouteNeverBlocks == readPc = "send" => ch[route.call] = <<>>

\* The inductive invariant behind both: a call that has not begun has left no
\* trace, what routeResponse or closePending has taken is no longer pending,
\* and Serve runs closePending only when readLoop has ended, so that they never
\* race for the same channel.
RequestsInv ==
  /\ TypeOK /\ PendingIsUnanswered /\ RouteNeverBlocks
  /\ \A c \in Calls : ncalls < c => callPc[c] = "none"
  /\ \A c \in Calls : callPc[c] = "none" => ch[c] = <<>> /\ route.call # c /\ c \notin toFail
  /\ IF readPc = "send" THEN route.call \in Calls ELSE route = NoRoute
  /\ servePc # "wait_read" => readPc = "done"
  /\ servePc # "fail_calls" => toFail = {}

\* A call returns once its response has been read, its deadline passes or
\* Serve is over, the latter also when the read ended without an I/O error and
\* closePending is not run.
CallsReturn ==
  \A c \in Calls :
    /\ callPc[c] = "wait"
    /\ HasDeadline(kind[c]) \/ serveDone \/ route.call = c \/ ch[c] # <<>>
    ~> callPc[c] = "returned"
=============================================================================
