# Verification of kimi-wire-go

TLA+ models of the Wire protocol library (`github.com/ekhodzitsky/kimi-wire`):
what its server and client do under every interleaving of their goroutines,
checked with TLC on small instances, with every safety property and the
refinements between the modules proved with TLAPS for instances of any size.

## 1. The system

The library speaks JSON-RPC over lines. A **client** (an IDE, a script) sends
requests (`initialize`, `prompt`, `steer`, `cancel`, `replay`, `set_plan_mode`);
a **server** runs an **agent** and sends events, answers, and requests of its
own (approvals, tool calls, questions, hooks).

| Component | State | Operations | Talks to |
|---|---|---|---|
| Server turn engine (`server/server.go`, `turn.go`) | `activeTurn`, `activeOp` (the slot), `dispatchCh`, per turn `cancelled`, `done`, `steerCh`, `serveCtx` | `Serve`, `readLoop`, `serveLoop`, `handle*`, `endTurn`, `clearActiveTurn`, `Close` | transport; agent callbacks in goroutines of their own (`Prompt`, `Replay`) or in `serveLoop` (`Steer`, `SetPlanMode`) |
| Server-to-client requests (`server/request.go`) | `pending`, a channel per call | `RequestApproval`, `CallExternalTool`, `AskQuestion`, `TriggerHook`, `routeResponse`, `closePending` | called by the agent; answered through `readLoop` |
| Serve/Close lifecycle | `serving`, fields `serveCtx`, `readDone`, `serveDone`, the slot | `Serve`, `Close`, `clearActiveTurn`, goroutines of operations | shared by all calls of `Serve` |
| Handshake | `handshakeDone`, `clientCaps`, `hooks`, `negotiated` | `handleInitialize`, `negotiateVersion`, `semverCompare` | read by `AskQuestion` and `TriggerHook` |
| Client (`client.go`) | `pending`, `oooBuffer`, `dispatchCh`, `stopCh`, `readerDone` | calls, `readResponse`, `readerLoop`, `closePending`, `Shutdown`, raw access | transport |
| Dispatch (`dispatch.go`) | none of its own | `Dispatch` | `dispatchCh`, the application's `Handler` |
| In-memory transports (`transport_channel.go`, `transport_memory.go`) | a buffered channel, `closeCh`, a mutex | `ReadLine`, `WriteLine`, `Inject`, `Outgoing`, `Close` | client and server in one process |
| Child process (`transport_process.go`) | pipes, their deadlines, `readMu`, `closed`, the process | `Spawn...`, `ReadLine`, `WriteLine`, `Close`, `logStderr` | the `kimi` process |
| Messages and codec (`message.go`, `protocol/`) | none | `MarshalEvent`, `ParseEvent`, `MarshalRequest`, `ParseRequest`, `ParseWireMessage` | used by everybody |
| Redaction, options, errors, aliases | none that changes | pure functions | |

What is hard here: three to five goroutines share the slot and close channels
under each other; handlers wait inside `serveLoop`; shutdown can begin between
any two steps and empties the slot on behalf of an operation that still runs;
writes may fail; the peer may answer late, twice or never; bounded queues hold
back the goroutine that also delivers responses; callers of one transport share
a descriptor and its deadline.

What makes each component correct:

* turn engine: at most one operation, and the slot names it; each request
  answered exactly once; turns framed by `TurnBegin`/`TurnEnd`; a cancel
  acknowledged only after the turn has ended; `Serve` returns;
* requests: each call gets at most one message, nothing stale in `pending`,
  `readLoop` never held up, every call returns;
* lifecycle: one `Serve` at a time, and what outlives it is known and cancelled;
* client: a response reaches its call however early or late it comes, events
  reach Dispatch in order, read errors and `Shutdown` release everybody;
* the server as a whole: a turn that waits for the client and a cancel that
  waits for the turn do not wait for each other through `readLoop`;
* transports: lines arrive whole, in order and once; `Close`, the exit of the
  child and deadlines release those who wait;
* codec: what one side writes the other accepts and reads as the same value;
* handshake: versions are ordered as versions are, accepted hooks are asked.

## 2. Modules

| Module | Models |
|---|---|
| `WireLines` | the lines a server writes, abstracted to kind, request and answer |
| `TurnProtocol` | abstract specification: the histories of lines a client may see |
| `WireServer` | one call of `Serve`: turn engine with all its goroutines |
| `WireServerInv`, `WireServerProofs` | inductive invariant; proofs, and the proof that `WireServer` implements `TurnProtocol` |
| `ServerRequests`, `ServerRequestsProofs` | requests of the server to the client; proofs |
| `ServerSystem`, `ServerSystemProofs` | the two composed: the whole server over one `readLoop`; proofs that it implements both, and of what concerns both |
| `ServeLifecycle`, `ServeLifecycleProofs` | several calls of `Serve` and `Close` on one server; proofs |
| `WireClient`, `WireClientProofs` | the client with `readerLoop`, calls, `Dispatch`, `Shutdown`; proofs |
| `ChildProcess`, `StderrLog`, `ChildProcessProofs` | `ChildProcessTransport`; the goroutine that logs the child's stderr; proofs of both |
| `MemoryTransport`, `MemoryTransportProofs` | `ChannelTransport` and `InMemoryTransport`, one direction at a time; proofs |
| `WireCodec`, `WireRelay` | events and requests as JSON; a message on its way through peers |
| `Handshake` | `initialize`, version negotiation, hooks |
| `ProtocolProofs` | proofs about `Handshake`, `WireCodec` and `WireRelay` |
| `MC*` | what TLC runs; the constants are in the `.cfg` files. Some restrict what peers, agents and callers do (`MCNext`), of whom no fairness is asked, never what the library does. `MCTransports` and `MCProtocol` put modules that share nothing into one run; `MCProtocol` also enumerates the messages and lines of that run, and `MCServerSystem` gives `ServerSystem` two scenarios |

**Steps.** An action is what one goroutine does between two points where
another can see it: a section under a mutex, a channel operation, or one
`WriteLine`. In `WireServer` `loopPc`, `readPc`, `servePc` and `opPc[r]` say
where `serveLoop`, `readLoop`, `Serve` and the goroutine of prompt or replay `r`
are. A handler runs from the receive on `dispatchCh` to its first blocking
point in one action (`HandlePrompt`, `HandleCancel`, ...); what follows is an
action each (`EmitTurnBegin`, `CancelMark`, `CancelDone`, ...). `endTurn` is
`TurnEmitEnd`, `TurnClose`, `TurnClear`, `TurnDecide`, `OpReply`; the end of a
replay is `OpReply`, `ReplayClear`, `ReplayClose`, in this order, as its answer
precedes its deferred functions.

**Data.** A request is its number in the order of reading; ids are unique, as
the client's counter makes them. Payloads, wording and error codes are reduced
to a kind of answer. Parameters that do not parse are a choice (`bad_params`).
Agent results are `ok`, `canceled` (`context.Canceled`) or `err`; a recovered
panic is an `err`. The agent may emit, read its steer input and return at any
time. `TurnProtocol` has nothing of this: only the history of lines and the
fact that the server is going down.

**Transports** appear in the modules of client and server as what `ReadLine` and
`WriteLine` may return. The constant `WriteHonoursCtx` separates
`ChannelTransport`, whose `select` may still write after cancellation, from the
others; `ReadHonoursCtx` separates transports whose blocked read sees its
context from plain stdio. Their insides have modules of their own:
`ChildProcess` lets a line cross a pipe in two parts, so that a write or read
can be cut short, and takes from `os.File` that one writer at a time holds the
descriptor, that a deadline concerns everybody blocked on it and that closing
wakes all (external). Of the pipes `StdinPipe` and `StderrPipe` open it has both ends; the
child's are closed by `cmd.Start`, whether it succeeds or fails, as `os/exec` does
(external). `MemoryTransport` follows lines from concurrent writers
to one reader, for `WriteLine`/`ReadLine` of a channel pair, `Inject`/`ReadLine`
and `WriteLine`/`Outgoing`.

**`ServerRequests`** names a call by its number (`nextRequestID`). Whether a
hook subscription matches is a free choice. The contexts of calls end by their
deadline or because the agent's context does.

**`ServerSystem`** extends `WireServer` and instantiates `ServerRequests`. They
share `readLoop` (`readPc`: a request in the push or a response in
`routeResponse`, never both), the end of `readLoop` and `Serve`, the context,
and the agent: a call belongs to the turn that made it (`owner`), its context
ends with the turn's, and `Agent.Prompt` returns when its calls have.

**`ServeLifecycle`** names contexts and channels by the call that made them, and
keeps apart the moment a goroutine evaluates a field from the moment it uses
the value. `Close` may come at any time. Prompts and replays (`Turns`, `Replays`)
are carried across calls as far as the slot, `done` and `serveCtx` go:
`clearActiveTurn` takes one out of the slot (`Clear`), waits for its `done`
(`Waited`) or gives up after ten seconds (`GivesUp`), and its goroutine goes on.
Histories record whether `Close` was called (`closed`), who got in after it
(`late`), whether a call got in beside another (`overtaken`), which operations were
given up (`abandoned`) and which contexts an operation took from the field
(`usedCtx`). Handlers that hold up `serveLoop` are the business of `WireServer`.

**`WireCodec`** represents a JSON value by its shape and a Go value as a function
from field names to contents. A table gives every event and request type its
fields with their Go type and `omitempty` tag; `MarshalStruct` and `ParseStruct`
are what `encoding/json` does with such a table (external), and `ContentPart`,
`UserInput` and `ToolOutput` have their own methods, as in the code. Structs
nest once, so nothing recurses. `WireRelay` starts from values an application may
build (`Messages`), or from lines another implementation may write (`Foreign`),
and marshals and parses in turn. What the Go types admit is said by `PartType`,
`PlainType`, `OfKind` and `OfTypes`; `RelayAssumption` says that messages are of
these types and `JSONAssumption` that the members of JSON values are JSON values.
Both are constants, so that the proofs are about all values and TLC enumerates
some (`MCMessages`, `MCForeign`). `MarshalJSON` copies `JSONRPC` and `Method` from
the message; those of the model have `"2.0"` and the method of their kind, as
`ParseWireMessage` sets them, and a message built without them is not considered.

**`Handshake`** has versions as sequences of characters, because `semverCompare`
is about them. `splitVersion` and `atoi` are one pass over the characters
(`Scan`), the loop of `semverCompare` one over the components (`Compare`).
Integers have `IntRange` values instead of 2^64; the reference order (`Numbers`,
`Below`) reads numbers of any size and says that the first difference decides. A
matcher is the set of targets it matches.

**`WireClient`** numbers the lines of the peer; `queued` and `taken` record the
events and requests read and taken by `Dispatch`. The defers of `readerLoop`
(close `dispatchCh`, close `readerDone`) are one step. Definitions named
`X_Something` are deliberately wrong variants of `X` that show that a property
notices; nothing refers to them.

## 3. Runs

| Run | Checks | Bounds |
|---|---|---|
| `server_turns` | `SlotMatchesOperation`, `AnsweredTurnFreesSlot`, refinement of `TurnProtocol`, `RequestAnswered` | 3 requests, `dispatchCh` of 1, 1 event per request, no shutdown |
| `server_shutdown` | `AtMostOneReply`, `ServerInv` (which contains `TypeOK`), `ServeTerminates` | 2 lines, each a request of any method or one unparsable line, bad params, every way to stop at any point; agent calls end with an error |
| `requests` | `PendingIsUnanswered`, `RouteNeverBlocks`, `RequestsInv`, `CallsReturn` | an approval and a call of another kind, 2 responses of any id and content |
| `system` | `ImplementsTurnEngine`, `ImplementsRequests`, `CallsWithinTurn`, `ReadLoopMovesOn`, `CancelReturns` | 4 requests and 1 approval without shutdown, or 2 requests and a cancelled context; a prompt first, then a cancel; `dispatchCh` of 1 |
| `lifecycle` | `OneServe`, `WhatOutlivesServe`, `EveryServeReturns` | 2 calls of `Serve`, a prompt and a replay, `Close` at any time; up to the step by which a call gets in beside another |
| `client_safety` | `TypeOK`, `NoResponseMissed`, `DispatchInOrder` | 2 calls, 3 lines of every kind, `dispatchCh` of 1, every fault; 4 calls and lines together if the peer hangs up or `Shutdown` is called |
| `client_flow` | `ResponseDelivered`, `DeliverEnds`, `RequestsReplied`, `ShutdownEnds`, `TransportErrorReleases` | 2 calls (one with a deadline), 3 lines; 4 together as above |
| `transports` | `LinesUnbroken`, `ReadsWhole`, `CloseReleases`, `ExitSeen`, `DeadlineRespected`; `NoSendOnClosed`, `EOFIsFinal`; `BlocksTogether`, `LoggedInOrder` | 2 writers (one with a deadline), 2 readers with deadlines, or one of each without, 2 lines from the child, pipes of one part; 3 writers on a channel of 2; texts of up to 4 stderr lines |
| `protocol` | `NegotiatedInRange`, `HookNotSkipped`, `RelayNeverFails`, `RoundTrip` | every event and request type with all fields zero or one set, foreign lines with one member of any shape, two hops; versions of up to 4 characters, 2 subscriptions |

Why these bounds are enough to see the interesting cases: three requests give a
turn, a cancel or second turn racing its end, and a request behind them; two
suffice for a shutdown around a running operation and one more request in the
queue. Capacities of 1 stand for 1024, so that queues fill up; in `system` a
cancel waits in `handleCancel`, one request fills `dispatchCh` and the next
holds `readLoop` in the push, which takes four. Two calls and
three lines give out-of-order, repeated and late responses, and an event in
front of them; an end of the connection with three lines and one call, or two of
each, still meets `readerLoop` held up by a full `dispatchCh` and calls at every
step. In `server_shutdown` the result of an agent call only decides which answer
is written, so one kind is enough; `server_turns` has two. In `lifecycle` two
calls give one that races another and one that follows it, and two operations one
that outlives its call and one that meets it in the slot. In `requests` kinds
differ in having a deadline and in returning at once, which the two calls give. A pipe of one part makes every write block in the middle of its
line. Fields of a message are independent of each other, so one at a time is
enough; four characters give `1.10` and its neighbours, missing and extra
components, empty ones and ones that are no numbers, and 256 integers let three
digits overflow.

**Fairness.** Weak fairness for every goroutine that can run, which is what the
Go scheduler and `select` give; a `select` with several ready cases may take any
of them for ever. The agent owes nothing until its context is done and then
returns; `Steer`, `SetPlanMode` and the client's `Handler` return, as the code
calls them inline; deadlines pass. Nothing is assumed of the peer or of callers.

### Where the code and its documentation disagree

| Run | Shows |
|---|---|
| `steer_blocks` | `handleSteer` waits in `serveLoop` for room in `steerCh` (521). If the agent does not read its input, a second steer blocks the loop and the cancel that would end the turn is never handled. |
| `write_deadline` | Concurrent calls of `ChildProcessTransport.WriteLine` set and clear the one deadline of stdin (`transport_process.go:204-205`). The first to return clears that of the other, which then waits past its deadline for a child that does not read. `Client.writeMessage` takes no lock, so two calls with timeouts are enough. |
| `client_shutdown_hangs` | A client call registers after writing its request (`client.go:136`). If `closePending` ran in between, or `readerLoop` leaves through `stopCh` with its response in hand (88), a call without a deadline waits for ever, even after `Shutdown` returned. |

### Exceptions the properties make, and why

* `AnsweredTurnFreesSlot` is about turns. A replay answers (`server.go:602`)
  before its deferred functions free the slot (579-586), so a client that waits
  for the answer of a replay and then prompts can be refused.
* `OneServe` lets calls of `Serve` run together after `Close`: `Close` resets
  `serving` (139) while `Serve` may still run, and a second `Serve` then gets in
  and overwrites the fields of the first. From there on (`overtaken`)
  `WhatOutlivesServe` and `EveryServeReturns` say nothing: either call may close a
  channel twice or wait for ever. `Close` alone, at any time, does no harm.
* `WhatOutlivesServe` does not say that no goroutine outlives `Serve`. An
  operation does if its agent takes longer than ten seconds to return
  (488-492, 495-499), or if `serveLoop` took its request (186) after
  `clearActiveTurn` had emptied the slot; the latter stays in the slot, where it
  makes the next `Serve` refuse prompts. A turn also closes `done` (449) before it
  answers. All of these read `s.serveCtx` (446, 633) when they write, and if the next
  `Serve` has assigned it by then, they write with its context to its client. The
  property says that nothing else is left, that the context of an agent that is
  left at work is done, and that a frame goes out under the context of another
  call only after the operation's own `Serve` has returned.
* `CloseReleases` allows a spawn that fails before `cmd.Start` to leave the child's
  end of stdin: `StdinPipe` (59) opens both ends, the error paths of `os.Pipe` (64-67)
  and `StderrPipe` (71-76) close only those the transport holds, and the other one
  stays open until the finalizer of its `os.File` runs.
* `SlotMatchesOperation` speaks of the slot until `Serve` has emptied it
  (`Cleared`). After that `serveLoop` may still take a prompt (186), whose turn
  runs next to the operation that `clearActiveTurn` waits for: two agent calls
  at once, where README:131 says "one turn at a time".
* After an acknowledged cancel the slot may be busy for a moment (`done` is
  closed before the slot is freed), so the next prompt can be refused.
* `ServeTerminates` needs a transport whose blocked read sees its context; with
  `ReadHonoursCtx = FALSE` (the stdio of `examples/echo-server`) it fails, since
  `Serve` first waits for `readLoop`.
* `ResponseDelivered` needs `Dispatch`: with `RunsDispatch = FALSE`
  (`examples/quickstart`) it fails once the events of a turn exceed `dispatchCh`.
* `RequestAnswered` and `ReadLoopMovesOn` are checked with an agent that does
  not implement `Steerer`; with one they fail as `steer_blocks` shows.
* `DeadlineRespected` holds in `transports` because at most one of the writers
  has a deadline (`write_deadline` has two); the other writer can then be failed
  by a deadline that is not its own. A `ReadLine` waits for `readMu` without
  looking at its deadline, and is released when the reader before it is: both
  readers have deadlines there, and with one that has none the property fails.
* `ReadsWhole` allows the parts a failed `ReadLine` has consumed to be lost:
  after a read deadline in the middle of a line the next call returns the rest.
  `LinesUnbroken` likewise allows a line to follow the first part of a failed
  one.
* `CallsWithinTurn` speaks of the slot until `Serve` has emptied it, as
  `SlotMatchesOperation` does; that the turn of a call is unanswered, and that a
  waiting cancel has reached it, hold to the end.
* `RoundTrip` leaves out `encrypted` of think parts: `MarshalJSON` writes it in
  the flat form, `UnmarshalJSON` (`protocol_content.go:115`) does not read it,
  where CHANGELOG:21 speaks of "serde roundtrip guarantees". It also leaves out
  values without a form of their own (`Representable`): empty lists with
  `omitempty`, raw fields that are nil (written as `null`), and text or think
  parts with members of another type or without their own.
* `NegotiatedInRange` leaves out components of 2^63 and more (`Fits`): `atoi`
  wraps, and a huge version can come out as legacy.
* `HookNotSkipped` is about distinct ids: of two subscriptions with one id the
  later replaces the earlier, while `hooksConfigured` counts both.

## 4. Proofs

`WireServerProofs` proves, for every number of requests, capacity, set of
methods, agent and faults (assumptions `MaxReqsAssumption`, `ServerAssumption`:
only that the constants are of their kinds):

* `TypeCorrect`: `Spec => []TypeOK`;
* `Invariance`: `Spec => []ServerInv`;
* `SlotCorrect`: `Spec => []SlotMatchesOperation`;
* `RepliesUnique`: `Spec => []AtMostOneReply`;
* `TurnsFreeTheSlot`: `Spec => []AnsweredTurnFreesSlot`.

The invariant. `SlotMatchesOperation` is not inductive: to see that a new prompt
does not meet an old operation of the same number, one must know that `serveLoop`
takes each request once and in order (`QueueInv`) and that no operation exists
for a request it has not taken. `AtMostOneReply` needs in addition that a request
is in the hands of `serveLoop` or of its operation and never of both
(`HandsInv`), and that whoever has answered owes no further answer
(`AnsweredInv`). `TypeInv` strengthens `TypeOK` by the facts that make the
written replies well-typed. `ServerInv` is their conjunction; `server_shutdown`
checks it with TLC. `AnsweredTurnFreesSlot` follows: the turn in the slot is one
that still owes its answer, so it has not been answered. The proof has one lemma
per part and, in each, one step per group of actions (`ReadLoop`, `Dispatch`,
`LoopStep`, operations, `Serve`).

It also proves `LinesFollowProtocol`: `Spec => ProtocolSpec`, the turn engine implements
`TurnProtocol`, under the hypothesis `"write" \notin Faults`: `WriteLine` may
fail once the server is going down and not before. Without it the theorem is
false, and not for want of an invariant: a `TurnEnd` lost to a full buffer leaves
its frame open, and `endTurn` only logs the error. The invariant `LinesInv` adds to
`ServerInv` what ties lines to goroutines: only prompts and replays have
operations and only `set_plan_mode` emits from `serveLoop` (`OriginInv`), a frame
belongs to an operation that was started (`BegunInv`), a frame is open exactly
while its turn is in the agent or about to write `TurnEnd` (`FrameInv`), and
while `handleCancel` waits nothing runs but the operation it cancelled, and
nothing when it acknowledges (`CancelInv`). The last two hold until the server
goes down. Since what runs is in the slot (`SlotMatchesOperation`), at most one
frame is open. Each line then has a lemma of its own (`BeginAllowed`,
`EndAllowed`, `EmitAllowed`, `LoopReplyAllowed`, ...).

`ServerRequestsProofs` proves for any number of calls and responses
(`RequestsAssumption`) `RequestsInvariance` (`[]RequestsInv`) and from it
`PendingCorrect` (`[]PendingIsUnanswered`) and `RouteFree`
(`[]RouteNeverBlocks`). The strengthening says that calls not yet begun have
left no trace, and that `closePending` runs only after `readLoop` has ended, so
that the two never send to the same channel.

`ServeLifecycleProofs` proves, for any number of calls of `Serve`, any operations
and `Close` at any time (`LifecycleAssumption`: only that the constants are of their
kinds), `ServesOneByOne` (`[]OneServe`) and `LeavesOnlyOperations`
(`[]WhatOutlivesServe`). The invariant `LifecycleInv` has two halves. `Gate` holds
throughout: a call that runs has `serving` set, or `Close` was called. The other
half (`Alone`) holds until a call gets in beside another, which `Gate` excludes
before `Close`: the fields a call has assigned are still its own when it reads them
again (`OwnsFields`), its goroutines close the channels it waits for
(`OwnGoroutines`, `WaitsForBoth`), and an operation whose agent is at work is in the
slot, in the hands of `clearActiveTurn` or given up (`Operations`).

`ServerSystemProofs` proves of the whole server, for any number of requests, calls
and responses (`SystemAssumption` and the assumptions of the parts):

* `SystemRunsTurns` (`SystemSpec => ImplementsTurnEngine`) and `SystemServesCalls`
  (`SystemSpec => ImplementsRequests`): each step of the whole server is the same
  step of one part, of both (the end of `readLoop`, `Serve` cancelling), or
  invisible to it. To the turn engine `readLoop` is reading while it routes a
  response, and to the calls while it pushes a request. The only invariant needed
  is that `ioError` is a Boolean, because a push that `serveCtx` interrupts ends
  `readLoop` without setting it.
* `PartsStaySafe`: `ServerInv` and `RequestsInv` hold of the whole server. The proof
  modules of the parts are instantiated with the refinement mapping (`Engine`,
  `CallSafety`), their assumptions proved of the instance, and their theorems
  cited.
* `SystemFollowsProtocol` (`SystemSpec => ProtocolSpec`): so do the lines the client
  sees, under the hypothesis of `LinesFollowProtocol`.
* `CallsEndWithTurn` (`[]CallsWithinTurn`). This concerns both parts and follows from
  neither. `OwnerInv` says that a call under way belongs to a turn in
  `Agent.Prompt`; with `ServerInv` that turn is the one in the slot and owes its
  answer, and with `RequestsInv` what is in `pending` is under way. `ReachInv` says
  that during a cancel, as long as `serveCtx` lives, the only operation in the
  agent is the one `handleCancel` took from the slot, and that it has cancelled its
  context before it waits: nobody can start another, because `serveLoop` is the
  one that waits.

`WireClientProofs` proves for any number of calls, lines, faults and capacities
(`ClientAssumption`) `ClientTypeCorrect` (`[]TypeOK`), `ResponsesFound`
(`[]NoResponseMissed`) and `DispatchOrdered` (`[]DispatchInOrder`). The types need
what each step of `readerLoop` has in hand and what `dispatchCh` holds
(`ClientTypes`). Over them `NoResponseMissed` is inductive: a call looks through
`oooBuffer` and registers, and `readerLoop` looks up `pending` and appends to
`oooBuffer`, each in one section under `c.mu`. `DispatchInOrder` is proved position
by position (`InOrder`): what `Dispatch` has taken, then what is queued, then the
line `readerLoop` is about to queue are the lines read.

`ChildProcessProofs` proves for any writers, readers, deadlines and capacities
(`ProcessAssumption`)

* `LinesStayWhole` (`[]LinesUnbroken`): the writer between the two parts of its line
  holds the descriptor, so the first part is still the last thing in the pipe
  (`WriteInv`);
* `ReadsStayWhole` (`[]ReadsWhole`): lines returned join end to end except where a
  failed call lost parts, and the reader under `readMu` is the only one with
  parts in hand (`ReadInv`);
* `LoggedOnce` (`[]LoggedInOrder`), for a stderr of any length: the entries logged
  join end to end and reach to the last line read, except for the lines of an
  unfinished block, which begin at `accum` (`LogInv`);
* `BlocksRedactedWhole` (`[]BlocksTogether`): the block under way is the one that
  began at `accum` and its end has not been read (`BlockInv`).

`MemoryTransportProofs` proves `NeverSendsOnClosed` (`[]NoSendOnClosed`) and
`EOFComplete` (`[]EOFIsFinal`) for any senders and capacity; `MemoryAssumption` says
only that no sender has the name of the closer or of nobody. The invariant is the
lock discipline: `t.mu` covers the test of `closeCh` and the send, and `Close` holds
it while it closes both channels (`LockInv`); what was read is a prefix of what was
sent, and all of it at the end (`ReadInv`).

`ProtocolProofs` proves

* `HooksAsked` (`[]HookNotSkipped`) for any subscriptions: the hooks kept are those
  of the `initialize` that was accepted (`HooksInv`), and the map by id loses none if
  ids are distinct (`KeptIfDistinct`);
* `VersionsOrdered` (`[]NegotiatedInRange`) for versions of any length over any
  characters, and integers of any even width that holds the library's own versions
  (`HandshakeAssumption`). What a pass over a sequence computes takes an induction:
  `SetInduction` and `Recursion` derive it from the well-foundedness of the
  natural numbers for sets instead of predicates. By them the loop of
  `semverCompare` returns the sign of the first difference (`CompareFirst`), and a
  pass with integers that wrap around computes the same numbers as one with
  integers of any size, if none overflows (`ScanFits`);
* `RelaySafe` (`[]RelayNeverFails`) and `RelayFaithful` (`[]RoundTrip`) for any messages
  of the Go types, any foreign lines and any number of hops. The invariant
  `RelayInv` says what is on its way: a well-typed message, and after the first
  line one that can be written; or a line that this library wrote, which parses
  to what was sent if that is `Representable`. The argument climbs the types:
  parts, inputs, fields, structs, payloads, messages, lines; at each level what is
  marshalled parses, to a value that can be marshalled, and to the same value if
  it has a form of its own. The hypothesis `Apart` says that `Nil` and `Bad`, which
  stand for a nil pointer and an error, are not also functions, that is Go or JSON
  values; TLC's model values are not.

Only model-checked: the liveness properties (`RequestAnswered`, `ServeTerminates`,
`CallsReturn`, `ReadLoopMovesOn`, `CancelReturns`, `EveryServeReturns`,
`ResponseDelivered`, `DeliverEnds`, `RequestsReplied`, `ShutdownEnds`,
`TransportErrorReleases`, `CloseReleases`, `ExitSeen`, `DeadlineRespected`), because
fairness and `ENABLED` are out of the prover's reach. For the same reason the
refinement theorems are about the safety part of the specifications.

## 5. Not modelled

* Redaction: regular expressions over strings. `StderrLog` says which lines are
  redacted together, not what is found in them.
* Error values, options (constants of the models), package aliases, and the
  examples, which are programs that use the library.
* Of the protocol types: the results of methods, display blocks, media URLs and
  their builders are opaque data.
* A panic in `Steer` or `SetPlanMode` is not recovered by the code and ends the
  process; there is no state left to speak of.
* Requests left in `dispatchCh`, and `handshakeDone`, survive a call of `Serve`
  and concern the next one; `ServeLifecycle` carries the slot and the operations
  across calls, and leaves open which client a request came from.
* `oooBuffer` keeps late responses for ever: the code has no bound to check.

## 6. Plan

Done: turn engine, its abstract specification, requests, their composition,
lifecycle, client, transports, codec, handshake; every safety invariant and every
refinement proved. Next: client and server composed over a channel pair, where a
client that does not run `Dispatch` can hold up the server's writes.
