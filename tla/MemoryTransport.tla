--------------------------- MODULE MemoryTransport ---------------------------
(***************************************************************************)
(* The in-memory transports, one direction at a time: lines that concurrent*)
(* writers hand to one reader, and the Close that races with them.         *)
(*                                                                         *)
(*   "channel"   ChannelTransport.WriteLine to the peer's ReadLine;        *)
(*   "inject"    InMemoryTransport.Inject to ReadLine;                     *)
(*   "outgoing"  InMemoryTransport.WriteLine to Outgoing.                  *)
(*                                                                         *)
(* Each writer writes one line, named after it.  Writer and reader of the  *)
(* first are two ends with a Close each; the others have one.              *)
(***************************************************************************)
EXTENDS Naturals, Sequences

CONSTANTS
  Senders,    \* callers of WriteLine and Inject
  Cap         \* capacity of the channel (64, 1024 in the code)

\* A writer, the one who closes and nobody are told apart.
ASSUME MemoryAssumption == {"closer", "nobody"} \cap Senders = {}

VARIABLES
  kind,
  mu,         \* who holds t.mu: a writer, "closer" or "nobody"
  sendPc,     \* where each writer is, and what it returned
  expired,    \* writers whose context is done
  shut,       \* closeCh is closed, or t.closed
  txClosed,   \* the channel of lines is closed
  peerClosed, \* the reader's own closeCh is closed
  sent,       \* lines accepted
  received,   \* lines read
  ended       \* why the reader stopped: "no", "eof", "ctx" or "own"

memoryVars == <<kind, mu, sendPc, expired, shut, txClosed, peerClosed, sent, received, ended>>

buffered == Len(sent) - Len(received)

Moves(w, to) ==
  /\ sendPc' = [sendPc EXCEPT ![w] = to]
  /\ UNCHANGED <<kind, expired, shut, txClosed, peerClosed, received, ended>>

\* InMemoryTransport.WriteLine looks at its context before it takes the mutex.
CtxChecked(w) == kind = "outgoing" => w \notin expired

WriteGivesUp(w) == /\ sendPc[w] = "idle" /\ ~CtxChecked(w)
                   /\ Moves(w, "ctx") /\ UNCHANGED <<mu, sent>>

\* Mutant: the mutex does not cover the send.
WriteTakesMutex_Free(w) ==
  /\ sendPc[w] = "idle" /\ CtxChecked(w)
  /\ Moves(w, "check") /\ UNCHANGED <<mu, sent>>

WriteTakesMutex(w) ==
  /\ sendPc[w] = "idle" /\ CtxChecked(w) /\ mu = "nobody"
  /\ mu' = w /\ Moves(w, "check") /\ UNCHANGED sent

WriteCheck(w) ==
  /\ sendPc[w] = "check"
  /\ IF shut THEN Moves(w, "closed") /\ mu' = "nobody" ELSE Moves(w, "send") /\ UNCHANGED mu
  /\ UNCHANGED sent

HasRoom == kind # "outgoing" => buffered < Cap

\* The select: a send that is ready, a context that is done, or "buffer full".
WriteSend(w) ==
  /\ sendPc[w] = "send" /\ mu' = "nobody"
  /\ \/ HasRoom /\ Moves(w, "ok") /\ sent' = Append(sent, w)
     \/ kind = "channel" /\ w \in expired /\ Moves(w, "ctx") /\ UNCHANGED sent
     \/ ~HasRoom /\ (kind = "channel" => w \notin expired) /\ Moves(w, "full") /\ UNCHANGED sent

\* Close, under the mutex: closeCh (or closed) first, then the channel.
Close ==
  /\ ~shut /\ mu = "nobody" /\ mu' = "closer" /\ shut' = TRUE
  /\ UNCHANGED <<kind, sendPc, expired, txClosed, peerClosed, sent, received, ended>>

CloseTx ==
  /\ mu = "closer" /\ mu' = "nobody" /\ txClosed' = TRUE
  /\ UNCHANGED <<kind, sendPc, expired, shut, peerClosed, sent, received, ended>>

PeerClose ==
  /\ kind = "channel" /\ ~peerClosed /\ peerClosed' = TRUE
  /\ UNCHANGED <<kind, mu, sendPc, expired, shut, txClosed, sent, received, ended>>

SendCtxDone(w) ==
  /\ w \notin expired /\ expired' = expired \cup {w}
  /\ UNCHANGED <<kind, mu, sendPc, shut, txClosed, peerClosed, sent, received, ended>>

\* ReadLine (Outgoing for "outgoing", which returns all lines at once).
Read ==
  /\ ended = "no" /\ buffered > 0
  /\ received' = IF kind = "outgoing" THEN sent ELSE SubSeq(sent, 1, Len(received) + 1)
  /\ UNCHANGED <<kind, mu, sendPc, expired, shut, txClosed, peerClosed, sent, ended>>

ReadStops(why) ==
  /\ ended = "no" /\ kind # "outgoing" /\ ended' = why
  /\ UNCHANGED <<kind, mu, sendPc, expired, shut, txClosed, peerClosed, sent, received>>

\* Mutant: the end is seen before the buffer is drained.
ReadLineEOF_Early == shut /\ ReadStops("eof")

ReadLineEOF == txClosed /\ buffered = 0 /\ ReadStops("eof")
ReadCtx == ReadStops("ctx")
ReadOwn == peerClosed /\ ReadStops("own")

MemoryInit ==
  /\ kind \in {"channel", "inject", "outgoing"}
  /\ mu = "nobody" /\ sendPc = [w \in Senders |-> "idle"] /\ expired = {}
  /\ shut = FALSE /\ txClosed = FALSE /\ peerClosed = FALSE
  /\ sent = <<>> /\ received = <<>> /\ ended = "no"

MemoryDone ==
  /\ txClosed /\ \A w \in Senders : sendPc[w] \notin {"idle", "check", "send"}
  /\ UNCHANGED memoryVars

MemoryNext ==
  \/ Close \/ CloseTx \/ PeerClose \/ Read \/ ReadLineEOF \/ ReadCtx \/ ReadOwn \/ MemoryDone
  \/ \E w \in Senders : \/ WriteGivesUp(w) \/ WriteTakesMutex(w) \/ WriteCheck(w)
                        \/ WriteSend(w) \/ SendCtxDone(w)

MemorySpec == MemoryInit /\ [][MemoryNext]_memoryVars

-----------------------------------------------------------------------------
\* WriteLine and Inject never send on a channel that Close has closed, which
\* would panic: closeCh is tested and the line sent under one hold of t.mu.
NoSendOnClosed == \A w \in Senders : sendPc[w] = "send" => ~txClosed

\* A reader that sees EOF, and has neither closed its own end nor been
\* cancelled, has every line whose write succeeded, in the order accepted, and
\* no write can succeed any more.
EOFIsFinal ==
  /\ ended = "eof" => received = sent /\ \A w \in Senders : sendPc[w] # "send"
  /\ received = SubSeq(sent, 1, Len(received))
=============================================================================
