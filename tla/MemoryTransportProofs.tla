------------------------ MODULE MemoryTransportProofs ------------------------
(***************************************************************************)
(* WriteLine, Inject and Close of the in-memory transports, for any number *)
(* of writers and any capacity of the channel.                             *)
(***************************************************************************)
EXTENDS MemoryTransport, TLAPS

\* Whoever is between its test of closeCh and its send holds t.mu, and so does
\* Close from the moment it closes closeCh until the channel is closed too.
LockInv ==
  /\ DOMAIN sendPc = Senders
  /\ \A w \in Senders : sendPc[w] \in {"check", "send"} => mu = w
  /\ \A w \in Senders : sendPc[w] = "send" => ~shut
  /\ mu = "closer" => shut
  /\ txClosed => shut

\* What was read is what was sent first, and all of it once the reader has
\* seen the end, after which nothing is sent.
ReadInv ==
  /\ sent \in Seq(Senders) /\ received \in Seq(Senders) /\ Len(received) <= Len(sent)
  /\ \A i \in 1..Len(received) : received[i] = sent[i]
  /\ ended = "eof" => txClosed /\ Len(received) = Len(sent)

\* The lock discipline holds at every step: t.mu covers the test and the send.
LEMMA LockKept == ASSUME LockInv, [MemoryNext]_memoryVars PROVE LockInv'
<1>1. ASSUME NEW w \in Senders, WriteGivesUp(w) PROVE LockInv'
  BY <1>1 DEF WriteGivesUp, Moves, LockInv
<1>2. ASSUME NEW w \in Senders, WriteTakesMutex(w) PROVE LockInv'
  BY <1>2, MemoryAssumption DEF WriteTakesMutex, Moves, LockInv
<1>3. ASSUME NEW w \in Senders, WriteCheck(w) PROVE LockInv'
  BY <1>3, MemoryAssumption DEF WriteCheck, Moves, LockInv
<1>4. ASSUME NEW w \in Senders, WriteSend(w) PROVE LockInv'
  <2>1. /\ sendPc[w] = "send" /\ mu' = "nobody" /\ UNCHANGED <<shut, txClosed>>
        /\ \E to \in {"ok", "ctx", "full"} : sendPc' = [sendPc EXCEPT ![w] = to]
    BY <1>4 DEF WriteSend, Moves
  <2> QED BY <2>1, MemoryAssumption DEF LockInv
<1>5. CASE Close
  BY <1>5, MemoryAssumption DEF Close, LockInv
<1>6. CASE CloseTx
  BY <1>6, MemoryAssumption DEF CloseTx, LockInv
<1>7. CASE PeerClose \/ Read \/ ReadLineEOF \/ ReadCtx \/ ReadOwn \/ MemoryDone \/ UNCHANGED memoryVars
  BY <1>7 DEF PeerClose, Read, ReadLineEOF, ReadCtx, ReadOwn, ReadStops, MemoryDone, memoryVars, LockInv
<1>8. ASSUME NEW w \in Senders, SendCtxDone(w) PROVE LockInv'
  BY <1>8 DEF SendCtxDone, LockInv
<1> QED BY <1>1, <1>2, <1>3, <1>4, <1>5, <1>6, <1>7, <1>8 DEF MemoryNext

\* Under it, a line is appended only while the channel is open, so that the
\* reader that has seen the end has seen everything.
LEMMA ReadKept == ASSUME LockInv, ReadInv, [MemoryNext]_memoryVars PROVE ReadInv'
<1>1. ASSUME NEW w \in Senders, WriteSend(w) PROVE ReadInv'
  <2>1. CASE sent' = Append(sent, w) /\ UNCHANGED <<received, ended, txClosed>>
    <3>1. ~txClosed
      BY <1>1 DEF WriteSend, LockInv
    <3>2. /\ sent' \in Seq(Senders) /\ Len(sent') = Len(sent) + 1
          /\ \A i \in 1..Len(sent) : sent'[i] = sent[i]
      BY <2>1 DEF ReadInv
    <3> QED BY <2>1, <3>1, <3>2 DEF ReadInv
  <2>2. CASE UNCHANGED <<sent, received, ended, txClosed>>
    BY <2>2 DEF ReadInv
  <2> QED BY <1>1, <2>1, <2>2 DEF WriteSend, Moves
<1>2. CASE Read
  <2>1. ended = "no" /\ ended' = "no" /\ UNCHANGED <<sent, txClosed>> /\ Len(received) < Len(sent)
    BY <1>2 DEF Read, buffered, ReadInv
  <2>2. CASE received' = sent
    BY <2>1, <2>2 DEF ReadInv
  <2>3. CASE received' = SubSeq(sent, 1, Len(received) + 1)
    <3>1. /\ received' \in Seq(Senders) /\ Len(received') = Len(received) + 1
          /\ \A i \in 1..Len(received') : received'[i] = sent[i]
      BY <2>1, <2>3 DEF ReadInv
    <3> QED BY <2>1, <3>1 DEF ReadInv
  <2> QED BY <1>2, <2>2, <2>3 DEF Read
<1>3. CASE ReadLineEOF
  BY <1>3 DEF ReadLineEOF, ReadStops, buffered, ReadInv
<1>4. CASE ReadCtx \/ ReadOwn
  BY <1>4 DEF ReadCtx, ReadOwn, ReadStops, ReadInv
<1>5. CASE Close \/ CloseTx \/ PeerClose \/ MemoryDone \/ UNCHANGED memoryVars
  BY <1>5 DEF Close, CloseTx, PeerClose, MemoryDone, memoryVars, ReadInv
<1>6. ASSUME NEW w \in Senders, WriteGivesUp(w) \/ WriteTakesMutex(w) \/ WriteCheck(w) \/ SendCtxDone(w)
      PROVE  ReadInv'
  BY <1>6 DEF WriteGivesUp, WriteTakesMutex, WriteCheck, SendCtxDone, Moves, ReadInv
<1> QED BY <1>1, <1>2, <1>3, <1>4, <1>5, <1>6 DEF MemoryNext

\* Both parts together are inductive.
LEMMA MemoryInvariance == MemorySpec => [](LockInv /\ ReadInv)
<1>1. MemoryInit => LockInv /\ ReadInv
  BY MemoryAssumption DEF MemoryInit, LockInv, ReadInv
<1>2. LockInv /\ ReadInv /\ [MemoryNext]_memoryVars => (LockInv /\ ReadInv)'
  BY LockKept, ReadKept
<1> QED BY <1>1, <1>2, PTL DEF MemorySpec

\* No interleaving of writers with Close sends on the closed channel.
THEOREM NeverSendsOnClosed == MemorySpec => []NoSendOnClosed
<1>1. LockInv => NoSendOnClosed
  BY DEF LockInv, NoSendOnClosed
<1> QED BY MemoryInvariance, <1>1, PTL

\* A reader that has seen EOF has all lines whose write succeeded, in order.
THEOREM EOFComplete == MemorySpec => []EOFIsFinal
<1>1. LockInv /\ ReadInv => EOFIsFinal
  <2> SUFFICES ASSUME LockInv, ReadInv PROVE EOFIsFinal
    OBVIOUS
  <2>1. received = SubSeq(sent, 1, Len(received))
    BY DEF ReadInv
  <2>2. ended = "eof" => received = sent
    BY DEF ReadInv
  <2>3. ended = "eof" => \A w \in Senders : sendPc[w] # "send"
    BY DEF ReadInv, LockInv
  <2> QED BY <2>1, <2>2, <2>3 DEF EOFIsFinal
<1> QED BY MemoryInvariance, <1>1, PTL
=============================================================================
