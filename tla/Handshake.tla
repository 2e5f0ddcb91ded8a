------------------------------ MODULE Handshake ------------------------------
(***************************************************************************)
(* initialize and what depends on it (server/server.go): negotiateVersion, *)
(* external tools, capabilities and hook subscriptions, and the two calls  *)
(* of a turn that consult them, AskQuestion and TriggerHook                *)
(* (server/request.go).  serveLoop runs handleInitialize, agents call the  *)
(* others from their goroutines at any time, under s.mu.                   *)
(*                                                                         *)
(* A version is a sequence of characters, read by atoi with integers of    *)
(* IntRange values.  A hook's matcher is the set of targets it matches;    *)
(* BadMatcher does not compile.                                            *)
(***************************************************************************)
EXTENDS Integers, Sequences, SequencesExt

CONSTANTS
  Supported,     \* WithSupportedHooks
  Events,        \* the hook events a client may subscribe to
  HookIds, Targets,
  MaxHooks,      \* bound: subscriptions in one initialize
  Chars,         \* the characters of requested versions
  MaxVersion,    \* bound: characters of a requested version
  IntRange,      \* the values of an int, 2^64 in the code
  BadMatcher, None

ASSUME HandshakeAssumption == IntRange \in Nat /\ IntRange % 2 = 0 /\ IntRange > 20

VARIABLES
  handshakeDone, negotiated, clientCaps, serverCaps,
  hooks,      \* Server.hooks: a function from ids to subscriptions
  params,     \* the InitializeParams the server accepted, None before
  result,     \* the InitializeResult it answered with, None before
  last        \* what the last call did

vars == <<handshakeDone, negotiated, clientCaps, serverCaps, hooks, params, result, last>>

-----------------------------------------------------------------------------
(***************************************************************************)
(* Versions.                                                               *)
(***************************************************************************)
Digits == [c \in {"0", "1", "2", "3", "4", "5", "6", "7", "8", "9"} |->
             CASE c = "0" -> 0 [] c = "1" -> 1 [] c = "2" -> 2 [] c = "3" -> 3 [] c = "4" -> 4
               [] c = "5" -> 5 [] c = "6" -> 6 [] c = "7" -> 7 [] c = "8" -> 8 [] OTHER -> 9]

MinVersion          == <<"1", ".", "1">>
WireProtocolVersion == <<"1", ".", "1", "0">>
LegacyVersion       == <<"legacy">>

\* An int has IntRange values and wraps around; Exact keeps numbers of any size.
Wrap  == [n \in Int |-> ((n + IntRange \div 2) % IntRange) - IntRange \div 2]
Exact == [n \in Int |-> n]

Acc(parts, n, number) == [parts |-> parts, n |-> n, number |-> number]
Start == Acc(<< >>, 0, TRUE)

\* One character: a component ends at a dot, its number at the first character
\* that is no digit.
ReadChar(acc, c, fit) ==
  CASE c = "." -> Acc(Append(acc.parts, acc.n), 0, TRUE)
    [] c \in DOMAIN Digits /\ acc.number -> Acc(acc.parts, fit[acc.n * 10 + Digits[c]], TRUE)
    [] OTHER -> Acc(acc.parts, acc.n, FALSE)

\* splitVersion and atoi: what is known after each character of v.
Scan(v, fit) ==
  LET scan[i \in 0..Len(v)] ==
        IF i = 0 THEN Start ELSE ReadChar(scan[i - 1], v[i], fit)
  IN  scan

Components(scan, v) == Append(scan[Len(v)].parts, scan[Len(v)].n)

SplitVersion(v) == Components(Scan(v, Wrap), v)

\* Component i, 0 past the end.
Component(parts, i) == IF i \in DOMAIN parts THEN parts[i] ELSE 0

Sign(a, b) == CASE a < b -> -1 [] a > b -> 1 [] OTHER -> 0

\* The loop of semverCompare over n components, which keeps the first difference.
Compare(pa, pb, n) ==
  LET cmp[i \in 0..n] ==
        IF i = 0 THEN 0
        ELSE IF cmp[i - 1] # 0 THEN cmp[i - 1] ELSE Sign(Component(pa, i), Component(pb, i))
  IN  cmp[n]

\* Mutant: the comparison stops at the end of the shorter version.
SemverCompare_Shorter(a, b) ==
  LET pa == SplitVersion(a)  pb == SplitVersion(b)
  IN  Compare(pa, pb, IF Len(pa) < Len(pb) THEN Len(pa) ELSE Len(pb))

SemverCompare(a, b) ==
  LET pa == SplitVersion(a)  pb == SplitVersion(b)
  IN  Compare(pa, pb, IF Len(pa) > Len(pb) THEN Len(pa) ELSE Len(pb))

NegotiateVersion(requested) ==
  IF requested = << >> \/ SemverCompare(requested, MinVersion) < 0 THEN LegacyVersion
  ELSE IF SemverCompare(requested, WireProtocolVersion) > 0 THEN WireProtocolVersion
  ELSE requested

-----------------------------------------------------------------------------
(***************************************************************************)
(* Requests of the client: every version with no hooks, or one version     *)
(* with every sequence of subscriptions.                                   *)
(***************************************************************************)
Subscriptions == [id : HookIds, event : Events, matcher : {Targets, {}, BadMatcher}]
Capabilities  == {None} \cup [question : {None, TRUE, FALSE}]
Tools         == {"good", "bad"}      \* to the external tool validator

SeqsUpTo(S, n) == UNION {[1..m -> S] : m \in 0..n}

InitializeParams ==
  [version : SeqsUpTo(Chars, MaxVersion), caps : {None}, tools : {<<"good">>, <<"good", "bad">>}, hooks : {<< >>}]
    \cup [version : {MinVersion}, caps : Capabilities, tools : {<< >>}, hooks : SeqsUpTo(Subscriptions, MaxHooks)]

Usable(sub) == sub.event \in Supported /\ sub.matcher # BadMatcher

Init ==
  /\ handshakeDone = FALSE /\ negotiated = LegacyVersion
  /\ clientCaps = None /\ serverCaps = None
  /\ hooks = [id \in {} |-> None]
  /\ params = None /\ result = None /\ last = None

\* Mutant: the subscriptions of one event replace each other.
KeptHooks_OnePerEvent(subs) ==
  LET latest == {i \in DOMAIN subs : Usable(subs[i]) /\ \A j \in DOMAIN subs :
                   j > i => subs[j].event # subs[i].event}
  IN  [id \in {subs[i].id : i \in latest} |-> subs[CHOOSE i \in latest : subs[i].id = id]]

\* The map hooks: of two usable subscriptions with one id the later stays.
KeptHooks(subs) ==
  LET latest == {i \in DOMAIN subs : Usable(subs[i]) /\ \A j \in DOMAIN subs :
                   j > i /\ Usable(subs[j]) => subs[j].id # subs[i].id}
  IN  [id \in {subs[i].id : i \in latest} |-> subs[CHOOSE i \in latest : subs[i].id = id]]

\* hooksConfigured counts every usable subscription.
Configured(subs) ==
  [e \in {subs[i].event : i \in {j \in DOMAIN subs : Usable(subs[j])}} |->
     Len(SelectSeq(subs, LAMBDA s : Usable(s) /\ s.event = e))]

HandleInitialize(p) ==
  /\ ~handshakeDone                  \* else "initialize already called"
  /\ LET caps == IF p.caps # None /\ p.caps.question = TRUE THEN TRUE ELSE None IN
     /\ negotiated' = NegotiateVersion(p.version)
     /\ clientCaps' = IF p.caps = None THEN None ELSE p.caps.question
     /\ serverCaps' = caps
     /\ hooks' = KeptHooks(p.hooks)
     /\ result' = [version  |-> NegotiateVersion(p.version), question |-> caps,
                   accepted |-> SelectSeq(p.tools, LAMBDA t : t = "good"),
                   rejected |-> SelectSeq(p.tools, LAMBDA t : t = "bad"),
                   configured |-> Configured(p.hooks)]
  /\ handshakeDone' = TRUE
  /\ params' = p
  /\ last' = [did |-> "initialized"]

AskQuestion ==
  /\ last' = IF clientCaps = TRUE THEN [did |-> "asked"] ELSE [did |-> "question_not_supported"]
  /\ UNCHANGED <<handshakeDone, negotiated, clientCaps, serverCaps, hooks, params, result>>

\* Any matching subscription: the order of a Go map is random.
TriggerHook(event, target) ==
  LET matching == {id \in DOMAIN hooks : hooks[id].event = event /\ target \in hooks[id].matcher} IN
  /\ IF matching = {}
       THEN last' = [did |-> "allowed", event |-> event, target |-> target]
       ELSE \E id \in matching : last' = [did |-> "hook", id |-> id, event |-> event, target |-> target]
  /\ UNCHANGED <<handshakeDone, negotiated, clientCaps, serverCaps, hooks, params, result>>

Next ==
  \/ \E p \in InitializeParams : HandleInitialize(p)
  \/ AskQuestion
  \/ \E e \in Events, t \in Targets : TriggerHook(e, t)

Spec == Init /\ [][Next]_vars

-----------------------------------------------------------------------------
\* The order of versions: their components are numbers of any size, and the
\* first that differs decides.
Numbers(v) == Components(Scan(v, Exact), v)
Below(a, b) ==
  LET pa == Numbers(a)  pb == Numbers(b) IN
  \E i \in 1..(Len(pa) + Len(pb)) :
    /\ Component(pa, i) < Component(pb, i)
    /\ \A j \in 1..(i - 1) : Component(pa, j) = Component(pb, j)

\* No number of v overflows an int while it is read.
Fits(v) == \A i \in 0..Len(v) : Scan(v, Exact)[i].n < IntRange \div 2

\* The version agreed on is the requested one when it lies between the oldest
\* and the newest that negotiateVersion knows, whatever the number of its
\* components and digits ("1.9" is older than "1.10", "1" older than "1.1"), and
\* else the end of the range it lies beyond.
NegotiatedInRange ==
  handshakeDone /\ Fits(params.version) =>
    negotiated = IF Below(params.version, MinVersion) THEN LegacyVersion
                 ELSE IF Below(WireProtocolVersion, params.version) THEN WireProtocolVersion
                 ELSE params.version

\* TriggerHook lets an action pass without asking the client only if no
\* subscription that initialize accepted matches it, as long as the ids the
\* client chose are distinct.
HookNotSkipped ==
  handshakeDone /\ last.did = "allowed" /\ IsInjective([i \in DOMAIN params.hooks |-> params.hooks[i].id]) =>
    \A i \in DOMAIN params.hooks :
      Usable(params.hooks[i]) /\ params.hooks[i].event = last.event
        => last.target \notin params.hooks[i].matcher
=============================================================================
