---------------------------- MODULE ProtocolProofs ----------------------------
(***************************************************************************)
(* Proofs about Handshake, for any versions and subscriptions, and about   *)
(* WireRelay, for any messages and foreign lines.                          *)
(***************************************************************************)
EXTENDS Handshake, WireRelay, WellFoundedInduction, TLAPS

-----------------------------------------------------------------------------
(***************************************************************************)
(* Hook subscriptions.                                                     *)
(***************************************************************************)

\* The subscriptions the server keeps are those of the initialize it accepted.
HooksInv ==
  handshakeDone => DOMAIN params.hooks \subseteq Nat /\ hooks = KeptHooks(params.hooks)

\* The map hooks loses no usable subscription whose id is its own.
LEMMA KeptIfDistinct ==
  ASSUME NEW subs, DOMAIN subs \subseteq Nat, NEW i \in DOMAIN subs, Usable(subs[i]),
         \A a, b \in DOMAIN subs : subs[a].id = subs[b].id => a = b
  PROVE  /\ subs[i].id \in DOMAIN KeptHooks(subs)
         /\ KeptHooks(subs)[subs[i].id] = subs[i]
<1> DEFINE latest == {k \in DOMAIN subs : Usable(subs[k]) /\ \A j \in DOMAIN subs :
                        j > k /\ Usable(subs[j]) => subs[j].id # subs[k].id}
<1>1. i \in latest
  OBVIOUS
<1>2. \A k \in latest : subs[k].id = subs[i].id => k = i
  OBVIOUS
<1>3. (CHOOSE k \in latest : subs[k].id = subs[i].id) = i
  BY <1>1, <1>2
<1>4. subs[i].id \in {subs[k].id : k \in latest}
  BY <1>1
<1>5. KeptHooks(subs) =
        [id \in {subs[k].id : k \in latest} |-> subs[CHOOSE k \in latest : subs[k].id = id]]
  BY DEF KeptHooks
<1> HIDE DEF latest
<1> QED BY ZenonT(30), <1>3, <1>4, <1>5

\* initialize is accepted once, and nothing else touches the subscriptions.
LEMMA HooksKept == HooksInv /\ [Next]_vars => HooksInv'
<1> SUFFICES ASSUME HooksInv, [Next]_vars PROVE HooksInv'
  OBVIOUS
<1>1. ASSUME NEW p \in InitializeParams, HandleInitialize(p) PROVE HooksInv'
  <2>1. params' = p /\ hooks' = KeptHooks(p.hooks)
    BY <1>1 DEF HandleInitialize
  <2>2. DOMAIN p.hooks \subseteq Nat
    <3>1. p.hooks = << >> \/ p.hooks \in SeqsUpTo(Subscriptions, MaxHooks)
      BY DEF InitializeParams
    <3>2. DOMAIN << >> = {}
      OBVIOUS
    <3>3. ASSUME p.hooks \in SeqsUpTo(Subscriptions, MaxHooks) PROVE DOMAIN p.hooks \subseteq Nat
      <4>1. PICK m \in 0..MaxHooks : p.hooks \in [1..m -> Subscriptions]
        BY <3>3 DEF SeqsUpTo
      <4> QED BY <4>1
    <3> QED BY <3>1, <3>2, <3>3
  <2> QED BY <2>1, <2>2 DEF HooksInv
<1>2. CASE AskQuestion \/ UNCHANGED vars \/ \E e \in Events, t \in Targets : TriggerHook(e, t)
  <2>1. UNCHANGED <<handshakeDone, params, hooks>>
    BY <1>2 DEF AskQuestion, TriggerHook, vars
  <2> QED BY <2>1 DEF HooksInv, KeptHooks, Usable
<1> QED BY <1>1, <1>2 DEF Next

\* A hook that lets an action pass has looked at every usable subscription.
LEMMA NotSkipped == HooksInv /\ HookNotSkipped /\ [Next]_vars => HookNotSkipped'
<1> SUFFICES ASSUME HooksInv, HookNotSkipped, [Next]_vars PROVE HookNotSkipped'
  OBVIOUS
<1>1. ASSUME NEW p \in InitializeParams, HandleInitialize(p) PROVE HookNotSkipped'
  BY <1>1 DEF HandleInitialize, HookNotSkipped
<1>2. CASE AskQuestion
  BY <1>2 DEF AskQuestion, HookNotSkipped
<1>3. CASE UNCHANGED vars
  BY <1>3 DEF vars, HookNotSkipped, Usable
<1>4. ASSUME NEW e \in Events, NEW t \in Targets, TriggerHook(e, t) PROVE HookNotSkipped'
  <2> SUFFICES ASSUME handshakeDone, last'.did = "allowed", NEW i \in DOMAIN params.hooks,
                      \A a, b \in DOMAIN params.hooks :
                        params.hooks[a].id = params.hooks[b].id => a = b,
                      Usable(params.hooks[i]), params.hooks[i].event = last'.event
               PROVE  last'.target \notin params.hooks[i].matcher
    BY <1>4 DEF TriggerHook, HookNotSkipped, IsInjective, Usable
  <2>1. /\ last'.event = e /\ last'.target = t
        /\ \A id \in DOMAIN hooks : hooks[id].event = e => t \notin hooks[id].matcher
    BY <1>4 DEF TriggerHook
  <2>2. params.hooks[i].id \in DOMAIN hooks /\ hooks[params.hooks[i].id] = params.hooks[i]
    BY KeptIfDistinct DEF HooksInv
  <2> QED BY <2>1, <2>2
<1> QED BY <1>1, <1>2, <1>3, <1>4 DEF Next

\* TriggerHook never lets an action pass that a subscription accepted by
\* initialize is about, for any number of subscriptions with distinct ids.
THEOREM HooksAsked == Spec => []HookNotSkipped
<1>1. Init => HooksInv /\ HookNotSkipped
  BY DEF Init, HooksInv, HookNotSkipped
<1> QED BY <1>1, HooksKept, NotSkipped, PTL DEF Spec

-----------------------------------------------------------------------------
(***************************************************************************)
(* Induction and recursion over the natural numbers, for sets.             *)
(***************************************************************************)
\* Induction over the naturals, for a set: a subset of Nat that is not all of it
\* leaves out a least number.
LEMMA SetInduction ==
  ASSUME NEW S, 0 \in S, \A n \in Nat : n \in S => n + 1 \in S
  PROVE  Nat \subseteq S
<1> DEFINE R == {ss \in Nat \X Nat : ss[1] < ss[2]}
           T == Nat \ S
<1>1. OpToRel(<, Nat) = R
  BY Zenon DEF OpToRel
<1>2. IsWellFoundedOn(R, Nat)
  BY <1>1, NatLessThanWellFounded, Zenon
<1>3. ASSUME NEW x \in Nat, NEW y \in Nat, ~ (<<y, x>> \in R) PROVE x <= y
  BY <1>3
<1>4. SUFFICES ASSUME T # {} PROVE FALSE
  OBVIOUS
<1>5. \E x \in T : \A y \in T : ~ (<<y, x>> \in R)
  <2>1. T \subseteq Nat
    OBVIOUS
  <2> HIDE DEF R, T
  <2> QED BY <1>2, <1>4, <2>1, WFMin
<1>6. PICK x \in T : \A y \in T : ~ (<<y, x>> \in R)
  BY <1>5
<1> HIDE DEF R
<1>7. x # 0 /\ x - 1 \in Nat /\ x - 1 \notin S
  BY <1>6
<1>8. x <= x - 1
  BY <1>3, <1>6, <1>7
<1> QED BY <1>8

\* g is defined by recursion over 0..n: it begins with b and goes on with F.
Recursive(g, n, T, b, F) ==
  g \in [0..n -> T] /\ g[0] = b /\ \A i \in 1..n : g[i] = F[<<i, g[i - 1]>>]
StepFunctions(n, T) == [(1..n) \X T -> T]

\* Such a function exists.
LEMMA Recursion ==
  ASSUME NEW n \in Nat, NEW T, NEW b \in T, NEW F \in StepFunctions(n, T)
  PROVE  \E g : Recursive(g, n, T, b, F)
<1> DEFINE Upto(m, g) == Recursive(g, m, T, b, F)
           S == {m \in Nat : m <= n => \E g : Upto(m, g)}
<1>1. 0 \in S
  <2>1. Upto(0, [i \in 0..0 |-> b])
    BY DEF Recursive
  <2> QED BY <2>1
<1>2. ASSUME NEW m \in Nat, m \in S PROVE m + 1 \in S
  <2> SUFFICES ASSUME m + 1 <= n PROVE \E g : Upto(m + 1, g)
    OBVIOUS
  <2>1. PICK g : Upto(m, g)
    BY <1>2
  <2> DEFINE h == [i \in 0..(m + 1) |-> IF i = m + 1 THEN F[<<i, g[m]>>] ELSE g[i]]
  <2>2. g[m] \in T /\ <<m + 1, g[m]>> \in (1..n) \X T
    BY <2>1 DEF Recursive
  <2>3. h \in [0..(m + 1) -> T]
    BY <2>1, <2>2 DEF Recursive, StepFunctions
  <2>4. h[0] = b
    BY <2>1 DEF Recursive
  <2>5. ASSUME NEW i \in 1..(m + 1) PROVE h[i] = F[<<i, h[i - 1]>>]
    BY <2>1, <2>5 DEF Recursive
  <2> QED BY <2>3, <2>4, <2>5 DEF Recursive
<1>3. n \in S
  <2> HIDE DEF S
  <2> QED BY <1>1, <1>2, SetInduction
<1>4. PICK g : Upto(n, g)
  BY <1>3
<1> QED BY <1>4

-----------------------------------------------------------------------------
(***************************************************************************)
(* Versions.                                                               *)
(***************************************************************************)
\* What splitVersion and atoi know on the way.
Accs == [parts : Seq(Int), n : Int, number : BOOLEAN]

\* A dot is no digit, and a digit is worth 0 to 9.
LEMMA DigitValue == "." \notin DOMAIN Digits /\ \A c \in DOMAIN Digits : Digits[c] \in 0..9
BY DEF Digits

\* A scan keeps natural numbers, whatever the character.
LEMMA ReadCharType ==
  ASSUME NEW acc \in Accs, NEW c, NEW fit \in [Int -> Int]
  PROVE  ReadChar(acc, c, fit) \in Accs
<1>1. acc.parts \in Seq(Int) /\ acc.n \in Int
  BY DEF Accs
<1>2. Append(acc.parts, acc.n) \in Seq(Int)
  BY <1>1
<1>3. Acc(Append(acc.parts, acc.n), 0, TRUE) \in Accs
  BY <1>2 DEF Acc, Accs
<1>4. ASSUME c \in DOMAIN Digits PROVE Acc(acc.parts, fit[acc.n * 10 + Digits[c]], TRUE) \in Accs
  <2>1. PICK d \in Int : d = Digits[c]
    BY <1>4, DigitValue
  <2>2. acc.n * 10 + d \in Int
    BY <1>1
  <2>3. fit[acc.n * 10 + Digits[c]] \in Int
    BY <2>1, <2>2
  <2> QED BY <1>1, <2>3 DEF Acc, Accs
<1>5. Acc(acc.parts, acc.n, FALSE) \in Accs
  BY <1>1 DEF Acc, Accs
<1> QED BY <1>3, <1>4, <1>5 DEF ReadChar

\* Scan is the state after each character.
LEMMA ScanSteps ==
  ASSUME NEW S, NEW v \in Seq(S), NEW fit \in [Int -> Int]
  PROVE  /\ Scan(v, fit) \in [0..Len(v) -> Accs]
         /\ Scan(v, fit)[0] = Start
         /\ \A i \in 1..Len(v) : Scan(v, fit)[i] = ReadChar(Scan(v, fit)[i - 1], v[i], fit)
<1> DEFINE n == Len(v)
           F == [p \in (1..n) \X Accs |-> ReadChar(p[2], v[p[1]], fit)]
           Body(g) == [i \in 0..n |-> IF i = 0 THEN Start ELSE ReadChar(g[i - 1], v[i], fit)]
<1>0. n \in Nat
  OBVIOUS
<1>1. Start \in Accs
  BY DEF Start, Acc, Accs
<1>2. F \in StepFunctions(n, Accs)
  BY ReadCharType DEF StepFunctions
<1>3. PICK g : Recursive(g, n, Accs, Start, F)
  <2> HIDE DEF F, n
  <2> QED BY <1>0, <1>1, <1>2, Recursion
<1>4. ASSUME NEW i \in 1..n PROVE F[<<i, g[i - 1]>>] = ReadChar(g[i - 1], v[i], fit)
  <2>1. i - 1 \in 0..n
    BY <1>0
  <2>2. <<i, g[i - 1]>> \in (1..n) \X Accs
    BY <1>3, <2>1 DEF Recursive
  <2> QED BY <2>2
<1>5. g = Body(g)
  <2>1. ASSUME NEW i \in 0..n
        PROVE  g[i] = IF i = 0 THEN Start ELSE ReadChar(g[i - 1], v[i], fit)
    <3>1. CASE i = 0
      BY <1>3, <3>1 DEF Recursive
    <3>2. CASE i # 0
      <4>1. i \in 1..n
        BY <1>0, <3>2
      <4> HIDE DEF F, n
      <4>2. g[i] = F[<<i, g[i - 1]>>]
        BY <1>3, <4>1 DEF Recursive
      <4> QED BY <1>4, <3>2, <4>1, <4>2
    <3> QED BY <3>1, <3>2
  <2> HIDE DEF n
  <2> QED BY <1>3, <2>1 DEF Recursive
<1>6. Scan(v, fit) = CHOOSE f : f = Body(f)
  BY DEF Scan
<1>7. Scan(v, fit) = Body(Scan(v, fit))
  <2> HIDE DEF Body
  <2> QED BY <1>5, <1>6
<1> DEFINE s == Scan(v, fit)
           S1 == {i \in Nat : i \in 0..n => s[i] \in Accs}
<1>8. s = [i \in 0..n |-> IF i = 0 THEN Start ELSE ReadChar(s[i - 1], v[i], fit)]
  BY <1>7
<1> HIDE DEF s, n
<1>9. DOMAIN s = 0..n /\ s[0] = Start
  BY <1>0, <1>8
<1>10. ASSUME NEW i \in 1..n PROVE s[i] = ReadChar(s[i - 1], v[i], fit)
  <2>1. i \in 0..n /\ i # 0
    BY <1>0
  <2>2. s[i] = IF i = 0 THEN Start ELSE ReadChar(s[i - 1], v[i], fit)
    BY <1>8, <2>1
  <2> QED BY <2>1, <2>2
<1>11. 0 \in S1
  BY <1>1, <1>9
<1>12. ASSUME NEW i \in Nat, i \in S1 PROVE i + 1 \in S1
  <2> SUFFICES ASSUME i + 1 \in 0..n PROVE s[i + 1] \in Accs
    OBVIOUS
  <2>1. s[i] \in Accs /\ i + 1 \in 1..n /\ (i + 1) - 1 = i
    BY <1>0, <1>12
  <2> QED BY <1>10, <2>1, ReadCharType
<1>13. \A i \in 0..n : s[i] \in Accs
  <2>1. Nat \subseteq S1
    <3> HIDE DEF S1
    <3> QED BY <1>11, <1>12, SetInduction
  <2> QED BY <1>0, <2>1
<1>14. s \in [0..n -> Accs]
  BY <1>8, <1>13
<1> QED BY <1>9, <1>10, <1>14 DEF s, n

\* The first n components of pa are below those of pb.
BelowUpTo(pa, pb, n) ==
  \E i \in 1..n : /\ Component(pa, i) < Component(pb, i)
                  /\ \A j \in 1..(i - 1) : Component(pa, j) = Component(pb, j)

\* The loop of semverCompare returns the sign of the first difference.
LEMMA CompareFirst ==
  ASSUME NEW pa \in Seq(Int), NEW pb \in Seq(Int), NEW n \in Nat
  PROVE  /\ Compare(pa, pb, n) < 0 <=> BelowUpTo(pa, pb, n)
         /\ Compare(pa, pb, n) > 0 <=> BelowUpTo(pb, pa, n)
<1> DEFINE Signs == {-1, 0, 1}
           F == [p \in (1..n) \X Signs |-> IF p[2] # 0 THEN p[2] ELSE Sign(Component(pa, p[1]), Component(pb, p[1]))]
           Body(g) == [i \in 0..n |-> IF i = 0 THEN 0
                                      ELSE IF g[i - 1] # 0 THEN g[i - 1] ELSE Sign(Component(pa, i), Component(pb, i))]
<1>1. \A i \in Nat : Component(pa, i) \in Int /\ Component(pb, i) \in Int
  BY DEF Component
<1>2. F \in StepFunctions(n, Signs)
  BY DEF StepFunctions, Sign
<1>3. PICK g : Recursive(g, n, Signs, 0, F)
  <2> HIDE DEF F
  <2>1. 0 \in Signs
    OBVIOUS
  <2> HIDE DEF Signs
  <2> QED BY <1>2, <2>1, Recursion
<1>4. g = Body(g)
  <2>1. ASSUME NEW i \in 0..n
        PROVE  g[i] = IF i = 0 THEN 0
                      ELSE IF g[i - 1] # 0 THEN g[i - 1] ELSE Sign(Component(pa, i), Component(pb, i))
    <3>1. CASE i = 0
      BY <1>3, <3>1 DEF Recursive
    <3>2. CASE i # 0
      <4>1. i \in 1..n /\ i - 1 \in 0..n
        BY <3>2
      <4>2. g[i] = F[<<i, g[i - 1]>>] /\ <<i, g[i - 1]>> \in (1..n) \X Signs
        BY <1>3, <4>1 DEF Recursive
      <4> QED BY <3>2, <4>2
    <3> QED BY <3>1, <3>2
  <2> QED BY <1>3, <2>1 DEF Recursive
<1>5. Compare(pa, pb, n) = (CHOOSE f : f = Body(f))[n]
  BY DEF Compare
<1> DEFINE c == CHOOSE f : f = Body(f)
<1>6. c = Body(c)
  <2> HIDE DEF Body
  <2> QED BY <1>4
<1>7. c = [i \in 0..n |-> IF i = 0 THEN 0
                             ELSE IF c[i - 1] # 0 THEN c[i - 1] ELSE Sign(Component(pa, i), Component(pb, i))]
  BY <1>6
<1> HIDE DEF c
<1>8. c[0] = 0
  BY <1>7
<1>9. ASSUME NEW i \in 1..n
      PROVE  c[i] = IF c[i - 1] # 0 THEN c[i - 1] ELSE Sign(Component(pa, i), Component(pb, i))
  <2>1. i \in 0..n /\ i # 0
    OBVIOUS
  <2> QED BY <1>7, <2>1
<1> DEFINE Decided(m) ==
             \/ c[m] = 0 /\ \A j \in 1..m : Component(pa, j) = Component(pb, j)
             \/ c[m] = -1 /\ BelowUpTo(pa, pb, m)
             \/ c[m] = 1 /\ BelowUpTo(pb, pa, m)
           S == {m \in Nat : m <= n => Decided(m)}
<1>10. 0 \in S
  BY <1>8
<1>11. ASSUME NEW m \in Nat, m \in S PROVE m + 1 \in S
  <2> SUFFICES ASSUME m + 1 <= n PROVE Decided(m + 1)
    OBVIOUS
  <2>1. Decided(m) /\ c[m + 1] = IF c[m] # 0 THEN c[m] ELSE Sign(Component(pa, m + 1), Component(pb, m + 1))
    BY <1>9, <1>11
  <2>2. CASE c[m] = -1 /\ BelowUpTo(pa, pb, m)
    BY <2>1, <2>2 DEF BelowUpTo
  <2>3. CASE c[m] = 1 /\ BelowUpTo(pb, pa, m)
    BY <2>1, <2>3 DEF BelowUpTo
  <2>4. CASE c[m] = 0 /\ \A j \in 1..m : Component(pa, j) = Component(pb, j)
    <3>1. (m + 1) - 1 = m /\ m + 1 \in 1..(m + 1)
      OBVIOUS
    <3>2. CASE Component(pa, m + 1) < Component(pb, m + 1)
      BY <2>1, <2>4, <3>1, <3>2 DEF Sign, BelowUpTo
    <3>3. CASE Component(pb, m + 1) < Component(pa, m + 1)
      BY <1>1, <2>1, <2>4, <3>1, <3>3 DEF Sign, BelowUpTo
    <3>4. CASE Component(pb, m + 1) = Component(pa, m + 1)
      <4>1. c[m + 1] = 0
        BY SMTT(30), <1>1, <2>1, <2>4, <3>4 DEF Sign
      <4>2. \A j \in 1..(m + 1) : Component(pa, j) = Component(pb, j)
        BY <2>4, <3>4
      <4> QED BY <4>1, <4>2
    <3> QED BY <1>1, <3>2, <3>3, <3>4
  <2> QED BY <2>1, <2>2, <2>3, <2>4
<1>12. Decided(n)
  <2>1. Nat \subseteq S
    <3> HIDE DEF S
    <3> QED BY <1>10, <1>11, SetInduction
  <2> QED BY <2>1
<1>13. ASSUME BelowUpTo(pa, pb, n), BelowUpTo(pb, pa, n) PROVE FALSE
  <2>1. PICK i \in 1..n : /\ Component(pa, i) < Component(pb, i)
                          /\ \A j \in 1..(i - 1) : Component(pa, j) = Component(pb, j)
    BY <1>13 DEF BelowUpTo
  <2>2. PICK k \in 1..n : /\ Component(pb, k) < Component(pa, k)
                          /\ \A j \in 1..(k - 1) : Component(pb, j) = Component(pa, j)
    BY <1>13 DEF BelowUpTo
  <2>3. CASE i < k
    BY <1>1, <2>1, <2>2, <2>3
  <2>4. CASE k < i
    BY <1>1, <2>1, <2>2, <2>4
  <2>5. CASE i = k
    BY <1>1, <2>1, <2>2, <2>5
  <2> QED BY <2>3, <2>4, <2>5
<1>14. (\A j \in 1..n : Component(pa, j) = Component(pb, j)) => ~BelowUpTo(pa, pb, n) /\ ~BelowUpTo(pb, pa, n)
  BY <1>1 DEF BelowUpTo
<1>15. Compare(pa, pb, n) = c[n]
  BY <1>5 DEF c
<1> QED BY <1>12, <1>13, <1>14, <1>15

\* Both ways to keep a number keep integers.
LEMMA IntsWrap == Wrap \in [Int -> Int] /\ Exact \in [Int -> Int]
<1>1. IntRange \in Int /\ IntRange > 0 /\ IntRange \div 2 \in Int
  BY HandshakeAssumption
<1>2. ASSUME NEW n \in Int PROVE ((n + IntRange \div 2) % IntRange) - IntRange \div 2 \in Int
  BY <1>1
<1> QED BY <1>2 DEF Wrap, Exact

\* A number within the range of an int is kept as it is.
LEMMA WrapFits ==
  ASSUME NEW n \in Nat, n < IntRange \div 2
  PROVE  Wrap[n] = n
<1>1. PICK h \in Nat : IntRange = 2 * h
  BY HandshakeAssumption
<1>2. IntRange \div 2 = h
  BY <1>1
<1>3. n + h \in Nat /\ n + h < IntRange /\ IntRange \in Nat /\ IntRange > 0
  BY <1>1, <1>2, HandshakeAssumption
<1>4. (n + h) % IntRange = n + h
  BY <1>3
<1>5. Wrap[n] = ((n + h) % IntRange) - h
  BY <1>2 DEF Wrap
<1> QED BY <1>4, <1>5

\* Ints read what numbers of any size do, as long as they do not overflow.
LEMMA ReadCharFits ==
  ASSUME NEW acc \in Accs, acc.n >= 0, NEW c,
         ReadChar(acc, c, Exact).n < IntRange \div 2
  PROVE  ReadChar(acc, c, Wrap) = ReadChar(acc, c, Exact) /\ ReadChar(acc, c, Exact).n >= 0
<1>1. CASE c = "."
  <2>1. ReadChar(acc, c, Exact) = Acc(Append(acc.parts, acc.n), 0, TRUE)
    BY <1>1, DigitValue DEF ReadChar
  <2>2. ReadChar(acc, c, Wrap) = Acc(Append(acc.parts, acc.n), 0, TRUE)
    BY <1>1, DigitValue DEF ReadChar
  <2> QED BY <2>1, <2>2 DEF Acc
<1>2. CASE c # "." /\ c \in DOMAIN Digits /\ acc.number
  <2>1. PICK m \in Nat : m = acc.n * 10 + Digits[c]
    <3>1. Digits[c] \in Nat
      BY <1>2, DigitValue
    <3>2. acc.n \in Nat
      BY DEF Accs
    <3> QED BY <3>1, <3>2
  <2>2. Exact[m] = m
    BY DEF Exact
  <2>3. ReadChar(acc, c, Exact) = Acc(acc.parts, m, TRUE)
    BY <1>2, <2>1, <2>2 DEF ReadChar
  <2>4. ReadChar(acc, c, Wrap) = Acc(acc.parts, Wrap[m], TRUE)
    BY <1>2, <2>1 DEF ReadChar
  <2>5. m < IntRange \div 2
    BY <2>3 DEF Acc
  <2>6. Wrap[m] = m
    BY <2>5, WrapFits
  <2>7. Acc(acc.parts, m, TRUE).n = m
    BY DEF Acc
  <2>8. m >= 0
    OBVIOUS
  <2>9. ReadChar(acc, c, Wrap) = ReadChar(acc, c, Exact)
    BY <2>3, <2>4, <2>6, Zenon
  <2> QED BY <2>3, <2>7, <2>8, <2>9
<1>3. CASE c # "." /\ ~(c \in DOMAIN Digits /\ acc.number)
  <2>1. ReadChar(acc, c, Exact) = Acc(acc.parts, acc.n, FALSE)
    BY <1>3 DEF ReadChar
  <2>2. ReadChar(acc, c, Wrap) = Acc(acc.parts, acc.n, FALSE)
    BY <1>3 DEF ReadChar
  <2>3. Acc(acc.parts, acc.n, FALSE).n = acc.n
    BY DEF Acc
  <2> QED BY <2>1, <2>2, <2>3
<1> QED BY <1>1, <1>2, <1>3

\* A version without overflow is scanned as its exact numbers.
LEMMA ScanFits ==
  ASSUME NEW T, NEW v \in Seq(T), Fits(v)
  PROVE  SplitVersion(v) = Numbers(v)
<1> DEFINE w == Scan(v, Wrap)
           e == Scan(v, Exact)
           n == Len(v)
           S == {i \in Nat : i <= n => w[i] = e[i] /\ e[i].n >= 0}
<1>1. /\ w \in [0..n -> Accs] /\ w[0] = Start
      /\ \A i \in 1..n : w[i] = ReadChar(w[i - 1], v[i], Wrap)
  BY IntsWrap, ScanSteps
<1>2. /\ e \in [0..n -> Accs] /\ e[0] = Start
      /\ \A i \in 1..n : e[i] = ReadChar(e[i - 1], v[i], Exact)
  BY IntsWrap, ScanSteps
<1>3. n \in Nat /\ \A i \in 0..n : e[i].n < IntRange \div 2
  BY DEF Fits
<1> HIDE DEF w, e, n
<1>4. 0 \in S
  BY <1>1, <1>2 DEF Start, Acc
<1>5. ASSUME NEW i \in Nat, i \in S PROVE i + 1 \in S
  <2> SUFFICES ASSUME i + 1 <= n PROVE w[i + 1] = e[i + 1] /\ e[i + 1].n >= 0
    OBVIOUS
  <2>1. i + 1 \in 1..n /\ i + 1 \in 0..n /\ i \in 0..n /\ (i + 1) - 1 = i
    BY <1>3
  <2>2. w[i] = e[i] /\ e[i].n >= 0 /\ e[i] \in Accs
    BY <1>2, <1>5, <2>1
  <2>3. w[i + 1] = ReadChar(e[i], v[i + 1], Wrap) /\ e[i + 1] = ReadChar(e[i], v[i + 1], Exact)
    BY <1>1, <1>2, <2>1, <2>2
  <2>4. ReadChar(e[i], v[i + 1], Exact).n < IntRange \div 2
    BY <1>3, <2>1, <2>3
  <2> QED BY <2>2, <2>3, <2>4, ReadCharFits
<1>6. Nat \subseteq S
  <2> HIDE DEF S
  <2> QED BY <1>4, <1>5, SetInduction
<1>7. w[n] = e[n]
  BY <1>3, <1>6
<1> QED BY <1>7 DEF SplitVersion, Numbers, Components, w, e, n

\* Numbers(v) is a sequence of numbers.
LEMMA NumbersType == ASSUME NEW T, NEW v \in Seq(T) PROVE Numbers(v) \in Seq(Int)
<1> DEFINE n == Len(v)
           e == Scan(v, Exact)
<1>1. e \in [0..n -> Accs]
  BY IntsWrap, ScanSteps
<1>2. n \in 0..n
  OBVIOUS
<1> HIDE DEF n, e
<1>3. e[n].parts \in Seq(Int) /\ e[n].n \in Int
  BY <1>1, <1>2 DEF Accs
<1>4. Append(e[n].parts, e[n].n) \in Seq(Int)
  BY <1>3
<1> QED BY <1>4 DEF Numbers, Components, e, n

\* A digit and a dot, read after what is known.
LEMMA ReadDigit ==
  ASSUME NEW parts, NEW n \in Int, NEW c \in DOMAIN Digits, NEW d \in Int, Digits[c] = d
  PROVE  ReadChar(Acc(parts, n, TRUE), c, Exact) = Acc(parts, n * 10 + d, TRUE)
<1> DEFINE acc == Acc(parts, n, TRUE)
<1>1. acc.parts = parts /\ acc.n = n /\ acc.number = TRUE
  BY DEF Acc
<1>2. c # "."
  BY DigitValue
<1>3. Exact[n * 10 + d] = n * 10 + d
  BY DEF Exact
<1> HIDE DEF acc
<1>4. ReadChar(acc, c, Exact) = Acc(acc.parts, Exact[acc.n * 10 + Digits[c]], TRUE)
  BY <1>1, <1>2 DEF ReadChar
<1> QED BY <1>1, <1>3, <1>4 DEF acc

\* A dot ends a component.
LEMMA ReadDot ==
  ASSUME NEW parts, NEW n, NEW number, NEW fit
  PROVE  ReadChar(Acc(parts, n, number), ".", fit) = Acc(Append(parts, n), 0, TRUE)
<1> DEFINE acc == Acc(parts, n, number)
<1>1. acc.parts = parts /\ acc.n = n
  BY DEF Acc
<1> HIDE DEF acc
<1>2. ReadChar(acc, ".", fit) = Acc(Append(acc.parts, acc.n), 0, TRUE)
  BY DigitValue DEF ReadChar
<1> QED BY <1>1, <1>2 DEF acc

\* The versions the server knows are sequences of characters.
KnownChars == {"0", "1", "."}
LEMMA KnownVersions == MinVersion \in Seq(KnownChars) /\ WireProtocolVersion \in Seq(KnownChars)
<1>1. <<"1", ".", "1">> \in Seq({"0", "1", "."})
  OBVIOUS
<1>2. <<"1", ".", "1", "0">> \in Seq({"0", "1", "."})
  OBVIOUS
<1> QED BY <1>1, <1>2 DEF KnownChars, MinVersion, WireProtocolVersion

\* What is known after "1.1".
LEMMA OnePointOne ==
  ASSUME NEW v \in Seq(KnownChars), Len(v) >= 3, v[1] = "1", v[2] = ".", v[3] = "1"
  PROVE  /\ Scan(v, Exact)[0] = Start /\ Scan(v, Exact)[1] = Acc(<< >>, 1, TRUE)
         /\ Scan(v, Exact)[2] = Acc(<<1>>, 0, TRUE) /\ Scan(v, Exact)[3] = Acc(<<1>>, 1, TRUE)
<1> DEFINE e == Scan(v, Exact)
<1>1. e[0] = Start /\ \A i \in 1..Len(v) : e[i] = ReadChar(e[i - 1], v[i], Exact)
  BY IntsWrap, ScanSteps
<1>2. "1" \in DOMAIN Digits /\ Digits["1"] = 1 /\ 0 \in Int /\ 1 \in Int
  BY DEF Digits
<1> HIDE DEF e
<1>3. e[1] = ReadChar(e[0], "1", Exact) /\ e[2] = ReadChar(e[1], ".", Exact) /\ e[3] = ReadChar(e[2], "1", Exact)
  BY <1>1
<1>4. e[1] = Acc(<< >>, 1, TRUE)
  <2>1. ReadChar(Acc(<< >>, 0, TRUE), "1", Exact) = Acc(<< >>, 0 * 10 + 1, TRUE)
    BY <1>2, ReadDigit, Zenon
  <2>2. 0 * 10 + 1 = 1
    OBVIOUS
  <2> QED BY <1>1, <1>3, <2>1, <2>2, Zenon DEF Start
<1>5. e[2] = Acc(<<1>>, 0, TRUE)
  <2>1. ReadChar(Acc(<< >>, 1, TRUE), ".", Exact) = Acc(Append(<< >>, 1), 0, TRUE)
    BY ReadDot, Zenon
  <2>2. Append(<< >>, 1) = <<1>>
    OBVIOUS
  <2> QED BY <1>3, <1>4, <2>1, <2>2, Zenon
<1>6. e[3] = Acc(<<1>>, 1, TRUE)
  <2>1. ReadChar(Acc(<<1>>, 0, TRUE), "1", Exact) = Acc(<<1>>, 0 * 10 + 1, TRUE)
    BY <1>2, ReadDigit, Zenon
  <2>2. 0 * 10 + 1 = 1
    OBVIOUS
  <2> QED BY <1>3, <1>5, <2>1, <2>2, Zenon
<1> QED BY <1>1, <1>4, <1>5, <1>6 DEF e

\* The numbers of the oldest version.
LEMMA MinNumbers == Fits(MinVersion) /\ Len(Numbers(MinVersion)) = 2 /\ Numbers(MinVersion)[1] = 1
<1> DEFINE v == MinVersion
           e == Scan(v, Exact)
<1>1. v \in Seq(KnownChars) /\ Len(v) = 3 /\ v[1] = "1" /\ v[2] = "." /\ v[3] = "1"
  BY KnownVersions DEF MinVersion
<1>2. e[0] = Start /\ e[1] = Acc(<< >>, 1, TRUE) /\ e[2] = Acc(<<1>>, 0, TRUE) /\ e[3] = Acc(<<1>>, 1, TRUE)
  <2>1. Len(v) >= 3
    BY <1>1
  <2> HIDE DEF v
  <2> QED BY <1>1, <2>1, OnePointOne, Zenon
<1> HIDE DEF v, e
<1>3. e[0].n = 0 /\ e[1].n = 1 /\ e[2].n = 0 /\ e[3].n = 1 /\ e[3].parts = <<1>>
  BY <1>2 DEF Start, Acc
<1>4. \A i \in 0..3 : e[i].n < IntRange \div 2
  BY <1>3, HandshakeAssumption
<1>5. Numbers(v) = Append(<<1>>, 1)
  BY <1>1, <1>3 DEF Numbers, Components, e
<1>6. Len(Append(<<1>>, 1)) = 2 /\ Append(<<1>>, 1)[1] = 1
  OBVIOUS
<1> QED BY <1>1, <1>4, <1>5, <1>6 DEF Fits, v, e

\* Nor does the newest overflow.
LEMMA NewestFits == Fits(WireProtocolVersion)
<1> DEFINE v == WireProtocolVersion
           e == Scan(v, Exact)
<1>1. v \in Seq(KnownChars) /\ Len(v) = 4 /\ v[1] = "1" /\ v[2] = "." /\ v[3] = "1" /\ v[4] = "0"
  BY KnownVersions DEF WireProtocolVersion
<1>2. e[0] = Start /\ e[1] = Acc(<< >>, 1, TRUE) /\ e[2] = Acc(<<1>>, 0, TRUE) /\ e[3] = Acc(<<1>>, 1, TRUE)
  <2>1. Len(v) >= 3
    BY <1>1
  <2> HIDE DEF v
  <2> QED BY <1>1, <2>1, OnePointOne, Zenon
<1>3. e[4] = Acc(<<1>>, 10, TRUE)
  <2>1. e[4] = ReadChar(e[3], "0", Exact)
    <3>1. \A i \in 1..Len(v) : e[i] = ReadChar(e[i - 1], v[i], Exact)
      <4> HIDE DEF v
      <4> QED BY <1>1, IntsWrap, ScanSteps
    <3> HIDE DEF v, e
    <3> QED BY <1>1, <3>1
  <2>2. "0" \in DOMAIN Digits /\ Digits["0"] = 0 /\ 0 \in Int /\ 1 \in Int
    BY DEF Digits
  <2>3. ReadChar(Acc(<<1>>, 1, TRUE), "0", Exact) = Acc(<<1>>, 1 * 10 + 0, TRUE)
    BY <2>2, ReadDigit, Zenon
  <2>4. 1 * 10 + 0 = 10
    OBVIOUS
  <2> HIDE DEF v, e
  <2> QED BY <1>2, <2>1, <2>3, <2>4, Zenon
<1> HIDE DEF v, e
<1>4. e[0].n = 0 /\ e[1].n = 1 /\ e[2].n = 0 /\ e[3].n = 1 /\ e[4].n = 10
  BY <1>2, <1>3 DEF Start, Acc
<1>5. \A i \in 0..4 : e[i].n < IntRange \div 2
  BY <1>4, HandshakeAssumption
<1> QED BY <1>1, <1>5 DEF Fits, v, e

\* The empty version is the number 0.
LEMMA NoNumbers == Numbers(<< >>) = <<0>>
<1>1. << >> \in Seq(KnownChars) /\ Len(<< >>) = 0
  OBVIOUS
<1>2. Scan(<< >>, Exact)[0] = Start
  BY <1>1, IntsWrap, ScanSteps
<1>3. Start.parts = << >> /\ Start.n = 0
  BY DEF Start, Acc
<1>4. Numbers(<< >>) = Append(<< >>, 0)
  BY <1>1, <1>2, <1>3 DEF Numbers, Components
<1> QED BY <1>4

\* semverCompare is the order of versions.
LEMMA CompareIsOrder ==
  ASSUME NEW T, NEW a \in Seq(T), Fits(a), NEW U, NEW b \in Seq(U), Fits(b)
  PROVE  /\ SemverCompare(a, b) < 0 <=> Below(a, b)
         /\ SemverCompare(a, b) > 0 <=> Below(b, a)
<1> DEFINE pa == Numbers(a)
           pb == Numbers(b)
           n == IF Len(pa) > Len(pb) THEN Len(pa) ELSE Len(pb)
<1>1. pa \in Seq(Int) /\ pb \in Seq(Int)
  BY NumbersType
<1>2. SemverCompare(a, b) = Compare(pa, pb, n)
  BY ScanFits DEF SemverCompare
<1>3. Below(a, b) <=> BelowUpTo(pa, pb, Len(pa) + Len(pb))
  BY DEF Below, BelowUpTo
<1>4. Below(b, a) <=> BelowUpTo(pb, pa, Len(pb) + Len(pa))
  BY DEF Below, BelowUpTo
<1> HIDE DEF pa, pb
<1>5. /\ n \in Nat /\ n <= Len(pa) + Len(pb) /\ Len(pa) + Len(pb) \in Nat
      /\ \A i \in Nat : i > n => Component(pa, i) = 0 /\ Component(pb, i) = 0
  BY <1>1 DEF Component
<1> HIDE DEF n
<1>6. BelowUpTo(pa, pb, Len(pa) + Len(pb)) <=> BelowUpTo(pa, pb, n)
  BY <1>5 DEF BelowUpTo
<1>7. BelowUpTo(pb, pa, Len(pb) + Len(pa)) <=> BelowUpTo(pb, pa, n)
  BY <1>1, <1>5 DEF BelowUpTo
<1> QED BY <1>1, <1>2, <1>3, <1>4, <1>5, <1>6, <1>7, CompareFirst

\* negotiateVersion agrees with the order of versions.
LEMMA Negotiates ==
  ASSUME NEW T, NEW v \in Seq(T), Fits(v)
  PROVE  NegotiateVersion(v) = IF Below(v, MinVersion) THEN LegacyVersion
                               ELSE IF Below(WireProtocolVersion, v) THEN WireProtocolVersion
                               ELSE v
<1>2. /\ SemverCompare(v, MinVersion) < 0 <=> Below(v, MinVersion)
      /\ SemverCompare(v, WireProtocolVersion) > 0 <=> Below(WireProtocolVersion, v)
  BY KnownVersions, MinNumbers, NewestFits, CompareIsOrder
<1>3. ASSUME v = << >> PROVE Below(v, MinVersion)
  <2> DEFINE pa == Numbers(<< >>)
             pb == Numbers(MinVersion)
  <2>1. Len(pa) = 1 /\ pa[1] = 0 /\ pa \in Seq(Int)
    <3>1. pa = <<0>>
      BY NoNumbers
    <3> HIDE DEF pa
    <3> QED BY <3>1
  <2>2. Len(pb) = 2 /\ pb[1] = 1 /\ pb \in Seq(Int)
    BY MinNumbers, KnownVersions, NumbersType
  <2> HIDE DEF pa, pb
  <2>3. Component(pa, 1) = 0 /\ Component(pb, 1) = 1
    BY <2>1, <2>2 DEF Component
  <2>4. \E i \in 1..(Len(pa) + Len(pb)) :
          /\ Component(pa, i) < Component(pb, i)
          /\ \A j \in 1..(i - 1) : Component(pa, j) = Component(pb, j)
    BY <2>1, <2>2, <2>3
  <2> QED BY <1>3, <2>4 DEF Below, pa, pb
<1> QED BY <1>2, <1>3 DEF NegotiateVersion

\* The version agreed on is the one negotiateVersion found for the parameters accepted.
VersionInv ==
  handshakeDone => /\ params.version \in Seq(Chars \cup KnownChars)
                   /\ negotiated = NegotiateVersion(params.version)

\* initialize is accepted once, and nothing else touches the version.
LEMMA VersionKept == VersionInv /\ [Next]_vars => VersionInv'
<1> SUFFICES ASSUME VersionInv, [Next]_vars PROVE VersionInv'
  OBVIOUS
<1>1. ASSUME NEW p \in InitializeParams, HandleInitialize(p) PROVE VersionInv'
  <2>1. params' = p /\ negotiated' = NegotiateVersion(p.version)
    BY <1>1 DEF HandleInitialize
  <2>2. p.version \in Seq(Chars \cup KnownChars)
    <3>1. p.version = MinVersion \/ p.version \in SeqsUpTo(Chars, MaxVersion)
      BY DEF InitializeParams
    <3>2. ASSUME p.version \in SeqsUpTo(Chars, MaxVersion)
          PROVE  p.version \in Seq(Chars \cup KnownChars)
      <4>1. PICK m \in 0..MaxVersion : p.version \in [1..m -> Chars]
        BY <3>2 DEF SeqsUpTo
      <4>2. m \in Nat
        OBVIOUS
      <4> QED BY <4>1, <4>2
    <3>3. MinVersion \in Seq(Chars \cup KnownChars)
      BY KnownVersions
    <3> QED BY <3>1, <3>2, <3>3
  <2> QED BY <2>1, <2>2 DEF VersionInv
<1>2. CASE AskQuestion \/ UNCHANGED vars \/ \E e \in Events, t \in Targets : TriggerHook(e, t)
  <2>1. UNCHANGED <<handshakeDone, params, negotiated>>
    BY <1>2 DEF AskQuestion, TriggerHook, vars
  <2> QED BY <2>1 DEF VersionInv
<1> QED BY <1>1, <1>2 DEF Next

\* negotiateVersion agrees on the version the client asked for if it lies between
\* the oldest and the newest the server knows, and else on the end of the range
\* it lies beyond, for versions of any length whose numbers fit an int.
THEOREM VersionsOrdered == Spec => []NegotiatedInRange
<1>1. Init => VersionInv
  BY DEF Init, VersionInv
<1>2. VersionInv => NegotiatedInRange
  BY Negotiates DEF VersionInv, NegotiatedInRange
<1> QED BY <1>1, <1>2, VersionKept, PTL DEF Spec

-----------------------------------------------------------------------------
(***************************************************************************)
(* Messages on the wire, for any messages and foreign lines.  The markers  *)
(* for nil and for an error are apart from every record and sequence; of   *)
(* the other values JSONAssumption says so.                                *)
(***************************************************************************)
IsFunction(f) == f = [x \in DOMAIN f |-> f[x]]
Apart == ~IsFunction(Nil) /\ ~IsFunction(Bad)

\* The constructors of JSON values are told apart.
LEMMA Shapes ==
  ASSUME Apart, NEW x
  PROVE  /\ Str(x) # Nil /\ Str(x) # Bad /\ DOMAIN Str(x) = {"str"} /\ Str(x).str = x
         /\ Obj(x) # Nil /\ Obj(x) # Bad /\ DOMAIN Obj(x) = {"obj"} /\ Obj(x).obj = x
         /\ Arr(x) # Nil /\ Arr(x) # Bad /\ DOMAIN Arr(x) = {"arr"} /\ Arr(x).arr = x
         /\ Null # Nil /\ Null # Bad /\ DOMAIN Null = {"null"}
<1>1. IsFunction(Str(x)) /\ IsFunction(Obj(x)) /\ IsFunction(Arr(x)) /\ IsFunction(Null)
  BY DEF IsFunction, Str, Obj, Arr, Null
<1>2. /\ DOMAIN Str(x) = {"str"} /\ Str(x).str = x
      /\ DOMAIN Obj(x) = {"obj"} /\ Obj(x).obj = x
      /\ DOMAIN Arr(x) = {"arr"} /\ Arr(x).arr = x
      /\ DOMAIN Null = {"null"}
  BY DEF Str, Obj, Arr, Null
<1> QED BY <1>1, <1>2 DEF Apart

\* Is sees how a value was constructed.
LEMMA Kinds ==
  ASSUME Apart, NEW x
  PROVE  /\ Is(Str(x), "str") /\ ~Is(Str(x), "null") /\ ~Is(Str(x), "obj") /\ ~Is(Str(x), "arr")
         /\ Is(Obj(x), "obj") /\ ~Is(Obj(x), "null") /\ ~Is(Obj(x), "str") /\ ~Is(Obj(x), "arr")
         /\ Is(Arr(x), "arr") /\ ~Is(Arr(x), "null") /\ ~Is(Arr(x), "str") /\ ~Is(Arr(x), "obj")
         /\ Is(Null, "null") /\ ~Is(Null, "str") /\ ~Is(Null, "obj") /\ ~Is(Null, "arr")
         /\ ~Is(Nil, "null") /\ ~Is(Nil, "str") /\ ~Is(Nil, "obj") /\ ~Is(Nil, "arr")
  BY Shapes DEF Is

\* Reading a scalar back.
LEMMA ReadString ==
  ASSUME Apart, NEW s
  PROVE  /\ Text(Str(s)) = s /\ Pointer(Str(s)) = s
         /\ Text(Nil) = "" /\ Pointer(Nil) = Nil /\ Text(Null) = "" /\ Pointer(Null) = Nil
         /\ Text(Obj(s)) = Bad /\ Text(Arr(s)) = Bad
  BY Shapes, Kinds DEF Text, Pointer

\* The members of an object.
LEMMA AtObject ==
  ASSUME Apart, NEW f, NEW k
  PROVE  At(Obj(f), k) = IF k \in DOMAIN f THEN f[k] ELSE Nil
  BY Shapes, Kinds DEF At

-----------------------------------------------------------------------------
(***************************************************************************)
(* What a JSON value of a foreign line is read as.                         *)
(***************************************************************************)
Wire == JSON \cup {Nil}
ThinkType == [think : Scalars, encrypted : Scalars]

\* A member of a foreign value is absent or a foreign value.
LEMMA WireMembers ==
  ASSUME NEW j \in Wire, NEW k
  PROVE  At(j, k) \in Wire
  BY JSONAssumption DEF At, Wire, Is

\* A string field gets a scalar, or it is an error.
LEMMA TextType ==
  ASSUME Apart, NEW j \in Wire
  PROVE  Text(j) \in Scalars \cup {Bad} /\ Pointer(j) \in Scalars \cup {Nil, Bad}
<1>1. Is(j, "str") => j.str \in Scalars
  BY JSONAssumption DEF Wire, Is
<1>2. "" \in Scalars
  BY JSONAssumption
<1> QED BY <1>1, <1>2 DEF Text, Pointer

\* The text of a part is never an error.
LEMMA ParseTextType ==
  ASSUME Apart, NEW j \in Wire
  PROVE  ParseText(j) \in Scalars \cup {Nil}
<1>1. Is(j, "str") \/ Is(j, "null") => Text(j) \in Scalars
  BY JSONAssumption DEF Wire, Is, Text
<1>2. Text(At(j, "text")) \in Scalars \cup {Bad}
  BY WireMembers, TextType
<1> QED BY <1>1, <1>2 DEF ParseText

\* Nor is its think member.
LEMMA ParseThinkType ==
  ASSUME Apart, NEW j \in Wire
  PROVE  ParseThink(j) \in {Nil} \cup ThinkType
<1>1. Is(j, "str") \/ Is(j, "null") => Text(j) \in Scalars
  BY JSONAssumption DEF Wire, Is, Text
<1>2. Text(At(j, "think")) \in Scalars \cup {Bad} /\ Text(At(j, "encrypted")) \in Scalars \cup {Bad}
  BY WireMembers, TextType
<1>3. "" \in Scalars
  BY JSONAssumption
<1> QED BY <1>1, <1>2, <1>3 DEF ParseThink, ThinkType

\* The record of a content part.
LEMMA IsPart ==
  ASSUME NEW t \in Scalars, NEW x \in Scalars \cup {Nil}, NEW c \in {Nil} \cup ThinkType,
         NEW u \in Scalars \cup {Nil}
  PROVE  [type |-> t, text |-> x, think |-> c, image_url |-> u] \in PartType
  BY DEF PartType, ThinkType

\* A content part is read, or it is an error.
LEMMA ParsePartType ==
  ASSUME Apart, NEW j \in Wire, ParsePart(j) # Bad
  PROVE  ParsePart(j) \in PartType
<1> DEFINE t == Text(At(j, "type"))  u == Pointer(At(j, "image_url"))
<1>1. t \in Scalars \cup {Bad} /\ u \in Scalars \cup {Nil, Bad}
  BY WireMembers, TextType
<1>2. ParseText(At(j, "text")) \in Scalars \cup {Nil} /\ ParseThink(At(j, "think")) \in {Nil} \cup ThinkType
  BY WireMembers, ParseTextType, ParseThinkType
<1>3. t # Bad /\ u # Bad
      /\ ParsePart(j) = [type |-> t, text |-> ParseText(At(j, "text")),
                         think |-> ParseThink(At(j, "think")), image_url |-> u]
  BY DEF ParsePart
<1> HIDE DEF t, u
<1> QED BY <1>1, <1>2, <1>3 DEF PartType, ThinkType

-----------------------------------------------------------------------------
(***************************************************************************)
(* Content parts, which this library reads back from what it writes.       *)
(***************************************************************************)
\* A ThinkPart written as an object is read back, encrypted or not.
LEMMA ReadThinking ==
  ASSUME Apart, NEW t \in ThinkType
  PROVE  /\ At(Obj(Thinking(t)), "think") = Str(t.think)
         /\ At(Obj(Thinking(t)), "type") = Nil
         /\ ParseThink(Obj(Thinking(t))) = t
<1> DEFINE all == [think |-> Str(t.think), encrypted |-> Str(t.encrypted)]
           out == IF t.encrypted = "" THEN {"encrypted"} ELSE {}
<1>1. Thinking(t) = [k \in DOMAIN all \ out |-> all[k]]
  BY DEF Thinking, Without
<1>2. DOMAIN all = {"think", "encrypted"} /\ all.think = Str(t.think) /\ all.encrypted = Str(t.encrypted)
  OBVIOUS
<1>3. /\ "think" \in DOMAIN Thinking(t) /\ Thinking(t)["think"] = Str(t.think)
      /\ "type" \notin DOMAIN Thinking(t)
      /\ t.encrypted = "" => "encrypted" \notin DOMAIN Thinking(t)
      /\ t.encrypted # "" => "encrypted" \in DOMAIN Thinking(t) /\ Thinking(t)["encrypted"] = Str(t.encrypted)
  <2> HIDE DEF all
  <2> QED BY <1>1, <1>2
<1>4. /\ At(Obj(Thinking(t)), "think") = Str(t.think) /\ At(Obj(Thinking(t)), "type") = Nil
      /\ At(Obj(Thinking(t)), "encrypted") = IF t.encrypted = "" THEN Nil ELSE Str(t.encrypted)
  BY <1>3, AtObject
<1>5. Text(At(Obj(Thinking(t)), "think")) = t.think /\ Text(At(Obj(Thinking(t)), "encrypted")) = t.encrypted
  BY <1>4, ReadString
<1>6. t.think # Bad /\ t.encrypted # Bad /\ t = [think |-> t.think, encrypted |-> t.encrypted]
  BY JSONAssumption DEF ThinkType
<1>7. ParseThink(Obj(Thinking(t))) = [think |-> t.think, encrypted |-> t.encrypted]
  BY <1>5, <1>6, Kinds DEF ParseThink
<1> QED BY <1>4, <1>6, <1>7

\* The parts this library reads from what it has written.
LEMMA FlatTextRead ==
  ASSUME Apart, NEW p \in PartType, p.type = "text"
  PROVE  ParsePart(MarshalPart(p)) =
           [type |-> p.type, text |-> IF p.text = Nil THEN "" ELSE p.text, think |-> Nil, image_url |-> Nil]
<1> DEFINE s == IF p.text = Nil THEN "" ELSE p.text
<1>1. MarshalPart(p) = Obj([type |-> Str(p.type), text |-> Str(s)])
  BY DEF MarshalPart, FlatText
<1> HIDE DEF s
<1>2. /\ At(MarshalPart(p), "type") = Str(p.type) /\ At(MarshalPart(p), "text") = Str(s)
      /\ At(MarshalPart(p), "think") = Nil /\ At(MarshalPart(p), "image_url") = Nil
  BY <1>1, AtObject
<1>3. /\ Text(At(MarshalPart(p), "type")) = p.type /\ ParseText(At(MarshalPart(p), "text")) = s
      /\ ParseThink(At(MarshalPart(p), "think")) = Nil /\ Pointer(At(MarshalPart(p), "image_url")) = Nil
  BY <1>2, ReadString, Kinds DEF ParseText, ParseThink
<1>4. p.type # Bad /\ Nil # Bad
  BY JSONAssumption DEF PartType
<1>5. Is(MarshalPart(p), "obj")
  BY <1>1, Kinds
<1> QED BY <1>3, <1>4, <1>5 DEF ParsePart, s

\* A think part keeps its thought, and loses encrypted.
LEMMA FlatThinkRead ==
  ASSUME Apart, NEW p \in PartType, p.type = "think"
  PROVE  ParsePart(MarshalPart(p)) =
           [type |-> p.type, text |-> Nil, image_url |-> Nil,
            think |-> [think |-> IF p.think = Nil THEN "" ELSE p.think.think, encrypted |-> ""]]
<1> DEFINE t == IF p.think = Nil THEN [think |-> "", encrypted |-> ""] ELSE p.think
           flat == Thinking(t)
<1>1. t \in ThinkType /\ t.think = IF p.think = Nil THEN "" ELSE p.think.think
  BY JSONAssumption DEF PartType, ThinkType
<1>2. MarshalPart(p) = Obj([k \in DOMAIN flat \cup {"type"} |-> IF k = "type" THEN Str(p.type) ELSE flat[k]])
  BY DEF MarshalPart, FlatThink
<1> HIDE DEF t
<1>3. "think" \in DOMAIN flat /\ flat["think"] = Str(t.think) /\ DOMAIN flat \subseteq {"think", "encrypted"}
  BY DEF Thinking, Without
<1> HIDE DEF flat
<1>4. /\ At(MarshalPart(p), "type") = Str(p.type) /\ At(MarshalPart(p), "think") = Str(t.think)
      /\ At(MarshalPart(p), "text") = Nil /\ At(MarshalPart(p), "image_url") = Nil
  BY <1>2, <1>3, AtObject
<1>5. /\ Text(At(MarshalPart(p), "type")) = p.type /\ ParseText(At(MarshalPart(p), "text")) = Nil
      /\ ParseThink(At(MarshalPart(p), "think")) = [think |-> t.think, encrypted |-> ""]
      /\ Pointer(At(MarshalPart(p), "image_url")) = Nil
  BY <1>4, ReadString, Kinds DEF ParseText, ParseThink
<1>6. p.type # Bad /\ Nil # Bad
  BY JSONAssumption DEF PartType
<1>7. Is(MarshalPart(p), "obj")
  BY <1>2, Kinds
<1> QED BY <1>1, <1>5, <1>6, <1>7 DEF ParsePart

\* A part of another type is read back whole.
LEMMA NestedRead ==
  ASSUME Apart, NEW p \in PartType, p.type # "text", p.type # "think"
  PROVE  ParsePart(MarshalPart(p)) = p
<1> DEFINE all == [type |-> Str(p.type), text |-> Obj([text |-> Str(p.text)]),
                   think |-> IF p.think = Nil THEN Null ELSE Obj(Thinking(p.think)),
                   image_url |-> Str(p.image_url)]
           out == {k \in {"text", "think", "image_url"} : p[k] = Nil}
<1>1. MarshalPart(p) = Obj([k \in DOMAIN all \ out |-> all[k]])
  BY DEF MarshalPart, Nested, Without
<1>2. DOMAIN all = {"type", "text", "think", "image_url"} /\ all["type"] = Str(p.type)
      /\ all["text"] = Obj([text |-> Str(p.text)]) /\ all["image_url"] = Str(p.image_url)
      /\ (p.think # Nil => all["think"] = Obj(Thinking(p.think)))
  OBVIOUS
<1>3. /\ "type" \notin out /\ ("text" \in out <=> p.text = Nil) /\ ("think" \in out <=> p.think = Nil)
      /\ ("image_url" \in out <=> p.image_url = Nil)
  OBVIOUS
<1> HIDE DEF all, out
<1>4. /\ At(MarshalPart(p), "type") = Str(p.type)
      /\ At(MarshalPart(p), "text") = IF p.text = Nil THEN Nil ELSE Obj([text |-> Str(p.text)])
      /\ At(MarshalPart(p), "think") = IF p.think = Nil THEN Nil ELSE Obj(Thinking(p.think))
      /\ At(MarshalPart(p), "image_url") = IF p.image_url = Nil THEN Nil ELSE Str(p.image_url)
  BY <1>1, <1>2, <1>3, AtObject
<1>5. /\ p = [type |-> p.type, text |-> p.text, think |-> p.think, image_url |-> p.image_url]
      /\ p.type # Bad /\ p.text # Bad /\ p.image_url # Bad
      /\ p.think = Nil \/ p.think \in ThinkType
  BY JSONAssumption DEF PartType, ThinkType
<1>6. ParseText(Nil) = Nil /\ ParseThink(Nil) = Nil
  BY Kinds DEF ParseText, ParseThink
<1>7. ParseText(Obj([text |-> Str(p.text)])) = p.text
  <2>1. At(Obj([text |-> Str(p.text)]), "text") = Str(p.text)
    BY AtObject
  <2> QED BY <2>1, <1>5, Kinds, ReadString DEF ParseText
<1>8. Text(At(MarshalPart(p), "type")) = p.type /\ Pointer(At(MarshalPart(p), "image_url")) = p.image_url
  BY <1>4, ReadString
<1>9. ParseText(At(MarshalPart(p), "text")) = p.text /\ ParseThink(At(MarshalPart(p), "think")) = p.think
  BY <1>4, <1>5, <1>6, <1>7, ReadThinking
<1>10. Is(MarshalPart(p), "obj")
  BY <1>1, Kinds
<1> QED BY <1>5, <1>8, <1>9, <1>10 DEF ParsePart

\* A part is read back, as it was if it has no members of other types.
LEMMA PartRead ==
  ASSUME Apart, NEW p \in PartType
  PROVE  /\ ParsePart(MarshalPart(p)) \in PartType /\ ParsePart(MarshalPart(p)) # Bad
         /\ OwnMembers(p) => ParsePart(MarshalPart(p)) = p
         /\ MarshalPart(p) # Nil /\ MarshalPart(p) # Bad
<1>1. p = [type |-> p.type, text |-> p.text, think |-> p.think, image_url |-> p.image_url]
      /\ p.type \in Scalars /\ p.text \in Scalars \cup {Nil} /\ (p.think = Nil \/ p.think \in ThinkType)
      /\ p.image_url \in Scalars \cup {Nil} /\ "" \in Scalars
  BY JSONAssumption DEF PartType, ThinkType
<1>2. \A q \in PartType : q # Bad
  <2> SUFFICES ASSUME Bad \in PartType PROVE FALSE
    OBVIOUS
  <2>1. IsFunction(Bad)
    BY DEF PartType, IsFunction
  <2> QED BY <2>1 DEF Apart
<1>3. MarshalPart(p) # Nil /\ MarshalPart(p) # Bad
  BY Shapes DEF MarshalPart
<1>4. CASE p.type = "text"
  <2>1. ParsePart(MarshalPart(p)) \in PartType
    <3> DEFINE s == IF p.text = Nil THEN "" ELSE p.text
    <3>1. s \in Scalars
      BY <1>1
    <3>2. ParsePart(MarshalPart(p)) = [type |-> p.type, text |-> s, think |-> Nil, image_url |-> Nil]
      BY <1>4, FlatTextRead
    <3>3. p.type \in Scalars /\ "" \in Scalars
      BY <1>1
    <3> HIDE DEF s
    <3> QED BY <3>1, <3>2, <3>3, IsPart
  <2>2. OwnMembers(p) => p.text # Nil /\ p.think = Nil /\ p.image_url = Nil
    BY <1>4, Zenon DEF OwnMembers
  <2> QED BY <1>1, <1>2, <1>3, <1>4, <2>1, <2>2, FlatTextRead
<1>5. CASE p.type = "think"
  <2>1. ParsePart(MarshalPart(p)) \in PartType
    <3> DEFINE s == IF p.think = Nil THEN "" ELSE p.think.think
    <3>1. s \in Scalars
      BY <1>1 DEF ThinkType
    <3>2. ParsePart(MarshalPart(p)) = [type |-> p.type, text |-> Nil, think |-> [think |-> s, encrypted |-> ""],
                                       image_url |-> Nil]
      BY <1>5, FlatThinkRead
    <3>3. p.type \in Scalars /\ "" \in Scalars
      BY <1>1
    <3>4. [think |-> s, encrypted |-> ""] \in ThinkType
      BY <3>1, <3>3 DEF ThinkType
    <3> HIDE DEF s
    <3> QED BY <3>1, <3>2, <3>3, <3>4, IsPart
  <2>2. OwnMembers(p) => p.think # Nil /\ p.think.encrypted = "" /\ p.text = Nil /\ p.image_url = Nil
    BY <1>5, Zenon DEF OwnMembers
  <2>3. p.think # Nil => p.think = [think |-> p.think.think, encrypted |-> p.think.encrypted]
    BY <1>1 DEF ThinkType
  <2> QED BY <1>1, <1>2, <1>3, <1>5, <2>1, <2>2, <2>3, FlatThinkRead
<1>6. CASE p.type # "text" /\ p.type # "think"
  BY <1>2, <1>3, <1>6, NestedRead
<1> QED BY <1>4, <1>5, <1>6

-----------------------------------------------------------------------------
(***************************************************************************)
(* User inputs and tool outputs: text or parts.                            *)
(***************************************************************************)

\* What is read as an input has text or parts, and can be written.
LEMMA Written ==
  ASSUME Apart, NEW u, u.parts = << >> \/ u.text = ""
  PROVE  MarshalInput(u) # Bad
  BY Shapes DEF MarshalInput

\* The record of an input.
LEMMA IsInput ==
  ASSUME NEW x \in Scalars, NEW y \in Seq(PartType)
  PROVE  [text |-> x, parts |-> y] \in InputType
  BY DEF InputType

\* A function on the indices of a sequence is a sequence.
LEMMA IsSequence ==
  ASSUME NEW S, NEW T, NEW q \in Seq(S), NEW f, f = [i \in DOMAIN q |-> f[i]],
         \A i \in DOMAIN q : f[i] \in T
  PROVE  f \in Seq(T)
<1>1. DOMAIN q = 1..Len(q) /\ Len(q) \in Nat
  OBVIOUS
<1>2. f \in [1..Len(q) -> T]
  BY <1>1
<1> QED BY <1>1, <1>2

\* A foreign input is one an application could have made, and can be written.
LEMMA ParseInputType ==
  ASSUME Apart, NEW j \in JSON, ParseInput(j) # Bad
  PROVE  ParseInput(j) \in InputType /\ MarshalInput(ParseInput(j)) # Bad
<1>1. CASE Is(j, "str")
  <2>1. ParseInput(j) = [text |-> j.str, parts |-> << >>]
    BY <1>1 DEF ParseInput
  <2>2. j.str \in Scalars
    BY <1>1, JSONAssumption
  <2>3. << >> \in Seq(PartType)
    OBVIOUS
  <2>4. ParseInput(j) \in InputType
    BY <2>1, <2>2, <2>3, IsInput
  <2> QED BY <2>1, <2>4, Written
<1>2. CASE ~Is(j, "str")
  <2> DEFINE parts == [i \in DOMAIN j.arr |-> ParsePart(j.arr[i])]
  <2>1. Is(j, "arr") /\ (\A i \in DOMAIN parts : parts[i] # Bad) /\ ParseInput(j) = [text |-> "", parts |-> parts]
    BY <1>2 DEF ParseInput
  <2>2. j.arr \in Seq(JSON)
    BY <2>1, JSONAssumption
  <2>3. ASSUME NEW i \in DOMAIN j.arr PROVE parts[i] \in PartType
    <3>1. j.arr[i] \in Wire
      BY <2>2 DEF Wire
    <3>2. parts[i] = ParsePart(j.arr[i]) /\ parts[i] # Bad
      BY <2>1
    <3> QED BY <3>1, <3>2, ParsePartType
  <2>4. parts \in Seq(PartType)
    <3>1. parts = [i \in DOMAIN j.arr |-> parts[i]]
      OBVIOUS
    <3> HIDE DEF parts
    <3> QED BY <2>2, <2>3, <3>1, IsSequence
  <2>5. "" \in Scalars
    BY JSONAssumption
  <2> HIDE DEF parts
  <2>6. ParseInput(j) \in InputType
    BY <2>1, <2>4, <2>5, IsInput
  <2> QED BY <2>1, <2>6, Written
<1> QED BY <1>1, <1>2

\* An input that can be written is read back, as it was if its parts are.
LEMMA InputRead ==
  ASSUME Apart, NEW u \in InputType, MarshalInput(u) # Bad
  PROVE  /\ ParseInput(MarshalInput(u)) # Bad /\ ParseInput(MarshalInput(u)) \in InputType
         /\ MarshalInput(ParseInput(MarshalInput(u))) # Bad
         /\ (\A i \in DOMAIN u.parts : OwnMembers(u.parts[i])) => ParseInput(MarshalInput(u)) = u
         /\ MarshalInput(u) # Nil
<1>1. u = [text |-> u.text, parts |-> u.parts] /\ u.text \in Scalars /\ u.parts \in Seq(PartType)
  BY DEF InputType
<1>2. \A x, y : [text |-> x, parts |-> y] # Bad
  <2> TAKE x, y
  <2>1. IsFunction([text |-> x, parts |-> y])
    BY DEF IsFunction
  <2> QED BY <2>1 DEF Apart
<1>3. CASE u.parts = << >>
  <2>1. MarshalInput(u) = Str(u.text)
    BY <1>3 DEF MarshalInput
  <2>2. ParseInput(Str(u.text)) = [text |-> u.text, parts |-> << >>]
    BY Kinds, Shapes DEF ParseInput
  <2>3. ParseInput(MarshalInput(u)) = u
    BY <1>1, <1>3, <2>1, <2>2
  <2> QED BY <1>1, <1>2, <2>1, <2>3, Shapes
<1>4. CASE u.parts # << >>
  <2> DEFINE out   == [i \in DOMAIN u.parts |-> MarshalPart(u.parts[i])]
             parts == [i \in DOMAIN out |-> ParsePart(out[i])]
  <2>1. u.text = "" /\ MarshalInput(u) = Arr(out)
    BY <1>4 DEF MarshalInput
  <2>2. \A i \in DOMAIN u.parts : u.parts[i] \in PartType
    BY <1>1
  <2>3. DOMAIN out = DOMAIN u.parts /\ DOMAIN parts = DOMAIN u.parts
    OBVIOUS
  <2>4. \A i \in DOMAIN u.parts : /\ parts[i] \in PartType /\ parts[i] # Bad
                                  /\ OwnMembers(u.parts[i]) => parts[i] = u.parts[i]
    BY <2>2, PartRead
  <2>5. parts \in Seq(PartType)
    BY <1>1, <2>3, <2>4
  <2>6. (\A i \in DOMAIN u.parts : OwnMembers(u.parts[i])) => parts = u.parts
    BY <1>1, <2>4
  <2> HIDE DEF out
  <2>7. ParseInput(Arr(out)) = [text |-> "", parts |-> parts]
    <3>1. Arr(out).arr = out /\ Is(Arr(out), "arr") /\ ~Is(Arr(out), "str")
      BY Kinds, Shapes
    <3>2. \A i \in DOMAIN parts : parts[i] # Bad
      BY <2>3, <2>4
    <3> QED BY <3>1, <3>2 DEF ParseInput
  <2> HIDE DEF parts
  <2>8. ParseInput(MarshalInput(u)) \in InputType
    BY <1>1, <2>1, <2>5, <2>7, IsInput
  <2>9. MarshalInput(ParseInput(MarshalInput(u))) # Bad
    BY <2>1, <2>7, Written
  <2>10. MarshalInput(u) # Nil
    BY <2>1, Shapes
  <2> QED BY <1>1, <1>2, <2>1, <2>6, <2>7, <2>8, <2>9, <2>10
<1> QED BY <1>3, <1>4

-----------------------------------------------------------------------------
(***************************************************************************)
(* Fields that are no structs, kind by kind: the zero value, what          *)
(* omitempty leaves out, what is read from a foreign line, and what is     *)
(* read from what was written.                                             *)
(***************************************************************************)
PlainKinds == {"plain", "omit", "ptr", "list", "list?", "raw", "raw?", "input", "part"}

\* A value that is written and read again without an error.
Good(kind, c) == c # Bad /\ c \in PlainType(kind) /\ MarshalPlain(kind, c) # Bad

\* Strings, numbers and booleans.
LEMMA ScalarKind ==
  ASSUME NEW kind \in {"plain", "omit"}, NEW c
  PROVE  /\ MarshalPlain(kind, c) = Str(c) /\ ParsePlain(kind, c) = Text(c)
         /\ ZeroPlain(kind) = "" /\ PlainType(kind) = Scalars
  BY Zenon DEF MarshalPlain, ParsePlain, ZeroPlain, PlainType

\* Pointers.
LEMMA PointerKind ==
  ASSUME NEW c
  PROVE  /\ MarshalPlain("ptr", c) = Str(c) /\ ParsePlain("ptr", c) = Pointer(c)
         /\ ZeroPlain("ptr") = Nil /\ PlainType("ptr") = Scalars \cup {Nil}
  BY Zenon DEF MarshalPlain, ParsePlain, ZeroPlain, PlainType

\* Slices.
LEMMA ListKind ==
  ASSUME NEW kind \in {"list", "list?"}, NEW c
  PROVE  /\ MarshalPlain(kind, c) = IF c = Nil THEN Null ELSE Arr(c)
         /\ ParsePlain(kind, c) = IF Is(c, "null") THEN Nil ELSE IF Is(c, "arr") THEN c.arr ELSE Bad
         /\ ZeroPlain(kind) = Nil /\ PlainType(kind) = {Nil} \cup Seq(JSON)
  BY Zenon DEF MarshalPlain, ParsePlain, ZeroPlain, PlainType

\* Raw messages.
LEMMA RawKind ==
  ASSUME NEW kind \in {"raw", "raw?"}, NEW c
  PROVE  /\ MarshalPlain(kind, c) = IF c = Nil THEN Null ELSE c
         /\ ParsePlain(kind, c) = c
         /\ ZeroPlain(kind) = Nil /\ PlainType(kind) = {Nil} \cup JSON
  BY Zenon DEF MarshalPlain, ParsePlain, ZeroPlain, PlainType

\* UserInput and ToolOutput.
LEMMA InputKind ==
  ASSUME NEW c
  PROVE  /\ MarshalPlain("input", c) = MarshalInput(c) /\ ParsePlain("input", c) = ParseInput(c)
         /\ ZeroPlain("input") = [text |-> "", parts |-> << >>] /\ PlainType("input") = InputType
  BY Zenon DEF MarshalPlain, ParsePlain, ZeroPlain, PlainType

\* ContentPart.
LEMMA PartKind ==
  ASSUME NEW c
  PROVE  /\ MarshalPlain("part", c) = MarshalPart(c) /\ ParsePlain("part", c) = ParsePart(c)
         /\ ZeroPlain("part") = [type |-> "", text |-> Nil, think |-> Nil, image_url |-> Nil]
         /\ PlainType("part") = PartType
  BY Zenon DEF MarshalPlain, ParsePlain, ZeroPlain, PlainType

\* No value of a field is an error.
LEMMA NotBad ==
  ASSUME Apart, NEW kind \in PlainKinds, NEW c \in PlainType(kind)
  PROVE  c # Bad
<1>1. \A S : Bad \notin Seq(S)
  <2> SUFFICES ASSUME NEW S, Bad \in Seq(S) PROVE FALSE
    OBVIOUS
  <2>1. IsFunction(Bad)
    BY DEF IsFunction
  <2> QED BY <2>1 DEF Apart
<1>2. Bad \notin InputType /\ Bad \notin PartType
  <2>1. Bad \in InputType \/ Bad \in PartType => IsFunction(Bad)
    BY DEF IsFunction, InputType, PartType
  <2> QED BY <2>1 DEF Apart
<1>3. Bad # Nil /\ Bad \notin Scalars /\ Bad \notin JSON
  BY JSONAssumption
<1>4. CASE kind \in {"plain", "omit"}
  BY <1>3, <1>4, ScalarKind
<1>5. CASE kind = "ptr"
  BY <1>3, <1>5, PointerKind
<1>6. CASE kind \in {"list", "list?"}
  BY <1>1, <1>3, <1>6, ListKind
<1>7. CASE kind \in {"raw", "raw?"}
  BY <1>3, <1>7, RawKind
<1>8. CASE kind = "input" \/ kind = "part"
  BY <1>2, <1>8, InputKind, PartKind
<1> QED BY <1>4, <1>5, <1>6, <1>7, <1>8 DEF PlainKinds

\* The zero value of every kind can be written.
LEMMA ZeroGood ==
  ASSUME Apart, NEW kind \in PlainKinds
  PROVE  Good(kind, ZeroPlain(kind))
<1>1. "" \in Scalars
  BY JSONAssumption
<1>2. << >> \in Seq(PartType)
  OBVIOUS
<1>3. [text |-> "", parts |-> << >>] \in InputType
  BY <1>1, <1>2, IsInput
<1>4. [type |-> "", text |-> Nil, think |-> Nil, image_url |-> Nil] \in PartType
  BY <1>1, IsPart
<1>5. CASE kind \in {"plain", "omit"}
  <2>1. ZeroPlain(kind) = "" /\ "" \in PlainType(kind) /\ MarshalPlain(kind, "") # Bad
    BY <1>1, <1>5, ScalarKind, Shapes
  <2> QED BY <2>1, NotBad DEF Good
<1>6. CASE kind \in {"ptr", "list", "list?", "raw", "raw?"}
  <2>1. ZeroPlain(kind) = Nil /\ Nil \in PlainType(kind)
    BY <1>6, PointerKind, ListKind, RawKind
  <2>2. MarshalPlain(kind, Nil) # Bad
    <3>1. MarshalPlain(kind, Nil) = Str(Nil) \/ MarshalPlain(kind, Nil) = Null
      BY <1>6, PointerKind, ListKind, RawKind
    <3> QED BY <3>1, Shapes
  <2> QED BY <2>1, <2>2, NotBad DEF Good
<1>7. CASE kind = "input"
  <2> DEFINE u == [text |-> "", parts |-> << >>]
  <2>1. MarshalInput(u) # Bad
    BY Written
  <2>2. ZeroPlain("input") = u /\ u \in PlainType("input") /\ MarshalPlain("input", u) # Bad
    BY <1>3, <2>1, InputKind
  <2> HIDE DEF u
  <2> QED BY <1>7, <2>2, NotBad DEF Good
<1>8. CASE kind = "part"
  <2> DEFINE p == [type |-> "", text |-> Nil, think |-> Nil, image_url |-> Nil]
  <2>1. ZeroPlain("part") = p /\ p \in PlainType("part") /\ MarshalPlain("part", p) # Bad
    BY <1>4, PartKind, PartRead
  <2> HIDE DEF p
  <2> QED BY <1>8, <2>1, NotBad DEF Good
<1> QED BY <1>5, <1>6, <1>7, <1>8 DEF PlainKinds

\* What omitempty leaves out is the zero value, or an empty list.
LEMMA OmittedGood ==
  ASSUME Apart, NEW kind \in PlainKinds, NEW c \in PlainType(kind), Omitted(kind, c)
  PROVE  Good(kind, c) /\ (PlainForm(kind, c) => c = ZeroPlain(kind))
<1>1. kind \in {"omit", "ptr", "raw?", "list?"}
  BY DEF Omitted
<1>2. MarshalPlain(kind, c) # Bad
  <2>1. CASE kind \in {"omit", "ptr"}
    <3>1. MarshalPlain(kind, c) = Str(c)
      BY <2>1, ScalarKind, PointerKind
    <3> QED BY <3>1, Shapes
  <2>2. CASE kind = "list?"
    BY <2>2, Shapes, ListKind
  <2>3. CASE kind = "raw?"
    <3>1. c = Nil
      BY <2>3 DEF Omitted
    <3>2. MarshalPlain(kind, c) = Null
      BY <2>3, <3>1, RawKind
    <3> QED BY <3>2, Shapes
  <2> QED BY <1>1, <2>1, <2>2, <2>3
<1>3. PlainForm(kind, c) => c = ZeroPlain(kind)
  BY <1>1, ScalarKind, PointerKind, ListKind, RawKind DEF Omitted, PlainForm
<1> QED BY <1>2, <1>3, NotBad DEF Good

\* A JSON value that is accepted for a field is one it can have.
LEMMA ParsedGood ==
  ASSUME Apart, NEW kind \in PlainKinds, NEW j \in JSON, ParsePlain(kind, j) # Bad
  PROVE  Good(kind, ParsePlain(kind, j))
<1>1. j \in Wire
  BY DEF Wire
<1>2. CASE kind \in {"plain", "omit"}
  <2>1. ParsePlain(kind, j) \in PlainType(kind)
    BY <1>1, <1>2, TextType, ScalarKind
  <2>2. MarshalPlain(kind, ParsePlain(kind, j)) # Bad
    BY <1>2, Shapes, ScalarKind
  <2> QED BY <2>1, <2>2 DEF Good
<1>3. CASE kind = "ptr"
  <2>1. ParsePlain(kind, j) \in PlainType(kind)
    BY <1>1, <1>3, TextType, PointerKind
  <2>2. MarshalPlain(kind, ParsePlain(kind, j)) # Bad
    BY <1>3, Shapes, PointerKind
  <2> QED BY <2>1, <2>2 DEF Good
<1>4. CASE kind \in {"list", "list?"}
  <2>1. Is(j, "arr") => j.arr \in Seq(JSON)
    BY JSONAssumption
  <2>2. ParsePlain(kind, j) \in PlainType(kind)
    BY <1>4, <2>1, ListKind
  <2>3. MarshalPlain(kind, ParsePlain(kind, j)) # Bad
    BY <1>4, Shapes, ListKind
  <2> QED BY <2>2, <2>3 DEF Good
<1>5. CASE kind \in {"raw", "raw?"}
  <2>1. j # Bad
    BY JSONAssumption
  <2> QED BY <1>5, <2>1, Shapes, RawKind DEF Good
<1>6. CASE kind = "input"
  BY <1>6, ParseInputType, InputKind DEF Good
<1>7. CASE kind = "part"
  BY <1>1, <1>7, ParsePartType, PartRead, PartKind DEF Good
<1> QED BY <1>2, <1>3, <1>4, <1>5, <1>6, <1>7 DEF PlainKinds

\* What a field is written as is read again, as it was if it has a form of its own.
LEMMA WrittenGood ==
  ASSUME Apart, NEW kind \in PlainKinds, NEW c, Good(kind, c), ~Omitted(kind, c)
  PROVE  /\ MarshalPlain(kind, c) # Nil
         /\ Good(kind, ParsePlain(kind, MarshalPlain(kind, c)))
         /\ PlainForm(kind, c) => ParsePlain(kind, MarshalPlain(kind, c)) = c
<1>1. c \in PlainType(kind) /\ c # Bad
  BY DEF Good
<1>2. CASE kind \in {"plain", "omit"}
  <2>1. MarshalPlain(kind, c) = Str(c) /\ ParsePlain(kind, Str(c)) = Text(Str(c))
    BY <1>2, ScalarKind
  <2>2. ParsePlain(kind, MarshalPlain(kind, c)) = c
    BY <2>1, ReadString
  <2> QED BY <2>1, <2>2, Shapes
<1>3. CASE kind = "ptr"
  <2>1. MarshalPlain(kind, c) = Str(c) /\ ParsePlain(kind, Str(c)) = c
    BY <1>3, PointerKind, ReadString
  <2> QED BY <2>1, Shapes
<1>4. CASE kind \in {"list", "list?"}
  <2>1. ParsePlain(kind, Null) = Nil /\ ParsePlain(kind, Arr(c)) = c
    BY <1>4, ListKind, Kinds, Shapes
  <2>2. MarshalPlain(kind, c) = IF c = Nil THEN Null ELSE Arr(c)
    BY <1>4, ListKind
  <2>3. ParsePlain(kind, MarshalPlain(kind, c)) = c
    BY <2>1, <2>2
  <2> QED BY <2>2, <2>3, Shapes
<1>5. CASE kind \in {"raw", "raw?"}
  <2>1. Null # Nil /\ Null # Bad /\ c \in {Nil} \cup JSON /\ MarshalPlain(kind, c) = IF c = Nil THEN Null ELSE c
    BY <1>1, <1>5, RawKind, Shapes
  <2>2. CASE c # Nil
    <3>1. MarshalPlain(kind, c) = c /\ ParsePlain(kind, c) = c
      BY <1>5, <2>1, <2>2, RawKind
    <3> QED BY <2>2, <3>1
  <2>3. CASE c = Nil
    <3>1. kind = "raw"
      BY <1>5, <2>3 DEF Omitted
    <3>2. MarshalPlain(kind, c) = Null /\ ParsePlain(kind, Null) = Null /\ MarshalPlain(kind, Null) = Null
      BY <1>5, <2>1, <2>3, RawKind
    <3>3. Null \in PlainType(kind)
      BY <1>5, RawKind, JSONAssumption
    <3>4. Good(kind, Null)
      BY <2>1, <3>2, <3>3 DEF Good
    <3> QED BY <2>1, <2>3, <3>1, <3>2, <3>4 DEF PlainForm
  <2> QED BY <2>2, <2>3
<1>6. CASE kind = "input"
  <2>1. c \in InputType /\ MarshalInput(c) # Bad
    BY <1>6, InputKind DEF Good
  <2> DEFINE d == ParseInput(MarshalInput(c))
  <2>2. d # Bad /\ d \in InputType /\ MarshalInput(d) # Bad /\ MarshalInput(c) # Nil
        /\ (PlainForm("input", c) => d = c)
    BY <2>1, InputRead DEF PlainForm
  <2>3. MarshalPlain("input", c) = MarshalInput(c) /\ ParsePlain("input", MarshalInput(c)) = d
    BY InputKind
  <2> HIDE DEF d
  <2>4. Good("input", d)
    BY <2>2, InputKind DEF Good
  <2> QED BY <1>6, <2>2, <2>3, <2>4
<1>7. CASE kind = "part"
  <2>1. c \in PartType
    BY <1>1, <1>7, PartKind
  <2> DEFINE d == ParsePart(MarshalPart(c))
  <2>2. d # Bad /\ d \in PartType /\ MarshalPart(c) # Nil /\ (PlainForm("part", c) => d = c)
    BY <2>1, PartRead DEF PlainForm
  <2>3. MarshalPlain("part", c) = MarshalPart(c) /\ ParsePlain("part", MarshalPart(c)) = d
    BY PartKind
  <2> HIDE DEF d
  <2>4. Good("part", d)
    BY <2>2, PartKind, PartRead DEF Good
  <2> QED BY <1>7, <2>2, <2>3, <2>4
<1> QED BY <1>2, <1>3, <1>4, <1>5, <1>6, <1>7 DEF PlainKinds

-----------------------------------------------------------------------------
(***************************************************************************)
(* Structs inside a payload, and then fields of any kind: the same facts   *)
(* again.                                                                  *)
(***************************************************************************)

\* An object has the members that are not omitted.
LEMMA ObjectMembers ==
  ASSUME Apart, NEW fields, NEW v, NEW out, Object(fields, v, out) # Bad
  PROVE  /\ Object(fields, v, out) # Nil /\ Is(Object(fields, v, out), "obj")
         /\ DOMAIN Object(fields, v, out).obj \subseteq DOMAIN fields
         /\ \A k \in DOMAIN fields : Omitted(fields[k], v[k]) => At(Object(fields, v, out), k) = Nil
         /\ \A k \in DOMAIN fields : ~Omitted(fields[k], v[k]) =>
              out[k] # Bad /\ At(Object(fields, v, out), k) = out[k]
<1> DEFINE kept == {k \in DOMAIN fields : ~Omitted(fields[k], v[k])}
           f == [k \in kept |-> out[k]]
<1>1. (\A k \in kept : out[k] # Bad) /\ Object(fields, v, out) = Obj(f)
  BY DEF Object
<1>2. DOMAIN f = kept /\ (\A k \in kept : f[k] = out[k]) /\ kept \subseteq DOMAIN fields
      /\ (\A k \in DOMAIN fields : k \in kept <=> ~Omitted(fields[k], v[k]))
  OBVIOUS
<1> HIDE DEF kept, f
<1>3. Obj(f) # Nil /\ Is(Obj(f), "obj") /\ Obj(f).obj = f
  BY Kinds, Shapes
<1>4. \A k \in DOMAIN fields : At(Obj(f), k) = IF k \in DOMAIN f THEN f[k] ELSE Nil
  BY AtObject
<1> QED BY <1>1, <1>2, <1>3, <1>4

\* An object whose members are written is written.
LEMMA ObjectWritten ==
  ASSUME Apart, NEW fields, NEW v, NEW out,
         \A k \in DOMAIN fields : ~Omitted(fields[k], v[k]) => out[k] # Bad
  PROVE  Object(fields, v, out) # Bad
<1>1. \A f : Obj(f) # Bad
  BY Shapes
<1> QED BY <1>1 DEF Object

\* No struct is an error.
LEMMA StructNotBad ==
  ASSUME Apart, NEW fields, NEW v, HasFields(fields, v)
  PROVE  v # Bad
<1>1. DOMAIN v = DOMAIN fields
  BY DEF HasFields
<1>2. IsFunction(v)
  BY <1>1 DEF HasFields, IsFunction
<1> QED BY <1>2 DEF Apart

\* The structs inside a payload: what is true of a field.
PlainFields(fields) == \A k \in DOMAIN fields : fields[k] \in PlainKinds

\* Structs hold plain fields only.
LEMMA StructKinds ==
  /\ \A kind \in DOMAIN Structs : PlainFields(Structs[kind])
  /\ DOMAIN Structs \cap PlainKinds = {}
<1>1. DOMAIN Structs = {"ToolCallFunction", "SubagentEventPayload", "ToolReturnValue"}
  BY DEF Structs
<1>2. PlainFields(Structs.ToolCallFunction)
  BY DEF PlainFields, PlainKinds, Structs
<1>3. PlainFields(Structs.SubagentEventPayload)
  BY DEF PlainFields, PlainKinds, Structs
<1>4. PlainFields(Structs.ToolReturnValue)
  BY DEF PlainFields, PlainKinds, Structs
<1> QED BY <1>1, <1>2, <1>3, <1>4 DEF PlainKinds

AllKinds == PlainKinds \cup DOMAIN Structs

\* A value of a field that is written and read again without an error.
GoodField(kind, c) ==
  IF kind \notin DOMAIN Structs THEN Good(kind, c)
  ELSE HasFields(Structs[kind], c) /\ \A k \in DOMAIN Structs[kind] : Good(Structs[kind][k], c[k])

\* A good field has its Go type and can be written.
LEMMA GoodOfKind ==
  ASSUME Apart, NEW kind \in AllKinds, NEW c, GoodField(kind, c)
  PROVE  OfKind(kind, c) /\ MarshalField(kind, c) # Bad /\ c # Bad
<1>1. CASE kind \notin DOMAIN Structs
  BY <1>1 DEF GoodField, Good, OfKind, MarshalField
<1>2. CASE kind \in DOMAIN Structs
  <2> DEFINE fields == Structs[kind]
             out == [k \in DOMAIN fields |-> MarshalPlain(fields[k], c[k])]
  <2>1. HasFields(fields, c) /\ \A k \in DOMAIN fields : Good(fields[k], c[k])
    BY <1>2 DEF GoodField
  <2>2. OfKind(kind, c)
    BY <1>2, <2>1 DEF OfKind, Good
  <2>3. \A k \in DOMAIN fields : out[k] # Bad
    BY <2>1 DEF Good
  <2>4. MarshalField(kind, c) = Object(fields, c, out)
    BY <1>2 DEF MarshalField
  <2> HIDE DEF fields, out
  <2> QED BY <2>1, <2>2, <2>3, <2>4, ObjectWritten, StructNotBad
<1> QED BY <1>1, <1>2

\* A value an application made that can be written.
LEMMA OfKindGood ==
  ASSUME Apart, NEW kind \in AllKinds, NEW c, OfKind(kind, c), MarshalField(kind, c) # Bad
  PROVE  GoodField(kind, c)
<1>1. CASE kind \notin DOMAIN Structs
  <2>1. kind \in PlainKinds /\ c \in PlainType(kind) /\ MarshalPlain(kind, c) # Bad
    BY <1>1 DEF AllKinds, OfKind, MarshalField
  <2> QED BY <1>1, <2>1, NotBad DEF GoodField, Good
<1>2. CASE kind \in DOMAIN Structs
  <2> DEFINE fields == Structs[kind]
             out == [k \in DOMAIN fields |-> MarshalPlain(fields[k], c[k])]
  <2>1. HasFields(fields, c) /\ \A k \in DOMAIN fields : c[k] \in PlainType(fields[k])
    BY <1>2 DEF OfKind
  <2>2. MarshalField(kind, c) = Object(fields, c, out)
    BY <1>2 DEF MarshalField
  <2>3. \A k \in DOMAIN fields : out[k] = MarshalPlain(fields[k], c[k])
    OBVIOUS
  <2>4. PlainFields(fields)
    BY <1>2, StructKinds
  <2> HIDE DEF fields, out
  <2>5. ASSUME NEW k \in DOMAIN fields PROVE Good(fields[k], c[k])
    <3>1. fields[k] \in PlainKinds
      BY <2>4 DEF PlainFields
    <3>2. ~Omitted(fields[k], c[k]) => out[k] # Bad
      BY <2>2, ObjectMembers
    <3> QED BY <2>1, <2>3, <3>1, <3>2, NotBad, OmittedGood DEF Good
  <2> QED BY <1>2, <2>1, <2>5 DEF GoodField, fields
<1> QED BY <1>1, <1>2

\* An absent member is read as the zero value.
LEMMA ZeroField ==
  ASSUME Apart, NEW kind \in AllKinds
  PROVE  GoodField(kind, Zero(kind))
<1>1. CASE kind \notin DOMAIN Structs
  BY <1>1, ZeroGood DEF AllKinds, GoodField, Zero
<1>2. CASE kind \in DOMAIN Structs
  <2> DEFINE fields == Structs[kind]
             zero == [k \in DOMAIN fields |-> ZeroPlain(fields[k])]
  <2>1. Zero(kind) = zero
    BY <1>2 DEF Zero
  <2>2. \A k \in DOMAIN fields : Good(fields[k], zero[k])
    BY <1>2, StructKinds, ZeroGood DEF PlainFields
  <2>3. HasFields(fields, zero)
    BY DEF HasFields
  <2> HIDE DEF zero
  <2> QED BY <1>2, <2>1, <2>2, <2>3 DEF GoodField
<1> QED BY <1>1, <1>2

\* What omitempty leaves out of a payload.
LEMMA OmittedField ==
  ASSUME Apart, NEW kind \in AllKinds, NEW c, OfKind(kind, c), Omitted(kind, c)
  PROVE  GoodField(kind, c) /\ (HasForm(kind, c) => c = Zero(kind))
<1>1. kind \in PlainKinds
  BY DEF Omitted, PlainKinds
<1>2. kind \notin DOMAIN Structs
  BY <1>1, StructKinds
<1> QED BY <1>1, <1>2, OmittedGood DEF OfKind, GoodField, HasForm, Zero

\* Members of an object that are accepted one by one make a struct.
LEMMA ReadStruct ==
  ASSUME Apart, NEW fields, NEW j, NEW v, v = [k \in DOMAIN fields |-> v[k]], Struct(fields, j, v) # Bad
  PROVE  Struct(fields, j, v) = v /\ HasFields(fields, v) /\ \A k \in DOMAIN fields : v[k] # Bad
  BY DEF Struct, HasFields

\* A foreign value that is accepted for a field is a good one.
LEMMA ParsedField ==
  ASSUME Apart, NEW kind \in AllKinds, NEW j \in Wire, ParseField(kind, j) # Bad
  PROVE  GoodField(kind, ParseField(kind, j))
<1>1. CASE j = Nil
  BY <1>1, ZeroField DEF ParseField
<1>2. CASE j # Nil /\ kind \notin DOMAIN Structs
  <2>1. j \in JSON /\ kind \in PlainKinds
    BY <1>2 DEF Wire, AllKinds
  <2> QED BY <1>2, <2>1, ParsedGood DEF ParseField, GoodField
<1>3. CASE j # Nil /\ kind \in DOMAIN Structs
  <2> DEFINE fields == Structs[kind]
             v == [k \in DOMAIN fields |-> ParseInner(fields[k], At(j, k))]
  <2>1. ParseField(kind, j) = Struct(fields, j, v)
    BY <1>3 DEF ParseField
  <2>2. PlainFields(fields)
    BY <1>3, StructKinds
  <2>3. v = [k \in DOMAIN fields |-> v[k]] /\ \A k \in DOMAIN fields : v[k] = ParseInner(fields[k], At(j, k))
    OBVIOUS
  <2> HIDE DEF fields, v
  <2>4. ParseField(kind, j) = v /\ HasFields(fields, v) /\ \A k \in DOMAIN fields : v[k] # Bad
    BY <2>1, <2>3, ReadStruct
  <2>5. ASSUME NEW k \in DOMAIN fields PROVE Good(fields[k], v[k])
    <3>1. fields[k] \in PlainKinds /\ At(j, k) \in Wire
      BY <2>2, WireMembers DEF PlainFields
    <3>2. CASE At(j, k) = Nil
      BY <2>3, <3>1, <3>2, ZeroGood DEF ParseInner
    <3>3. CASE At(j, k) # Nil
      <4>1. v[k] = ParsePlain(fields[k], At(j, k)) /\ At(j, k) \in JSON
        BY <2>3, <3>1, <3>3 DEF ParseInner, Wire
      <4> QED BY <2>4, <3>1, <4>1, ParsedGood
    <3> QED BY <3>2, <3>3
  <2> QED BY <1>3, <2>4, <2>5 DEF GoodField, fields
<1> QED BY <1>1, <1>2, <1>3

\* What a field is written as is read again.
LEMMA WrittenField ==
  ASSUME Apart, NEW kind \in AllKinds, NEW c, GoodField(kind, c), ~Omitted(kind, c)
  PROVE  /\ MarshalField(kind, c) # Nil
         /\ GoodField(kind, ParseField(kind, MarshalField(kind, c)))
         /\ HasForm(kind, c) => ParseField(kind, MarshalField(kind, c)) = c
<1>1. CASE kind \notin DOMAIN Structs
  <2>1. kind \in PlainKinds /\ Good(kind, c)
    BY <1>1 DEF AllKinds, GoodField
  <2>2. /\ MarshalPlain(kind, c) # Nil
        /\ Good(kind, ParsePlain(kind, MarshalPlain(kind, c)))
        /\ PlainForm(kind, c) => ParsePlain(kind, MarshalPlain(kind, c)) = c
    BY <2>1, WrittenGood
  <2>3. MarshalField(kind, c) = MarshalPlain(kind, c)
        /\ ParseField(kind, MarshalPlain(kind, c)) = ParsePlain(kind, MarshalPlain(kind, c))
    BY <1>1, <2>2 DEF MarshalField, ParseField
  <2> QED BY <1>1, <2>2, <2>3 DEF GoodField, HasForm
<1>2. CASE kind \in DOMAIN Structs
  <2> DEFINE fields == Structs[kind]
             out == [k \in DOMAIN fields |-> MarshalPlain(fields[k], c[k])]
             j == Object(fields, c, out)
             v == [k \in DOMAIN fields |-> ParseInner(fields[k], At(j, k))]
  <2>1. HasFields(fields, c) /\ PlainFields(fields) /\ \A k \in DOMAIN fields : Good(fields[k], c[k])
    BY <1>2, StructKinds DEF GoodField
  <2>2. MarshalField(kind, c) = j
    BY <1>2 DEF MarshalField
  <2>3. j # Nil => ParseField(kind, j) = Struct(fields, j, v)
    BY <1>2 DEF ParseField
  <2>4. /\ v = [k \in DOMAIN fields |-> v[k]]
        /\ \A k \in DOMAIN fields : v[k] = ParseInner(fields[k], At(j, k)) /\ out[k] = MarshalPlain(fields[k], c[k])
    OBVIOUS
  <2>5. HasForm(kind, c) => \A k \in DOMAIN fields : PlainForm(fields[k], c[k])
    BY <1>2 DEF HasForm
  <2> HIDE DEF fields, out, v
  <2>6. j # Bad
    BY <2>1, <2>4, ObjectWritten DEF Good
  <2>7. /\ j # Nil /\ Is(j, "obj")
        /\ \A k \in DOMAIN fields : Omitted(fields[k], c[k]) => At(j, k) = Nil
        /\ \A k \in DOMAIN fields : ~Omitted(fields[k], c[k]) => At(j, k) = out[k]
    BY <2>6, ObjectMembers
  <2> HIDE DEF j
  <2>8. ASSUME NEW k \in DOMAIN fields
        PROVE  Good(fields[k], v[k]) /\ (PlainForm(fields[k], c[k]) => v[k] = c[k])
    <3>1. fields[k] \in PlainKinds /\ Good(fields[k], c[k]) /\ c[k] \in PlainType(fields[k])
      BY <2>1 DEF PlainFields, Good
    <3>2. CASE Omitted(fields[k], c[k])
      <4>1. v[k] = ZeroPlain(fields[k])
        BY <2>4, <2>7, <3>2 DEF ParseInner
      <4> QED BY <3>1, <3>2, <4>1, ZeroGood, OmittedGood
    <3>3. CASE ~Omitted(fields[k], c[k])
      <4>1. /\ out[k] # Nil
            /\ Good(fields[k], ParsePlain(fields[k], out[k]))
            /\ PlainForm(fields[k], c[k]) => ParsePlain(fields[k], out[k]) = c[k]
        BY <2>4, <3>1, <3>3, WrittenGood
      <4>2. v[k] = ParsePlain(fields[k], out[k])
        BY <2>4, <2>7, <3>3, <4>1 DEF ParseInner
      <4> QED BY <4>1, <4>2
    <3> QED BY <3>2, <3>3
  <2>9. Struct(fields, j, v) = v
    BY <2>7, <2>8 DEF Struct, Good
  <2>10. (\A k \in DOMAIN fields : PlainForm(fields[k], c[k])) => v = c
    BY <2>1, <2>4, <2>8 DEF HasFields
  <2>11. HasFields(fields, v)
    BY <2>4 DEF HasFields
  <2>12. GoodField(kind, v)
    BY <1>2, <2>8, <2>11 DEF GoodField, fields
  <2> QED BY <2>2, <2>3, <2>5, <2>7, <2>9, <2>10, <2>12
<1> QED BY <1>1, <1>2

-----------------------------------------------------------------------------
(***************************************************************************)
(* Payloads: the structs of events and requests.                           *)
(***************************************************************************)
KnownFields(fields) == \A k \in DOMAIN fields : fields[k] \in AllKinds
GoodPayload(fields, v) == HasFields(fields, v) /\ \A k \in DOMAIN fields : GoodField(fields[k], v[k])

\* A payload of good fields can be written.
LEMMA GoodWritten ==
  ASSUME Apart, NEW fields, KnownFields(fields), NEW v, GoodPayload(fields, v)
  PROVE  /\ MarshalStruct(fields, v) # Bad /\ v # Bad
         /\ \A k \in DOMAIN fields : OfKind(fields[k], v[k])
<1> DEFINE out == [k \in DOMAIN fields |-> MarshalField(fields[k], v[k])]
<1>1. \A k \in DOMAIN fields : OfKind(fields[k], v[k]) /\ out[k] # Bad
  BY GoodOfKind DEF KnownFields, GoodPayload
<1>2. MarshalStruct(fields, v) = Object(fields, v, out)
  BY DEF MarshalStruct
<1> HIDE DEF out
<1> QED BY <1>1, <1>2, ObjectWritten, StructNotBad DEF GoodPayload

\* What an application made and MarshalJSON accepts.
LEMMA WritableGood ==
  ASSUME Apart, NEW fields, KnownFields(fields), NEW v, HasFields(fields, v),
         \A k \in DOMAIN fields : OfKind(fields[k], v[k]), MarshalStruct(fields, v) # Bad
  PROVE  GoodPayload(fields, v)
<1> DEFINE out == [k \in DOMAIN fields |-> MarshalField(fields[k], v[k])]
<1>1. MarshalStruct(fields, v) = Object(fields, v, out)
  BY DEF MarshalStruct
<1>2. \A k \in DOMAIN fields : out[k] = MarshalField(fields[k], v[k])
  OBVIOUS
<1> HIDE DEF out
<1>3. ASSUME NEW k \in DOMAIN fields PROVE GoodField(fields[k], v[k])
  <2>1. fields[k] \in AllKinds /\ OfKind(fields[k], v[k])
    BY DEF KnownFields
  <2>2. CASE Omitted(fields[k], v[k])
    BY <2>1, <2>2, OmittedField
  <2>3. CASE ~Omitted(fields[k], v[k])
    <3>1. MarshalField(fields[k], v[k]) # Bad
      BY <1>1, <1>2, <2>3, ObjectMembers
    <3> QED BY <2>1, <3>1, OfKindGood
  <2> QED BY <2>2, <2>3
<1> QED BY <1>3 DEF GoodPayload

\* A foreign payload that is accepted is a good one.
LEMMA ParsedPayload ==
  ASSUME Apart, NEW fields, KnownFields(fields), NEW j \in Wire, ParseStruct(fields, j) # Bad
  PROVE  GoodPayload(fields, ParseStruct(fields, j))
<1> DEFINE v == [k \in DOMAIN fields |-> ParseField(fields[k], At(j, k))]
<1>1. ParseStruct(fields, j) = Struct(fields, j, v)
  BY DEF ParseStruct
<1>2. v = [k \in DOMAIN fields |-> v[k]] /\ \A k \in DOMAIN fields : v[k] = ParseField(fields[k], At(j, k))
  OBVIOUS
<1> HIDE DEF v
<1>3. ParseStruct(fields, j) = v /\ HasFields(fields, v) /\ \A k \in DOMAIN fields : v[k] # Bad
  BY <1>1, <1>2, ReadStruct
<1>4. ASSUME NEW k \in DOMAIN fields PROVE GoodField(fields[k], v[k])
  <2>1. fields[k] \in AllKinds /\ At(j, k) \in Wire
    BY WireMembers DEF KnownFields
  <2> QED BY <1>2, <1>3, <2>1, ParsedField
<1> QED BY <1>3, <1>4 DEF GoodPayload

\* A payload is read from any object with the members that were written, as it
\* was if its fields have a form of their own.
LEMMA WrittenPayload ==
  ASSUME Apart, NEW fields, KnownFields(fields), NEW v, GoodPayload(fields, v),
         NEW j, Is(j, "obj"),
         \A k \in DOMAIN fields : At(j, k) = At(MarshalStruct(fields, v), k)
  PROVE  /\ GoodPayload(fields, ParseStruct(fields, j))
         /\ (\A k \in DOMAIN fields : HasForm(fields[k], v[k])) => ParseStruct(fields, j) = v
<1> DEFINE out == [k \in DOMAIN fields |-> MarshalField(fields[k], v[k])]
           d == [k \in DOMAIN fields |-> ParseField(fields[k], At(j, k))]
<1>1. MarshalStruct(fields, v) = Object(fields, v, out) /\ ParseStruct(fields, j) = Struct(fields, j, d)
  BY DEF MarshalStruct, ParseStruct
<1>2. /\ d = [k \in DOMAIN fields |-> d[k]]
      /\ \A k \in DOMAIN fields : d[k] = ParseField(fields[k], At(j, k)) /\ out[k] = MarshalField(fields[k], v[k])
  OBVIOUS
<1> HIDE DEF out, d
<1>3. /\ \A k \in DOMAIN fields : Omitted(fields[k], v[k]) => At(j, k) = Nil
      /\ \A k \in DOMAIN fields : ~Omitted(fields[k], v[k]) => At(j, k) = out[k]
  <2>1. Object(fields, v, out) # Bad
    BY <1>1, GoodWritten
  <2> QED BY <1>1, <2>1, ObjectMembers
<1>4. ASSUME NEW k \in DOMAIN fields
      PROVE  GoodField(fields[k], d[k]) /\ d[k] # Bad /\ (HasForm(fields[k], v[k]) => d[k] = v[k])
  <2>1. fields[k] \in AllKinds /\ GoodField(fields[k], v[k]) /\ OfKind(fields[k], v[k])
    BY GoodWritten DEF KnownFields, GoodPayload
  <2>2. CASE Omitted(fields[k], v[k])
    <3>1. d[k] = Zero(fields[k])
      BY <1>2, <1>3, <2>2 DEF ParseField
    <3> QED BY <2>1, <2>2, <3>1, ZeroField, OmittedField, GoodOfKind
  <2>3. CASE ~Omitted(fields[k], v[k])
    <3>1. d[k] = ParseField(fields[k], MarshalField(fields[k], v[k]))
      BY <1>2, <1>3, <2>3
    <3> QED BY <2>1, <2>3, <3>1, WrittenField, GoodOfKind
  <2> QED BY <2>2, <2>3
<1>5. ParseStruct(fields, j) = d
  BY <1>1, <1>4 DEF Struct
<1>6. (\A k \in DOMAIN fields : HasForm(fields[k], v[k])) => d = v
  BY <1>2, <1>4 DEF GoodPayload, HasFields
<1>7. HasFields(fields, d)
  BY <1>2 DEF HasFields
<1> QED BY <1>4, <1>5, <1>6, <1>7 DEF GoodPayload

-----------------------------------------------------------------------------
(***************************************************************************)
(* The types of the protocol have the fields the lemmas are about.         *)
(***************************************************************************)
\* No event and no request has a field of another kind.
LEMMA KnownTypes ==
  /\ \A t \in DOMAIN EventTypes : KnownFields(EventTypes[t])
  /\ \A t \in DOMAIN RequestTypes : KnownFields(RequestTypes[t])
  /\ "ContentPart" \in DOMAIN EventTypes /\ EventTypes["ContentPart"] = [part |-> "part"]
  /\ "ToolCall" \in DOMAIN EventTypes
  /\ EventTypes["ToolCall"] = [id |-> "plain", function |-> "ToolCallFunction", extras |-> "raw?"]
<1>1. AllKinds = PlainKinds \cup {"ToolCallFunction", "SubagentEventPayload", "ToolReturnValue"}
  BY DEF AllKinds, Structs
<1>2. \A t \in DOMAIN EventTypes : KnownFields(EventTypes[t])
  BY <1>1 DEF EventTypes, KnownFields, PlainKinds, Empty
<1>3. \A t \in DOMAIN RequestTypes : KnownFields(RequestTypes[t])
  BY <1>1 DEF RequestTypes, KnownFields, PlainKinds
<1>4. /\ "ContentPart" \in DOMAIN EventTypes /\ EventTypes["ContentPart"] = [part |-> "part"]
      /\ "ToolCall" \in DOMAIN EventTypes
      /\ EventTypes["ToolCall"] = [id |-> "plain", function |-> "ToolCallFunction", extras |-> "raw?"]
  BY DEF EventTypes
<1> QED BY <1>2, <1>3, <1>4

-----------------------------------------------------------------------------
(***************************************************************************)
(* Events and requests in their envelopes.                                 *)
(***************************************************************************)
GoodMessage(types, e) ==
  e = [type |-> e.type, v |-> e.v] /\ e.type \in DOMAIN types /\ GoodPayload(types[e.type], e.v)

\* An envelope gives back its type and its payload.
LEMMA EnvelopeRead ==
  ASSUME Apart, NEW t, NEW p, p # Bad
  PROVE  /\ Envelope(t, p) # Bad /\ Is(Envelope(t, p), "obj")
         /\ Text(At(Envelope(t, p), "type")) = t /\ At(Envelope(t, p), "payload") = p
<1>1. Envelope(t, p) = Obj([type |-> Str(t), payload |-> p])
  BY DEF Envelope
<1>2. At(Envelope(t, p), "type") = Str(t) /\ At(Envelope(t, p), "payload") = p
  BY <1>1, AtObject
<1>3. Envelope(t, p) # Bad /\ Is(Envelope(t, p), "obj")
  BY <1>1, Shapes, Kinds
<1>4. Text(At(Envelope(t, p), "type")) = t
  BY <1>2, ReadString
<1> QED BY <1>2, <1>3, <1>4

\* A good payload of a known type is a good message.
LEMMA TypedMessage ==
  ASSUME Apart, NEW types, NEW t \in DOMAIN types, KnownFields(types[t]), NEW v, GoodPayload(types[t], v)
  PROVE  /\ Typed(t, v) = [type |-> t, v |-> v] /\ Typed(t, v) # Bad
         /\ GoodMessage(types, Typed(t, v))
<1>1. v # Bad
  BY GoodWritten
<1>2. Typed(t, v) = [type |-> t, v |-> v]
  BY <1>1 DEF Typed
<1>3. IsFunction(Typed(t, v))
  BY <1>2 DEF IsFunction
<1> QED BY <1>2, <1>3 DEF Apart, GoodMessage

\* A good request is written, read, and good again.
LEMMA RequestWritten ==
  ASSUME Apart, NEW r, GoodMessage(RequestTypes, r)
  PROVE  /\ MarshalRequest(r) # Bad
         /\ ParseRequest(MarshalRequest(r)) # Bad
         /\ GoodMessage(RequestTypes, ParseRequest(MarshalRequest(r)))
         /\ Representable(RequestTypes, r) => ParseRequest(MarshalRequest(r)) = r
<1> DEFINE fields == RequestTypes[r.type]
           p == MarshalStruct(fields, r.v)
           d == ParseStruct(fields, p)
<1>1. r = [type |-> r.type, v |-> r.v] /\ r.type \in DOMAIN RequestTypes /\ GoodPayload(fields, r.v)
  BY DEF GoodMessage
<1>2. KnownFields(fields)
  BY <1>1, KnownTypes
<1>3. (Representable(RequestTypes, r) => \A k \in DOMAIN fields : HasForm(fields[k], r.v[k]))
      /\ MarshalRequest(r) = Envelope(r.type, p)
  BY DEF Representable, MarshalRequest
<1> HIDE DEF fields
<1>4. p # Bad
  BY <1>1, <1>2, GoodWritten
<1>5. p # Nil /\ Is(p, "obj")
  BY <1>4, ObjectMembers DEF MarshalStruct
<1>6. GoodPayload(fields, d) /\ ((\A k \in DOMAIN fields : HasForm(fields[k], r.v[k])) => d = r.v)
  BY <1>1, <1>2, <1>5, WrittenPayload
<1>7. ParseRequest(MarshalRequest(r)) = Typed(r.type, d)
  BY <1>1, <1>3, <1>4, <1>5, EnvelopeRead DEF ParseRequest, ParsePayload, fields
<1> HIDE DEF d, p
<1>8. Typed(r.type, d) = [type |-> r.type, v |-> d] /\ Typed(r.type, d) # Bad
      /\ GoodMessage(RequestTypes, Typed(r.type, d))
  BY <1>1, <1>2, <1>6, TypedMessage DEF fields
<1> QED BY <1>1, <1>3, <1>4, <1>6, <1>7, <1>8, EnvelopeRead

\* A foreign request that is accepted is good.
LEMMA RequestParsed ==
  ASSUME Apart, NEW j \in Wire, ParseRequest(j) # Bad
  PROVE  GoodMessage(RequestTypes, ParseRequest(j))
<1> DEFINE t == Text(At(j, "type"))  p == At(j, "payload")  d == ParseStruct(RequestTypes[t], p)
<1>1. t \in DOMAIN RequestTypes /\ p # Nil /\ ParseRequest(j) = Typed(t, d)
  BY DEF ParseRequest, ParsePayload
<1>2. d # Bad
  BY <1>1 DEF Typed
<1>3. p \in Wire /\ KnownFields(RequestTypes[t])
  BY <1>1, WireMembers, KnownTypes
<1>4. GoodPayload(RequestTypes[t], d)
  BY <1>2, <1>3, ParsedPayload
<1> HIDE DEF t, p, d
<1> QED BY <1>1, <1>3, <1>4, TypedMessage

\* A request of an application that can be written is good.
LEMMA RequestMade ==
  ASSUME Apart, NEW r, OfTypes(RequestTypes, r), MarshalRequest(r) # Bad
  PROVE  GoodMessage(RequestTypes, r)
<1> DEFINE fields == RequestTypes[r.type]
<1>1. r = [type |-> r.type, v |-> r.v] /\ r.type \in DOMAIN RequestTypes /\ HasFields(fields, r.v)
      /\ \A k \in DOMAIN fields : OfKind(fields[k], r.v[k])
  BY DEF OfTypes
<1>2. MarshalStruct(fields, r.v) # Bad
  BY DEF MarshalRequest, Envelope
<1>3. KnownFields(fields)
  BY <1>1, KnownTypes
<1>4. GoodPayload(fields, r.v)
  BY <1>1, <1>2, <1>3, WritableGood
<1> QED BY <1>1, <1>4 DEF GoodMessage

-----------------------------------------------------------------------------
\* Of the events, ContentPart is its part, ToolCall has a type, and some have
\* nothing.
Tagged(plain) ==
  Obj([k \in DOMAIN plain.obj \cup {"type"} |-> IF k = "type" THEN Str("function") ELSE plain.obj[k]])

\* The cases of MarshalEvent.
LEMMA EventPayload ==
  ASSUME NEW e
  PROVE  /\ e.type = "ContentPart" => MarshalEvent(e) = Envelope(e.type, MarshalPart(e.v.part))
         /\ e.type = "ToolCall" =>
              MarshalEvent(e) = Envelope(e.type, Tagged(MarshalStruct(EventTypes[e.type], e.v)))
         /\ e.type # "ContentPart" /\ e.type # "ToolCall" =>
              MarshalEvent(e) = Envelope(e.type, MarshalStruct(EventTypes[e.type], e.v))
  BY Zenon DEF MarshalEvent, Tagged

\* The events with nothing in them.
LEMMA UnpayloadedFields ==
  ASSUME NEW t \in Unpayloaded
  PROVE  t \in DOMAIN EventTypes /\ EventTypes[t] = Empty /\ DOMAIN EventTypes[t] = {}
         /\ t # "ContentPart" /\ t # "ToolCall"
<1>1. t \in DOMAIN EventTypes /\ EventTypes[t] = Empty
  BY DEF Unpayloaded
<1>2. DOMAIN Empty = {}
  BY DEF Empty
<1>3. "part" \in DOMAIN EventTypes["ContentPart"] /\ "id" \in DOMAIN EventTypes["ToolCall"]
  BY KnownTypes
<1> QED BY <1>1, <1>2, <1>3

\* The cases of ParseEvent.
LEMMA EventRead ==
  ASSUME NEW j, Is(j, "obj"), NEW t, t = Text(At(j, "type")), NEW p, p = At(j, "payload")
  PROVE  /\ t \in Unpayloaded => ParseEvent(j) = [type |-> t, v |-> Empty]
         /\ t = "ContentPart" /\ p # Nil =>
              ParseEvent(j) = Typed(t, IF ParsePart(p) = Bad THEN Bad ELSE [part |-> ParsePart(p)])
         /\ t = "ToolCall" /\ Text(At(p, "type")) # "function" => ParseEvent(j) = Bad
         /\ t \notin Unpayloaded /\ (t = "ContentPart" => p = Nil)
              /\ (t = "ToolCall" => Text(At(p, "type")) = "function") =>
              ParseEvent(j) = ParsePayload(EventTypes, t, p)
<1>1. "ContentPart" \notin Unpayloaded /\ "ToolCall" \notin Unpayloaded
  BY UnpayloadedFields
<1> QED BY <1>1, Zenon DEF ParseEvent

\* A good event is written, read, and good again.
LEMMA EventWritten ==
  ASSUME Apart, NEW e, GoodMessage(EventTypes, e)
  PROVE  /\ MarshalEvent(e) # Bad
         /\ ParseEvent(MarshalEvent(e)) # Bad
         /\ GoodMessage(EventTypes, ParseEvent(MarshalEvent(e)))
         /\ Representable(EventTypes, e) => ParseEvent(MarshalEvent(e)) = e
<1> DEFINE fields == EventTypes[e.type]
           p == MarshalStruct(fields, e.v)
           formed == \A k \in DOMAIN fields : HasForm(fields[k], e.v[k])
<1>1. e = [type |-> e.type, v |-> e.v] /\ e.type \in DOMAIN EventTypes /\ GoodPayload(fields, e.v)
  BY DEF GoodMessage
<1>2. KnownFields(fields)
  BY <1>1, KnownTypes
<1>3. Representable(EventTypes, e) => formed
  BY DEF Representable
<1>4. p # Bad
  BY <1>1, <1>2, GoodWritten
<1>5. p # Nil /\ Is(p, "obj") /\ DOMAIN p.obj \subseteq DOMAIN fields
  BY <1>4, ObjectMembers DEF MarshalStruct
<1>6. ASSUME NEW j, MarshalEvent(e) = Envelope(e.type, j), j # Bad,
             NEW d, GoodPayload(fields, d), formed => d = e.v,
             ParseEvent(MarshalEvent(e)) = Typed(e.type, d)
      PROVE  /\ MarshalEvent(e) # Bad
             /\ ParseEvent(MarshalEvent(e)) # Bad
             /\ GoodMessage(EventTypes, ParseEvent(MarshalEvent(e)))
             /\ Representable(EventTypes, e) => ParseEvent(MarshalEvent(e)) = e
  <2>1. /\ Typed(e.type, d) = [type |-> e.type, v |-> d] /\ Typed(e.type, d) # Bad
        /\ GoodMessage(EventTypes, Typed(e.type, d))
    BY <1>1, <1>2, <1>6, TypedMessage
  <2>2. MarshalEvent(e) # Bad
    BY <1>6, EnvelopeRead
  <2> HIDE DEF fields
  <2> QED BY <1>1, <1>3, <1>6, <2>1, <2>2
<1>7. CASE e.type = "ContentPart"
  <2> DEFINE c == e.v.part  j == MarshalPart(c)  d == [part |-> ParsePart(j)]
  <2>1. fields = [part |-> "part"]
    BY <1>7, KnownTypes
  <2>2. DOMAIN fields = {"part"} /\ fields["part"] = "part"
    BY <2>1
  <2>3. e.v = [part |-> c]
    BY <1>1, <2>2 DEF GoodPayload, HasFields
  <2>4. "part" \notin DOMAIN Structs
    BY StructKinds DEF PlainKinds
  <2>5. Good("part", c)
    BY <1>1, <2>2, <2>3, <2>4 DEF GoodPayload, GoodField
  <2>6. c \in PartType
    BY <2>5, PartKind DEF Good
  <2>7. ParsePart(j) \in PartType /\ ParsePart(j) # Bad /\ (OwnMembers(c) => ParsePart(j) = c) /\ j # Nil /\ j # Bad
    BY <2>6, PartRead
  <2>8. MarshalPart(ParsePart(j)) # Bad
    BY <2>7, PartRead
  <2> HIDE DEF j
  <2>9. Good("part", ParsePart(j))
    BY <2>7, <2>8, PartKind DEF Good
  <2>10. GoodPayload(fields, d)
    <3>1. d["part"] = ParsePart(j) /\ HasFields(fields, d)
      BY <2>2 DEF HasFields
    <3> HIDE DEF d
    <3> QED BY <2>2, <2>4, <2>9, <3>1 DEF GoodPayload, GoodField
  <2>11. formed => OwnMembers(c)
    <3>1. formed => HasForm("part", c)
      BY <2>2, <2>3
    <3> QED BY <2>4, <3>1 DEF HasForm, PlainForm
  <2>12. MarshalEvent(e) = Envelope(e.type, j)
    BY <1>7, EventPayload DEF j
  <2>13. ParseEvent(MarshalEvent(e)) = Typed(e.type, d)
    <3>1. Is(MarshalEvent(e), "obj") /\ Text(At(MarshalEvent(e), "type")) = "ContentPart"
          /\ At(MarshalEvent(e), "payload") = j
      BY <1>7, <2>7, <2>12, EnvelopeRead
    <3>2. ParseEvent(MarshalEvent(e)) =
            Typed("ContentPart", IF ParsePart(j) = Bad THEN Bad ELSE [part |-> ParsePart(j)])
      BY <2>7, <3>1, EventRead
    <3> QED BY <1>7, <2>7, <3>2
  <2>14. formed => d = e.v
    BY <2>3, <2>7, <2>11
  <2> HIDE DEF d, fields, formed
  <2> QED BY <1>6, <2>7, <2>10, <2>12, <2>13, <2>14
<1>8. CASE e.type = "ToolCall"
  <2> DEFINE j == Tagged(p)  d == ParseStruct(fields, j)
             f == [k \in DOMAIN p.obj \cup {"type"} |-> IF k = "type" THEN Str("function") ELSE p.obj[k]]
  <2>1. fields = [id |-> "plain", function |-> "ToolCallFunction", extras |-> "raw?"]
    BY <1>8, KnownTypes
  <2>2. "type" \notin DOMAIN fields
    BY <2>1
  <2>3. j = Obj(f)
    BY DEF Tagged
  <2> HIDE DEF p, fields
  <2>4. /\ DOMAIN f = DOMAIN p.obj \cup {"type"} /\ f["type"] = Str("function")
        /\ \A k \in DOMAIN p.obj : k # "type" => f[k] = p.obj[k]
    OBVIOUS
  <2> HIDE DEF f, j
  <2>5. At(j, "type") = Str("function") /\ Is(j, "obj") /\ j # Nil /\ j # Bad
    BY <2>3, <2>4, AtObject, Kinds, Shapes
  <2>6. ASSUME NEW k \in DOMAIN fields PROVE At(j, k) = At(p, k)
    <3>1. At(j, k) = IF k \in DOMAIN f THEN f[k] ELSE Nil
      BY <2>3, AtObject
    <3>2. At(p, k) = IF k \in DOMAIN p.obj THEN p.obj[k] ELSE Nil
      BY <1>5 DEF At
    <3> QED BY <2>2, <2>4, <3>1, <3>2
  <2>7. GoodPayload(fields, d) /\ (formed => d = e.v)
    BY <1>1, <1>2, <2>5, <2>6, WrittenPayload DEF p
  <2>8. MarshalEvent(e) = Envelope(e.type, j)
    BY <1>8, EventPayload DEF p, fields, j
  <2>9. ParseEvent(MarshalEvent(e)) = Typed(e.type, d)
    <3>1. Is(MarshalEvent(e), "obj") /\ Text(At(MarshalEvent(e), "type")) = "ToolCall"
          /\ At(MarshalEvent(e), "payload") = j
      BY <1>8, <2>5, <2>8, EnvelopeRead
    <3>2. Text(At(j, "type")) = "function" /\ "ToolCall" \notin Unpayloaded
      BY <2>5, ReadString, UnpayloadedFields
    <3>3. ParseEvent(MarshalEvent(e)) = ParsePayload(EventTypes, "ToolCall", j)
      BY <3>1, <3>2, EventRead
    <3> QED BY <1>1, <1>8, <2>5, <3>3 DEF ParsePayload, fields
  <2> HIDE DEF d, formed
  <2> QED BY <1>6, <2>5, <2>7, <2>8, <2>9
<1>9. CASE e.type \in Unpayloaded
  <2>1. MarshalEvent(e) = Envelope(e.type, p)
    BY <1>9, UnpayloadedFields, EventPayload
  <2>2. Is(MarshalEvent(e), "obj") /\ Text(At(MarshalEvent(e), "type")) = e.type
    BY <1>4, <2>1, EnvelopeRead
  <2>3. ParseEvent(MarshalEvent(e)) = [type |-> e.type, v |-> Empty]
    BY <1>9, <2>2, EventRead
  <2>4. e.v = Empty
    BY <1>1, <1>9, UnpayloadedFields DEF GoodPayload, HasFields, Empty
  <2>5. ParseEvent(MarshalEvent(e)) = e
    BY <1>1, <2>3, <2>4
  <2>6. e # Bad
    <3>1. IsFunction([type |-> e.type, v |-> e.v])
      BY DEF IsFunction
    <3> QED BY <1>1, <3>1 DEF Apart
  <2>7. MarshalEvent(e) # Bad
    BY <1>4, <2>1, EnvelopeRead
  <2> QED BY <2>5, <2>6, <2>7
<1>10. CASE e.type \notin Unpayloaded /\ e.type # "ContentPart" /\ e.type # "ToolCall"
  <2> DEFINE d == ParseStruct(fields, p)
  <2>1. MarshalEvent(e) = Envelope(e.type, p)
    BY <1>10, EventPayload
  <2>2. GoodPayload(fields, d) /\ (formed => d = e.v)
    BY <1>1, <1>2, <1>5, WrittenPayload
  <2>3. ParseEvent(MarshalEvent(e)) = Typed(e.type, d)
    <3>1. Is(MarshalEvent(e), "obj") /\ Text(At(MarshalEvent(e), "type")) = e.type
          /\ At(MarshalEvent(e), "payload") = p
      BY <1>4, <2>1, EnvelopeRead
    <3>2. ParseEvent(MarshalEvent(e)) = ParsePayload(EventTypes, e.type, p)
      BY <1>10, <3>1, EventRead
    <3> QED BY <1>1, <1>5, <3>2 DEF ParsePayload
  <2> HIDE DEF d, formed, p, fields
  <2> QED BY <1>4, <1>6, <2>1, <2>2, <2>3
<1> QED BY <1>7, <1>8, <1>9, <1>10

\* A foreign event that is accepted is good.
LEMMA EventParsed ==
  ASSUME Apart, NEW j \in Wire, ParseEvent(j) # Bad
  PROVE  GoodMessage(EventTypes, ParseEvent(j))
<1> DEFINE t == Text(At(j, "type"))  p == At(j, "payload")
<1>1. Is(j, "obj")
  BY DEF ParseEvent
<1>2. p \in Wire
  BY WireMembers
<1>3. CASE t \in Unpayloaded
  <2>1. ParseEvent(j) = [type |-> t, v |-> Empty]
    BY <1>1, <1>3, EventRead
  <2>2. GoodPayload(EventTypes[t], Empty)
    BY <1>3, UnpayloadedFields DEF GoodPayload, HasFields, Empty
  <2>3. t \in DOMAIN EventTypes
    BY <1>3, UnpayloadedFields
  <2> HIDE DEF t
  <2> QED BY <2>1, <2>2, <2>3 DEF GoodMessage
<1>4. CASE t = "ContentPart" /\ p # Nil
  <2> DEFINE q == ParsePart(p)  d == [part |-> q]
  <2>1. ParseEvent(j) = Typed(t, IF q = Bad THEN Bad ELSE d)
    BY <1>1, <1>4, EventRead
  <2>2. q # Bad
    BY <2>1 DEF Typed
  <2>3. q \in PartType
    BY <1>2, <2>2, ParsePartType
  <2>4. Good("part", q)
    BY <2>2, <2>3, PartKind, PartRead DEF Good
  <2> HIDE DEF q
  <2>5. EventTypes["ContentPart"] = [part |-> "part"] /\ "ContentPart" \in DOMAIN EventTypes
        /\ KnownFields(EventTypes["ContentPart"])
    BY KnownTypes
  <2>6. "part" \notin DOMAIN Structs
    BY StructKinds DEF PlainKinds
  <2>7. GoodPayload(EventTypes["ContentPart"], d)
    <3> DEFINE fields == [part |-> "part"]
    <3>1. DOMAIN fields = {"part"} /\ fields["part"] = "part"
      OBVIOUS
    <3>2. d["part"] = q /\ HasFields(fields, d)
      BY <3>1 DEF HasFields
    <3> HIDE DEF d, fields
    <3>3. GoodPayload(fields, d)
      BY <2>4, <2>6, <3>1, <3>2 DEF GoodPayload, GoodField
    <3> QED BY <2>5, <3>3 DEF fields
  <2>8. ParseEvent(j) = Typed("ContentPart", d)
    BY <1>4, <2>1, <2>2
  <2> HIDE DEF d
  <2> QED BY <2>5, <2>7, <2>8, TypedMessage
<1>5. CASE t \notin Unpayloaded /\ (t = "ContentPart" => p = Nil)
  <2> DEFINE d == ParseStruct(EventTypes[t], p)
  <2>1. ParseEvent(j) = ParsePayload(EventTypes, t, p)
    BY <1>1, <1>5, EventRead
  <2>2. t \in DOMAIN EventTypes /\ ParseEvent(j) = Typed(t, d)
    BY <2>1 DEF ParsePayload
  <2>3. d # Bad /\ KnownFields(EventTypes[t])
    BY <2>2, KnownTypes DEF Typed
  <2>4. GoodPayload(EventTypes[t], d)
    BY <1>2, <2>3, ParsedPayload
  <2> HIDE DEF d, t, p
  <2> QED BY <2>2, <2>3, <2>4, TypedMessage
<1> QED BY <1>3, <1>4, <1>5

\* Only an input can fail to be written.
LEMMA NoInputGood ==
  ASSUME Apart, NEW kind \in PlainKinds, kind # "input", NEW c \in PlainType(kind)
  PROVE  Good(kind, c)
<1>1. CASE kind \in {"plain", "omit", "ptr"}
  <2>1. MarshalPlain(kind, c) = Str(c)
    BY <1>1, ScalarKind, PointerKind
  <2> QED BY <2>1, NotBad, Shapes DEF Good
<1>2. CASE kind \in {"list", "list?"}
  <2>1. MarshalPlain(kind, c) = Null \/ MarshalPlain(kind, c) = Arr(c)
    BY <1>2, ListKind
  <2> QED BY <2>1, NotBad, Shapes DEF Good
<1>3. CASE kind \in {"raw", "raw?"}
  <2>1. MarshalPlain(kind, c) = Null \/ MarshalPlain(kind, c) = c
    BY <1>3, RawKind
  <2> QED BY <2>1, NotBad, Shapes DEF Good
<1>4. CASE kind = "part"
  BY <1>4, PartKind, PartRead, NotBad DEF Good
<1> QED BY <1>1, <1>2, <1>3, <1>4 DEF PlainKinds

\* An event of an application that can be written is good.
LEMMA EventMade ==
  ASSUME Apart, NEW e, OfTypes(EventTypes, e), MarshalEvent(e) # Bad
  PROVE  GoodMessage(EventTypes, e)
<1> DEFINE fields == EventTypes[e.type]
<1>1. e = [type |-> e.type, v |-> e.v] /\ e.type \in DOMAIN EventTypes /\ HasFields(fields, e.v)
      /\ \A k \in DOMAIN fields : OfKind(fields[k], e.v[k])
  BY DEF OfTypes
<1>2. CASE e.type = "ContentPart" \/ e.type = "ToolCall"
  <2>1. \A k \in DOMAIN fields : fields[k] \in {"part", "plain", "raw?", "ToolCallFunction"}
    BY <1>2, KnownTypes
  <2> HIDE DEF fields
  <2>2. ASSUME NEW k \in DOMAIN fields PROVE GoodField(fields[k], e.v[k])
    <3>1. CASE fields[k] \in {"part", "plain", "raw?"}
      <4>1. fields[k] \in PlainKinds /\ fields[k] # "input" /\ fields[k] \notin DOMAIN Structs
        BY <3>1, StructKinds DEF PlainKinds
      <4> QED BY <1>1, <4>1, NoInputGood DEF OfKind, GoodField
    <3>2. CASE fields[k] = "ToolCallFunction"
      <4> DEFINE inner == Structs["ToolCallFunction"]
      <4>1. /\ "ToolCallFunction" \in DOMAIN Structs
            /\ \A i \in DOMAIN inner : inner[i] \in {"plain", "ptr"}
        BY DEF Structs
      <4>2. HasFields(inner, e.v[k]) /\ \A i \in DOMAIN inner : e.v[k][i] \in PlainType(inner[i])
        BY <1>1, <3>2, <4>1 DEF OfKind
      <4> HIDE DEF inner
      <4>3. \A i \in DOMAIN inner : Good(inner[i], e.v[k][i])
        BY <4>1, <4>2, NoInputGood DEF PlainKinds
      <4> QED BY <3>2, <4>1, <4>2, <4>3 DEF GoodField, inner
    <3> QED BY <2>1, <3>1, <3>2
  <2> QED BY <1>1, <2>2 DEF GoodMessage, GoodPayload, fields
<1>3. CASE e.type # "ContentPart" /\ e.type # "ToolCall"
  <2>1. MarshalEvent(e) = Envelope(e.type, MarshalStruct(fields, e.v))
    BY <1>3, EventPayload
  <2>2. MarshalStruct(fields, e.v) # Bad
    BY <2>1 DEF Envelope
  <2>3. KnownFields(fields)
    BY <1>1, KnownTypes
  <2>4. GoodPayload(fields, e.v)
    BY <1>1, <2>2, <2>3, WritableGood
  <2> QED BY <1>1, <2>4 DEF GoodMessage
<1> QED BY <1>2, <1>3

-----------------------------------------------------------------------------
(***************************************************************************)
(* The relay.                                                              *)
(***************************************************************************)
MarshalMessage(kind, v) == IF kind = "event" THEN MarshalEvent(v) ELSE MarshalRequest(v)
ParseMessage(kind, j)   == IF kind = "event" THEN ParseEvent(j) ELSE ParseRequest(j)
MessageKinds == {"event", "request"}

\* Events and requests together.
LEMMA MessageWritten ==
  ASSUME Apart, NEW kind \in MessageKinds, NEW e, GoodMessage(Types(kind), e)
  PROVE  /\ MarshalMessage(kind, e) # Bad
         /\ ParseMessage(kind, MarshalMessage(kind, e)) # Bad
         /\ GoodMessage(Types(kind), ParseMessage(kind, MarshalMessage(kind, e)))
         /\ Representable(Types(kind), e) => ParseMessage(kind, MarshalMessage(kind, e)) = e
  BY EventWritten, RequestWritten DEF MessageKinds, MarshalMessage, ParseMessage, Types

\* What is accepted of a foreign line is good.
LEMMA MessageParsed ==
  ASSUME Apart, NEW kind \in MessageKinds, NEW j \in Wire, ParseMessage(kind, j) # Bad
  PROVE  GoodMessage(Types(kind), ParseMessage(kind, j))
  BY EventParsed, RequestParsed DEF MessageKinds, ParseMessage, Types

\* What an application made and can be written is good.
LEMMA MessageMade ==
  ASSUME Apart, NEW kind \in MessageKinds, NEW e, OfTypes(Types(kind), e), MarshalMessage(kind, e) # Bad
  PROVE  GoodMessage(Types(kind), e)
  BY EventMade, RequestMade DEF MessageKinds, MarshalMessage, Types

\* A line with a method is what the method says, if its params are.
LEMMA LineRead ==
  ASSUME NEW kind \in MessageKinds, NEW p, ParseMessage(kind, p) # Bad
  PROVE  ParseWireMessage(Raw(kind, p)) = [kind |-> kind, v |-> ParseMessage(kind, p)]
<1>1. Raw(kind, p).jsonrpc = "2.0" /\ Raw(kind, p).method = kind /\ Raw(kind, p).params = p
  BY DEF Raw
<1>2. CASE kind = "event"
  <2>1. ParseEvent(p) # Bad /\ ParseMessage(kind, p) = ParseEvent(p)
    BY <1>2 DEF ParseMessage
  <2> QED BY <1>1, <1>2, <2>1, Zenon DEF ParseWireMessage
<1>3. CASE kind = "request"
  <2>1. ParseRequest(p) # Bad /\ ParseMessage(kind, p) = ParseRequest(p)
    BY <1>3 DEF ParseMessage
  <2> QED BY <1>1, <1>3, <2>1, Zenon DEF ParseWireMessage
<1> QED BY <1>2, <1>3 DEF MessageKinds

\* A line that is an event or a request has been parsed as one.
LEMMA LineMessage ==
  ASSUME NEW raw, ParseWireMessage(raw).kind \in MessageKinds
  PROVE  \E kind \in MessageKinds :
           /\ ParseMessage(kind, raw.params) # Bad
           /\ ParseWireMessage(raw) = [kind |-> kind, v |-> ParseMessage(kind, raw.params)]
<1>1. CASE raw.jsonrpc = "2.0" /\ raw.method = "event"
  <2>1. ParseWireMessage(raw) = IF ParseEvent(raw.params) = Bad THEN [kind |-> "json_parse"]
                                ELSE [kind |-> "event", v |-> ParseEvent(raw.params)]
    BY <1>1, Zenon DEF ParseWireMessage
  <2>2. ParseEvent(raw.params) # Bad
    BY <2>1 DEF MessageKinds
  <2> QED BY <2>1, <2>2 DEF MessageKinds, ParseMessage
<1>2. CASE raw.jsonrpc = "2.0" /\ raw.method = "request"
  <2>1. ParseWireMessage(raw) = IF ParseRequest(raw.params) = Bad THEN [kind |-> "json_parse"]
                                ELSE [kind |-> "request", v |-> ParseRequest(raw.params)]
    BY <1>2, Zenon DEF ParseWireMessage
  <2>2. ParseRequest(raw.params) # Bad
    BY <2>1 DEF MessageKinds
  <2> QED BY <2>1, <2>2 DEF MessageKinds, ParseMessage
<1>3. CASE ~(raw.jsonrpc = "2.0" /\ raw.method \in MessageKinds)
  <2>1. \E w \in {"json_parse", "error", "success", "unknown_message_type"} : ParseWireMessage(raw) = [kind |-> w]
    BY <1>3, Zenon DEF ParseWireMessage, MessageKinds
  <2> QED BY <2>1 DEF MessageKinds
<1> QED BY <1>1, <1>2, <1>3 DEF MessageKinds

\* A value that has been marshalled or parsed can be marshalled again, and a
\* line this library wrote carries the value it wrote.
RelayInv ==
  /\ hops \in Nat
  /\ stage = "value" =>
       /\ msg.kind \in MessageKinds
       /\ \/ hops = 0 /\ line = Nil /\ OfTypes(Types(msg.kind), msg.v)
          \/ GoodMessage(Types(msg.kind), msg.v)
  /\ stage = "line" /\ hops = 0 => line.params \in Wire
  /\ stage = "line" /\ hops > 0 =>
       /\ msg.kind \in MessageKinds /\ GoodMessage(Types(msg.kind), msg.v)
       /\ sent = msg.v /\ line = Raw(msg.kind, MarshalMessage(msg.kind, msg.v))
  /\ RelayNeverFails /\ RoundTrip

\* Applications make typed values, and foreign lines carry JSON.
LEMMA RelayStarts == RelayInit => RelayInv
<1> SUFFICES ASSUME RelayInit PROVE RelayInv
  OBVIOUS
<1>1. hops = 0 /\ stage # "rejected" /\ stage # "unsent"
  BY DEF RelayInit
<1>2. RelayNeverFails /\ RoundTrip
  BY <1>1 DEF RelayNeverFails, RoundTrip
<1>3. CASE stage = "value"
  <2>1. msg \in Messages /\ line = Nil
    BY <1>3 DEF RelayInit
  <2>2. msg.kind \in MessageKinds /\ OfTypes(Types(msg.kind), msg.v)
    BY <2>1, RelayAssumption DEF MessageKinds
  <2> QED BY <1>1, <1>2, <1>3, <2>1, <2>2 DEF RelayInv
<1>4. CASE stage = "line"
  <2>1. line.params \in Wire
    BY <1>4, RelayAssumption DEF RelayInit, Wire
  <2> QED BY <1>1, <1>2, <1>4, <2>1 DEF RelayInv
<1> QED BY <1>3, <1>4 DEF RelayInit

\* Marshal and Parse hand a good message to each other.
LEMMA RelayKept == ASSUME Apart PROVE RelayInv /\ [RelayNext]_relayVars => RelayInv'
<1> SUFFICES ASSUME RelayInv, [RelayNext]_relayVars PROVE RelayInv'
  OBVIOUS
<1> USE DEF RelayInv
<1>1. CASE Marshal
  <2> DEFINE p == MarshalMessage(msg.kind, msg.v)
  <2>1. stage = "value" /\ sent' = msg.v /\ hops' = hops + 1 /\ msg' = msg
    BY <1>1 DEF Marshal
  <2>2. msg.kind \in MessageKinds /\ hops' > 0 /\ hops' \in Nat
    BY <2>1
  <2>3. IF p = Bad THEN stage' = "unsent" /\ line' = line ELSE stage' = "line" /\ line' = Raw(msg.kind, p)
    BY <1>1 DEF Marshal, MarshalMessage
  <2>4. CASE p = Bad
    <3>1. hops = 0 /\ line = Nil
      BY <2>1, <2>4, MessageWritten
    <3>2. stage' = "unsent" /\ line' = Nil /\ hops' = 1
      BY <2>1, <2>3, <2>4, <3>1
    <3> QED BY <2>2, <3>2 DEF RelayNeverFails, RoundTrip
  <2>5. CASE p # Bad
    <3>1. GoodMessage(Types(msg.kind), msg.v)
      BY <2>1, <2>5, MessageMade
    <3>2. stage' = "line" /\ line' = Raw(msg.kind, p)
      BY <2>3, <2>5
    <3>3. stage' = "line" /\ hops' > 0 => GoodMessage(Types(msg'.kind), msg'.v)
      BY <2>1, <3>1
    <3>4. line' = Raw(msg'.kind, MarshalMessage(msg'.kind, msg'.v))
      BY <2>1, <3>2
    <3> QED BY <2>1, <2>2, <3>2, <3>3, <3>4 DEF RelayNeverFails, RoundTrip
  <2> QED BY <2>4, <2>5
<1>2. CASE Parse
  <2> DEFINE m == ParseWireMessage(line)
  <2>1. stage = "line" /\ line' = line /\ sent' = sent /\ hops' = hops
    BY <1>2 DEF Parse
  <2>2. /\ m.kind \in MessageKinds => stage' = "value" /\ msg' = m
        /\ m.kind \notin MessageKinds => stage' \in {"response", "rejected"}
    BY <1>2, Zenon DEF Parse, MessageKinds
  <2>3. CASE hops = 0
    <3>1. CASE m.kind \in MessageKinds
      <4>1. PICK kind \in MessageKinds : /\ ParseMessage(kind, line.params) # Bad
                                         /\ m = [kind |-> kind, v |-> ParseMessage(kind, line.params)]
        BY <3>1, LineMessage
      <4>2. GoodMessage(Types(kind), ParseMessage(kind, line.params))
        BY <2>1, <2>3, <4>1, MessageParsed
      <4>3. msg'.kind = kind /\ msg'.v = ParseMessage(kind, line.params) /\ stage' = "value"
        BY <2>2, <3>1, <4>1
      <4>4. msg'.kind \in MessageKinds /\ GoodMessage(Types(msg'.kind), msg'.v)
        BY <4>2, <4>3
      <4> QED BY <2>1, <2>3, <4>3, <4>4 DEF RelayNeverFails, RoundTrip
    <3>2. CASE m.kind \notin MessageKinds
      BY <2>1, <2>2, <2>3, <3>2 DEF RelayNeverFails, RoundTrip
    <3> QED BY <3>1, <3>2
  <2>4. CASE hops > 0
    <3> DEFINE d == ParseMessage(msg.kind, MarshalMessage(msg.kind, msg.v))
    <3>1. /\ msg.kind \in MessageKinds /\ GoodMessage(Types(msg.kind), msg.v)
          /\ sent = msg.v /\ line = Raw(msg.kind, MarshalMessage(msg.kind, msg.v))
      BY <2>1, <2>4
    <3>2. d # Bad /\ GoodMessage(Types(msg.kind), d) /\ (Representable(Types(msg.kind), sent) => d = sent)
      BY <3>1, MessageWritten
    <3>3. m = [kind |-> msg.kind, v |-> d]
      BY <3>1, <3>2, LineRead
    <3> HIDE DEF d
    <3>4. stage' = "value" /\ msg'.kind = msg.kind /\ msg'.v = d
      BY <2>2, <3>1, <3>3
    <3>5. RoundTrip'
      BY <2>1, <3>2, <3>4 DEF RoundTrip
    <3>6. msg'.kind \in MessageKinds /\ GoodMessage(Types(msg'.kind), msg'.v)
      BY <3>1, <3>2, <3>4
    <3> QED BY <2>1, <3>4, <3>5, <3>6 DEF RelayNeverFails
  <2> QED BY <2>3, <2>4
<1>3. CASE UNCHANGED relayVars
  BY <1>3 DEF relayVars, RelayNeverFails, RoundTrip
<1> QED BY <1>1, <1>2, <1>3 DEF RelayNext

\* No message this library has sent or accepted is refused further on: what
\* MarshalJSON writes ParseWireMessage accepts, and what that has accepted
\* MarshalJSON can write, for any message of the Go types and any foreign line.
THEOREM RelaySafe == ASSUME Apart PROVE RelaySpec => []RelayNeverFails
<1>1. RelayInv => RelayNeverFails
  BY DEF RelayInv
<1> QED BY <1>1, RelayStarts, RelayKept, PTL DEF RelaySpec

\* Every message with a form of its own on the wire (Representable) is parsed to
\* the value that was marshalled, however often it is passed on.
THEOREM RelayFaithful == ASSUME Apart PROVE RelaySpec => []RoundTrip
<1>1. RelayInv => RoundTrip
  BY DEF RelayInv
<1> QED BY <1>1, RelayStarts, RelayKept, PTL DEF RelaySpec
=============================================================================
