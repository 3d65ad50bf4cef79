---------------------------- MODULE AgentLoopProofs ----------------------------
(***************************************************************************)
(* The invariants of one run's task hold for every set of call ids and     *)
(* any number of calls, turns and reminders.                               *)
(***************************************************************************)
EXTENDS AgentLoop, FiniteSetTheorems, WellFoundedInduction, TLAPS

LEMMA SeqEqual ==
  ASSUME NEW S, NEW s \in Seq(S), NEW t \in Seq(S), Len(s) = Len(t),
         \A i \in 1 .. Len(s) : s[i] = t[i]
  PROVE  s = t
OBVIOUS

Joined(w, s, t) ==
  /\ Len(w) = Len(s) + Len(t)
  /\ \A i \in 1 .. Len(s) : w[i] = s[i]
  /\ \A i \in 1 .. Len(t) : w[Len(s) + i] = t[i]

LEMMA ConcatFacts ==
  ASSUME NEW S, NEW s \in Seq(S), NEW t \in Seq(S)
  PROVE  s \o t \in Seq(S) /\ Joined(s \o t, s, t)
BY DEF Joined

LEMMA AppendFacts ==
  ASSUME NEW S, NEW s \in Seq(S), NEW e \in S
  PROVE  /\ Append(s, e) # <<>>
         /\ Last(Append(s, e)) = e
         /\ Front(Append(s, e)) = s
<1> DEFINE t == Append(s, e)
<1>1. t \in Seq(S) /\ Len(t) = Len(s) + 1 /\ Len(s) \in Nat /\ t[Len(s) + 1] = e
      /\ \A i \in 1 .. Len(s) : t[i] = s[i]
  OBVIOUS
<1> HIDE DEF t
<1>2. /\ SubSeq(t, 1, Len(s)) \in Seq(S)
      /\ Len(SubSeq(t, 1, Len(s))) = Len(s)
      /\ \A i \in 1 .. Len(s) : SubSeq(t, 1, Len(s))[i] = t[i]
  BY <1>1
<1>3. SubSeq(t, 1, Len(s)) = s
  BY <1>1, <1>2, SeqEqual
<1>4. t # <<>>
  BY <1>1
<1> QED
  BY <1>1, <1>3, <1>4 DEF t, Last, Front

LEMMA AppendToTuple ==
  ASSUME NEW a, NEW b, NEW x
  PROVE  /\ Append(<<a>>, x) = <<a, x>>
         /\ Append(<<a, b>>, x) = <<a, b, x>>
<1> DEFINE S == {a, b, x}
<1>1. Append(<<a>>, x) = <<a, x>>
  <2>1. <<a, x>> \in Seq(S) /\ Append(<<a>>, x) \in Seq(S)
    OBVIOUS
  <2>2. Len(Append(<<a>>, x)) = 2 /\ Len(<<a, x>>) = 2
    OBVIOUS
  <2>3. \A i \in 1 .. 2 : Append(<<a>>, x)[i] = <<a, x>>[i]
    OBVIOUS
  <2> HIDE DEF S
  <2> QED
    BY <2>1, <2>2, <2>3, SeqEqual
<1>2. Append(<<a, b>>, x) = <<a, b, x>>
  <2>1. <<a, b, x>> \in Seq(S) /\ Append(<<a, b>>, x) \in Seq(S)
    OBVIOUS
  <2>2. Len(Append(<<a, b>>, x)) = 3 /\ Len(<<a, b, x>>) = 3
    OBVIOUS
  <2>3. \A i \in 1 .. 3 : Append(<<a, b>>, x)[i] = <<a, b, x>>[i]
    OBVIOUS
  <2> HIDE DEF S
  <2> QED
    BY <2>1, <2>2, <2>3, SeqEqual
<1> QED
  BY <1>1, <1>2

LEMMA AppendToThree ==
  ASSUME NEW a, NEW b, NEW c, NEW x
  PROVE  Append(<<a, b, c>>, x) = <<a, b, c, x>>
<1> DEFINE S == {a, b, c, x}
<1>1. <<a, b, c, x>> \in Seq(S) /\ Append(<<a, b, c>>, x) \in Seq(S)
  OBVIOUS
<1>2. Len(Append(<<a, b, c>>, x)) = 4 /\ Len(<<a, b, c, x>>) = 4
  OBVIOUS
<1>3. \A i \in 1 .. 4 : Append(<<a, b, c>>, x)[i] = <<a, b, c, x>>[i]
  OBVIOUS
<1> HIDE DEF S
<1> QED
  BY <1>1, <1>2, <1>3, SeqEqual

LEMMA ConcatTwo ==
  ASSUME NEW S, NEW s \in Seq(S), NEW a \in S, NEW b \in S
  PROVE  s \o <<a, b>> = (s \o <<a>>) \o <<b>>
<1> DEFINE t == s \o <<a, b>>
           u == (s \o <<a>>) \o <<b>>
<1>1. t \in Seq(S) /\ u \in Seq(S) /\ Len(t) = Len(u)
  OBVIOUS
<1>2. \A i \in 1 .. Len(t) : t[i] = u[i]
  OBVIOUS
<1> HIDE DEF t, u
<1>3. t = u
  BY <1>1, <1>2, SeqEqual
<1> QED
  BY <1>3 DEF t, u

(* Functions that are defined along a sequence of positions.               *)

LEMMA LeastPosition ==
  ASSUME NEW T, T \subseteq Nat, T # {}
  PROVE  \E m \in T : \A n \in T : m <= n
<1> DEFINE R == OpToRel(<, Nat)
<1>1. IsWellFoundedOn(R, Nat)
  BY NatLessThanWellFounded
<1>2. \A x, y \in Nat : x < y => <<x, y>> \in R
  BY DEF OpToRel
<1> HIDE DEF R
<1>3. PICK m \in T : \A n \in T : ~(<<n, m>> \in R)
  BY <1>1, WFMin
<1>4. \A n \in T : ~(n < m)
  BY <1>2, <1>3
<1> QED
  BY <1>3, <1>4

Along(g, n, a, step) == g[0] = a /\ \A i \in 1 .. n : g[i] = step[<<g[i - 1], i>>]

\* There is one: the least length without one has none.
LEMMA RecursionExists ==
  ASSUME NEW n \in Nat, NEW S, NEW a \in S, NEW step \in [S \X (1 .. n) -> S]
  PROVE  \E g \in [0 .. n -> S] : Along(g, n, a, step)
<1> DEFINE Good(k, g) == g[0] = a /\ \A i \in 1 .. k : g[i] = step[<<g[i - 1], i>>]
           T == {k \in 0 .. n : ~ \E g \in [0 .. k -> S] : Good(k, g)}
<1>0. n \in 0 .. n
  OBVIOUS
<1>1. SUFFICES ASSUME T # {} PROVE FALSE
  <2>1. n \notin T => \E g \in [0 .. n -> S] : Good(n, g)
    BY <1>0
  <2> QED
    BY <2>1 DEF Along
<1>a. T \subseteq Nat /\ T # {}
  BY <1>1
<1>2. PICK m \in T : \A k \in T : m <= k
  <2> HIDE DEF T
  <2> QED
    BY <1>a, LeastPosition
<1>3. CASE m = 0
  <2>1. [i \in 0 .. 0 |-> a] \in [0 .. 0 -> S] /\ Good(0, [i \in 0 .. 0 |-> a])
    OBVIOUS
  <2> QED
    BY <1>3, <2>1
<1>4. CASE m # 0
  <2>1. m \in 1 .. n /\ m - 1 \in 0 .. n /\ ~(m <= m - 1)
    BY <1>4
  <2>2. PICK g \in [0 .. m - 1 -> S] : Good(m - 1, g)
    BY <1>2, <2>1
  <2> DEFINE h == [i \in 0 .. m |-> IF i = m THEN step[<<g[m - 1], m>>] ELSE g[i]]
  <2>3. step[<<g[m - 1], m>>] \in S
    BY <2>1
  <2>4. h \in [0 .. m -> S]
    BY <2>1, <2>3
  <2>5. h[0] = a
    BY <2>1, <2>2
  <2>6. ASSUME NEW i \in 1 .. m PROVE h[i] = step[<<h[i - 1], i>>]
    <3>1. CASE i = m
      <4>1. h[m] = step[<<g[m - 1], m>>] /\ h[m - 1] = g[m - 1]
        BY <2>1
      <4> QED
        BY <3>1, <4>1
    <3>2. CASE i # m
      <4>1. i \in 1 .. m - 1 /\ i - 1 \in 0 .. m - 1 /\ i \in 0 .. m - 1
        BY <2>1, <3>2
      <4> QED
        BY <2>1, <2>2, <3>2, <4>1
    <3> QED
      BY <3>1, <3>2
  <2>7. Good(m, h)
    BY <2>5, <2>6
  <2> QED
    BY <2>4, <2>7
<1> QED
  BY <1>3, <1>4
-----------------------------------------------------------------------------
(* The scopes that are open after a log.                                   *)

ScopeNames == Scopes \union {"bad"}

LEMMA EventFacts ==
  ASSUME NEW e \in Events
  PROVE  /\ e.event \in EventNames
         /\ e.event \in Scopes \/ e.event \in {"RunStart", "AgentStart", "TurnStart",
                                               "MessageStart", "ToolStart", "FollowUp"}
BY DEF Events, EventNames

LEMMA AfterEventType ==
  ASSUME NEW open \in Seq(ScopeNames), NEW e \in Events
  PROVE  AfterEvent(open, e) \in Seq(ScopeNames)
<1>1. <<"bad">> \in Seq(ScopeNames) /\ <<"RunEnd">> \in Seq(ScopeNames) /\ <<>> \in Seq(ScopeNames)
  <2>1. {"bad", "RunEnd"} \subseteq ScopeNames
    BY DEF ScopeNames, Scopes
  <2> QED
    BY <2>1
<1>2. CASE open = <<"bad">> \/ FailedMessage(e)
  BY <1>2 DEF AfterEvent
<1>3. CASE ~(open = <<"bad">> \/ FailedMessage(e))
  <2>1. CASE e.event \in {"RunStart", "RunEnd", "FollowUp"}
    BY <1>1, <1>3, <2>1 DEF AfterEvent, Scopes
  <2>2. CASE e.event \in Scopes \ {"RunEnd"}
    <3>1. AfterEvent(open, e) = IF Innermost(open) = e.event THEN Front(open) ELSE <<"bad">>
      BY <1>3, <2>2 DEF AfterEvent, Scopes
    <3>2. Innermost(open) = e.event => open # <<>>
      BY <2>2 DEF Innermost, Scopes
    <3>3. open # <<>> => Front(open) \in Seq(ScopeNames)
      <4>1. SUFFICES ASSUME open # <<>> PROVE SubSeq(open, 1, Len(open) - 1) \in Seq(ScopeNames)
        BY DEF Front
      <4>2. Len(open) \in Nat /\ Len(open) # 0 /\ Len(open) - 1 \in Nat
        BY <4>1
      <4> QED
        BY <4>2
    <3> QED
      BY <1>1, <3>1, <3>2, <3>3
  <2>3. CASE e.event \in {"AgentStart", "TurnStart", "MessageStart", "ToolStart"}
    <3>1. AfterEvent(open, e) = IF Innermost(open) = Parent(e.event)
                                THEN Append(open, Closer(e.event)) ELSE <<"bad">>
      BY <1>3, <2>3 DEF AfterEvent, Scopes
    <3>2. Closer(e.event) \in ScopeNames
      BY <2>3 DEF Closer, ScopeNames, Scopes
    <3> QED
      BY <1>1, <3>1, <3>2
  <2> QED
    BY <2>1, <2>2, <2>3, EventFacts
<1> QED
  BY <1>2, <1>3

LEMMA OpenScopesUnfold ==
  ASSUME NEW es \in Seq(Events)
  PROVE  \E g : /\ g[0] = <<>>
                /\ \A i \in 1 .. Len(es) : g[i] = AfterEvent(g[i - 1], es[i])
                /\ \A i \in 0 .. Len(es) : g[i] \in Seq(ScopeNames)
                /\ OpenScopes(es) = g[Len(es)]
<1> DEFINE len == Len(es)
           Stacks == Seq(ScopeNames)
           next == [x \in Stacks \X (1 .. len) |-> AfterEvent(x[1], es[x[2]])]
           body(g) == [i \in 0 .. Len(es) |-> IF i = 0 THEN <<>> ELSE AfterEvent(g[i - 1], es[i])]
           f == CHOOSE g : g = body(g)
<1>1. len \in Nat /\ <<>> \in Stacks /\ \A i \in 1 .. len : es[i] \in Events
  OBVIOUS
<1>2. \A x \in Stacks \X (1 .. len) : AfterEvent(x[1], es[x[2]]) \in Stacks
  BY <1>1, AfterEventType
<1>3. next \in [Stacks \X (1 .. len) -> Stacks]
  BY <1>2
<1>4. PICK g \in [0 .. len -> Stacks] : g[0] = <<>> /\ \A i \in 1 .. len : g[i] = next[<<g[i - 1], i>>]
  <2> HIDE DEF len, Stacks, next
  <2>1. \E g \in [0 .. len -> Stacks] : Along(g, len, <<>>, next)
    BY <1>1, <1>3, RecursionExists
  <2> QED
    BY <2>1 DEF Along
<1>5. ASSUME NEW i \in 1 .. len PROVE g[i] = AfterEvent(g[i - 1], es[i])
  <2>1. g[i - 1] \in Stacks
    BY <1>1, <1>4
  <2>2. next[<<g[i - 1], i>>] = AfterEvent(g[i - 1], es[i])
    BY <2>1
  <2> QED
    BY <1>4, <2>2
<1>6. g = body(g)
  <2>1. g = [i \in 0 .. len |-> g[i]]
    BY <1>4
  <2>2. \A i \in 0 .. len : g[i] = IF i = 0 THEN <<>> ELSE AfterEvent(g[i - 1], es[i])
    BY <1>1, <1>4, <1>5
  <2> QED
    BY <2>1, <2>2
<1>7. f = body(f)
  BY <1>6
<1>8. OpenScopes(es) = f[len]
  BY DEF OpenScopes
<1>9. f[0] = <<>> /\ \A i \in 1 .. len : f[i] = AfterEvent(f[i - 1], es[i])
  <2>1. \A i \in 0 .. len : f[i] = IF i = 0 THEN <<>> ELSE AfterEvent(f[i - 1], es[i])
    <3> DEFINE F(i) == IF i = 0 THEN <<>> ELSE AfterEvent(f[i - 1], es[i])
    <3>1. f = [i \in 0 .. len |-> F(i)]
      BY <1>7
    <3> HIDE DEF f, F
    <3>2. \A i \in 0 .. len : f[i] = F(i)
      BY <3>1
    <3> QED
      BY <3>2 DEF F
  <2> HIDE DEF f
  <2> QED
    BY <1>1, <2>1
<1>10. \A i \in 0 .. len : f[i] \in Stacks
  <2> HIDE DEF f
  <2> DEFINE T == {i \in 0 .. len : f[i] # g[i]}
  <2>1. SUFFICES ASSUME T # {} PROVE FALSE
    BY <1>4
  <2>2. T \subseteq Nat
    BY <1>1
  <2>3. PICK m \in T : \A k \in T : m <= k
    <3> HIDE DEF T
    <3> QED
      BY <2>1, <2>2, LeastPosition
  <2>4. m \in 1 .. len /\ m - 1 \in 0 .. len /\ ~(m <= m - 1)
    BY <1>4, <1>9
  <2>5. f[m - 1] = g[m - 1]
    BY <2>3, <2>4
  <2> QED
    BY <1>5, <1>9, <2>4, <2>5
<1> QED
  <2> HIDE DEF f
  <2> QED
    BY <1>8, <1>9, <1>10

LEMMA OpenScopesAppend ==
  ASSUME NEW es \in Seq(Events), NEW e \in Events
  PROVE  /\ OpenScopes(Append(es, e)) = AfterEvent(OpenScopes(es), e)
         /\ OpenScopes(es) \in Seq(ScopeNames)
<1> DEFINE n == Len(es)
           ee == Append(es, e)
<1>1. /\ n \in Nat /\ ee \in Seq(Events) /\ Len(ee) = n + 1
      /\ ee[n + 1] = e
      /\ \A i \in 1 .. n : ee[i] = es[i]
  OBVIOUS
<1>2. PICK g : /\ g[0] = <<>>
               /\ \A i \in 1 .. n : g[i] = AfterEvent(g[i - 1], es[i])
               /\ \A i \in 0 .. n : g[i] \in Seq(ScopeNames)
               /\ OpenScopes(es) = g[n]
  BY OpenScopesUnfold
<1> HIDE DEF ee
<1>3. PICK h : /\ h[0] = <<>>
               /\ \A i \in 1 .. Len(ee) : h[i] = AfterEvent(h[i - 1], ee[i])
               /\ OpenScopes(ee) = h[Len(ee)]
  BY <1>1, OpenScopesUnfold
<1>4. \A i \in 0 .. n : g[i] = h[i]
  <2> DEFINE T == {i \in 0 .. n : g[i] # h[i]}
  <2>1. SUFFICES ASSUME T # {} PROVE FALSE
    OBVIOUS
  <2>2. T \subseteq Nat
    BY <1>1
  <2>3. PICK m \in T : \A k \in T : m <= k
    <3> HIDE DEF T
    <3> QED
      BY <2>1, <2>2, LeastPosition
  <2>4. m \in 1 .. n /\ m - 1 \in 0 .. n /\ ~(m <= m - 1) /\ m \in 1 .. Len(ee)
    BY <1>1, <1>2, <1>3
  <2>5. g[m - 1] = h[m - 1]
    BY <2>3, <2>4
  <2> QED
    BY <1>1, <1>2, <1>3, <2>4, <2>5
<1>5. h[n + 1] = AfterEvent(h[n], e)
  <2>1. n + 1 \in 1 .. Len(ee) /\ n + 1 - 1 = n
    BY <1>1
  <2> QED
    BY <1>1, <1>3, <2>1
<1> QED
  BY <1>1, <1>2, <1>3, <1>4, <1>5 DEF ee

\* The five stacks at an await.
R == <<"RunEnd">>
RA == <<"RunEnd", "AgentEnd">>
RAT == <<"RunEnd", "AgentEnd", "TurnEnd">>
RATM == <<"RunEnd", "AgentEnd", "TurnEnd", "MessageEnd">>
RATX == <<"RunEnd", "AgentEnd", "TurnEnd", "ToolEnd">>

LEMMA StackFacts ==
  /\ R # <<"bad">> /\ RA # <<"bad">> /\ RAT # <<"bad">> /\ RATM # <<"bad">> /\ RATX # <<"bad">>
  /\ R # <<>> /\ RA # <<>> /\ RAT # <<>> /\ RATM # <<>> /\ RATX # <<>>
  /\ Innermost(R) = "RunEnd" /\ Innermost(RA) = "AgentEnd" /\ Innermost(RAT) = "TurnEnd"
  /\ Innermost(RATM) = "MessageEnd" /\ Innermost(RATX) = "ToolEnd"
  /\ Append(R, "AgentEnd") = RA /\ Append(RA, "TurnEnd") = RAT
  /\ Append(RAT, "MessageEnd") = RATM /\ Append(RAT, "ToolEnd") = RATX
  /\ Front(RA) = R /\ Front(RAT) = RA /\ Front(RATM) = RAT /\ Front(RATX) = RAT
<1> DEFINE S == ScopeNames
<1>0. {"RunEnd", "AgentEnd", "TurnEnd", "MessageEnd", "ToolEnd"} \subseteq S
  BY DEF ScopeNames, Scopes
<1>1. /\ R # <<"bad">> /\ RA # <<"bad">> /\ RAT # <<"bad">> /\ RATM # <<"bad">> /\ RATX # <<"bad">>
      /\ R # <<>> /\ RA # <<>> /\ RAT # <<>> /\ RATM # <<>> /\ RATX # <<>>
  BY DEF R, RA, RAT, RATM, RATX
<1>2. R \in Seq(S) /\ RA \in Seq(S) /\ RAT \in Seq(S) /\ RATM \in Seq(S) /\ RATX \in Seq(S)
  <2> HIDE DEF S
  <2> QED
    BY <1>0 DEF R, RA, RAT, RATM, RATX
<1>3. Append(R, "AgentEnd") = RA /\ Append(RA, "TurnEnd") = RAT
  BY AppendToTuple DEF R, RA, RAT
<1>5. Append(RAT, "MessageEnd") = RATM /\ Append(RAT, "ToolEnd") = RATX
  BY AppendToThree, Zenon DEF RAT, RATM, RATX
<1>6. ASSUME NEW s \in Seq(S), NEW x \in S
      PROVE  Innermost(Append(s, x)) = x /\ Front(Append(s, x)) = s
  <2> HIDE DEF S
  <2> QED
    BY AppendFacts DEF Innermost
<1>7. Innermost(R) = "RunEnd"
  BY DEF Innermost, Last, R
<1>8. Innermost(RA) = "AgentEnd" /\ Front(RA) = R /\ Innermost(RAT) = "TurnEnd" /\ Front(RAT) = RA
  BY <1>0, <1>2, <1>3, <1>6
<1>9. Innermost(RATM) = "MessageEnd" /\ Front(RATM) = RAT /\ Innermost(RATX) = "ToolEnd" /\ Front(RATX) = RAT
  BY <1>0, <1>2, <1>5, <1>6
<1> QED
  BY <1>1, <1>3, <1>5, <1>7, <1>8, <1>9

\* What each event does to the scopes it meets.
LEMMA StartsOpen ==
  /\ AfterEvent(R, Event("AgentStart")) = RA
  /\ AfterEvent(RA, Event("TurnStart")) = RAT
  /\ AfterEvent(RAT, Event("MessageStart")) = RATM
  /\ AfterEvent(RAT, Event("ToolStart")) = RATX
BY StackFacts DEF AfterEvent, FailedMessage, Event, Scopes, Parent, Closer

LEMMA EndsClose ==
  ASSUME NEW item
  PROVE  /\ AfterEvent(RATM, EventWith("MessageEnd", item)) = RAT
         /\ AfterEvent(RATX, EventWith("ToolEnd", item)) = RAT
         /\ AfterEvent(RAT, Event("TurnEnd")) = RA
         /\ AfterEvent(RA, Event("AgentEnd")) = R
         /\ AfterEvent(R, EventWith("FollowUp", item)) = R
BY StackFacts DEF AfterEvent, FailedMessage, Event, EventWith, Scopes

LEMMA TerminalEvents ==
  ASSUME NEW open, open # <<"bad">>, open # <<>>
  PROVE  /\ AfterEvent(open, Event("MessageEnd")) = open
         /\ AfterEvent(open, Event("RunEnd")) = <<>>
BY DEF AfterEvent, FailedMessage, Event, Scopes
-----------------------------------------------------------------------------
(* How often an event occurs in a log.                                     *)

Occurrences(es, name) == Cardinality({i \in DOMAIN es : es[i].event = name})

LEMMA OccurrencesAppend ==
  ASSUME NEW es \in Seq(Events), NEW e \in Events, NEW name
  PROVE  /\ Occurrences(es, name) \in Nat
         /\ Occurrences(Append(es, e), name) =
              Occurrences(es, name) + (IF e.event = name THEN 1 ELSE 0)
<1> DEFINE n == Len(es)
           ee == Append(es, e)
           S == {i \in DOMAIN es : es[i].event = name}
           T == {i \in DOMAIN ee : ee[i].event = name}
<1>1. /\ n \in Nat /\ DOMAIN es = 1 .. n /\ DOMAIN ee = 1 .. n + 1
      /\ ee[n + 1] = e
      /\ \A i \in 1 .. n : ee[i] = es[i]
  OBVIOUS
<1>2. IsFiniteSet(S)
  <2>1. IsFiniteSet(1 .. n) /\ S \subseteq 1 .. n
    BY <1>1, FS_Interval
  <2> QED
    BY <2>1, FS_Subset
<1>3. n + 1 \notin S
  BY <1>1
<1>4. T = IF e.event = name THEN S \union {n + 1} ELSE S
  BY <1>1
<1>5. Cardinality(S) \in Nat /\ Cardinality(S \union {n + 1}) = Cardinality(S) + 1
  <2> HIDE DEF S, n
  <2> QED
    BY <1>2, <1>3, FS_AddElement, FS_CardinalityType
<1>6. Occurrences(es, name) = Cardinality(S) /\ Occurrences(ee, name) = Cardinality(T)
  BY DEF Occurrences
<1> HIDE DEF S, T, n
<1> QED
  BY <1>4, <1>5, <1>6

\* The log after one, two or three more events.
LEMMA LogOne ==
  ASSUME NEW es \in Seq(Events), NEW a \in Events
  PROVE  /\ es \o <<a>> \in Seq(Events)
         /\ es \o <<a>> = Append(es, a)
         /\ OpenScopes(es \o <<a>>) = AfterEvent(OpenScopes(es), a)
         /\ \A name : Occurrences(es \o <<a>>, name) =
              Occurrences(es, name) + (IF a.event = name THEN 1 ELSE 0)
<1>1. es \o <<a>> = Append(es, a) /\ es \o <<a>> \in Seq(Events)
  OBVIOUS
<1>2. OpenScopes(Append(es, a)) = AfterEvent(OpenScopes(es), a)
  BY OpenScopesAppend
<1>3. \A name : Occurrences(Append(es, a), name) =
              Occurrences(es, name) + (IF a.event = name THEN 1 ELSE 0)
  BY OccurrencesAppend
<1> QED
  BY <1>1, <1>2, <1>3

TwoMore(w, es, a, b) ==
  /\ w \in Seq(Events)
  /\ OpenScopes(w) = AfterEvent(AfterEvent(OpenScopes(es), a), b)
  /\ \A name : Occurrences(w, name) = Occurrences(es, name) + (IF a.event = name THEN 1 ELSE 0)
                                                            + (IF b.event = name THEN 1 ELSE 0)

LEMMA LogTwo ==
  ASSUME NEW es \in Seq(Events), NEW a \in Events, NEW b \in Events
  PROVE  TwoMore(es \o <<a, b>>, es, a, b)
<1>1. es \o <<a, b>> = (es \o <<a>>) \o <<b>>
  BY ConcatTwo
<1>2. es \o <<a>> \in Seq(Events)
  OBVIOUS
<1>3. \A name : Occurrences((es \o <<a>>) \o <<b>>, name) =
              Occurrences(es \o <<a>>, name) + (IF b.event = name THEN 1 ELSE 0)
  BY <1>2, LogOne
<1>4. \A name : Occurrences(es \o <<a>>, name) =
              Occurrences(es, name) + (IF a.event = name THEN 1 ELSE 0)
  BY LogOne
<1>5. OpenScopes((es \o <<a>>) \o <<b>>) = AfterEvent(AfterEvent(OpenScopes(es), a), b)
  BY <1>2, LogOne
<1>6. (es \o <<a>>) \o <<b>> \in Seq(Events)
  BY <1>2
<1> QED
  BY <1>1, <1>3, <1>4, <1>5, <1>6 DEF TwoMore
-----------------------------------------------------------------------------
(* What the events of a step add to the histories.                         *)

LEMMA NthOnly ==
  ASSUME NEW p \in Nat
  PROVE  Nth({p}, 1) = p
<1>1. {j \in {p} : j < p} = {}
  OBVIOUS
<1>2. Cardinality({j \in {p} : j < p}) = 1 - 1
  BY <1>1, FS_EmptySet
<1> QED
  BY <1>2 DEF Nth

LEMMA ItemsOfNone ==
  ASSUME NEW es, \A i \in DOMAIN es : ~Replayable(es[i])
  PROVE  ItemsOf(es) = <<>>
<1>1. {i \in DOMAIN es : Replayable(es[i])} = {}
  OBVIOUS
<1>2. Cardinality({i \in DOMAIN es : Replayable(es[i])}) = 0
  BY <1>1, FS_EmptySet
<1> QED
  BY <1>2 DEF ItemsOf

LEMMA ItemsOfOne ==
  ASSUME NEW es, NEW p \in Nat, p \in DOMAIN es, Replayable(es[p]),
         \A i \in DOMAIN es : i # p => ~Replayable(es[i])
  PROVE  ItemsOf(es) = <<es[p].item>>
<1> DEFINE kept == {i \in DOMAIN es : Replayable(es[i])}
<1>1. kept = {p}
  OBVIOUS
<1>2. Cardinality(kept) = 1
  BY <1>1, FS_Singleton
<1>3. Nth(kept, 1) = p
  BY <1>1, NthOnly
<1>4. ItemsOf(es) = [n \in 1 .. Cardinality(kept) |-> es[Nth(kept, n)].item]
  BY DEF ItemsOf
<1> HIDE DEF kept
<1>5. ItemsOf(es) = [n \in 1 .. 1 |-> es[p].item]
  BY <1>2, <1>3, <1>4
<1> QED
  BY <1>5

LEMMA PlainEvent ==
  ASSUME NEW name
  PROVE  ~Replayable(Event(name)) /\ Event(name).event = name
BY DEF Replayable, Event

LEMMA ItemEvent ==
  ASSUME NEW name \in {"MessageEnd", "ToolEnd", "FollowUp"}, NEW item
  PROVE  /\ Replayable(EventWith(name, item))
         /\ EventWith(name, item).item = item
         /\ EventWith(name, item).event = name
BY DEF Replayable, EventWith

LEMMA ItemsOfPlain ==
  ASSUME NEW a, NEW b
  PROVE  /\ ItemsOf(<<>>) = <<>>
         /\ ItemsOf(<<Event(a)>>) = <<>>
         /\ ItemsOf(<<Event(a), Event(b)>>) = <<>>
<1>1. ItemsOf(<<>>) = <<>>
  BY ItemsOfNone
<1>2. ItemsOf(<<Event(a)>>) = <<>>
  <2>1. \A i \in DOMAIN <<Event(a)>> : ~Replayable(<<Event(a)>>[i])
    BY PlainEvent
  <2> QED
    BY <2>1, ItemsOfNone
<1>3. ItemsOf(<<Event(a), Event(b)>>) = <<>>
  <2>1. \A i \in DOMAIN <<Event(a), Event(b)>> : ~Replayable(<<Event(a), Event(b)>>[i])
    BY PlainEvent
  <2> QED
    BY <2>1, ItemsOfNone
<1> QED
  BY <1>1, <1>2, <1>3

LEMMA ItemsOfItem ==
  ASSUME NEW name \in {"MessageEnd", "ToolEnd", "FollowUp"}, NEW item, NEW a, NEW b
  PROVE  /\ ItemsOf(<<EventWith(name, item), Event(a)>>) = <<item>>
         /\ ItemsOf(<<Event(a), EventWith(name, item)>>) = <<item>>
         /\ ItemsOf(<<Event(a), EventWith(name, item), Event(b)>>) = <<item>>
<1> DEFINE e == EventWith(name, item)
<1>1. Replayable(e) /\ e.item = item /\ ~Replayable(Event(a)) /\ ~Replayable(Event(b))
  BY PlainEvent, ItemEvent
<1> HIDE DEF e
<1>2. ItemsOf(<<e, Event(a)>>) = <<item>>
  <2> DEFINE es == <<e, Event(a)>>
  <2>1. 1 \in DOMAIN es /\ es[1] = e /\ \A i \in DOMAIN es : i # 1 => ~Replayable(es[i])
    BY <1>1
  <2> HIDE DEF es
  <2>2. ItemsOf(es) = <<item>>
    BY <1>1, <2>1, ItemsOfOne
  <2> QED
    BY <2>2 DEF es
<1>3. ItemsOf(<<Event(a), e>>) = <<item>>
  <2> DEFINE es == <<Event(a), e>>
  <2>1. 2 \in DOMAIN es /\ es[2] = e /\ \A i \in DOMAIN es : i # 2 => ~Replayable(es[i])
    BY <1>1
  <2> HIDE DEF es
  <2>2. ItemsOf(es) = <<item>>
    BY <1>1, <2>1, ItemsOfOne
  <2> QED
    BY <2>2 DEF es
<1>4. ItemsOf(<<Event(a), e, Event(b)>>) = <<item>>
  <2> DEFINE es == <<Event(a), e, Event(b)>>
  <2>1. 2 \in DOMAIN es /\ es[2] = e /\ \A i \in DOMAIN es : i # 2 => ~Replayable(es[i])
    BY <1>1
  <2> HIDE DEF es
  <2>2. ItemsOf(es) = <<item>>
    BY <1>1, <2>1, ItemsOfOne
  <2> QED
    BY <2>2 DEF es
<1> QED
  BY <1>2, <1>3, <1>4 DEF e
-----------------------------------------------------------------------------
(* Histories that can be replayed.                                         *)

LEMMA ItemFacts ==
  /\ User \in Items /\ User.kind = "user"
  /\ \A c \in CallIds : Result(c) \in Items /\ Result(c).kind = "result" /\ Result(c).call = c
  /\ \A cs \in BoundedSeq(CallIds, MaxCalls) :
       Turn(cs) \in Items /\ Turn(cs).kind = "turn" /\ Turn(cs).calls = cs
  /\ \A item \in Items : \/ item = User
                         \/ item.kind = "turn" /\ item.calls \in BoundedSeq(CallIds, MaxCalls)
                                               /\ item = Turn(item.calls)
                         \/ item.kind = "result" /\ item.call \in CallIds
                                                 /\ item = Result(item.call)
BY DEF Items, Turns, User, Turn, Result

LEMMA CallsFacts ==
  ASSUME NEW cs \in BoundedSeq(CallIds, MaxCalls)
  PROVE  cs \in Seq(CallIds) /\ Len(cs) \in 0 .. MaxCalls
BY LoopAssumption DEF BoundedSeq, SeqOf

\* What can be replayed stays so when more follows.
LEMMA ReplaysInLonger ==
  ASSUME NEW d \in Seq(Items), Replays(d), NEW w \in Seq(Items), Len(d) <= Len(w),
         \A i \in 1 .. Len(d) : w[i] = d[i]
  PROVE  \A i \in 1 .. Len(d) :
           /\ w[i].kind = "turn" => Follows(w, i, w[i].calls)
           /\ w[i].kind = "result" => \E j \in 1 .. i - 1 :
                w[j].kind = "turn" /\ i - j \in DOMAIN w[j].calls
<1> DEFINE n == Len(d)
<1>1. n \in Nat /\ Len(w) \in Nat /\ DOMAIN d = 1 .. n /\ \A i \in 1 .. n : d[i] \in Items
  OBVIOUS
<1>2. \A i \in DOMAIN d : /\ d[i].kind = "turn" => Follows(d, i, d[i].calls)
                          /\ d[i].kind = "result" => \E j \in 1 .. i - 1 :
                               d[j].kind = "turn" /\ i - j \in DOMAIN d[j].calls
  BY DEF Replays
<1> HIDE DEF n
<1>3. ASSUME NEW i \in 1 .. n, d[i].kind = "turn" PROVE Follows(w, i, w[i].calls)
  <2>1. d[i].calls \in Seq(CallIds)
    BY <1>1, <1>3, ItemFacts, CallsFacts
  <2>2. i + Len(d[i].calls) <= n /\ \A k \in DOMAIN d[i].calls : d[i + k] = Result(d[i].calls[k])
    BY <1>1, <1>2, <1>3 DEF Follows, n
  <2>3. \A k \in DOMAIN d[i].calls : i + k \in 1 .. n
    <3> DEFINE cs == d[i].calls
    <3>1. Len(cs) \in Nat /\ DOMAIN cs = 1 .. Len(cs)
      BY <2>1
    <3> HIDE DEF cs
    <3> QED
      BY <1>1, <2>2, <3>1 DEF cs
  <2>4. \A k \in DOMAIN d[i].calls : w[i + k] = Result(d[i].calls[k])
    BY <2>2, <2>3 DEF n
  <2>5. w[i] = d[i] /\ i + Len(d[i].calls) <= Len(w)
    <3>1. Len(d[i].calls) \in Nat
      BY <2>1
    <3> QED
      BY <1>1, <2>2, <3>1 DEF n
  <2> QED
    BY <2>4, <2>5 DEF Follows
<1>4. ASSUME NEW i \in 1 .. n, d[i].kind = "result"
      PROVE  \E j \in 1 .. i - 1 : w[j].kind = "turn" /\ i - j \in DOMAIN w[j].calls
  <2>1. PICK j \in 1 .. i - 1 : d[j].kind = "turn" /\ i - j \in DOMAIN d[j].calls
    BY <1>1, <1>2, <1>4
  <2>2. j \in 1 .. n
    BY <1>1
  <2> QED
    BY <2>1, <2>2 DEF n
<1> QED
  BY <1>3, <1>4 DEF n

LEMMA ReplaysUser ==
  ASSUME NEW d \in Seq(Items), Replays(d)
  PROVE  Replays(d \o <<User>>) /\ d \o <<User>> \in Seq(Items)
<1> DEFINE w == d \o <<User>>
           n == Len(d)
<1>1. /\ n \in Nat /\ w \in Seq(Items) /\ Len(w) = n + 1 /\ w[n + 1] = User
      /\ \A i \in 1 .. n : w[i] = d[i]
      /\ DOMAIN w = 1 .. n + 1 /\ n <= Len(w)
  BY ItemFacts
<1>2. User.kind = "user"
  BY ItemFacts
<1> HIDE DEF w
<1>3. \A i \in 1 .. n :
        /\ w[i].kind = "turn" => Follows(w, i, w[i].calls)
        /\ w[i].kind = "result" => \E j \in 1 .. i - 1 :
             w[j].kind = "turn" /\ i - j \in DOMAIN w[j].calls
  BY <1>1, ReplaysInLonger
<1> HIDE DEF n
<1>4. Replays(w)
  BY <1>1, <1>2, <1>3 DEF Replays
<1> QED
  BY <1>1, <1>4 DEF w

\* A turn with the results of its first m calls.
Answered(cs, m) == <<Turn(cs)>> \o [i \in 1 .. m |-> Result(cs[i])]

EndsWith(w, h, cs, m) ==
  /\ w \in Seq(Items)
  /\ Len(w) = Len(h) + 1 + m
  /\ \A i \in 1 .. Len(h) : w[i] = h[i]
  /\ w[Len(h) + 1] = Turn(cs)
  /\ \A k \in 1 .. m : w[Len(h) + 1 + k] = Result(cs[k])

LEMMA AnsweredFacts ==
  ASSUME NEW h \in Seq(Items), NEW cs \in BoundedSeq(CallIds, MaxCalls), NEW m \in 0 .. Len(cs),
         NEW w, w = h \o Answered(cs, m)
  PROVE  EndsWith(w, h, cs, m)
<1> DEFINE rs == [i \in 1 .. m |-> Result(cs[i])]
           a == <<Turn(cs)>> \o rs
<1>1. cs \in Seq(CallIds) /\ Len(cs) \in Nat /\ m \in Nat
  BY CallsFacts
<1>2. \A i \in 1 .. m : cs[i] \in CallIds
  BY <1>1
<1>3. rs \in Seq(Items) /\ Len(rs) = m /\ \A k \in 1 .. m : rs[k] = Result(cs[k])
  BY <1>1, <1>2, ItemFacts
<1>4. Turn(cs) \in Items
  BY ItemFacts
<1> HIDE DEF rs
<1>5. a \in Seq(Items) /\ Len(a) = 1 + m /\ a[1] = Turn(cs) /\ \A k \in 1 .. m : a[1 + k] = rs[k]
  BY <1>1, <1>3, <1>4
<1> HIDE DEF a
<1>6. w = h \o a
  BY DEF Answered, a, rs
<1>7. /\ w \in Seq(Items) /\ Len(w) = Len(h) + 1 + m
      /\ \A i \in 1 .. Len(h) : w[i] = h[i]
      /\ \A k \in 1 .. 1 + m : w[Len(h) + k] = a[k]
  <2>1. Len(h) \in Nat /\ Len(a) \in Nat
    BY <1>5
  <2>2. h \o a \in Seq(Items) /\ Len(h \o a) = Len(h) + Len(a)
    BY <1>5
  <2>3. \A i \in 1 .. Len(h) : (h \o a)[i] = h[i]
    BY <1>5
  <2>4. \A k \in 1 .. Len(a) : (h \o a)[Len(h) + k] = a[k]
    BY <1>5
  <2> QED
    BY <1>1, <1>5, <1>6, <2>1, <2>2, <2>3, <2>4
<1>8. w[Len(h) + 1] = Turn(cs)
  BY <1>1, <1>5, <1>7
<1>9. ASSUME NEW k \in 1 .. m PROVE w[Len(h) + 1 + k] = Result(cs[k])
  <2>1. 1 + k \in 1 .. 1 + m /\ Len(h) + (1 + k) = Len(h) + 1 + k
    BY <1>1
  <2> QED
    BY <1>3, <1>5, <1>7, <2>1, SMTT(20)
<1> QED
  BY <1>7, <1>8, <1>9 DEF EndsWith

\* A whole turn after a history that can be replayed.
LEMMA ReplaysTurn ==
  ASSUME NEW h \in Seq(Items), Replays(h), NEW cs \in BoundedSeq(CallIds, MaxCalls),
         NEW w, w = h \o Answered(cs, Len(cs))
  PROVE  Replays(w)
<1> DEFINE n == Len(h)
           c == Len(cs)
<1>1. /\ w \in Seq(Items) /\ Len(w) = n + 1 + c
      /\ \A i \in 1 .. n : w[i] = h[i]
      /\ w[n + 1] = Turn(cs)
      /\ \A k \in 1 .. c : w[n + 1 + k] = Result(cs[k])
      /\ n \in Nat /\ c \in Nat /\ cs \in Seq(CallIds) /\ DOMAIN cs = 1 .. c
      /\ DOMAIN w = 1 .. n + 1 + c
  <2>1. cs \in Seq(CallIds) /\ c \in Nat /\ n \in Nat /\ c \in 0 .. Len(cs) /\ DOMAIN cs = 1 .. c
    BY CallsFacts
  <2>2. EndsWith(w, h, cs, c)
    BY <2>1, AnsweredFacts
  <2>3. DOMAIN w = 1 .. Len(w)
    BY <2>2 DEF EndsWith
  <2> QED
    BY <2>1, <2>2, <2>3 DEF EndsWith
<1>4. /\ Turn(cs).kind = "turn" /\ Turn(cs).calls = cs
      /\ \A k \in 1 .. c : Result(cs[k]).kind = "result"
  BY <1>1, ItemFacts
<1>5. \A i \in 1 .. n :
        /\ w[i].kind = "turn" => Follows(w, i, w[i].calls)
        /\ w[i].kind = "result" => \E j \in 1 .. i - 1 :
             w[j].kind = "turn" /\ i - j \in DOMAIN w[j].calls
  <2>1. Len(h) <= Len(w)
    BY <1>1
  <2> QED
    BY <1>1, <2>1, ReplaysInLonger, ZenonT(60)
<1> HIDE DEF n, c
<1>6. Follows(w, n + 1, cs)
  BY <1>1 DEF Follows, c
<1>8. ASSUME NEW k \in 1 .. c
      PROVE  /\ w[n + 1 + k].kind = "result"
             /\ \E j \in 1 .. (n + 1 + k) - 1 :
                  w[j].kind = "turn" /\ (n + 1 + k) - j \in DOMAIN w[j].calls
  <2>1. n + 1 \in 1 .. (n + 1 + k) - 1 /\ (n + 1 + k) - (n + 1) = k
    BY <1>1
  <2> QED
    BY <1>1, <1>4, <2>1
<1>9. ASSUME NEW i \in 1 .. n + 1 + c
      PROVE  /\ w[i].kind = "turn" => Follows(w, i, w[i].calls)
             /\ w[i].kind = "result" => \E j \in 1 .. i - 1 :
                  w[j].kind = "turn" /\ i - j \in DOMAIN w[j].calls
  <2>1. CASE i \in 1 .. n
    BY <1>5, <2>1
  <2>2. CASE i = n + 1
    BY <1>1, <1>4, <1>6, <2>2
  <2>3. CASE i \notin 1 .. n /\ i # n + 1
    <3> DEFINE k == i - (n + 1)
    <3>1. k \in 1 .. c /\ i = n + 1 + k
      BY <1>1, <2>3
    <3> HIDE DEF k
    <3>2. w[i].kind = "result"
      BY <1>8, <3>1
    <3>3. \E j \in 1 .. i - 1 : w[j].kind = "turn" /\ i - j \in DOMAIN w[j].calls
      BY <1>8, <3>1
    <3> QED
      BY <3>2, <3>3
  <2> QED
    BY <2>1, <2>2, <2>3
<1> QED
  BY <1>1, <1>9 DEF Replays
-----------------------------------------------------------------------------
(* Healing.                                                                *)

Before(S, p) == {q \in S : Precedes(q, p)}

\* A finite set of places has one of every rank: ranks are distinct, and there
\* are as many as places.
LEMMA RankExists ==
  ASSUME NEW S, IsFiniteSet(S), S \subseteq Nat \X Nat, NEW n \in 1 .. Cardinality(S)
  PROVE  \E p \in S : Cardinality(Before(S, p)) = n - 1
<1> DEFINE N == Cardinality(S)
           T == 0 .. N - 1
           rank == [p \in S |-> Cardinality(Before(S, p))]
<1>1. N \in Nat /\ n \in 1 .. N
  BY FS_CardinalityType
<1> HIDE DEF N
<1>2. IsFiniteSet(T) /\ Cardinality(T) = N
  <2>1. 0 \in Int /\ N - 1 \in Int /\ (0 > N - 1 => N = 0) /\ (N - 1) - 0 + 1 = N
    BY <1>1
  <2> QED
    BY <2>1, FS_Interval
<1>3. ASSUME NEW p \in S
      PROVE  /\ IsFiniteSet(Before(S, p))
             /\ Cardinality(Before(S, p)) \in T
  <2>1. Before(S, p) \subseteq S \ {p}
    <3>1. p[1] \in Nat /\ p[2] \in Nat
      OBVIOUS
    <3>2. ~Precedes(p, p)
      BY <3>1 DEF Precedes
    <3> QED
      BY <3>2 DEF Before
  <2>2. IsFiniteSet(S \ {p}) /\ Cardinality(S \ {p}) = N - 1
    BY FS_RemoveElement DEF N
  <2>3. IsFiniteSet(Before(S, p)) /\ Cardinality(Before(S, p)) <= N - 1
    BY <2>1, <2>2, FS_Subset
  <2>4. Cardinality(Before(S, p)) \in Nat
    BY <2>3, FS_CardinalityType
  <2> QED
    BY <1>1, <2>3, <2>4
<1>4. rank \in [S -> T]
  BY <1>3
<1>5. ASSUME NEW p \in S, NEW q \in S, Precedes(p, q)
      PROVE  Cardinality(Before(S, p)) # Cardinality(Before(S, q))
  <2>1. Before(S, p) \subseteq Before(S, q)
    <3>1. ASSUME NEW o \in S, Precedes(o, p) PROVE Precedes(o, q)
      <4>1. o[1] \in Nat /\ o[2] \in Nat /\ p[1] \in Nat /\ p[2] \in Nat /\ q[1] \in Nat /\ q[2] \in Nat
        OBVIOUS
      <4> QED
        BY <1>5, <3>1, <4>1 DEF Precedes
    <3> QED
      BY <3>1 DEF Before
  <2>2. p \in Before(S, q) /\ p \notin Before(S, p)
    <3>1. p[1] \in Nat /\ p[2] \in Nat
      OBVIOUS
    <3> QED
      BY <1>5, <3>1 DEF Before, Precedes
  <2>3. IsFiniteSet(Before(S, q)) /\ (Cardinality(Before(S, q)) = Cardinality(Before(S, p))
                                        => Before(S, q) = Before(S, p))
    BY <1>3, <2>1, FS_Subset
  <2> QED
    BY <2>2, <2>3
<1>6. ASSUME NEW p \in S, NEW q \in S, rank[p] = rank[q] PROVE p = q
  <2>1. ~Precedes(p, q) /\ ~Precedes(q, p)
    BY <1>5, <1>6
  <2>2. p = <<p[1], p[2]>> /\ q = <<q[1], q[2]>>
        /\ p[1] \in Nat /\ p[2] \in Nat /\ q[1] \in Nat /\ q[2] \in Nat
    OBVIOUS
  <2>3. p[1] = q[1] /\ p[2] = q[2]
    BY <2>1, <2>2 DEF Precedes
  <2> QED
    BY <2>2, <2>3
<1>7. rank \in Injection(S, T)
  BY <1>4, <1>6 DEF Injection, IsInjective
<1>8. Cardinality(S) = Cardinality(T)
  BY <1>2 DEF N
<1> HIDE DEF rank, T
<1>9. rank \in Surjection(S, T)
  BY <1>2, <1>7, <1>8, FS_Injection
<1>10. n - 1 \in T
  BY <1>1 DEF T
<1>11. PICK p \in S : rank[p] = n - 1
  BY <1>9, <1>10 DEF Surjection
<1> QED
  BY <1>11 DEF rank

LEMMA UnansweredFacts ==
  ASSUME delta \in Seq(Items)
  PROVE  /\ IsFiniteSet(Unanswered)
         /\ Unanswered \subseteq Nat \X Nat
         /\ \A p \in Unanswered : Result(delta[p[1]].calls[p[2]]) \in Items
<1>1. /\ IsFiniteSet(1 .. Len(delta)) /\ IsFiniteSet(1 .. MaxCalls)
      /\ DOMAIN delta = 1 .. Len(delta) /\ Len(delta) \in Nat /\ MaxCalls \in Nat
  BY FS_Interval, LoopAssumption
<1>2. IsFiniteSet((1 .. Len(delta)) \X (1 .. MaxCalls))
  BY <1>1, FS_Product
<1>3. Unanswered \subseteq (1 .. Len(delta)) \X (1 .. MaxCalls)
  BY <1>1 DEF Unanswered
<1>4. IsFiniteSet(Unanswered)
  BY <1>2, <1>3, FS_Subset
<1>5. Unanswered \subseteq Nat \X Nat
  BY <1>1, <1>3
<1>6. ASSUME NEW p \in Unanswered
      PROVE  Result(delta[p[1]].calls[p[2]]) \in Items
  <2>1. /\ delta[p[1]] \in Items /\ delta[p[1]].kind = "turn"
        /\ p[2] \in DOMAIN delta[p[1]].calls
    BY <1>1 DEF Unanswered
  <2>2. delta[p[1]].calls \in Seq(CallIds)
    BY <2>1, ItemFacts, CallsFacts
  <2>3. delta[p[1]].calls[p[2]] \in CallIds
    BY <2>1, <2>2
  <2> QED
    BY <2>3, ItemFacts
<1> QED
  BY <1>4, <1>5, <1>6

LEMMA HealingType ==
  ASSUME delta \in Seq(Items)
  PROVE  /\ Healing \in Seq(Items)
         /\ \A i \in 1 .. Len(Healing) : Healing[i].kind = "result"
         /\ Unanswered = {} => Healing = <<>>
<1> DEFINE place(n) == CHOOSE p \in Unanswered : Cardinality(Before(Unanswered, p)) = n - 1
           N == Cardinality(Unanswered)
<1>1. Healing = [n \in 1 .. N |-> Result(delta[place(n)[1]].calls[place(n)[2]])]
  BY DEF Healing, Before
<1>2. N \in Nat
  BY UnansweredFacts, FS_CardinalityType
<1>3. ASSUME NEW n \in 1 .. N PROVE place(n) \in Unanswered
  <2>1. \E p \in Unanswered : Cardinality(Before(Unanswered, p)) = n - 1
    BY UnansweredFacts, RankExists
  <2> QED
    BY <2>1
<1>4. Unanswered = {} => N = 0
  BY FS_EmptySet
<1> HIDE DEF place, N
<1>5. \A n \in 1 .. N : Result(delta[place(n)[1]].calls[place(n)[2]]) \in Items
  BY <1>3, UnansweredFacts
<1>6. Healing \in Seq(Items) /\ Len(Healing) = N
  BY <1>1, <1>2, <1>5
<1>7. \A n \in 1 .. N : Healing[n].kind = "result"
  BY <1>1 DEF Result
<1>8. N = 0 => Healing = <<>>
  BY <1>1
<1> QED
  BY <1>4, <1>6, <1>7, <1>8

\* Nothing is added to a history that can be replayed.
LEMMA NothingToHeal ==
  ASSUME delta \in Seq(Items), Replays(delta)
  PROVE  Healing = <<>>
<1>1. ASSUME NEW p \in Unanswered PROVE FALSE
  <2> DEFINE i == p[1]
             k == p[2]
             cs == delta[i].calls
  <2>1. /\ i \in DOMAIN delta /\ delta[i].kind = "turn" /\ k \in DOMAIN cs
        /\ cs[k] \notin {delta[q].call : q \in {j \in DOMAIN delta : delta[j].kind = "result"}}
    BY DEF Unanswered
  <2>2. Follows(delta, i, cs)
    BY <2>1 DEF Replays
  <2>3. cs \in Seq(CallIds)
    <3>1. delta[i] \in Items
      BY <2>1
    <3> QED
      BY <2>1, <3>1, ItemFacts, CallsFacts
  <2>4. i + k \in DOMAIN delta /\ delta[i + k] = Result(cs[k]) /\ cs[k] \in CallIds
    <3>1. i + Len(cs) <= Len(delta) /\ delta[i + k] = Result(cs[k])
      BY <2>1, <2>2 DEF Follows
    <3>2. k \in 1 .. Len(cs) /\ Len(cs) \in Nat /\ i \in 1 .. Len(delta) /\ Len(delta) \in Nat
      BY <2>1, <2>3
    <3> HIDE DEF i, k, cs
    <3> QED
      BY <2>3, <3>1, <3>2
  <2>5. delta[i + k].kind = "result" /\ delta[i + k].call = cs[k]
    BY <2>4, ItemFacts
  <2> HIDE DEF i, k, cs
  <2> QED
    BY <2>1, <2>4, <2>5 DEF cs
<1> QED
  BY <1>1, HealingType

Slots(t, a, b) == {<<t, k>> : k \in a .. b}

LEMMA SlotsCounted ==
  ASSUME NEW t, NEW a \in Int, NEW b \in Int, a <= b + 1
  PROVE  Cardinality(Slots(t, a, b)) = b - a + 1
<1> DEFINE slots == {<<t, k>> : k \in a .. b}
           f == [k \in a .. b |-> <<t, k>>]
<1>1. f \in [a .. b -> slots]
  OBVIOUS
<1>2. f \in Injection(a .. b, slots)
  BY <1>1 DEF Injection, IsInjective
<1>3. f \in Surjection(a .. b, slots)
  BY <1>1 DEF Surjection
<1>4. ExistsBijection(a .. b, slots)
  BY <1>2, <1>3 DEF ExistsBijection, Bijection
<1>5. IsFiniteSet(a .. b) /\ Cardinality(a .. b) = b - a + 1
  BY FS_Interval
<1> HIDE DEF slots
<1>6. IsFiniteSet(slots) /\ Cardinality(slots) = Cardinality(a .. b)
  BY <1>4, <1>5, FS_Bijection
<1> QED
  BY <1>5, <1>6 DEF slots, Slots

\* The calls that are open are those of the last turn that no result followed.
LEMMA OpenCalls ==
  ASSUME NEW h \in Seq(Items), Replays(h), NEW cs \in BoundedSeq(CallIds, MaxCalls),
         NEW m \in 0 .. Len(cs), delta \in Seq(Items), delta = h \o Answered(cs, m),
         UniqueCalls(delta)
  PROVE  Unanswered = {<<Len(h) + 1, k>> : k \in m + 1 .. Len(cs)}
<1> DEFINE t == Len(h) + 1
           results == {j \in DOMAIN delta : delta[j].kind = "result"}
           answered == {delta[i].call : i \in results}
<1>1. /\ EndsWith(delta, h, cs, m)
      /\ cs \in Seq(CallIds) /\ Len(cs) \in 0 .. MaxCalls /\ DOMAIN cs = 1 .. Len(cs)
      /\ Len(h) \in Nat /\ m \in 0 .. Len(cs) /\ MaxCalls \in Nat
      /\ DOMAIN h = 1 .. Len(h)
  <2>1. EndsWith(delta, h, cs, m)
    BY AnsweredFacts
  <2>2. cs \in Seq(CallIds) /\ Len(cs) \in 0 .. MaxCalls
    BY CallsFacts
  <2> QED
    BY <2>1, <2>2, LoopAssumption
<1>2. /\ DOMAIN delta = 1 .. t + m
      /\ \A i \in 1 .. Len(h) : delta[i] = h[i] /\ h[i] \in Items
      /\ delta[t] = Turn(cs)
      /\ \A k \in 1 .. m : delta[t + k] = Result(cs[k])
  <2>1. Len(delta) = t + m
    BY <1>1 DEF EndsWith
  <2>2. DOMAIN delta = 1 .. Len(delta)
    OBVIOUS
  <2> QED
    BY <1>1, <2>1, <2>2, SMTT(20) DEF EndsWith
<1>3. Turn(cs).kind = "turn" /\ Turn(cs).calls = cs
  BY ItemFacts
<1>4. \A k \in 1 .. Len(cs) : cs[k] \in CallIds /\ Result(cs[k]).kind = "result" /\ Result(cs[k]).call = cs[k]
  BY <1>1, ItemFacts
<1>5. Unanswered = {p \in (DOMAIN delta) \X (1 .. MaxCalls) :
                      /\ delta[p[1]].kind = "turn"
                      /\ p[2] \in DOMAIN delta[p[1]].calls
                      /\ delta[p[1]].calls[p[2]] \notin answered}
  BY DEF Unanswered
<1>6. t \in Nat /\ Len(cs) \in Nat /\ m \in Nat /\ t = Len(h) + 1
  BY <1>1
<1>a. \A i \in 1 .. t + m : i \notin 1 .. Len(h) /\ i # t => \E l \in 1 .. m : i = t + l
  <2>1. ASSUME NEW i \in 1 .. t + m, i \notin 1 .. Len(h), i # t
        PROVE  i - t \in 1 .. m /\ i = t + (i - t)
    <3> HIDE DEF t
    <3> QED
      BY <1>6, <2>1
  <2> QED
    BY <2>1
\* An earlier turn is answered.
<1>7. ASSUME NEW i \in 1 .. Len(h), h[i].kind = "turn", NEW k \in DOMAIN h[i].calls
      PROVE  h[i].calls[k] \in answered
  <2>1. Follows(h, i, h[i].calls)
    BY <1>1, <1>7 DEF Replays
  <2>2. h[i].calls \in Seq(CallIds)
    BY <1>2, <1>7, ItemFacts, CallsFacts
  <2>3. i + k \in 1 .. Len(h)
    <3>1. i + Len(h[i].calls) <= Len(h)
      BY <2>1 DEF Follows
    <3>2. k \in 1 .. Len(h[i].calls) /\ Len(h[i].calls) \in Nat
      BY <2>2
    <3> HIDE DEF t, results, answered
    <3> QED
      BY <1>1, <3>1, <3>2
  <2>4. h[i + k] = Result(h[i].calls[k]) /\ h[i].calls[k] \in CallIds
    BY <2>1, <2>2 DEF Follows
  <2>5. i + k \in DOMAIN delta /\ delta[i + k] = Result(h[i].calls[k])
    BY <1>2, <1>6, <2>3, <2>4
  <2>6. i + k \in results /\ delta[i + k].call = h[i].calls[k]
    BY <2>4, <2>5, ItemFacts
  <2> HIDE DEF results
  <2> QED
    BY <2>6
\* So are the first m calls of the last turn.
<1>8. ASSUME NEW k \in 1 .. m PROVE cs[k] \in answered
  <2>1. t + k \in DOMAIN delta /\ delta[t + k] = Result(cs[k]) /\ k \in 1 .. Len(cs)
    BY <1>1, <1>2, <1>6
  <2>2. t + k \in results /\ delta[t + k].call = cs[k]
    BY <1>4, <2>1
  <2> HIDE DEF results
  <2> QED
    BY <2>2
\* The others are not: a result anywhere answers the call before it.
<1>9. ASSUME NEW k \in m + 1 .. Len(cs), cs[k] \in answered PROVE FALSE
  <2>1. PICK q \in DOMAIN delta : delta[q].kind = "result" /\ delta[q].call = cs[k]
    BY <1>9
  <2>2. t \in DOMAIN delta /\ k \in DOMAIN delta[t].calls /\ delta[t].calls[k] = cs[k]
        /\ delta[t].kind = "turn"
    BY <1>1, <1>2, <1>3, <1>6
  <2>a. ASSUME NEW j \in DOMAIN delta, delta[j].kind = "turn", NEW l \in DOMAIN delta[j].calls,
               delta[j].calls[l] = cs[k]
        PROVE  j = t /\ l = k
    <3> HIDE DEF results, answered, t
    <3>1. \A x \in DOMAIN delta[j].calls, y \in DOMAIN delta[t].calls :
            delta[j].calls[x] = delta[t].calls[y] => j = t /\ x = y
      BY <2>2, <2>a, Zenon DEF UniqueCalls
    <3> QED
      BY <2>2, <2>a, <3>1
  <2>3. CASE q \in 1 .. Len(h)
    <3>1. h[q].kind = "result" /\ q \in DOMAIN h
      BY <1>1, <1>2, <2>1, <2>3
    <3>2. PICK j \in 1 .. q - 1 : h[j].kind = "turn" /\ q - j \in DOMAIN h[j].calls
      BY <3>1 DEF Replays
    <3>3. j \in 1 .. Len(h) /\ j \in DOMAIN h /\ j + (q - j) = q /\ j # t
      BY <1>1, <2>3
    <3>4. h[q] = Result(h[j].calls[q - j])
      <4>1. Follows(h, j, h[j].calls)
        BY <3>2, <3>3 DEF Replays
      <4> QED
        BY <3>2, <3>3, <4>1 DEF Follows
    <3>5. h[q].call = h[j].calls[q - j]
      BY <3>4 DEF Result
    <3>6. delta[j].kind = "turn" /\ delta[j].calls[q - j] = cs[k] /\ q - j \in DOMAIN delta[j].calls
          /\ j \in DOMAIN delta
      BY <1>2, <1>6, <2>1, <2>3, <3>2, <3>3, <3>5
    <3> QED
      BY <2>a, <3>3, <3>6
  <2>4. CASE q = t
    BY <1>2, <1>3, <2>1, <2>4
  <2>5. CASE q \notin 1 .. Len(h) /\ q # t
    <3>1. PICK l \in 1 .. m : q = t + l
      BY <1>2, <1>a, <2>5
    <3>a. l # k /\ l \in 1 .. Len(cs)
      BY <1>1, <1>6
    <3>2. cs[l] = cs[k]
      <4>1. delta[q] = Result(cs[l])
        BY <1>2, <3>1
      <4> QED
        BY <1>4, <2>1, <3>a, <4>1
    <3>3. l \in DOMAIN delta[t].calls /\ delta[t].calls[l] = delta[t].calls[k]
      BY <1>1, <1>2, <1>3, <3>a, <3>2
    <3> QED
      BY <2>2, <2>a, <3>a, <3>3
  <2> QED
    BY <2>3, <2>4, <2>5
<1> HIDE DEF answered
<1>10. ASSUME NEW p \in Unanswered PROVE \E k \in m + 1 .. Len(cs) : p = <<t, k>>
  <2>1. /\ p[1] \in 1 .. t + m /\ p[2] \in 1 .. MaxCalls /\ p = <<p[1], p[2]>>
        /\ delta[p[1]].kind = "turn"
        /\ p[2] \in DOMAIN delta[p[1]].calls
        /\ delta[p[1]].calls[p[2]] \notin answered
    BY <1>2, <1>5
  <2>2. p[1] \notin 1 .. Len(h)
    BY <1>2, <1>7, <2>1
  <2>3. p[1] = t
    <3>1. ASSUME p[1] # t PROVE FALSE
      <4>1. PICK l \in 1 .. m : p[1] = t + l
        BY <1>a, <2>1, <2>2, <3>1
      <4>2. delta[p[1]] = Result(cs[l]) /\ l \in 1 .. Len(cs)
        BY <1>1, <1>2, <4>1
      <4> QED
        BY <1>4, <2>1, <4>2
    <3> QED
      BY <3>1
  <2>4. p[2] \in 1 .. Len(cs) /\ cs[p[2]] \notin answered
    BY <1>1, <1>2, <1>3, <2>1, <2>3
  <2>5. p[2] \notin 1 .. m
    BY <1>8, <2>4
  <2>6. p[2] \in m + 1 .. Len(cs)
    BY <1>6, <2>4, <2>5
  <2> QED
    BY <2>1, <2>3, <2>6
<1>11. ASSUME NEW k \in m + 1 .. Len(cs) PROVE <<t, k>> \in Unanswered
  <2>1. k \in 1 .. Len(cs) /\ k \in 1 .. MaxCalls /\ t \in DOMAIN delta
    BY <1>1, <1>2, <1>6
  <2>2. delta[t].kind = "turn" /\ k \in DOMAIN delta[t].calls /\ delta[t].calls[k] = cs[k]
    BY <1>1, <1>2, <1>3, <2>1
  <2>3. cs[k] \notin answered
    BY <1>9
  <2> QED
    BY <1>5, <2>1, <2>2, <2>3
<1> QED
  BY <1>10, <1>11

\* Healing answers them in order, so the last turn becomes whole.
LEMMA HealedTurn ==
  ASSUME NEW h \in Seq(Items), Replays(h), NEW cs \in BoundedSeq(CallIds, MaxCalls),
         NEW m \in 0 .. Len(cs), delta \in Seq(Items), delta = h \o Answered(cs, m),
         UniqueCalls(delta)
  PROVE  delta \o Healing = h \o Answered(cs, Len(cs))
<1> DEFINE t == Len(h) + 1
           c == Len(cs)
           place(n) == CHOOSE p \in Unanswered : Cardinality(Before(Unanswered, p)) = n - 1
           N == Cardinality(Unanswered)
<1>1. Healing = [n \in 1 .. N |-> Result(delta[place(n)[1]].calls[place(n)[2]])]
  BY DEF Healing, Before
<1>2. Unanswered = {<<t, k>> : k \in m + 1 .. c}
  BY OpenCalls
<1>3. /\ cs \in Seq(CallIds) /\ c \in Nat /\ m \in Nat /\ t \in Nat /\ m <= c
      /\ DOMAIN cs = 1 .. c
  BY CallsFacts
<1>4. N = c - m
  <2>1. m + 1 \in Int /\ c \in Int /\ m + 1 <= c + 1 /\ c - (m + 1) + 1 = c - m
    BY <1>3
  <2>2. Unanswered = Slots(t, m + 1, c)
    BY <1>2 DEF Slots
  <2> HIDE DEF c, t
  <2> QED
    BY <2>1, <2>2, SlotsCounted
<1>5. ASSUME NEW k \in m + 1 .. c
      PROVE  Cardinality(Before(Unanswered, <<t, k>>)) = k - 1 - m
  <2>1. Before(Unanswered, <<t, k>>) = {<<t, j>> : j \in m + 1 .. k - 1}
    <3>1. ASSUME NEW j \in m + 1 .. c
          PROVE  Precedes(<<t, j>>, <<t, k>>) <=> j < k
      BY <1>3 DEF Precedes
    <3>2. Before(Unanswered, <<t, k>>) = {q \in {<<t, j>> : j \in m + 1 .. c} : Precedes(q, <<t, k>>)}
      BY <1>2 DEF Before
    <3>3. \A j \in m + 1 .. c : j < k <=> j \in m + 1 .. k - 1
      BY <1>3
    <3>4. \A j \in m + 1 .. k - 1 : j \in m + 1 .. c
      BY <1>3
    <3> HIDE DEF t, c
    <3> QED
      BY <3>1, <3>2, <3>3, <3>4
  <2>2. m + 1 \in Int /\ k - 1 \in Int /\ m + 1 <= (k - 1) + 1 /\ (k - 1) - (m + 1) + 1 = k - 1 - m
    BY <1>3
  <2>3. Before(Unanswered, <<t, k>>) = Slots(t, m + 1, k - 1)
    BY <2>1 DEF Slots
  <2> HIDE DEF c, t
  <2> QED
    BY <2>2, <2>3, SlotsCounted
<1>6. ASSUME NEW n \in 1 .. c - m PROVE place(n) = <<t, m + n>>
  <2>1. m + n \in m + 1 .. c /\ (m + n) - 1 - m = n - 1
    BY <1>3
  <2>2. <<t, m + n>> \in Unanswered /\ Cardinality(Before(Unanswered, <<t, m + n>>)) = n - 1
    <3> HIDE DEF t, c
    <3> QED
      BY <1>2, <1>5, <2>1
  <2>3. ASSUME NEW p \in Unanswered, Cardinality(Before(Unanswered, p)) = n - 1
        PROVE  p = <<t, m + n>>
    <3>1. PICK k \in m + 1 .. c : p = <<t, k>>
      BY <1>2
    <3>2. k - 1 - m = n - 1
      BY <1>5, <2>3, <3>1
    <3>3. k = m + n
      BY <1>3, <3>2
    <3> QED
      BY <3>1, <3>3
  <2> HIDE DEF t, c
  <2> QED
    BY <2>2, <2>3
<1>7. EndsWith(delta, h, cs, m)
  BY AnsweredFacts
<1>8. delta[t] = Turn(cs) /\ Len(delta) = t + m
  BY <1>7 DEF EndsWith
<1>9. delta[t].calls = cs
  BY <1>8, ItemFacts
<1>10. Healing \in Seq(Items) /\ Len(Healing) = c - m
  <2> HIDE DEF N, c, place
  <2>1. Healing \in Seq(Items)
    BY HealingType
  <2>2. DOMAIN Healing = 1 .. c - m /\ c - m \in Nat
    BY <1>1, <1>3, <1>4
  <2> QED
    BY <2>1, <2>2
<1>11. ASSUME NEW n \in 1 .. c - m PROVE Healing[n] = Result(cs[m + n])
  <2>1. Healing[n] = Result(delta[place(n)[1]].calls[place(n)[2]])
    BY <1>1, <1>4
  <2> HIDE DEF place, t, c
  <2>2. place(n)[1] = t /\ place(n)[2] = m + n
    BY <1>6
  <2> QED
    BY <1>9, <2>1, <2>2
<1> DEFINE w == h \o Answered(cs, c)
           v == delta \o Healing
<1>12. EndsWith(w, h, cs, c)
  <2>1. c \in 0 .. Len(cs)
    BY <1>3
  <2> HIDE DEF c
  <2> QED
    BY <2>1, AnsweredFacts
<1>13. v \in Seq(Items) /\ Len(v) = t + c
       /\ (\A i \in 1 .. t + m : v[i] = delta[i])
       /\ (\A n \in 1 .. c - m : v[t + m + n] = Healing[n])
  <2>1. /\ v \in Seq(Items) /\ Len(v) = Len(delta) + Len(Healing)
        /\ \A i \in 1 .. Len(delta) : v[i] = delta[i]
        /\ \A n \in 1 .. Len(Healing) : v[Len(delta) + n] = Healing[n]
    <3>1. v \in Seq(Items) /\ Joined(v, delta, Healing)
      BY <1>10, ConcatFacts
    <3> HIDE DEF v
    <3> QED
      BY <3>1 DEF Joined
  <2> HIDE DEF t, c, v
  <2> QED
    BY <1>3, <1>8, <1>10, <2>1, SMTT(20)
<1> HIDE DEF w, v, c, place, N
<1>14. w \in Seq(Items) /\ Len(w) = t + c
  BY <1>12 DEF EndsWith
<1>15. ASSUME NEW i \in 1 .. t + c PROVE v[i] = w[i]
  <2>1. CASE i \in 1 .. Len(h)
    <3>1. i \in 1 .. t + m
      BY <1>3, <2>1
    <3> QED
      BY <1>7, <1>12, <1>13, <2>1, <3>1 DEF EndsWith
  <2>2. CASE i = t
    <3>1. i \in 1 .. t + m
      BY <1>3, <2>2
    <3> QED
      BY <1>7, <1>12, <1>13, <2>2, <3>1 DEF EndsWith
  <2>3. CASE i \in t + 1 .. t + m
    <3>1. PICK k \in 1 .. m : i = t + k
      <4>1. i - t \in 1 .. m /\ i = t + (i - t)
        BY <1>3, <2>3
      <4> QED
        BY <4>1
    <3>2. i \in 1 .. t + m /\ k \in 1 .. c
      BY <1>3, <2>3
    <3>3. v[i] = Result(cs[k])
      BY <1>7, <1>13, <3>1, <3>2 DEF EndsWith
    <3>4. w[i] = Result(cs[k])
      BY <1>12, <3>1, <3>2 DEF EndsWith
    <3> QED
      BY <3>3, <3>4
  <2>4. CASE i \in t + m + 1 .. t + c
    <3>1. PICK n \in 1 .. c - m : i = t + m + n
      <4>1. i - (t + m) \in 1 .. c - m /\ i = t + m + (i - (t + m))
        BY <1>3, <2>4
      <4> QED
        BY <4>1
    <3>2. m + n \in 1 .. c /\ i = t + (m + n)
      BY <1>3, <3>1
    <3>3. v[i] = Result(cs[m + n])
      BY <1>11, <1>13, <3>1
    <3>4. w[i] = Result(cs[m + n])
      BY <1>12, <3>2 DEF EndsWith
    <3> QED
      BY <3>3, <3>4
  <2>5. i \in 1 .. Len(h) \/ i = t \/ i \in t + 1 .. t + m \/ i \in t + m + 1 .. t + c
    BY <1>3
  <2> QED
    BY <2>1, <2>2, <2>3, <2>4, <2>5
<1>16. v = w
  <2> HIDE DEF t
  <2> QED
    BY <1>13, <1>14, <1>15, SeqEqual
<1> QED
  BY <1>16 DEF v, w, c

LEMMA UniquePrefix ==
  ASSUME NEW d \in Seq(Items), NEW e \in Seq(Items), UniqueCalls(d \o e)
  PROVE  UniqueCalls(d)
<1> DEFINE w == d \o e
<1>1. w \in Seq(Items) /\ Joined(w, d, e)
  BY ConcatFacts
<1> HIDE DEF w
<1>2. \A i \in DOMAIN d : i \in DOMAIN w /\ w[i] = d[i]
  BY <1>1 DEF Joined
<1>3. ASSUME NEW i \in DOMAIN d, NEW j \in DOMAIN d, d[i].kind = "turn", d[j].kind = "turn",
             NEW k \in DOMAIN d[i].calls, NEW l \in DOMAIN d[j].calls,
             d[i].calls[k] = d[j].calls[l]
      PROVE  i = j /\ k = l
  <2>1. i \in DOMAIN w /\ j \in DOMAIN w /\ w[i] = d[i] /\ w[j] = d[j]
    BY <1>2
  <2>2. UniqueCalls(w)
    BY DEF w
  <2>3. \A x \in DOMAIN w[i].calls, y \in DOMAIN w[j].calls :
          w[i].calls[x] = w[j].calls[y] => i = j /\ x = y
    BY <1>3, <2>1, <2>2, Zenon DEF UniqueCalls
  <2> QED
    BY <1>3, <2>1, <2>3
<1> QED
  BY <1>3 DEF UniqueCalls

LEMMA AnsweredNone ==
  ASSUME NEW cs
  PROVE  Answered(cs, 0) = <<Turn(cs)>>
<1>1. [i \in 1 .. 0 |-> Result(cs[i])] = <<>>
  OBVIOUS
<1> QED
  BY <1>1 DEF Answered

LEMMA AnsweredNext ==
  ASSUME NEW h \in Seq(Items), NEW cs \in BoundedSeq(CallIds, MaxCalls), NEW m \in Nat,
         m < Len(cs)
  PROVE  (h \o Answered(cs, m)) \o <<Result(cs[m + 1])>> = h \o Answered(cs, m + 1)
<1> DEFINE u == h \o Answered(cs, m)
           v == u \o <<Result(cs[m + 1])>>
           w == h \o Answered(cs, m + 1)
           t == Len(h) + 1
<1>1. /\ cs \in Seq(CallIds) /\ Len(cs) \in Nat /\ m \in 0 .. Len(cs) /\ m + 1 \in 0 .. Len(cs)
      /\ m + 1 \in 1 .. Len(cs) /\ t \in Nat
  BY CallsFacts
<1>2. Result(cs[m + 1]) \in Items
  BY <1>1, ItemFacts
<1>3. EndsWith(u, h, cs, m) /\ EndsWith(w, h, cs, m + 1)
  BY <1>1, AnsweredFacts
<1> HIDE DEF u, w
<1>4. u \in Seq(Items) /\ Len(u) = t + m /\ w \in Seq(Items) /\ Len(w) = t + (m + 1)
  BY <1>1, <1>3 DEF EndsWith
<1>5. /\ v \in Seq(Items) /\ Len(v) = t + m + 1 /\ v[t + m + 1] = Result(cs[m + 1])
      /\ \A i \in 1 .. t + m : v[i] = u[i]
  <2>1. <<Result(cs[m + 1])>> \in Seq(Items) /\ Len(<<Result(cs[m + 1])>>) = 1
    BY <1>2
  <2>2. v \in Seq(Items) /\ Joined(v, u, <<Result(cs[m + 1])>>)
    BY <1>4, <2>1, ConcatFacts
  <2> HIDE DEF v, t
  <2>3. Len(v) = t + m + 1 /\ \A i \in 1 .. t + m : v[i] = u[i]
    BY <1>1, <1>4, <2>1, <2>2 DEF Joined
  <2>4. v[Len(u) + 1] = <<Result(cs[m + 1])>>[1]
    BY <2>1, <2>2 DEF Joined
  <2>5. Len(u) + 1 = t + m + 1
    BY <1>1, <1>4
  <2> QED
    BY <2>2, <2>3, <2>4, <2>5
<1> HIDE DEF v
<1>6. ASSUME NEW i \in 1 .. t + m PROVE u[i] = w[i]
  <2>1. CASE i \in 1 .. Len(h)
    BY <1>3, <2>1 DEF EndsWith
  <2>2. CASE i = t
    BY <1>3, <2>2 DEF EndsWith
  <2>3. CASE i \notin 1 .. Len(h) /\ i # t
    <3>1. PICK k \in 1 .. m : i = t + k
      <4>1. i - t \in 1 .. m /\ i = t + (i - t)
        BY <1>1, <2>3
      <4> QED
        BY <4>1
    <3>2. k \in 1 .. m + 1
      BY <1>1
    <3> QED
      BY <1>3, <3>1, <3>2 DEF EndsWith
  <2> QED
    BY <2>1, <2>2, <2>3
<1>7. w[t + m + 1] = Result(cs[m + 1])
  <2>1. m + 1 \in 1 .. m + 1 /\ t + (m + 1) = t + m + 1
    BY <1>1
  <2> QED
    BY <1>3, <2>1 DEF EndsWith
<1>8. ASSUME NEW i \in 1 .. Len(v) PROVE v[i] = w[i]
  <2>1. Len(v) = t + m + 1 /\ t \in Nat /\ m \in Nat
    BY <1>1, <1>5
  <2>2. i \in 1 .. t + m \/ i = t + m + 1
    <3> HIDE DEF t
    <3> QED
      BY <2>1
  <2> QED
    BY <1>5, <1>6, <1>7, <2>2
<1>9. v = w
  <2>1. Len(v) = Len(w)
    BY <1>1, <1>4, <1>5
  <2> HIDE DEF t
  <2> QED
    BY <1>4, <1>5, <1>8, <2>1, SeqEqual
<1> QED
  BY <1>9 DEF u, v, w

\* A history that ends with a turn does not end with a prompt.
LEMMA LastOfTurn ==
  ASSUME NEW h \in Seq(Items), NEW cs \in BoundedSeq(CallIds, MaxCalls), NEW m \in 0 .. Len(cs),
         NEW w, w = h \o Answered(cs, m)
  PROVE  Last(w).kind # "user"
<1>1. EndsWith(w, h, cs, m)
  BY AnsweredFacts
<1>2. /\ cs \in Seq(CallIds) /\ Len(cs) \in Nat /\ m \in Nat /\ Len(h) \in Nat
      /\ Last(w) = w[Len(h) + 1 + m]
  BY <1>1, CallsFacts DEF EndsWith, Last
<1>3. CASE m = 0
  BY <1>1, <1>2, <1>3, ItemFacts DEF EndsWith
<1>4. CASE m # 0
  <2>1. m \in 1 .. m /\ m \in 1 .. Len(cs)
    BY <1>2, <1>4
  <2>2. w[Len(h) + 1 + m] = Result(cs[m])
    BY <1>1, <2>1 DEF EndsWith
  <2>3. Result(cs[m]).kind = "result"
    BY DEF Result
  <2> QED
    BY <1>2, <2>2, <2>3
<1> QED
  BY <1>3, <1>4
-----------------------------------------------------------------------------
(* What a step has to show of the next state, without the primes.          *)

LEMMA EventType ==
  /\ \A name \in EventNames : Event(name) \in Events
  /\ \A name \in EventNames, item \in Items : EventWith(name, item) \in Events
BY DEF Event, EventWith, Events

ThreeMore(w, es, a, b, c) ==
  /\ w \in Seq(Events)
  /\ OpenScopes(w) = AfterEvent(AfterEvent(AfterEvent(OpenScopes(es), a), b), c)
  /\ \A name : Occurrences(w, name) = Occurrences(es, name) + (IF a.event = name THEN 1 ELSE 0)
                                                            + (IF b.event = name THEN 1 ELSE 0)
                                                            + (IF c.event = name THEN 1 ELSE 0)

LEMMA LogThree ==
  ASSUME NEW es \in Seq(Events), NEW a \in Events, NEW b \in Events, NEW c \in Events
  PROVE  ThreeMore(es \o (<<a, b>> \o <<c>>), es, a, b, c)
<1> DEFINE u == es \o <<a, b>>
           v == es \o (<<a, b>> \o <<c>>)
<1>1. u \in Seq(Events)
  BY LogTwo DEF TwoMore
<1>2. v = u \o <<c>>
  <2>1. <<a, b>> \in Seq(Events) /\ <<c>> \in Seq(Events)
    OBVIOUS
  <2> QED
    BY <2>1
<1>3. /\ OpenScopes(u) = AfterEvent(AfterEvent(OpenScopes(es), a), b)
      /\ \A name : Occurrences(u, name) =
           Occurrences(es, name) + (IF a.event = name THEN 1 ELSE 0)
                                 + (IF b.event = name THEN 1 ELSE 0)
  BY LogTwo DEF TwoMore
<1> HIDE DEF u, v
<1>4. /\ v \in Seq(Events)
      /\ OpenScopes(v) = AfterEvent(OpenScopes(u), c)
      /\ \A name : Occurrences(v, name) = Occurrences(u, name) + (IF c.event = name THEN 1 ELSE 0)
  BY <1>1, <1>2, LogOne
<1> QED
  BY <1>3, <1>4 DEF v, ThreeMore

LEMMA TurnItemsAnswered ==
  ASSUME NEW cs, NEW S, NEW ex \in Seq(S)
  PROVE  <<Turn(cs)>> \o [i \in DOMAIN ex |-> Result(cs[i])] = Answered(cs, Len(ex))
BY DEF Answered

Histories(p, rh, w, d, cs, n) ==
  /\ w = d
  /\ p \in {"requesting", "streaming", "failing"} => rh = d
  /\ p \in {"executing", "cancelling", "closing"} => d = rh \o Answered(cs, n)
  /\ p \in {"executing", "cancelling"} => n < Len(cs)
  /\ p = "closing" => n = Len(cs)

Deltas(p, out, rh, d, cs, n) ==
  /\ Replays(rh)
  /\ p = "created" => Replays(d)
  /\ p = "done" => \/ Replays(d)
                   \/ d = rh \o Answered(cs, n) /\ n < Len(cs)
  /\ p = "settled" /\ UniqueCalls(d) => Replays(d)
  /\ out \in Endings => Replays(d) /\ Last(d).kind # "user"

ScopesFor(p, started) ==
  CASE p = "created" -> R
    [] p \in {"streaming", "failing"} /\ started -> RATM
    [] p \in {"executing", "cancelling"} -> RATX
    [] OTHER -> RA

Nested(p, started, open) ==
  /\ p \in Awaits => open = ScopesFor(p, started)
  /\ p = "done" => open # <<"bad">> /\ open # <<>>
  /\ p = "settled" => open = <<>>
  /\ p = "requesting" => ~started

Tally(p, out, fu, es) ==
  /\ Occurrences(es, "FollowUp") = fu
  /\ p = "created" =>
       fu = 0 /\ Occurrences(es, "AgentStart") = 0 /\ Occurrences(es, "AgentEnd") = 0
  /\ p \in Awaits \ {"created"} =>
       Occurrences(es, "AgentStart") = fu + 1 /\ Occurrences(es, "AgentEnd") = fu
  /\ p \in Awaits =>
       Occurrences(es, "ToolStart")
         = Occurrences(es, "ToolEnd") + (IF p \in {"executing", "cancelling"} THEN 1 ELSE 0)
  /\ out \in Endings =>
       /\ Occurrences(es, "AgentStart") = fu + 1
       /\ Occurrences(es, "ToolStart") = Occurrences(es, "ToolEnd")
  /\ out = "no_result" => fu = MaxFollowUps /\ Occurrences(es, "AgentEnd") = fu + 1

LEMMA Unprimed ==
  ASSUME TypeOK
  PROVE  /\ HistoryAgrees <=> Histories(pc, runHistory, working, delta, calls, Len(executions))
         /\ DeltaAgrees <=> Deltas(pc, outcome, runHistory, delta, calls, Len(executions))
         /\ ScopesAgree <=> Nested(pc, turnStarted, OpenScopes(log))
         /\ CountsAgree <=> Tally(pc, outcome, followUps, log)
<1>1. TurnItems = Answered(calls, Len(executions))
  BY TurnItemsAnswered DEF TypeOK, TurnItems
<1>2. HistoryAgrees <=> Histories(pc, runHistory, working, delta, calls, Len(executions))
  BY <1>1 DEF HistoryAgrees, Histories
<1>3. DeltaAgrees <=> Deltas(pc, outcome, runHistory, delta, calls, Len(executions))
  BY <1>1 DEF DeltaAgrees, SettledDeltaReplays, Deltas
<1>4. ScopesAgree <=> Nested(pc, turnStarted, OpenScopes(log))
  BY DEF ScopesAgree, Nested, ScopesAt, ScopesFor, R, RA, RATM, RATX, TypeOK
<1>5. CountsAgree <=> Tally(pc, outcome, followUps, log)
  BY DEF CountsAgree, Tally, Count, Occurrences
<1> QED
  BY <1>2, <1>3, <1>4, <1>5

LEMMA Primed ==
  ASSUME TypeOK'
  PROVE  /\ HistoryAgrees' <=>
              Histories(pc', runHistory', working', delta', calls', Len(executions'))
         /\ DeltaAgrees' <=>
              Deltas(pc', outcome', runHistory', delta', calls', Len(executions'))
         /\ ScopesAgree' <=> Nested(pc', turnStarted', OpenScopes(log'))
         /\ CountsAgree' <=> Tally(pc', outcome', followUps', log')
<1>1. TurnItems' = Answered(calls', Len(executions'))
  BY TurnItemsAnswered DEF TypeOK, TurnItems
<1>2. HistoryAgrees' <=> Histories(pc', runHistory', working', delta', calls', Len(executions'))
  BY <1>1 DEF HistoryAgrees, Histories
<1>3. DeltaAgrees' <=> Deltas(pc', outcome', runHistory', delta', calls', Len(executions'))
  BY <1>1 DEF DeltaAgrees, SettledDeltaReplays, Deltas
<1>4. ScopesAgree' <=> Nested(pc', turnStarted', OpenScopes(log'))
  BY DEF ScopesAgree, Nested, ScopesAt, ScopesFor, R, RA, RATM, RATX, TypeOK
<1>5. CountsAgree' <=> Tally(pc', outcome', followUps', log')
  BY DEF CountsAgree, Tally, Count, Occurrences
<1> QED
  BY <1>2, <1>3, <1>4, <1>5

LEMMA Pieces ==
  /\ LoopInv =>
       /\ TypeOK
       /\ Histories(pc, runHistory, working, delta, calls, Len(executions))
       /\ Deltas(pc, outcome, runHistory, delta, calls, Len(executions))
       /\ Nested(pc, turnStarted, OpenScopes(log))
       /\ Tally(pc, outcome, followUps, log)
  /\ ( /\ TypeOK'
       /\ Histories(pc', runHistory', working', delta', calls', Len(executions'))
       /\ Deltas(pc', outcome', runHistory', delta', calls', Len(executions'))
       /\ Nested(pc', turnStarted', OpenScopes(log'))
       /\ Tally(pc', outcome', followUps', log') ) => LoopInv'
BY Unprimed, Primed DEF LoopInv

\* At an await, only the results that are still to come are missing.
LEMMA AwaitReplays ==
  ASSUME LoopInv, pc \in Awaits \ {"executing", "cancelling"}
  PROVE  Replays(delta)
<1>1. /\ TypeOK
      /\ Histories(pc, runHistory, working, delta, calls, Len(executions))
      /\ Deltas(pc, outcome, runHistory, delta, calls, Len(executions))
  BY Pieces
<1>2. CASE pc = "closing"
  <2>1. delta = runHistory \o Answered(calls, Len(calls)) /\ Replays(runHistory)
    BY <1>1, <1>2 DEF Histories, Deltas
  <2>2. runHistory \in Seq(Items) /\ calls \in BoundedSeq(CallIds, MaxCalls)
    BY <1>1 DEF TypeOK
  <2> QED
    BY <2>1, <2>2, ReplaysTurn
<1>3. CASE pc # "closing"
  BY <1>1, <1>3 DEF Histories, Deltas, Awaits
<1> QED
  BY <1>2, <1>3
-----------------------------------------------------------------------------
(* The inductive invariant, action by action.                              *)

LEMMA NothingMore ==
  ASSUME NEW S, NEW s \in Seq(S)
  PROVE  s \o <<>> = s
<1>1. <<>> \in Seq(S) /\ Len(<<>>) = 0
  OBVIOUS
<1>2. s \o <<>> \in Seq(S) /\ Joined(s \o <<>>, s, <<>>)
  BY <1>1, ConcatFacts
<1>3. Len(s \o <<>>) = Len(s) /\ \A i \in 1 .. Len(s \o <<>>) : (s \o <<>>)[i] = s[i]
  BY <1>1, <1>2 DEF Joined
<1> QED
  BY <1>2, <1>3, SeqEqual

\* Events without an item leave both histories alone.
LEMMA PlainEmit ==
  ASSUME TypeOK, NEW es, Emit(es), ItemsOf(es) = <<>>
  PROVE  log' = log \o es /\ delta' = delta /\ working' = working
<1>1. delta \in Seq(Items) /\ working \in Seq(Items)
  BY DEF TypeOK
<1>2. delta \o <<>> = delta /\ working \o <<>> = working
  BY <1>1, NothingMore
<1> QED
  BY <1>2 DEF Emit

LEMMA NoTuples ==
  /\ <<>> \in BoundedSeq(CallIds, MaxCalls)
  /\ <<>> \in Seq({"plain", "stop", "complete", "fail"})
<1>1. <<>> \in [1 .. 0 -> CallIds] /\ 0 \in 0 .. MaxCalls
  BY LoopAssumption
<1> QED
  BY <1>1 DEF BoundedSeq, SeqOf

LEMMA SameStep ==
  ASSUME LoopInv, cancel' \in BOOLEAN,
         UNCHANGED <<typed, pc, turnStarted, turns, followUps, runHistory, working, delta,
                     calls, executions, attempt, outcome, log>>
  PROVE  LoopInv'
<1>1. TypeOK'
  BY DEF LoopInv, TypeOK
<1> QED
  BY <1>1, Pieces

\* A task that ends without an event leaves what an await allows.
LEMMA Interruption ==
  ASSUME LoopInv, pc \in Awaits, pc' = "done", outcome' \in Interrupted,
         cancel' \in BOOLEAN, turnStarted' \in BOOLEAN,
         UNCHANGED <<typed, turns, followUps, runHistory, working, delta, calls,
                     executions, attempt>>,
         log' \in Seq(Events), OpenScopes(log') = OpenScopes(log),
         Occurrences(log', "FollowUp") = Occurrences(log, "FollowUp")
  PROVE  LoopInv'
<1>1. /\ TypeOK
      /\ Histories(pc, runHistory, working, delta, calls, Len(executions))
      /\ Deltas(pc, outcome, runHistory, delta, calls, Len(executions))
      /\ Nested(pc, turnStarted, OpenScopes(log))
      /\ Tally(pc, outcome, followUps, log)
  BY Pieces
<1>2. TypeOK'
  BY <1>1 DEF TypeOK, Awaits
<1>3. outcome' \notin Endings /\ pc' \notin Awaits
  BY DEF Endings, Interrupted, Awaits
<1>4. Histories(pc', runHistory', working', delta', calls', Len(executions'))
  BY <1>1 DEF Histories
<1>5. Deltas(pc', outcome', runHistory', delta', calls', Len(executions'))
  <2>1. Replays(delta) \/ (delta = runHistory \o Answered(calls, Len(executions))
                            /\ Len(executions) < Len(calls))
    BY <1>1, AwaitReplays DEF Histories
  <2> QED
    BY <1>1, <1>3, <2>1 DEF Deltas
<1>6. Nested(pc', turnStarted', OpenScopes(log'))
  BY <1>1, StackFacts DEF Nested, ScopesFor, Awaits
<1>7. Tally(pc', outcome', followUps', log')
  BY <1>1, <1>3 DEF Tally, Endings
<1> QED
  BY <1>2, <1>4, <1>5, <1>6, <1>7, Pieces

LEMMA LoopInit ==
  ASSUME Init
  PROVE  LoopInv
<1>1. /\ Event("RunStart") \in Events /\ Event("RunStart").event = "RunStart"
      /\ <<>> \in Seq(Events) /\ log = <<>> \o <<Event("RunStart")>>
  BY EventType, PlainEvent DEF Init, EventNames
<1>2. OpenScopes(<<>>) = <<>> /\ \A name : Occurrences(<<>>, name) = 0
  <2>1. OpenScopes(<<>>) = <<>>
    <3>1. <<>> \in Seq(Events) /\ Len(<<>>) = 0
      OBVIOUS
    <3> QED
      BY <3>1, OpenScopesUnfold
  <2>2. ASSUME NEW name PROVE Occurrences(<<>>, name) = 0
    <3>1. {i \in DOMAIN <<>> : <<>>[i].event = name} = {}
      OBVIOUS
    <3> QED
      BY <3>1, FS_EmptySet DEF Occurrences
  <2> QED
    BY <2>1, <2>2
<1>3. /\ log \in Seq(Events) /\ OpenScopes(log) = AfterEvent(<<>>, Event("RunStart"))
      /\ \A name : Occurrences(log, name) = 0 + (IF "RunStart" = name THEN 1 ELSE 0)
  <2> DEFINE start == <<>> \o <<Event("RunStart")>>
  <2>1. /\ start \in Seq(Events) /\ OpenScopes(start) = AfterEvent(OpenScopes(<<>>), Event("RunStart"))
        /\ \A name : Occurrences(start, name) =
             Occurrences(<<>>, name) + (IF Event("RunStart").event = name THEN 1 ELSE 0)
    BY <1>1, LogOne
  <2>2. log = start
    BY <1>1
  <2> HIDE DEF start
  <2> QED
    BY <1>1, <1>2, <2>1, <2>2
<1>4. OpenScopes(log) = R
  <2>1. <<>> # <<"bad">> /\ ~FailedMessage(Event("RunStart"))
    BY <1>1 DEF FailedMessage
  <2>2. AfterEvent(<<>>, Event("RunStart")) = <<"RunEnd">>
    BY <1>1, <2>1 DEF AfterEvent, Scopes
  <2> QED
    BY <1>3, <2>2 DEF R
<1>5. Replays(<<>>) /\ <<>> \in Seq(Items)
  BY DEF Replays
<1>6. delta \in Seq(Items) /\ Replays(delta)
  <2>1. delta = <<>> \o <<User>>
    BY ItemFacts DEF Init
  <2> QED
    BY <1>5, <2>1, ReplaysUser
<1>7. TypeOK
  <2>1. <<>> \in BoundedSeq(CallIds, MaxCalls)
    BY NoTuples
  <2>2. {runHistory, working, delta} \subseteq Seq(Items)
    BY <1>5, <1>6 DEF Init
  <2>3. {executions, attempt} \subseteq Seq({"plain", "stop", "complete", "fail"})
    BY DEF Init
  <2>4. {typed, cancel, turnStarted} \subseteq BOOLEAN
    BY DEF Init
  <2>5. {turns, followUps} \subseteq Nat
    BY DEF Init
  <2>6. pc = "created" /\ calls = <<>> /\ outcome = "none"
    BY DEF Init
  <2> QED
    BY <1>3, <2>1, <2>2, <2>3, <2>4, <2>5, <2>6 DEF TypeOK, Awaits
<1>8. Histories(pc, runHistory, working, delta, calls, Len(executions))
  BY DEF Histories, Init
<1>9. Deltas(pc, outcome, runHistory, delta, calls, Len(executions))
  BY <1>5, <1>6 DEF Deltas, Init, Endings
<1>10. Nested(pc, turnStarted, OpenScopes(log))
  BY <1>4 DEF Nested, ScopesFor, Init
<1>11. Tally(pc, outcome, followUps, log)
  BY <1>3 DEF Tally, Init, Endings
<1> QED
  BY <1>7, <1>8, <1>9, <1>10, <1>11, Unprimed DEF LoopInv

LEMMA AbortStep ==
  ASSUME LoopInv, Abort
  PROVE  LoopInv'
BY SameStep DEF Abort

\* A turn that is given up keeps what it has until its stream is closed.
LEMMA GivenUp ==
  ASSUME LoopInv, cancel' \in BOOLEAN,
         \/ pc = "streaming" /\ pc' = "failing"
         \/ pc = "executing" /\ pc' = "cancelling",
         UNCHANGED <<typed, turnStarted, turns, followUps, runHistory, working, delta, calls,
                     executions, attempt, outcome>>,
         log' \in Seq(Events), OpenScopes(log') = OpenScopes(log),
         \A name \in {"FollowUp", "AgentStart", "AgentEnd", "ToolStart", "ToolEnd"} :
           Occurrences(log', name) = Occurrences(log, name)
  PROVE  LoopInv'
<1>1. /\ TypeOK
      /\ Histories(pc, runHistory, working, delta, calls, Len(executions))
      /\ Deltas(pc, outcome, runHistory, delta, calls, Len(executions))
      /\ Nested(pc, turnStarted, OpenScopes(log))
      /\ Tally(pc, outcome, followUps, log)
  BY Pieces
<1>2. TypeOK'
  BY <1>1 DEF TypeOK, Awaits
<1>3. Histories(pc', runHistory', working', delta', calls', Len(executions'))
  BY <1>1 DEF Histories
<1>4. Deltas(pc', outcome', runHistory', delta', calls', Len(executions'))
  BY <1>1 DEF Deltas
<1>5. Nested(pc', turnStarted', OpenScopes(log'))
  BY <1>1 DEF Nested, ScopesFor, Awaits
<1>6. Tally(pc', outcome', followUps', log')
  BY <1>1 DEF Tally, Awaits
<1> QED
  BY <1>2, <1>3, <1>4, <1>5, <1>6, Pieces

LEMMA CancelledStep ==
  ASSUME LoopInv, Cancelled
  PROVE  LoopInv'
<1>1. TypeOK
  BY DEF LoopInv
<1>2. CASE pc = "executing"
  BY <1>1, <1>2, GivenUp DEF Cancelled, Silent, TypeOK
<1>3. CASE pc # "executing"
  BY <1>1, <1>3, Interruption DEF Cancelled, End, Silent, Interrupted, TypeOK
<1> QED
  BY <1>2, <1>3

LEMMA StreamRaisesStep ==
  ASSUME LoopInv, StreamRaises
  PROVE  LoopInv'
<1>1. TypeOK /\ pc \in Awaits
  BY DEF LoopInv, StreamRaises, Awaits
<1> QED
  BY <1>1, Interruption DEF StreamRaises, End, Silent, KeepTurn, Interrupted, TypeOK

LEMMA StreamClosesStep ==
  ASSUME LoopInv, StreamCloses
  PROVE  LoopInv'
<1>1. TypeOK /\ pc \in Awaits
  BY DEF LoopInv, StreamCloses, Awaits
<1> QED
  BY <1>1, Interruption DEF StreamCloses, End, Silent, KeepTurn, Interrupted, TypeOK

LEMMA StreamErrorStep ==
  ASSUME LoopInv, StreamError
  PROVE  LoopInv'
<1>1. TypeOK /\ pc = "streaming" /\ Nested(pc, turnStarted, OpenScopes(log))
  BY Pieces DEF StreamError
<1>2. log \in Seq(Events) /\ delta \in Seq(Items) /\ working \in Seq(Items)
  BY <1>1 DEF TypeOK
<1>3. /\ Event("MessageEnd") \in Events /\ Event("MessageEnd").event = "MessageEnd"
      /\ ItemsOf(<<Event("MessageEnd")>>) = <<>>
  BY EventType, PlainEvent, ItemsOfPlain DEF EventNames, Scopes
<1>4. log' = log \o <<Event("MessageEnd")>> /\ delta' = delta /\ working' = working
  BY <1>1, <1>3, PlainEmit DEF StreamError
<1>5. /\ log' \in Seq(Events)
      /\ OpenScopes(log') = AfterEvent(OpenScopes(log), Event("MessageEnd"))
      /\ \A name : Occurrences(log', name) =
           Occurrences(log, name) + (IF "MessageEnd" = name THEN 1 ELSE 0)
  BY <1>2, <1>3, <1>4, LogOne
<1>6. OpenScopes(log') = OpenScopes(log)
  <2>1. OpenScopes(log) \in {RA, RATM}
    BY <1>1 DEF Nested, ScopesFor, Awaits
  <2> QED
    BY <1>5, <2>1, StackFacts, TerminalEvents
<1>7. \A name \in {"FollowUp", "AgentStart", "AgentEnd", "ToolStart", "ToolEnd"} :
        Occurrences(log', name) = Occurrences(log, name)
  <2>1. \A name : Occurrences(log, name) \in Nat
    BY <1>2, <1>3, OccurrencesAppend
  <2> QED
    BY <1>5, <2>1
<1>8. /\ pc' = "failing" /\ cancel' \in BOOLEAN
      /\ UNCHANGED <<typed, turnStarted, turns, followUps, runHistory, calls, executions,
                     attempt, outcome>>
  BY <1>1 DEF StreamError, KeepTurn, TypeOK
<1> QED
  BY <1>1, <1>4, <1>5, <1>6, <1>7, <1>8, GivenUp

\* A new request sees what the session would record, and opens an attempt's scope.
LEMMA Requested ==
  ASSUME LoopInv, pc \in Awaits, pc' = "requesting", outcome' = outcome,
         typed' = typed, cancel' = cancel, turnStarted' = FALSE, turns' = turns + 1,
         followUps' \in Nat, calls' = <<>>, executions' = <<>>,
         attempt' \in Seq({"plain", "stop", "complete", "fail"}),
         delta' \in Seq(Items), Replays(delta'), working' = delta', runHistory' = delta',
         log' \in Seq(Events), OpenScopes(log') = RA,
         Occurrences(log', "FollowUp") = followUps',
         Occurrences(log', "AgentStart") = followUps' + 1,
         Occurrences(log', "AgentEnd") = followUps',
         Occurrences(log', "ToolStart") = Occurrences(log', "ToolEnd"),
         Occurrences(log', "ToolEnd") \in Nat
  PROVE  LoopInv'
<1>1. TypeOK /\ outcome = "none"
  BY DEF LoopInv, TypeOK
<1>2. TypeOK'
  <2>1. calls' \in BoundedSeq(CallIds, MaxCalls)
    BY NoTuples
  <2>2. {executions', attempt'} \subseteq Seq({"plain", "stop", "complete", "fail"})
    BY NoTuples
  <2>3. {runHistory', working', delta'} \subseteq Seq(Items)
    OBVIOUS
  <2>4. {typed', cancel', turnStarted'} \subseteq BOOLEAN
    <3>1. typed \in BOOLEAN /\ cancel \in BOOLEAN
      BY <1>1 DEF TypeOK
    <3> QED
      BY <3>1
  <2>6. {turns', followUps'} \subseteq Nat
    BY <1>1, SMTT(20) DEF TypeOK
  <2>5. pc' \in Awaits /\ outcome' = "none"
    BY <1>1 DEF Awaits
  <2> QED
    BY <2>1, <2>2, <2>3, <2>4, <2>5, <2>6 DEF TypeOK
<1>3. Histories(pc', runHistory', working', delta', calls', Len(executions'))
  BY DEF Histories
<1>4. Deltas(pc', outcome', runHistory', delta', calls', Len(executions'))
  BY <1>1 DEF Deltas, Endings
<1>5. Nested(pc', turnStarted', OpenScopes(log'))
  BY DEF Nested, ScopesFor
<1>6. Tally(pc', outcome', followUps', log')
  BY <1>1 DEF Tally, Endings
<1> QED
  BY <1>2, <1>3, <1>4, <1>5, <1>6, Pieces

LEMMA BeginStep ==
  ASSUME LoopInv, Begin
  PROVE  LoopInv'
<1>1. /\ TypeOK /\ pc = "created" /\ pc \in Awaits
      /\ Histories(pc, runHistory, working, delta, calls, Len(executions))
      /\ Nested(pc, turnStarted, OpenScopes(log))
      /\ Tally(pc, outcome, followUps, log)
  BY Pieces DEF Begin, Awaits
<1>2. /\ log \in Seq(Events) /\ delta \in Seq(Items) /\ working = delta /\ followUps \in Nat
      /\ OpenScopes(log) = R
  BY <1>1 DEF TypeOK, Histories, Nested, ScopesFor
<1>3. typed' = typed /\ cancel' = cancel /\ followUps' = followUps
  BY DEF Begin
<1>4. CASE StartAttempt(<<>>)
  <2>1. /\ Event("AgentStart") \in Events /\ Event("AgentStart").event = "AgentStart"
        /\ ItemsOf(<<Event("AgentStart")>>) = <<>> /\ ItemsOf(<<>>) = <<>>
        /\ <<>> \o <<Event("AgentStart")>> = <<Event("AgentStart")>>
    <3>1. <<>> \o <<Event("AgentStart")>> = <<Event("AgentStart")>>
      OBVIOUS
    <3>2. Event("AgentStart") \in Events
      BY EventType DEF EventNames
    <3> QED
      BY <3>1, <3>2, PlainEvent, ItemsOfPlain
  <2>2. /\ log' = log \o <<Event("AgentStart")>> /\ delta' = delta /\ working' = working
        /\ runHistory' = working
    <3>1. Emit(<<Event("AgentStart")>>) /\ runHistory' = working \o <<>>
      BY <1>4, <2>1 DEF StartAttempt
    <3> QED
      BY <1>1, <1>2, <2>1, <3>1, PlainEmit, NothingMore
  <2>3. /\ log' \in Seq(Events) /\ OpenScopes(log') = RA
        /\ \A name : Occurrences(log', name) =
             Occurrences(log, name) + (IF "AgentStart" = name THEN 1 ELSE 0)
    BY <1>2, <2>1, <2>2, LogOne, StartsOpen
  <2>4. Occurrences(log, "ToolEnd") \in Nat /\ Occurrences(log, "ToolStart") \in Nat
    BY <1>2, <2>1, OccurrencesAppend
  <2>5. /\ Occurrences(log', "FollowUp") = followUps'
        /\ Occurrences(log', "AgentStart") = followUps' + 1
        /\ Occurrences(log', "AgentEnd") = followUps'
        /\ Occurrences(log', "ToolStart") = Occurrences(log', "ToolEnd")
        /\ Occurrences(log', "ToolEnd") \in Nat
    BY <1>1, <1>2, <1>3, <2>3, <2>4 DEF Tally
  <2>6. Replays(delta')
    BY <1>1, <2>2, AwaitReplays
  <2>7. /\ pc' = "requesting" /\ outcome' = outcome /\ turnStarted' = FALSE /\ turns' = turns + 1
        /\ calls' = <<>> /\ executions' = <<>>
        /\ attempt' \in Seq({"plain", "stop", "complete", "fail"})
    BY <1>4 DEF StartAttempt
  <2> QED
    BY <1>1, <1>2, <1>3, <2>2, <2>3, <2>5, <2>6, <2>7, Requested
<1>5. CASE AttemptFails(<<>>)
  <2>1. log' = log /\ delta' = delta /\ working' = working
    <3>1. Emit(<<>>) /\ ItemsOf(<<>>) = <<>>
      BY <1>5, ItemsOfPlain DEF AttemptFails
    <3>2. log' = log \o <<>> /\ delta' = delta /\ working' = working
      BY <1>1, <3>1, PlainEmit
    <3> QED
      BY <1>2, <3>2, NothingMore
  <2>2. /\ pc' = "done" /\ outcome' \in Interrupted
        /\ UNCHANGED <<turnStarted, turns, runHistory, calls, executions, attempt>>
    BY <1>5 DEF AttemptFails, End, Interrupted
  <2>3. cancel' \in BOOLEAN /\ turnStarted' \in BOOLEAN
    BY <1>1, <1>3, <2>2 DEF TypeOK
  <2> QED
    BY <1>1, <1>2, <1>3, <2>1, <2>2, <2>3, Interruption
<1> QED
  BY <1>4, <1>5 DEF Begin

LEMMA StreamOpensStep ==
  ASSUME LoopInv, StreamOpens
  PROVE  LoopInv'
<1>1. /\ TypeOK /\ pc = "requesting" /\ pc' = "streaming"
      /\ Histories(pc, runHistory, working, delta, calls, Len(executions))
      /\ Deltas(pc, outcome, runHistory, delta, calls, Len(executions))
      /\ Nested(pc, turnStarted, OpenScopes(log))
      /\ Tally(pc, outcome, followUps, log)
  BY Pieces DEF StreamOpens
<1>2. UNCHANGED <<typed, cancel, turnStarted, turns, followUps, runHistory, working, delta,
                  calls, executions, attempt, outcome, log>>
  BY DEF StreamOpens, KeepTurn, Silent
<1>3. TypeOK'
  BY <1>1, <1>2 DEF TypeOK, Awaits
<1>4. Histories(pc', runHistory', working', delta', calls', Len(executions'))
  BY <1>1, <1>2 DEF Histories
<1>5. Deltas(pc', outcome', runHistory', delta', calls', Len(executions'))
  BY <1>1, <1>2 DEF Deltas
<1>6. Nested(pc', turnStarted', OpenScopes(log'))
  BY <1>1, <1>2 DEF Nested, ScopesFor, Awaits
<1>7. Tally(pc', outcome', followUps', log')
  BY <1>1, <1>2 DEF Tally, Awaits
<1> QED
  BY <1>3, <1>4, <1>5, <1>6, <1>7, Pieces

LEMMA StreamStartsStep ==
  ASSUME LoopInv, StreamStarts
  PROVE  LoopInv'
<1>1. /\ TypeOK /\ pc = "streaming" /\ ~turnStarted
      /\ Histories(pc, runHistory, working, delta, calls, Len(executions))
      /\ Deltas(pc, outcome, runHistory, delta, calls, Len(executions))
      /\ Nested(pc, turnStarted, OpenScopes(log))
      /\ Tally(pc, outcome, followUps, log)
  BY Pieces DEF StreamStarts
<1>2. /\ log \in Seq(Events) /\ delta \in Seq(Items) /\ working \in Seq(Items)
      /\ OpenScopes(log) = RA
  BY <1>1 DEF TypeOK, Nested, ScopesFor, Awaits
<1>3. /\ Event("TurnStart") \in Events /\ Event("TurnStart").event = "TurnStart"
      /\ Event("MessageStart") \in Events /\ Event("MessageStart").event = "MessageStart"
      /\ ItemsOf(<<Event("TurnStart"), Event("MessageStart")>>) = <<>>
  BY EventType, PlainEvent, ItemsOfPlain DEF EventNames
<1>4. /\ log' = log \o <<Event("TurnStart"), Event("MessageStart")>>
      /\ delta' = delta /\ working' = working
  BY <1>1, <1>3, PlainEmit DEF StreamStarts
<1>5. /\ pc' = pc /\ turnStarted' = TRUE
      /\ UNCHANGED <<typed, cancel, turns, followUps, runHistory, calls, executions,
                     attempt, outcome>>
  BY DEF StreamStarts, KeepTurn
<1>6. /\ log' \in Seq(Events) /\ OpenScopes(log') = RATM
      /\ \A name : Occurrences(log', name) =
           Occurrences(log, name) + (IF "TurnStart" = name THEN 1 ELSE 0)
                                  + (IF "MessageStart" = name THEN 1 ELSE 0)
  <2>1. /\ log' \in Seq(Events)
        /\ OpenScopes(log') = AfterEvent(AfterEvent(RA, Event("TurnStart")), Event("MessageStart"))
        /\ \A name : Occurrences(log', name) =
             Occurrences(log, name) + (IF Event("TurnStart").event = name THEN 1 ELSE 0)
                                    + (IF Event("MessageStart").event = name THEN 1 ELSE 0)
    BY <1>2, <1>3, <1>4, LogTwo DEF TwoMore
  <2>2. OpenScopes(log') = RATM
    BY <2>1, StartsOpen
  <2> QED
    BY <1>3, <2>1, <2>2
<1>7. TypeOK'
  BY <1>1, <1>4, <1>5, <1>6 DEF TypeOK
<1>8. Histories(pc', runHistory', working', delta', calls', Len(executions'))
  BY <1>1, <1>4, <1>5 DEF Histories
<1>9. Deltas(pc', outcome', runHistory', delta', calls', Len(executions'))
  BY <1>1, <1>4, <1>5 DEF Deltas
<1>10. Nested(pc', turnStarted', OpenScopes(log'))
  BY <1>1, <1>5, <1>6 DEF Nested, ScopesFor
<1>11. Tally(pc', outcome', followUps', log')
  <2>1. \A name : Occurrences(log, name) \in Nat
    BY <1>2, <1>3, OccurrencesAppend
  <2>2. \A name \in {"FollowUp", "AgentStart", "AgentEnd", "ToolStart", "ToolEnd"} :
          Occurrences(log', name) = Occurrences(log, name)
    BY <1>6, <2>1
  <2> QED
    BY <1>1, <1>5, <2>2 DEF Tally
<1> QED
  BY <1>7, <1>8, <1>9, <1>10, <1>11, Pieces

LEMMA NoTurnYet ==
  ASSUME NEW h \in Seq(Items), NEW cs
  PROVE  h \o Answered(cs, 0) = h \o <<Turn(cs)>>
BY AnsweredNone

LEMMA StreamDoneStep ==
  ASSUME LoopInv, NEW cs \in BoundedSeq(CallIds, MaxCalls), StreamDone(cs)
  PROVE  LoopInv'
<1>1. /\ TypeOK /\ pc = "streaming" /\ turnStarted
      /\ Histories(pc, runHistory, working, delta, calls, Len(executions))
      /\ Deltas(pc, outcome, runHistory, delta, calls, Len(executions))
      /\ Nested(pc, turnStarted, OpenScopes(log))
      /\ Tally(pc, outcome, followUps, log)
  BY Pieces DEF StreamDone
<1>2. /\ log \in Seq(Events) /\ delta \in Seq(Items) /\ working = delta /\ runHistory = delta
      /\ OpenScopes(log) = RATM /\ outcome = "none"
  BY <1>1 DEF TypeOK, Histories, Nested, ScopesFor, Awaits
<1>3. cs \in Seq(CallIds) /\ Len(cs) \in Nat /\ Turn(cs) \in Items
  BY CallsFacts, ItemFacts
<1> DEFINE message == EventWith("MessageEnd", Turn(cs))
           next == IF cs = <<>> THEN "TurnEnd" ELSE "ToolStart"
<1>4. /\ message \in Events /\ message.event = "MessageEnd"
      /\ Event(next) \in Events /\ Event(next).event = next
      /\ ItemsOf(<<message, Event(next)>>) = <<Turn(cs)>>
  <2>1. "MessageEnd" \in EventNames /\ next \in EventNames
    BY DEF EventNames, Scopes
  <2>2. /\ message \in Events /\ Event(next) \in Events /\ Event(next).event = next
    BY <1>3, <2>1, EventType, PlainEvent
  <2>3. message.event = "MessageEnd" /\ ItemsOf(<<message, Event(next)>>) = <<Turn(cs)>>
    <3>1. "MessageEnd" \in {"MessageEnd", "ToolEnd", "FollowUp"}
      OBVIOUS
    <3> HIDE DEF next
    <3>2. EventWith("MessageEnd", Turn(cs)).event = "MessageEnd"
      BY <3>1, ItemEvent
    <3>3. ItemsOf(<<EventWith("MessageEnd", Turn(cs)), Event(next)>>) = <<Turn(cs)>>
      BY <3>1, ItemsOfItem
    <3> QED
      BY <3>2, <3>3
  <2> QED
    BY <2>2, <2>3
<1>5. /\ Emit(<<message, Event(next)>>)
      /\ pc' = IF cs = <<>> THEN "closing" ELSE "executing"
      /\ calls' = cs /\ executions' = <<>>
      /\ UNCHANGED <<typed, cancel, turnStarted, turns, followUps, runHistory, attempt, outcome>>
  BY DEF StreamDone, KeepTurn
<1> HIDE DEF message
<1>6. /\ log' = log \o <<message, Event(next)>> /\ delta' = delta \o <<Turn(cs)>>
      /\ working' = delta'
  BY <1>2, <1>4, <1>5 DEF Emit
<1>7. TwoMore(log', log, message, Event(next))
  <2> HIDE DEF next
  <2> QED
    BY <1>2, <1>4, <1>6, LogTwo
<1>8. /\ log' \in Seq(Events)
      /\ OpenScopes(log') = IF cs = <<>> THEN RA ELSE RATX
      /\ \A name : Occurrences(log', name) =
           Occurrences(log, name) + (IF "MessageEnd" = name THEN 1 ELSE 0)
                                  + (IF next = name THEN 1 ELSE 0)
  <2>1. OpenScopes(log') = AfterEvent(AfterEvent(RATM, message), Event(next))
    BY <1>2, <1>7 DEF TwoMore
  <2>2. AfterEvent(RATM, message) = RAT
    BY EndsClose DEF message
  <2>3. AfterEvent(RAT, Event("TurnEnd")) = RA /\ AfterEvent(RAT, Event("ToolStart")) = RATX
    BY EndsClose, StartsOpen
  <2> QED
    BY <1>4, <1>7, <2>1, <2>2, <2>3 DEF TwoMore
<1>9. delta' \in Seq(Items) /\ Len(executions') = 0 /\ delta' = runHistory \o Answered(cs, 0)
  <2>1. <<Turn(cs)>> \in Seq(Items)
    BY <1>3
  <2> QED
    BY <1>2, <1>5, <1>6, <2>1, NoTurnYet
<1>10. pc' \in {"closing", "executing"} /\ (pc' = "closing" <=> cs = <<>>)
       /\ (cs = <<>> <=> Len(cs) = 0)
  BY <1>3, <1>5
<1>11. TypeOK'
  <2>1. {runHistory', working', delta'} \subseteq Seq(Items)
    BY <1>2, <1>5, <1>6, <1>9
  <2>2. {executions', attempt'} \subseteq Seq({"plain", "stop", "complete", "fail"})
    BY <1>1, <1>5, NoTuples DEF TypeOK
  <2> QED
    BY <1>1, <1>5, <1>8, <1>10, <2>1, <2>2 DEF TypeOK, Awaits
<1>12. Histories(pc', runHistory', working', delta', calls', Len(executions'))
  <2> HIDE DEF next
  <2>1. working' = delta' /\ delta' = runHistory' \o Answered(calls', Len(executions'))
    BY <1>5, <1>6, <1>9
  <2>2. /\ pc' = "executing" => Len(executions') < Len(calls')
        /\ pc' = "closing" => Len(executions') = Len(calls')
    BY <1>3, <1>5, <1>9, <1>10
  <2> QED
    BY <1>10, <2>1, <2>2 DEF Histories
<1>13. Deltas(pc', outcome', runHistory', delta', calls', Len(executions'))
  BY <1>1, <1>2, <1>5, <1>10 DEF Deltas, Endings
<1>14. Nested(pc', turnStarted', OpenScopes(log'))
  BY <1>8, <1>10 DEF Nested, ScopesFor
<1>15. Tally(pc', outcome', followUps', log')
  <2>1. \A name : Occurrences(log, name) \in Nat
    BY <1>2, <1>4, OccurrencesAppend
  <2>2. \A name \in {"FollowUp", "AgentStart", "AgentEnd", "ToolEnd"} :
          Occurrences(log', name) = Occurrences(log, name)
    BY <1>8, <2>1
  <2>3. Occurrences(log', "ToolStart") =
          Occurrences(log, "ToolStart") + (IF cs = <<>> THEN 0 ELSE 1)
    BY <1>8, <2>1
  <2>4. Occurrences(log, "ToolStart") = Occurrences(log, "ToolEnd")
    BY <1>1, <2>1 DEF Tally, Awaits
  <2> QED
    BY <1>1, <1>2, <1>5, <1>10, <2>1, <2>2, <2>3, <2>4 DEF Tally, Endings, Awaits
<1> QED
  BY <1>11, <1>12, <1>13, <1>14, <1>15, Pieces

LEMMA ToolReturnsStep ==
  ASSUME LoopInv, NEW verdict \in Verdicts, ToolReturns(verdict)
  PROVE  LoopInv'
<1>1. /\ TypeOK /\ pc = "executing"
      /\ Histories(pc, runHistory, working, delta, calls, Len(executions))
      /\ Deltas(pc, outcome, runHistory, delta, calls, Len(executions))
      /\ Nested(pc, turnStarted, OpenScopes(log))
      /\ Tally(pc, outcome, followUps, log)
  BY Pieces DEF ToolReturns
<1> DEFINE n == Len(executions)
           result == Result(calls[n + 1])
           ended == EventWith("ToolEnd", result)
           last == ~(n + 1 < Len(calls))
           next == IF last THEN "TurnEnd" ELSE "ToolStart"
<1>2. /\ log \in Seq(Events) /\ delta \in Seq(Items) /\ runHistory \in Seq(Items)
      /\ working = delta /\ delta = runHistory \o Answered(calls, n) /\ n < Len(calls)
      /\ OpenScopes(log) = RATX /\ outcome = "none" /\ n \in Nat
      /\ executions \in Seq({"plain", "stop", "complete", "fail"})
  BY <1>1 DEF TypeOK, Histories, Nested, ScopesFor, Awaits
<1>3. /\ calls \in BoundedSeq(CallIds, MaxCalls) /\ calls \in Seq(CallIds) /\ Len(calls) \in Nat
      /\ result \in Items
  <2>1. calls \in BoundedSeq(CallIds, MaxCalls)
    BY <1>1 DEF TypeOK
  <2>2. calls \in Seq(CallIds) /\ Len(calls) \in Nat
    BY <2>1, CallsFacts
  <2>3. calls[n + 1] \in CallIds
    BY <1>2, <2>2
  <2> QED
    BY <2>1, <2>2, <2>3, ItemFacts
<1>4. /\ executions' = Append(executions, verdict) /\ Len(executions') = n + 1
      /\ executions' \in Seq({"plain", "stop", "complete", "fail"})
  BY <1>2 DEF ToolReturns, Verdicts
<1>5. /\ Emit(<<ended, Event(next)>>)
      /\ pc' = IF last THEN "closing" ELSE "executing"
      /\ UNCHANGED <<typed, cancel, turnStarted, turns, followUps, runHistory, calls, attempt,
                     outcome>>
  BY <1>1, <1>4 DEF ToolReturns, TurnEnds, KeepTurn
<1>6. /\ ended \in Events /\ ended.event = "ToolEnd"
      /\ Event(next) \in Events /\ Event(next).event = next
      /\ ItemsOf(<<ended, Event(next)>>) = <<result>>
  <2>1. "ToolEnd" \in EventNames /\ next \in EventNames
    BY DEF EventNames, Scopes
  <2> HIDE DEF next, result
  <2>2. /\ ended \in Events /\ Event(next) \in Events /\ Event(next).event = next
    BY <1>3, <2>1, EventType, PlainEvent
  <2>3. "ToolEnd" \in {"MessageEnd", "ToolEnd", "FollowUp"}
    OBVIOUS
  <2>4. EventWith("ToolEnd", result).event = "ToolEnd"
    BY <2>3, ItemEvent
  <2>5. ItemsOf(<<EventWith("ToolEnd", result), Event(next)>>) = <<result>>
    BY <2>3, ItemsOfItem
  <2> QED
    BY <2>2, <2>4, <2>5
<1> HIDE DEF ended, result
<1>7. /\ log' = log \o <<ended, Event(next)>> /\ delta' = delta \o <<result>>
      /\ working' = delta'
  BY <1>2, <1>5, <1>6 DEF Emit
<1>8. TwoMore(log', log, ended, Event(next))
  <2> HIDE DEF next
  <2> QED
    BY <1>2, <1>6, <1>7, LogTwo
<1>9. /\ log' \in Seq(Events)
      /\ OpenScopes(log') = IF last THEN RA ELSE RATX
      /\ \A name : Occurrences(log', name) =
           Occurrences(log, name) + (IF "ToolEnd" = name THEN 1 ELSE 0)
                                  + (IF next = name THEN 1 ELSE 0)
  <2>1. OpenScopes(log') = AfterEvent(AfterEvent(RATX, ended), Event(next))
    BY <1>2, <1>8 DEF TwoMore
  <2>2. AfterEvent(RATX, ended) = RAT
    BY EndsClose DEF ended
  <2>3. AfterEvent(RAT, Event("TurnEnd")) = RA /\ AfterEvent(RAT, Event("ToolStart")) = RATX
    BY EndsClose, StartsOpen
  <2> HIDE DEF last
  <2> QED
    BY <1>6, <1>8, <2>1, <2>2, <2>3 DEF TwoMore
<1>10. delta' \in Seq(Items) /\ delta' = runHistory' \o Answered(calls', Len(executions'))
  <2>1. delta' = runHistory \o Answered(calls, n + 1)
    <3> HIDE DEF n
    <3> QED
      BY <1>2, <1>3, <1>7, AnsweredNext DEF result
  <2>2. <<result>> \in Seq(Items)
    BY <1>3
  <2>3. delta' \in Seq(Items)
    BY <1>2, <1>7, <2>2
  <2>4. runHistory' = runHistory /\ calls' = calls /\ Len(executions') = n + 1
    BY <1>4, <1>5
  <2> QED
    BY <2>1, <2>3, <2>4
<1>11. /\ pc' \in {"closing", "executing"}
       /\ pc' = "executing" => Len(executions') < Len(calls')
       /\ pc' = "closing" => Len(executions') = Len(calls')
  BY <1>2, <1>3, <1>4, <1>5
<1>12. pc' = "closing" <=> last
  BY <1>5
<1> HIDE DEF last
<1>13. TypeOK'
  <2>1. {runHistory', working', delta'} \subseteq Seq(Items)
    BY <1>2, <1>5, <1>7, <1>10
  <2>2. {executions', attempt'} \subseteq Seq({"plain", "stop", "complete", "fail"})
    BY <1>1, <1>4, <1>5 DEF TypeOK
  <2> QED
    BY <1>1, <1>5, <1>9, <1>11, <2>1, <2>2 DEF TypeOK, Awaits
<1>14. Histories(pc', runHistory', working', delta', calls', Len(executions'))
  BY <1>7, <1>10, <1>11 DEF Histories
<1>15. Deltas(pc', outcome', runHistory', delta', calls', Len(executions'))
  BY <1>1, <1>2, <1>5, <1>11 DEF Deltas, Endings
<1>16. Nested(pc', turnStarted', OpenScopes(log'))
  BY <1>9, <1>11, <1>12 DEF Nested, ScopesFor
<1>17. Tally(pc', outcome', followUps', log')
  <2>1. \A name : Occurrences(log, name) \in Nat
    BY <1>2, <1>6, OccurrencesAppend
  <2>2. \A name \in {"FollowUp", "AgentStart", "AgentEnd"} :
          Occurrences(log', name) = Occurrences(log, name)
    BY <1>9, <2>1
  <2>3. Occurrences(log', "ToolStart") = Occurrences(log, "ToolStart") + (IF last THEN 0 ELSE 1)
    BY <1>9, <2>1
  <2>4. Occurrences(log', "ToolEnd") = Occurrences(log, "ToolEnd") + 1
    BY <1>9, <2>1
  <2>5. Occurrences(log, "ToolStart") = Occurrences(log, "ToolEnd") + 1
    BY <1>1, <2>1 DEF Tally, Awaits
  <2>6. Occurrences(log', "ToolStart") =
          Occurrences(log', "ToolEnd") + (IF pc' = "executing" THEN 1 ELSE 0)
    BY <1>11, <1>12, <2>1, <2>3, <2>4, <2>5
  <2>7. /\ followUps' = followUps /\ outcome' = "none"
        /\ Occurrences(log, "AgentStart") = followUps + 1 /\ Occurrences(log, "AgentEnd") = followUps
        /\ Occurrences(log, "FollowUp") = followUps
    BY <1>1, <1>2, <1>5 DEF Tally, Awaits
  <2> QED
    BY <1>11, <2>2, <2>6, <2>7 DEF Tally, Endings
<1> QED
  BY <1>13, <1>14, <1>15, <1>16, <1>17, Pieces

LEMMA NextTurnStep ==
  ASSUME LoopInv, NextTurn
  PROVE  LoopInv'
<1>1. /\ TypeOK /\ pc = "closing" /\ pc \in Awaits
      /\ Histories(pc, runHistory, working, delta, calls, Len(executions))
      /\ Nested(pc, turnStarted, OpenScopes(log))
      /\ Tally(pc, outcome, followUps, log)
  BY Pieces DEF NextTurn, Awaits
<1>2. /\ log \in Seq(Events) /\ delta \in Seq(Items) /\ working = delta /\ followUps \in Nat
      /\ OpenScopes(log) = RA /\ delta = runHistory \o Answered(calls, Len(executions))
      /\ attempt \in Seq({"plain", "stop", "complete", "fail"})
      /\ executions \in Seq({"plain", "stop", "complete", "fail"})
  BY <1>1 DEF TypeOK, Histories, Nested, ScopesFor
<1>3. /\ pc' = "requesting" /\ outcome' = outcome /\ typed' = typed /\ cancel' = cancel
      /\ turnStarted' = FALSE /\ turns' = turns + 1 /\ followUps' = followUps
      /\ calls' = <<>> /\ executions' = <<>> /\ attempt' = attempt \o executions
      /\ delta' = delta /\ working' = working /\ log' = log /\ runHistory' = runHistory \o TurnItems
  BY DEF NextTurn, Silent
<1>4. runHistory' = delta
  <2>1. TurnItems = Answered(calls, Len(executions))
    BY <1>2, TurnItemsAnswered DEF TurnItems
  <2> QED
    BY <1>2, <1>3, <2>1
<1>5. Replays(delta')
  BY <1>1, <1>3, AwaitReplays
<1>6. attempt' \in Seq({"plain", "stop", "complete", "fail"})
  BY <1>2, <1>3
<1>7. /\ Occurrences(log', "FollowUp") = followUps'
      /\ Occurrences(log', "AgentStart") = followUps' + 1
      /\ Occurrences(log', "AgentEnd") = followUps'
      /\ Occurrences(log', "ToolStart") = Occurrences(log', "ToolEnd")
      /\ Occurrences(log', "ToolEnd") \in Nat
  <2>1. Occurrences(log, "ToolEnd") \in Nat
    <3>1. Event("RunStart") \in Events
      BY EventType DEF EventNames
    <3> QED
      BY <1>2, <3>1, OccurrencesAppend
  <2> QED
    BY <1>1, <1>3, <2>1 DEF Tally
<1> QED
  BY <1>1, <1>2, <1>3, <1>4, <1>5, <1>6, <1>7, Requested

LEMMA AttemptEndsStep ==
  ASSUME LoopInv, AttemptEnds
  PROVE  LoopInv'
<1>1. /\ TypeOK /\ pc = "closing" /\ pc \in Awaits
      /\ Histories(pc, runHistory, working, delta, calls, Len(executions))
      /\ Deltas(pc, outcome, runHistory, delta, calls, Len(executions))
      /\ Nested(pc, turnStarted, OpenScopes(log))
      /\ Tally(pc, outcome, followUps, log)
  BY Pieces DEF AttemptEnds, Awaits
<1>2. /\ log \in Seq(Events) /\ delta \in Seq(Items) /\ working = delta /\ followUps \in Nat
      /\ OpenScopes(log) = RA /\ runHistory \in Seq(Items) /\ turns \in Nat
      /\ calls \in BoundedSeq(CallIds, MaxCalls)
      /\ delta = runHistory \o Answered(calls, Len(calls))
      /\ Replays(delta)
  BY <1>1, AwaitReplays DEF TypeOK, Histories, Nested, ScopesFor
<1>3. typed' = typed /\ cancel' = cancel /\ typed \in BOOLEAN /\ cancel \in BOOLEAN
  BY <1>1 DEF AttemptEnds, TypeOK
<1>4. /\ Event("AgentEnd") \in Events /\ Event("AgentEnd").event = "AgentEnd"
      /\ Event("AgentStart") \in Events /\ Event("AgentStart").event = "AgentStart"
      /\ EventWith("FollowUp", User) \in Events /\ EventWith("FollowUp", User).event = "FollowUp"
  <2>1. {"AgentEnd", "AgentStart", "FollowUp"} \subseteq EventNames
    BY DEF EventNames, Scopes
  <2> QED
    BY <2>1, EventType, PlainEvent, ItemEvent, ItemFacts
<1>5. \A name : Occurrences(log, name) \in Nat
  BY <1>2, <1>4, OccurrencesAppend
<1>6. /\ Occurrences(log, "FollowUp") = followUps
      /\ Occurrences(log, "AgentStart") = followUps + 1
      /\ Occurrences(log, "AgentEnd") = followUps
      /\ Occurrences(log, "ToolStart") = Occurrences(log, "ToolEnd")
  BY <1>1, <1>5 DEF Tally, Awaits
<1> DEFINE reminder == EventWith("FollowUp", User)
           es == <<Event("AgentEnd"), reminder>>
<1>7. ItemsOf(es) = <<User>> /\ ItemsOf(es \o <<Event("AgentStart")>>) = <<User>>
  <2>1. es \o <<Event("AgentStart")>> = <<Event("AgentEnd"), reminder, Event("AgentStart")>>
    <3>1. es \in Seq(Events) /\ Event("AgentStart") \in Events
      BY <1>4
    <3>2. es \o <<Event("AgentStart")>> = Append(es, Event("AgentStart"))
      <4> HIDE DEF es
      <4> QED
        BY <3>1
    <3> QED
      BY <3>2, AppendToTuple
  <2>2. "FollowUp" \in {"MessageEnd", "ToolEnd", "FollowUp"}
    OBVIOUS
  <2>3. /\ ItemsOf(<<EventWith("FollowUp", User), Event("AgentEnd")>>) = <<User>>
        /\ ItemsOf(<<Event("AgentEnd"), EventWith("FollowUp", User)>>) = <<User>>
        /\ ItemsOf(<<Event("AgentEnd"), EventWith("FollowUp", User), Event("AgentStart")>>) = <<User>>
    BY <2>2, ItemsOfItem
  <2> QED
    BY <2>1, <2>3
<1> HIDE DEF reminder
<1>8. AfterEvent(AfterEvent(RA, Event("AgentEnd")), reminder) = R
  BY EndsClose DEF reminder
<1>9. Replays(delta \o <<User>>) /\ delta \o <<User>> \in Seq(Items)
  BY <1>2, ReplaysUser
<1>10. CASE typed => ResultOutcome # "none" \/ OutOfAttempts
  <2>1. /\ Emit(<<Event("AgentEnd")>>) /\ pc' = "done"
        /\ outcome' = IF ~typed THEN "completed"
                      ELSE IF ResultOutcome # "none" THEN ResultOutcome ELSE "no_result"
        /\ UNCHANGED <<turnStarted, turns, followUps, runHistory, calls, executions, attempt>>
    BY <1>10 DEF AttemptEnds, End
  <2>2. log' = log \o <<Event("AgentEnd")>> /\ delta' = delta /\ working' = working
    BY <1>1, <2>1, PlainEmit, ItemsOfPlain
  <2>3. /\ log' \in Seq(Events) /\ OpenScopes(log') = R
        /\ \A name : Occurrences(log', name) =
             Occurrences(log, name) + (IF "AgentEnd" = name THEN 1 ELSE 0)
    BY <1>2, <1>4, <2>2, LogOne, EndsClose
  <2>4. ResultOutcome \in {"none", "completed", "agent_failed"}
    BY DEF ResultOutcome
  <2>5. outcome' \in Endings /\ (outcome' = "no_result" => followUps = MaxFollowUps)
    BY <1>10, <2>1, <2>4 DEF Endings, OutOfAttempts
  <2>6. Last(delta).kind # "user"
    <3>1. Len(calls) \in 0 .. Len(calls)
      BY <1>2, CallsFacts
    <3> QED
      BY <1>2, <3>1, LastOfTurn
  <2>7. TypeOK'
    BY <1>1, <1>3, <2>1, <2>2, <2>3, <2>5 DEF TypeOK, Awaits
  <2>8. Histories(pc', runHistory', working', delta', calls', Len(executions'))
    BY <1>2, <2>1, <2>2 DEF Histories
  <2>9. Deltas(pc', outcome', runHistory', delta', calls', Len(executions'))
    BY <1>1, <1>2, <2>1, <2>2, <2>6 DEF Deltas
  <2>10. Nested(pc', turnStarted', OpenScopes(log'))
    BY <2>1, <2>3, StackFacts DEF Nested, Awaits
  <2>11. Tally(pc', outcome', followUps', log')
    <3>1. /\ Occurrences(log', "FollowUp") = followUps' /\ followUps' = followUps
          /\ Occurrences(log', "AgentStart") = followUps' + 1
          /\ Occurrences(log', "AgentEnd") = followUps' + 1
          /\ Occurrences(log', "ToolStart") = Occurrences(log', "ToolEnd")
      BY <1>2, <1>5, <1>6, <2>1, <2>3
    <3>2. pc' \notin Awaits
      BY <2>1 DEF Awaits
    <3> QED
      BY <2>5, <3>1, <3>2 DEF Tally, Awaits
  <2> QED
    BY <2>7, <2>8, <2>9, <2>10, <2>11, Pieces
<1>11. CASE ~(typed => ResultOutcome # "none" \/ OutOfAttempts)
  <2>1. followUps' = followUps + 1 /\ (StartAttempt(es) \/ AttemptFails(es))
    BY <1>11 DEF AttemptEnds, reminder
  <2>2. CASE StartAttempt(es)
    <3>1. /\ log' = log \o (es \o <<Event("AgentStart")>>)
          /\ delta' = delta \o <<User>> /\ working' = delta' /\ runHistory' = delta'
      <4> HIDE DEF es
      <4> QED
        BY <1>2, <1>7, <2>2 DEF StartAttempt, Emit
    <3>2. ThreeMore(log', log, Event("AgentEnd"), reminder, Event("AgentStart"))
      BY <1>2, <1>4, <3>1, LogThree DEF reminder
    <3>3. /\ log' \in Seq(Events) /\ OpenScopes(log') = RA
          /\ \A name : Occurrences(log', name) =
               Occurrences(log, name) + (IF "AgentEnd" = name THEN 1 ELSE 0)
                                      + (IF "FollowUp" = name THEN 1 ELSE 0)
                                      + (IF "AgentStart" = name THEN 1 ELSE 0)
      <4>1. AfterEvent(R, Event("AgentStart")) = RA
        BY StartsOpen
      <4>2. reminder.event = "FollowUp"
        BY <1>4 DEF reminder
      <4> QED
        BY <1>2, <1>4, <1>8, <3>2, <4>1, <4>2 DEF ThreeMore
    <3>4. /\ Occurrences(log', "FollowUp") = followUps'
          /\ Occurrences(log', "AgentStart") = followUps' + 1
          /\ Occurrences(log', "AgentEnd") = followUps'
          /\ Occurrences(log', "ToolStart") = Occurrences(log', "ToolEnd")
          /\ Occurrences(log', "ToolEnd") \in Nat
      <4>1. /\ Occurrences(log', "FollowUp") = Occurrences(log, "FollowUp") + 1
            /\ Occurrences(log', "AgentStart") = Occurrences(log, "AgentStart") + 1
            /\ Occurrences(log', "AgentEnd") = Occurrences(log, "AgentEnd") + 1
            /\ Occurrences(log', "ToolStart") = Occurrences(log, "ToolStart")
            /\ Occurrences(log', "ToolEnd") = Occurrences(log, "ToolEnd")
        BY <1>5, <3>3
      <4>2. followUps' = followUps + 1
        BY <2>1
      <4> QED
        BY <1>2, <1>5, <1>6, <4>1, <4>2
    <3>5. /\ pc' = "requesting" /\ outcome' = outcome /\ turnStarted' = FALSE /\ turns' = turns + 1
          /\ calls' = <<>> /\ executions' = <<>>
          /\ attempt' \in Seq({"plain", "stop", "complete", "fail"})
      BY <2>2 DEF StartAttempt
    <3>6. followUps' \in Nat
      BY <1>2, <2>1
    <3> HIDE DEF es
    <3> QED
      BY <1>1, <1>3, <1>9, <3>1, <3>3, <3>4, <3>5, <3>6, Requested
  <2>3. CASE AttemptFails(es)
    <3>1. log' = log \o es /\ delta' = delta \o <<User>> /\ working' = delta'
      <4> HIDE DEF es
      <4> QED
        BY <1>2, <1>7, <2>3 DEF AttemptFails, Emit
    <3>2. TwoMore(log', log, Event("AgentEnd"), reminder)
      BY <1>2, <1>4, <3>1, LogTwo DEF reminder
    <3>3. /\ log' \in Seq(Events) /\ OpenScopes(log') = R
          /\ \A name : Occurrences(log', name) =
               Occurrences(log, name) + (IF "AgentEnd" = name THEN 1 ELSE 0)
                                      + (IF "FollowUp" = name THEN 1 ELSE 0)
      <4>1. reminder.event = "FollowUp"
        BY <1>4 DEF reminder
      <4> QED
        BY <1>2, <1>4, <1>8, <3>2, <4>1 DEF TwoMore
    <3>4. /\ pc' = "done" /\ outcome' = "execution_failed"
          /\ UNCHANGED <<turnStarted, turns, runHistory, calls, executions, attempt>>
      BY <2>3 DEF AttemptFails, End
    <3>5. outcome' \in Interrupted /\ outcome' \notin Endings /\ pc' \notin Awaits
      BY <3>4 DEF Interrupted, Endings, Awaits
    <3> HIDE DEF es
    <3>6. TypeOK'
      <4>1. {runHistory', working', delta'} \subseteq Seq(Items)
        BY <1>2, <1>9, <3>1, <3>4
      <4>2. {turns', followUps'} \subseteq Nat
        BY <1>2, <2>1, <3>4
      <4> QED
        BY <1>1, <1>3, <3>3, <3>4, <3>5, <4>1, <4>2 DEF TypeOK
    <3>7. Histories(pc', runHistory', working', delta', calls', Len(executions'))
      BY <3>1, <3>4 DEF Histories
    <3>8. Deltas(pc', outcome', runHistory', delta', calls', Len(executions'))
      BY <1>1, <1>9, <3>1, <3>4, <3>5 DEF Deltas
    <3>9. Nested(pc', turnStarted', OpenScopes(log'))
      BY <3>3, <3>4, StackFacts DEF Nested, Awaits
    <3>10. Tally(pc', outcome', followUps', log')
      <4>1. Occurrences(log', "FollowUp") = followUps'
        <5>1. Occurrences(log', "FollowUp") = Occurrences(log, "FollowUp") + 1
          BY <1>5, <3>3
        <5>2. followUps' = followUps + 1
          BY <2>1
        <5> QED
          BY <1>6, <5>1, <5>2
      <4>2. outcome' # "no_result" /\ pc' # "created"
        BY <3>4
      <4> QED
        BY <3>5, <4>1, <4>2 DEF Tally
    <3> QED
      BY <3>6, <3>7, <3>8, <3>9, <3>10, Pieces
  <2> QED
    BY <2>1, <2>2, <2>3
<1> QED
  BY <1>10, <1>11

LEMMA FinalizeStep ==
  ASSUME LoopInv, Finalize
  PROVE  LoopInv'
<1>1. /\ TypeOK /\ pc = "done"
      /\ Histories(pc, runHistory, working, delta, calls, Len(executions))
      /\ Deltas(pc, outcome, runHistory, delta, calls, Len(executions))
      /\ Nested(pc, turnStarted, OpenScopes(log))
      /\ Tally(pc, outcome, followUps, log)
  BY Pieces DEF Finalize
<1>2. /\ log \in Seq(Events) /\ delta \in Seq(Items) /\ working = delta
      /\ runHistory \in Seq(Items) /\ calls \in BoundedSeq(CallIds, MaxCalls)
      /\ OpenScopes(log) # <<"bad">> /\ OpenScopes(log) # <<>>
      /\ executions \in Seq({"plain", "stop", "complete", "fail"}) /\ Len(executions) \in Nat
  BY <1>1 DEF TypeOK, Histories, Nested
<1>3. /\ pc' = "settled" /\ delta' = delta \o Healing /\ working' = delta'
      /\ log' = log \o <<Event("RunEnd")>>
      /\ UNCHANGED <<typed, cancel, turnStarted, turns, followUps, runHistory, calls,
                     executions, attempt, outcome>>
  BY <1>2 DEF Finalize
<1>4. Event("RunEnd") \in Events /\ Event("RunEnd").event = "RunEnd"
  BY EventType, PlainEvent DEF EventNames, Scopes
<1>5. /\ log' \in Seq(Events) /\ OpenScopes(log') = <<>>
      /\ \A name : Occurrences(log', name) =
           Occurrences(log, name) + (IF "RunEnd" = name THEN 1 ELSE 0)
  BY <1>2, <1>3, <1>4, LogOne, TerminalEvents
<1>6. Healing \in Seq(Items) /\ delta' \in Seq(Items)
  BY <1>2, <1>3, HealingType
<1>7. Replays(delta) => delta' = delta
  BY <1>2, <1>3, NothingToHeal, NothingMore
<1>8. UniqueCalls(delta') => Replays(delta')
  <2> SUFFICES ASSUME UniqueCalls(delta'), ~Replays(delta)
               PROVE  Replays(delta')
    BY <1>7
  <2>1. /\ delta = runHistory \o Answered(calls, Len(executions)) /\ Replays(runHistory)
        /\ Len(executions) < Len(calls)
    BY <1>1 DEF Deltas
  <2>2. Len(executions) \in 0 .. Len(calls)
    BY <1>2, <2>1, CallsFacts
  <2>3. UniqueCalls(delta)
    BY <1>2, <1>3, <1>6, UniquePrefix
  <2>4. delta' = runHistory \o Answered(calls, Len(calls))
    BY <1>2, <1>3, <2>1, <2>2, <2>3, HealedTurn
  <2> QED
    BY <1>2, <2>1, <2>4, ReplaysTurn
<1>9. TypeOK'
  <2>1. {runHistory', working', delta'} \subseteq Seq(Items)
    BY <1>2, <1>3, <1>6
  <2> QED
    BY <1>1, <1>3, <1>5, <2>1 DEF TypeOK, Awaits
<1>10. Histories(pc', runHistory', working', delta', calls', Len(executions'))
  BY <1>3 DEF Histories
<1>11. Deltas(pc', outcome', runHistory', delta', calls', Len(executions'))
  BY <1>1, <1>3, <1>7, <1>8 DEF Deltas
<1>12. Nested(pc', turnStarted', OpenScopes(log'))
  BY <1>3, <1>5 DEF Nested, Awaits
<1>13. Tally(pc', outcome', followUps', log')
  <2>1. \A name : Occurrences(log, name) \in Nat
    BY <1>2, <1>4, OccurrencesAppend
  <2>2. \A name \in {"FollowUp", "AgentStart", "AgentEnd", "ToolStart", "ToolEnd"} :
          Occurrences(log', name) = Occurrences(log, name)
    BY <1>5, <2>1
  <2>3. pc' # "created" /\ pc' \notin Awaits
    BY <1>3 DEF Awaits
  <2> QED
    BY <1>1, <1>3, <2>2, <2>3 DEF Tally
<1> QED
  BY <1>9, <1>10, <1>11, <1>12, <1>13, Pieces

LEMMA LoopNext ==
  ASSUME LoopInv, [Next]_vars
  PROVE  LoopInv'
<1>1. CASE UNCHANGED vars
  <2>1. cancel' \in BOOLEAN
    BY <1>1 DEF LoopInv, TypeOK, vars
  <2> QED
    BY <1>1, <2>1, SameStep DEF vars
<1>2. CASE Next
  BY <1>2, AbortStep, CancelledStep, BeginStep, StreamOpensStep, StreamStartsStep,
     StreamDoneStep, StreamErrorStep, StreamClosesStep, StreamRaisesStep, ToolReturnsStep, NextTurnStep,
     AttemptEndsStep, FinalizeStep DEF Next
<1> QED
  BY <1>1, <1>2
-----------------------------------------------------------------------------
(* The theorems.                                                           *)

\* LoopInv is an invariant of the task: it holds when the run is registered and
\* every handler of execution.py and agent.py keeps it.
THEOREM LoopInvariant == Spec => []LoopInv
<1>1. Init => LoopInv
  BY LoopInit
<1>2. LoopInv /\ [Next]_vars => LoopInv'
  BY LoopNext
<1> QED
  BY <1>1, <1>2, PTL DEF Spec

\* Type correctness of the task's state, whatever the provider and tools do.
THEOREM LoopTypeCorrect == Spec => []TypeOK
<1>1. LoopInv => TypeOK
  BY DEF LoopInv
<1> QED
  BY <1>1, LoopInvariant, PTL

\* The history that run_agent keeps by hand is the one _RunHistory projects from
\* the events, at every request of every attempt.
THEOREM HistoriesAlwaysAgree == Spec => []HistoriesAgree
<1>1. LoopInv => HistoriesAgree
  BY DEF LoopInv, HistoryAgrees, HistoriesAgree
<1> QED
  BY <1>1, LoopInvariant, PTL

\* Whatever the provider is asked to continue can be replayed: no request carries
\* a tool call without its result (agent.py run_agent).
THEOREM RequestsReplay == Spec => [](pc = "requesting" => Replays(delta) /\ Replays(runHistory))
<1>1. LoopInv => (pc = "requesting" => Replays(delta) /\ Replays(runHistory))
  BY DEF LoopInv, HistoryAgrees, DeltaAgrees
<1> QED
  BY <1>1, LoopInvariant, PTL

\* Wherever the run was interrupted, heal makes the delta that it settles with
\* replayable (history.py heal).
THEOREM SettledDeltasReplay == Spec => []SettledDeltaReplays
<1>1. LoopInv => SettledDeltaReplays
  BY DEF LoopInv, DeltaAgrees
<1> QED
  BY <1>1, LoopInvariant, PTL

\* The events of a run nest, through failures and cancellations at any await.
THEOREM EventsAlwaysNest == Spec => []EventsNest
<1>1. LoopInv => EventsNest
  <2> SUFFICES ASSUME LoopInv PROVE EventsNest
    OBVIOUS
  <2>1. TypeOK /\ Nested(pc, turnStarted, OpenScopes(log))
    BY Pieces
  <2>2. pc \in Awaits \/ pc = "done" \/ pc = "settled"
    BY <2>1 DEF TypeOK
  <2>3. <<>> # <<"bad">>
    OBVIOUS
  <2> QED
    BY <2>1, <2>2, <2>3, StackFacts DEF Nested, ScopesFor, EventsNest
<1> QED
  BY <1>1, LoopInvariant, PTL

\* A typed run gives up after MaxFollowUps reminders, for any value of
\* MAX_RESULT_FOLLOW_UPS, and never ends on a reminder.
THEOREM GivesUpInTime == Spec => []GivesUpAfterLastAttempt
<1>1. LoopInv => GivesUpAfterLastAttempt
  BY DEF LoopInv, DeltaAgrees, CountsAgree, GivesUpAfterLastAttempt, Endings
<1> QED
  BY <1>1, LoopInvariant, PTL

\* A run that its agent ended had every call of every turn executed.
THEOREM CompletedRunsAreWhole == Spec => []CompletedIsWhole
<1>1. LoopInv => CompletedIsWhole
  BY DEF LoopInv, DeltaAgrees, CountsAgree, CompletedIsWhole, Endings
<1> QED
  BY <1>1, LoopInvariant, PTL

\* Once the agent has ended its run, nothing is added to what it said: finalize
\* heals interrupted runs only.
THEOREM EndedRunsAreNotHealed == Spec => [][delta' # delta => outcome \notin Endings]_vars
<1>1. LoopInv /\ [Next]_vars => [delta' # delta => outcome \notin Endings]_vars
  <2> SUFFICES ASSUME LoopInv, Next, outcome \in Endings
               PROVE  delta' = delta
    BY DEF vars
  <2>1. /\ TypeOK /\ Deltas(pc, outcome, runHistory, delta, calls, Len(executions))
    BY Pieces
  <2>2. pc \notin Awaits /\ Replays(delta) /\ delta \in Seq(Items)
    BY <2>1 DEF TypeOK, Deltas, Endings
  <2>3. Finalize
    BY <2>2 DEF Next, Abort, Cancelled, Begin, StreamOpens, StreamStarts, StreamDone, StreamError,
                StreamCloses, StreamRaises, ToolReturns, NextTurn, AttemptEnds, Awaits
  <2>4. Healing = <<>>
    BY <2>2, NothingToHeal
  <2> QED
    BY <2>2, <2>3, <2>4, NothingMore DEF Finalize
<1> QED
  BY <1>1, LoopInvariant, PTL DEF Spec
=============================================================================
