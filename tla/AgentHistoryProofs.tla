-------------------------- MODULE AgentHistoryProofs --------------------------
(***************************************************************************)
(* What is proved of the history AgentLoop builds, for every value of its  *)
(* constants: calls and results are paired through every way a batch can   *)
(* end, and the loop implements CallLedger.                                *)
(***************************************************************************)
EXTENDS AgentLoopProofs

-----------------------------------------------------------------------------
(* The shape of a history.                                                 *)

\* The result of call <<p, i>> stands i places after the response.
ResultAt(history, p, i) ==
  /\ p + i <= Len(history)
  /\ history[p + i].type = "result"
  /\ history[p + i].call = <<p, i>>

Settled(history, p) ==
  history[p].type = "assistant" => \A i \in 1..history[p].calls : ResultAt(history, p, i)

Responses(history) == {p \in 1..Len(history) : history[p].type = "assistant"}

\* A result stands nowhere else.
Rooted(history) ==
  \A q \in 1..Len(history) : history[q].type = "result" =>
    \E p \in Responses(history) : \E i \in 1..history[p].calls :
      history[q].call = <<p, i>> /\ q = p + i

\* All responses but the one at `gap` have their results.
Sound(history, gap) ==
  /\ \A p \in 1..Len(history) : p # gap => Settled(history, p)
  /\ Rooted(history)

\* The last response has the results of the calls before `next`, and no more.
Unfinished(history, b) ==
  /\ b.at \in 1..Len(history)
  /\ history[b.at].type = "assistant" /\ history[b.at].calls = b.size
  /\ b.next >= 1 /\ b.next <= b.size + 1
  /\ Len(history) = b.at + b.next - 1
  /\ \A i \in 1..(b.next - 1) : ResultAt(history, b.at, i)

\* Messages that neither ask for a call nor answer one.
Harmless(tail) ==
  \A j \in 1..Len(tail) : /\ tail[j].type # "result"
                          /\ tail[j].type = "assistant" => tail[j].calls = 0

Proposed(history) == UNION {CallsAt(history, p) : p \in 1..Len(history)}

Answered(history) ==
  {history[p].call : p \in {q \in 1..Len(history) : history[q].type = "result"}}

Ran(history) ==
  {history[p].call :
     p \in {q \in 1..Len(history) : history[q].type = "result" /\ history[q].ran}}

-----------------------------------------------------------------------------
(* What can be added to a history.                                         *)

LEMMA CallsType ==
  ASSUME NEW h \in Seq(Messages), NEW p \in 1..Len(h)
  PROVE  /\ h[p].type = "assistant" => h[p].calls \in Nat
         /\ h[p].type = "result" => h[p].call \in Nat \X Nat /\ h[p].ran \in BOOLEAN
         /\ h[p].type \in {"user", "assistant", "result"}
<1>1. h[p] \in Messages
  OBVIOUS
<1> QED
  BY <1>1 DEF Messages, CallIds

\* What stood before a concatenation stands after it.
LEMMA OldPlaces ==
  ASSUME NEW h \in Seq(Messages), NEW t \in Seq(Messages)
  PROVE  /\ h \o t \in Seq(Messages)
         /\ Len(h \o t) = Len(h) + Len(t)
         /\ \A p \in 1..Len(h) : (h \o t)[p] = h[p]
         /\ \A p \in (Len(h) + 1)..(Len(h) + Len(t)) : (h \o t)[p] = t[p - Len(h)]
         /\ Len(h) \in Nat /\ Len(t) \in Nat
  OBVIOUS

LEMMA ResultStays ==
  ASSUME NEW h \in Seq(Messages), NEW t \in Seq(Messages), NEW p \in Nat, NEW i \in Nat,
         p + i >= 1, ResultAt(h, p, i)
  PROVE  ResultAt(h \o t, p, i)
  BY OldPlaces DEF ResultAt

LEMMA SettledStays ==
  ASSUME NEW h \in Seq(Messages), NEW t \in Seq(Messages), NEW p \in 1..Len(h), Settled(h, p)
  PROVE  Settled(h \o t, p)
<1> SUFFICES ASSUME h[p].type = "assistant", NEW i \in 1..h[p].calls
             PROVE  ResultAt(h \o t, p, i)
  BY OldPlaces DEF Settled
<1>1. h[p].calls \in Nat
  BY CallsType
<1>2. p \in Nat /\ i \in Nat /\ p + i >= 1
  BY <1>1
<1> QED
  BY <1>2, ResultStays DEF Settled

LEMMA HarmlessTail ==
  ASSUME NEW h \in Seq(Messages), NEW t \in Seq(Messages), NEW gap,
         Harmless(t), Sound(h, gap)
  PROVE  Sound(h \o t, gap)
<1> DEFINE g == h \o t
<1>1. ASSUME NEW p \in 1..Len(g), p # gap
      PROVE  Settled(g, p)
  <2>1. CASE p \in 1..Len(h)
    BY <1>1, <2>1, SettledStays DEF Sound
  <2>2. CASE p \notin 1..Len(h)
    <3>1. p - Len(h) \in 1..Len(t) /\ g[p] = t[p - Len(h)]
      BY <2>2, OldPlaces
    <3> QED
      BY <3>1 DEF Settled, Harmless
  <2> QED
    BY <2>1, <2>2
<1>2. ASSUME NEW q \in 1..Len(g), g[q].type = "result"
      PROVE  \E p \in Responses(g) : \E i \in 1..g[p].calls : g[q].call = <<p, i>> /\ q = p + i
  <2>1. q \in 1..Len(h)
    <3>1. q \notin 1..Len(h) => q - Len(h) \in 1..Len(t) /\ g[q] = t[q - Len(h)]
      BY OldPlaces
    <3> QED
      BY <1>2, <3>1 DEF Harmless
  <2>2. g[q] = h[q]
    BY <2>1, OldPlaces
  <2>3. PICK p \in Responses(h) : \E i \in 1..h[p].calls : h[q].call = <<p, i>> /\ q = p + i
    BY <1>2, <2>1, <2>2 DEF Sound, Rooted
  <2>4. p \in Responses(g) /\ g[p] = h[p]
    BY OldPlaces DEF Responses
  <2> QED
    BY <2>2, <2>3, <2>4
<1> HIDE DEF g
<1>3. Sound(g, gap)
  BY <1>1, <1>2 DEF Sound, Rooted
<1> QED
  BY <1>3 DEF g

LEMMA HarmlessSets ==
  ASSUME NEW h \in Seq(Messages), NEW t \in Seq(Messages), Harmless(t)
  PROVE  /\ Proposed(h \o t) = Proposed(h)
         /\ Answered(h \o t) = Answered(h)
         /\ Ran(h \o t) = Ran(h)
<1> DEFINE g == h \o t
<1>1. \A p \in 1..Len(h) : p \in 1..Len(g) /\ g[p] = h[p]
  BY OldPlaces
<1>2. ASSUME NEW p \in 1..Len(g), p \notin 1..Len(h)
      PROVE  g[p].type # "result" /\ CallsAt(g, p) = {}
  <2>1. p - Len(h) \in 1..Len(t) /\ g[p] = t[p - Len(h)]
    BY <1>2, OldPlaces
  <2> QED
    BY <2>1 DEF Harmless, CallsAt
<1>3. \A p \in 1..Len(h) : CallsAt(g, p) = CallsAt(h, p)
  BY <1>1 DEF CallsAt
<1> HIDE DEF g
<1>4. Proposed(g) = Proposed(h)
  BY <1>1, <1>2, <1>3 DEF Proposed
<1>5. Answered(g) = Answered(h)
  BY <1>1, <1>2 DEF Answered
<1>6. Ran(g) = Ran(h)
  BY <1>1, <1>2 DEF Ran
<1> QED
  BY <1>4, <1>5, <1>6 DEF g

\* A response with calls, committed on a settled history.
LEMMA NewBatch ==
  ASSUME NEW h \in Seq(Messages), Sound(h, 0), NEW size \in Nat
  PROVE  LET g == Append(h, AssistantMessage(size))
             at == Len(h) + 1
         IN  /\ Sound(g, at)
             /\ Unfinished(g, [at |-> at, size |-> size, next |-> 1])
             /\ Proposed(g) = Proposed(h) \cup {<<at, i>> : i \in 1..size}
             /\ Answered(g) = Answered(h)
             /\ Ran(g) = Ran(h)
<1> DEFINE m == AssistantMessage(size)
           g == Append(h, m)
           at == Len(h) + 1
<1>1. m \in Messages /\ m.type = "assistant" /\ m.calls = size
  BY DEF AssistantMessage, Messages
<1>2. /\ g \in Seq(Messages) /\ Len(g) = at /\ at \in Nat /\ at >= 1
      /\ g[at] = m
      /\ \A p \in 1..Len(h) : g[p] = h[p]
  BY <1>1
<1> HIDE DEF m, g
<1>3. ASSUME NEW p \in 1..Len(h)
      PROVE  Settled(g, p)
  <2>1. Settled(h, p)
    BY <1>3 DEF Sound
  <2>2. ASSUME h[p].type = "assistant", NEW i \in 1..h[p].calls
        PROVE  ResultAt(g, p, i)
    <3>1. p + i \in 1..Len(h) /\ h[p + i].type = "result" /\ h[p + i].call = <<p, i>>
      BY <2>1, <2>2, CallsType DEF Settled, ResultAt
    <3> QED
      BY <1>2, <3>1 DEF ResultAt
  <2> QED
    BY <1>2, <2>2 DEF Settled
<1>4. Rooted(g)
  <2> SUFFICES ASSUME NEW q \in 1..Len(g), g[q].type = "result"
               PROVE  \E p \in Responses(g) : \E i \in 1..g[p].calls :
                        g[q].call = <<p, i>> /\ q = p + i
    BY DEF Rooted
  <2>1. q \in 1..Len(h) /\ g[q] = h[q]
    BY <1>1, <1>2
  <2>2. PICK p \in Responses(h) : \E i \in 1..h[p].calls : h[q].call = <<p, i>> /\ q = p + i
    BY <2>1 DEF Sound, Rooted
  <2>3. p \in Responses(g) /\ g[p] = h[p]
    BY <1>2 DEF Responses
  <2> QED
    BY <2>1, <2>2, <2>3
<1>5. Sound(g, at)
  BY <1>2, <1>3, <1>4 DEF Sound
<1>6. Unfinished(g, [at |-> at, size |-> size, next |-> 1])
  BY <1>1, <1>2 DEF Unfinished
<1>7. \A p \in 1..Len(h) : CallsAt(g, p) = CallsAt(h, p)
  BY <1>2 DEF CallsAt
<1>8. CallsAt(g, at) = {<<at, i>> : i \in 1..size}
  BY <1>1, <1>2 DEF CallsAt
<1>9. 1..Len(g) = 1..Len(h) \cup {at} /\ at \notin 1..Len(h)
  BY <1>2
<1>10. Proposed(g) = Proposed(h) \cup {<<at, i>> : i \in 1..size}
  <2>1. Proposed(g) = Proposed(h) \cup CallsAt(g, at)
    BY <1>7, <1>9 DEF Proposed
  <2> QED
    BY <1>8, <2>1
<1>11. Answered(g) = Answered(h)
  BY <1>1, <1>2, <1>9 DEF Answered
<1>12. Ran(g) = Ran(h)
  BY <1>1, <1>2, <1>9 DEF Ran
<1> QED
  BY <1>5, <1>6, <1>10, <1>11, <1>12 DEF g, m

\* The result of the next call of an unfinished response.
LEMMA NextResult ==
  ASSUME NEW h \in Seq(Messages), NEW b \in [at : Nat, size : Nat, next : Nat],
         Sound(h, b.at), Unfinished(h, b), b.next <= b.size, NEW ran \in BOOLEAN
  PROVE  LET call == <<b.at, b.next>>
             g == Append(h, ToolResult(call, ran))
         IN  /\ Sound(g, b.at)
             /\ Unfinished(g, [b EXCEPT !.next = b.next + 1])
             /\ Proposed(g) = Proposed(h)
             /\ Answered(g) = Answered(h) \cup {call}
             /\ Ran(g) = Ran(h) \cup (IF ran THEN {call} ELSE {})
             /\ call \in Proposed(h) \ Answered(h)
<1> DEFINE call == <<b.at, b.next>>
           m == ToolResult(call, ran)
           g == Append(h, m)
<1>1. m \in Messages /\ m.type = "result" /\ m.call = call /\ m.ran = ran
  BY DEF ToolResult, Messages, CallIds
<1>2. /\ b.at \in Nat /\ b.size \in Nat /\ b.next \in Nat
      /\ b.at >= 1 /\ b.next >= 1 /\ Len(h) = b.at + b.next - 1 /\ Len(h) \in Nat
  BY DEF Unfinished
<1>3. /\ g \in Seq(Messages) /\ Len(g) = b.at + b.next
      /\ g[b.at + b.next] = m
      /\ \A p \in 1..Len(h) : g[p] = h[p]
  BY <1>1, <1>2
<1>4. 1..Len(g) = 1..Len(h) \cup {b.at + b.next} /\ b.at + b.next \notin 1..Len(h)
  BY <1>2, <1>3
<1> HIDE DEF m, g
<1>5. ASSUME NEW p \in 1..Len(h), NEW i \in Nat, i >= 1, ResultAt(h, p, i)
      PROVE  ResultAt(g, p, i)
  <2>1. p + i \in 1..Len(h)
    BY <1>5 DEF ResultAt
  <2> QED
    BY <1>3, <1>4, <1>5, <2>1 DEF ResultAt
<1>6. ASSUME NEW p \in 1..Len(g), p # b.at
      PROVE  Settled(g, p)
  <2>1. CASE p \in 1..Len(h)
    <3>1. Settled(h, p) /\ g[p] = h[p]
      BY <1>3, <1>6, <2>1 DEF Sound
    <3>2. h[p].type = "assistant" => h[p].calls \in Nat
      BY <2>1, CallsType
    <3> QED
      BY <1>5, <2>1, <3>1, <3>2 DEF Settled
  <2>2. CASE p \notin 1..Len(h)
    BY <1>1, <1>3, <1>4, <1>6, <2>2 DEF Settled
  <2> QED
    BY <2>1, <2>2
<1>7. b.at \in Responses(g) /\ g[b.at] = h[b.at] /\ h[b.at].calls = b.size
  BY <1>3, <1>4 DEF Unfinished, Responses
<1>8. Rooted(g)
  <2> SUFFICES ASSUME NEW q \in 1..Len(g), g[q].type = "result"
               PROVE  \E p \in Responses(g) : \E i \in 1..g[p].calls :
                        g[q].call = <<p, i>> /\ q = p + i
    BY DEF Rooted
  <2>1. CASE q \in 1..Len(h)
    <3>1. g[q] = h[q]
      BY <1>3, <2>1
    <3>2. PICK p \in Responses(h) : \E i \in 1..h[p].calls : h[q].call = <<p, i>> /\ q = p + i
      BY <2>1, <3>1 DEF Sound, Rooted
    <3>3. p \in Responses(g) /\ g[p] = h[p]
      BY <1>3, <1>4 DEF Responses
    <3> QED
      BY <3>1, <3>2, <3>3
  <2>2. CASE q \notin 1..Len(h)
    <3>1. q = b.at + b.next /\ g[q].call = <<b.at, b.next>>
      BY <1>1, <1>3, <1>4, <2>2
    <3>2. b.next \in 1..g[b.at].calls
      BY <1>2, <1>7
    <3> QED
      BY <1>7, <3>1, <3>2
  <2> QED
    BY <2>1, <2>2
<1>9. Sound(g, b.at)
  BY <1>6, <1>8 DEF Sound
<1>10. Unfinished(g, [b EXCEPT !.next = b.next + 1])
  <2> DEFINE c == [b EXCEPT !.next = b.next + 1]
  <2>1. c.at = b.at /\ c.size = b.size /\ c.next = b.next + 1
    OBVIOUS
  <2> HIDE DEF c
  <2>2. ASSUME NEW i \in 1..(c.next - 1)
        PROVE  ResultAt(g, c.at, i)
    <3>1. CASE i = b.next
      BY <1>1, <1>2, <1>3, <2>1, <3>1, SMTT(30) DEF ResultAt
    <3>2. CASE i # b.next
      <4>1. i \in 1..(b.next - 1)
        BY <1>2, <2>1, <3>2
      <4>2. ResultAt(h, b.at, i) /\ b.at \in 1..Len(h)
        BY <4>1 DEF Unfinished
      <4> QED
        BY <1>5, <2>1, <4>2, <4>1, <1>2
    <3> QED
      BY <3>1, <3>2
  <2>3. c.at \in 1..Len(g) /\ g[c.at].type = "assistant" /\ g[c.at].calls = c.size
    BY <1>4, <1>7, <2>1 DEF Responses
  <2>4. c.next >= 1 /\ c.next <= c.size + 1 /\ Len(g) = c.at + c.next - 1
    BY <1>2, <1>3, <2>1
  <2>5. Unfinished(g, c)
    BY <2>2, <2>3, <2>4 DEF Unfinished
  <2> QED
    BY <2>5 DEF c
<1>11. Proposed(g) = Proposed(h)
  <2>1. \A p \in 1..Len(h) : CallsAt(g, p) = CallsAt(h, p)
    BY <1>3 DEF CallsAt
  <2>2. CallsAt(g, b.at + b.next) = {}
    BY <1>1, <1>3 DEF CallsAt
  <2> QED
    BY <1>4, <2>1, <2>2 DEF Proposed
<1> DEFINE last == b.at + b.next
<1>12. Answered(g) = Answered(h) \cup {call}
  <2> DEFINE old == {q \in 1..Len(h) : h[q].type = "result"}
             new == {q \in 1..Len(g) : g[q].type = "result"}
  <2>1. new = old \cup {last} /\ (\A q \in old : g[q].call = h[q].call) /\ g[last].call = call
    BY <1>1, <1>3, <1>4
  <2>2. Answered(h) = {h[q].call : q \in old} /\ Answered(g) = {g[q].call : q \in new}
    BY DEF Answered
  <2> HIDE DEF last, call, old, new
  <2> QED
    BY <2>1, <2>2
<1>13. Ran(g) = Ran(h) \cup (IF ran THEN {call} ELSE {})
  <2> DEFINE old == {q \in 1..Len(h) : h[q].type = "result" /\ h[q].ran}
             new == {q \in 1..Len(g) : g[q].type = "result" /\ g[q].ran}
  <2>1. /\ new = old \cup (IF ran THEN {last} ELSE {})
        /\ \A q \in old : g[q].call = h[q].call
        /\ g[last].call = call
    BY <1>1, <1>3, <1>4
  <2>2. Ran(h) = {h[q].call : q \in old} /\ Ran(g) = {g[q].call : q \in new}
    BY DEF Ran
  <2> HIDE DEF last, call, old, new
  <2> QED
    BY <2>1, <2>2
<1>14. call \in Proposed(h)
  <2>1. call \in CallsAt(h, b.at) /\ b.at \in 1..Len(h)
    BY <1>2 DEF CallsAt, Unfinished
  <2> QED
    BY <2>1 DEF Proposed
<1>15. call \notin Answered(h)
  <2> SUFFICES ASSUME NEW q \in 1..Len(h), h[q].type = "result", h[q].call = call
               PROVE  FALSE
    BY DEF Answered
  <2>1. PICK p \in Responses(h) : \E i \in 1..h[p].calls : h[q].call = <<p, i>> /\ q = p + i
    BY DEF Sound, Rooted
  <2>2. q = b.at + b.next
    BY <2>1
  <2> QED
    BY <1>4, <2>2
<1> QED
  BY <1>9, <1>10, <1>11, <1>12, <1>13, <1>14, <1>15 DEF g, m

\* A response whose last call is answered leaves a settled history.
LEMMA LastResult ==
  ASSUME NEW h \in Seq(Messages), NEW b \in [at : Nat, size : Nat, next : Nat],
         Sound(h, b.at), Unfinished(h, b), b.next > b.size
  PROVE  Sound(h, 0)
<1>1. b.next - 1 = b.size
  BY DEF Unfinished
<1>2. Settled(h, b.at)
  BY <1>1 DEF Settled, Unfinished
<1> QED
  BY <1>2 DEF Sound

\* So does a batch cut short, once the rest of its calls are answered unrun.
LEMMA FilledIn ==
  ASSUME NEW h \in Seq(Messages), NEW t \in Seq(Messages),
         NEW at \in Nat, NEW size \in Nat, NEW next \in Nat, next <= size,
         Sound(h, at), Unfinished(h, [at |-> at, size |-> size, next |-> next]),
         Len(t) = size - next + 1,
         \A i \in 1..Len(t) : t[i] = ToolResult(<<at, next + i - 1>>, FALSE)
  PROVE  /\ Sound(h \o t, 0)
         /\ Proposed(h \o t) = Proposed(h)
         /\ Ran(h \o t) = Ran(h)
<1> DEFINE g == h \o t
           b == [at |-> at, size |-> size, next |-> next]
<1>a. b.at = at /\ b.size = size /\ b.next = next
  OBVIOUS
<1>b. Unfinished(h, b)
  OBVIOUS
<1> HIDE DEF b
<1>1. /\ at >= 1 /\ next >= 1 /\ Len(h) = at + next - 1 /\ Len(h) \in Nat
      /\ at \in 1..Len(h) /\ h[at].type = "assistant" /\ h[at].calls = size
      /\ \A i \in 1..(next - 1) : ResultAt(h, at, i)
  BY <1>a, <1>b DEF Unfinished
<1>3. Len(g) = at + size /\ \A p \in 1..Len(h) : p \in 1..Len(g) /\ g[p] = h[p]
  <2>1. Len(g) = Len(h) + Len(t) /\ Len(t) \in Nat /\ \A p \in 1..Len(h) : g[p] = h[p]
    BY OldPlaces
  <2>2. Len(h) + Len(t) = at + size
    BY <1>1
  <2> HIDE DEF g
  <2> QED
    BY <1>1, <2>1, <2>2
<1>4. ASSUME NEW q \in 1..Len(g), q \notin 1..Len(h)
      PROVE  /\ g[q].type = "result" /\ g[q].call = <<at, q - at>> /\ g[q].ran = FALSE
             /\ q - at \in next..size
  <2>1. q - Len(h) \in 1..Len(t) /\ q \in Nat
    BY <1>1, <1>3, <1>4
  <2>2. g[q] = t[q - Len(h)]
    BY <1>1, <1>4, <2>1, OldPlaces, SMTT(30)
  <2>3. g[q] = ToolResult(<<at, next + (q - Len(h)) - 1>>, FALSE)
    BY <2>1, <2>2
  <2>4. next + (q - Len(h)) - 1 = q - at
    BY <1>1, <2>1
  <2>5. g[q] = ToolResult(<<at, q - at>>, FALSE)
    BY <2>3, <2>4
  <2> QED
    BY <1>1, <2>1, <2>5 DEF ToolResult
<1> HIDE DEF g
<1>5. ASSUME NEW p \in 1..Len(h), NEW i \in Nat, i >= 1, ResultAt(h, p, i)
      PROVE  ResultAt(g, p, i)
  <2>1. p + i \in 1..Len(h)
    BY <1>5 DEF ResultAt
  <2> QED
    BY <1>3, <1>5, <2>1 DEF ResultAt
<1>6. at \in Responses(g) /\ g[at] = h[at] /\ g[at].calls = size
  BY <1>1, <1>3 DEF Responses
<1>7. ASSUME NEW p \in 1..Len(g)
      PROVE  Settled(g, p)
  <2>1. CASE p = at
    <3>1. ASSUME NEW i \in 1..size
          PROVE  ResultAt(g, at, i)
      <4>1. CASE i < next
        BY <1>1, <1>5, <4>1
      <4>2. CASE ~(i < next)
        <5> DEFINE q == at + i
        <5>1. q \in 1..Len(g) /\ q \notin 1..Len(h) /\ q - at = i
          BY <1>1, <1>3, <4>2
        <5> HIDE DEF q
        <5>2. g[q].type = "result" /\ g[q].call = <<at, i>>
          BY <1>4, <5>1
        <5>3. q <= Len(g)
          BY <1>1, <1>3, <5>1
        <5> QED
          BY <5>2, <5>3 DEF ResultAt, q
      <4> QED
        BY <4>1, <4>2
    <3> QED
      BY <1>6, <2>1, <3>1 DEF Settled
  <2>2. CASE p # at /\ p \in 1..Len(h)
    <3>1. Settled(h, p) /\ g[p] = h[p]
      BY <1>3, <2>2 DEF Sound
    <3>2. h[p].type = "assistant" => h[p].calls \in Nat
      BY <1>1, <2>2, CallsType
    <3> QED
      BY <1>5, <2>2, <3>1, <3>2 DEF Settled
  <2>3. CASE p \notin 1..Len(h)
    BY <1>4, <2>3 DEF Settled
  <2> QED
    BY <2>1, <2>2, <2>3
<1>8. Rooted(g)
  <2> SUFFICES ASSUME NEW q \in 1..Len(g), g[q].type = "result"
               PROVE  \E p \in Responses(g) : \E i \in 1..g[p].calls :
                        g[q].call = <<p, i>> /\ q = p + i
    BY DEF Rooted
  <2>1. CASE q \in 1..Len(h)
    <3>1. g[q] = h[q]
      BY <1>3, <2>1
    <3>2. PICK p \in Responses(h) : \E i \in 1..h[p].calls :
            h[q].call = <<p, i>> /\ q = p + i
      BY <2>1, <3>1 DEF Sound, Rooted
    <3>3. p \in Responses(g) /\ g[p] = h[p]
      BY <1>1, <1>3 DEF Responses
    <3> QED
      BY <3>1, <3>2, <3>3
  <2>2. CASE q \notin 1..Len(h)
    <3> DEFINE i == q - at
    <3>1. i \in next..size /\ g[q].call = <<at, i>>
      BY <1>4, <2>2
    <3>2. i \in 1..size /\ q = at + i
      BY <1>1, <1>3, <3>1
    <3> HIDE DEF i
    <3> QED
      BY <1>6, <3>1, <3>2
  <2> QED
    BY <2>1, <2>2
<1>9. Sound(g, 0)
  BY <1>7, <1>8 DEF Sound
<1>10. Proposed(g) = Proposed(h)
  <2>1. \A p \in 1..Len(h) : CallsAt(g, p) = CallsAt(h, p)
    BY <1>3 DEF CallsAt
  <2>2. \A p \in 1..Len(g) : p \notin 1..Len(h) => CallsAt(g, p) = {}
    BY <1>4 DEF CallsAt
  <2> QED
    BY <1>3, <2>1, <2>2 DEF Proposed
<1>11. Ran(g) = Ran(h)
  <2> DEFINE old == {q \in 1..Len(h) : h[q].type = "result" /\ h[q].ran}
             new == {q \in 1..Len(g) : g[q].type = "result" /\ g[q].ran}
  <2>1. new = old /\ \A q \in old : g[q].call = h[q].call
    BY <1>3, <1>4
  <2>2. Ran(h) = {h[q].call : q \in old} /\ Ran(g) = {g[q].call : q \in new}
    BY DEF Ran
  <2> HIDE DEF old, new
  <2> QED
    BY <2>1, <2>2
<1> QED
  BY <1>9, <1>10, <1>11 DEF g

-----------------------------------------------------------------------------
(* What a settled history means.                                           *)

\* Every call has a result, and it is the only one.
LEMMA SettledAnswers ==
  ASSUME NEW h \in Seq(Messages), Sound(h, 0)
  PROVE  Answered(h) = Proposed(h) /\ Unresolved(h) = {}
<1>1. ASSUME NEW p \in 1..Len(h), NEW c \in CallsAt(h, p)
      PROVE  \E q \in 1..Len(h) : h[q].type = "result" /\ h[q].call = c
  <2>1. PICK i \in 1..h[p].calls : h[p].type = "assistant" /\ c = <<p, i>>
    BY DEF CallsAt
  <2>2. ResultAt(h, p, i)
    BY <2>1 DEF Sound, Settled
  <2>3. p + i \in 1..Len(h)
    BY <2>1, <2>2, CallsType DEF ResultAt
  <2> QED
    BY <2>1, <2>2, <2>3 DEF ResultAt
<1>2. ASSUME NEW q \in 1..Len(h), h[q].type = "result"
      PROVE  h[q].call \in Proposed(h)
  <2>1. PICK p \in Responses(h) : \E i \in 1..h[p].calls : h[q].call = <<p, i>>
    BY <1>2 DEF Sound, Rooted
  <2>2. p \in 1..Len(h) /\ h[q].call \in CallsAt(h, p)
    BY <2>1 DEF Responses, CallsAt
  <2> QED
    BY <2>2 DEF Proposed
<1>3. Answered(h) = Proposed(h)
  BY <1>1, <1>2 DEF Answered, Proposed
<1>4. Unresolved(h) = {}
  BY <1>1 DEF Unresolved, ResultsFor
<1> QED
  BY <1>3, <1>4

LEMMA OneResult ==
  ASSUME NEW h \in Seq(Messages), Rooted(h), NEW p \in 1..Len(h), h[p].type = "result"
  PROVE  ResultsFor(h, h[p].call) = {p}
<1> SUFFICES ASSUME NEW q \in 1..Len(h), h[q].type = "result", h[q].call = h[p].call
             PROVE  q = p
  BY DEF ResultsFor
<1>1. PICK a \in Responses(h) : \E i \in 1..h[a].calls : h[p].call = <<a, i>> /\ p = a + i
  BY DEF Rooted
<1>2. PICK b \in Responses(h) : \E j \in 1..h[b].calls : h[q].call = <<b, j>> /\ q = b + j
  BY DEF Rooted
<1> QED
  BY <1>1, <1>2

-----------------------------------------------------------------------------
(* The steps of the loop, by what they do to the history.                  *)

BatchOpen == pc \in {"batch", "await_tool"}

\* Nothing that the history, the batch or the executor would show.
Bystander == UNCHANGED <<pc, log, batch, executed>>

\* Outside a batch: at most messages that are neither calls nor results.
Quiet ==
  /\ ~BatchOpen /\ ~BatchOpen' /\ UNCHANGED executed
  /\ \E tail \in Seq(Messages) : Harmless(tail) /\ log' = log \o tail

Opens ==
  /\ pc = "await_model" /\ pc' = "batch" /\ UNCHANGED executed
  /\ \E size \in Nat \ {0} :
       /\ log' = Append(log, AssistantMessage(size))
       /\ batch' = [at |-> Len(log) + 1, size |-> size, next |-> 1]

HandsOver ==
  /\ pc = "batch" /\ pc' = "await_tool" /\ batch.next <= batch.size
  /\ executed' = executed \cup {CurrentCall}
  /\ UNCHANGED <<log, batch>>

Returns ==
  /\ pc = "await_tool" /\ pc' = "batch"
  /\ log' = Append(log, ToolResult(CurrentCall, TRUE))
  /\ batch' = [batch EXCEPT !.next = batch.next + 1]
  /\ UNCHANGED executed

\* Cut short, or over with all its results.
Ends ==
  /\ pc = "batch" /\ ~BatchOpen' /\ UNCHANGED executed
  /\ \/ InBatch /\ log' = log \o SkippedResults /\ pc' \in {"done", "raised"}
     \/ BatchOver /\ UNCHANGED log

LEMMA HarmlessOne ==
  ASSUME NEW h \in Seq(Messages), NEW m \in Messages, m.type # "result",
         m.type = "assistant" => m.calls = 0
  PROVE  \E tail \in Seq(Messages) : Harmless(tail) /\ Append(h, m) = h \o tail
<1>1. <<m>> \in Seq(Messages) /\ Append(h, m) = h \o <<m>>
  BY AppendIsConcat
<1>2. Harmless(<<m>>)
  BY DEF Harmless
<1> QED
  BY <1>1, <1>2

LEMMA HarmlessNone ==
  ASSUME NEW h \in Seq(Messages)
  PROVE  \E tail \in Seq(Messages) : Harmless(tail) /\ h = h \o tail
<1>1. <<>> \in Seq(Messages) /\ h = h \o <<>> /\ Harmless(<<>>)
  BY DEF Harmless
<1> QED
  BY <1>1

LEMMA HarmlessInjection ==
  ASSUME TypeOK
  PROVE  Injected(steering) \in Seq(Messages) /\ Harmless(Injected(steering))
<1>1. Injected(steering) \in Seq(Messages)
  BY InjectedType DEF TypeOK
<1>2. \A j \in 1..Len(Injected(steering)) : Injected(steering)[j].type = "user"
  BY DEF TypeOK, Injected, UserMessage
<1> QED
  BY <1>1, <1>2 DEF Harmless

LEMMA HarmlessDrain ==
  ASSUME TypeOK, DrainSteering
  PROVE  \E tail \in Seq(Messages) : Harmless(tail) /\ log' = log \o tail
  BY HarmlessInjection DEF DrainSteering

\* The moves out of a batch that must not be refused.
LEMMA ReturnMoves ==
  ASSUME ToolReturns, StateAtPlace
  PROVE  pc' = "batch"
<1> DEFINE resolved == Fire(rs, "TOOL_RESULT_RESOLVED")
           r == IF batch.next = batch.size /\ steering # <<>>
                THEN Fire(resolved, "STEERING_ARRIVED") ELSE Fire(resolved, "CONTINUE")
<1>1. rs.state = "WAITING_TOOL"
  BY DEF ToolReturns, StateAtPlace
<1>2. resolved.state = "PROCESSING_TOOL_RESULT"
  BY <1>1, FireState, Rows
<1>3. r.state \in {"RUNNING", "STEERING"}
  BY <1>2, FireState, Rows
<1>4. Move(r, "batch")
  BY DEF ToolReturns
<1> HIDE DEF r
<1> QED
  BY <1>3, <1>4, AcceptedMove

LEMMA HandOverMoves ==
  ASSUME StartTool, TypeOK, StateAtPlace
  PROVE  pc' = "await_tool"
<1> DEFINE r == IF rs.state = "WAITING_TOOL" THEN rs
                ELSE Transition(rs, rs.seq, "TOOL_CALL_COMPLETE", NoStatus, CurrentCall)
<1>1. rs.state = "RUNNING" \/ rs.state = "WAITING_TOOL"
  BY DEF StartTool, InBatch, StateAtPlace, StateInBatch, TypeOK
<1>2. r.state = "WAITING_TOOL"
  <2>1. Transition(rs, rs.seq, "TOOL_CALL_COMPLETE", NoStatus, CurrentCall).state
          = Target(rs.state, "TOOL_CALL_COMPLETE")
    BY TransitionState
  <2> QED
    BY <1>1, <2>1, Rows
<1>3. Move(r, "await_tool")
  BY DEF StartTool, HandOver
<1> HIDE DEF r
<1> QED
  BY <1>2, <1>3, AcceptedMove

LEMMA OpeningMoves ==
  ASSUME ResponseTools, TypeOK, StateAtPlace
  PROVE  Opens
<1> DEFINE r == Transition(rs, rs.seq, "TOOL_CALL_COMPLETE", NoStatus, <<Len(log) + 1, 1>>)
<1>1. PICK size \in 1..MaxBatch :
        /\ CommitAssistant(size) /\ Move(r, "batch")
        /\ batch' = [at |-> Len(log) + 1, size |-> size, next |-> 1]
  BY DEF ResponseTools
<1>2. r.state = "WAITING_TOOL"
  <2>1. r.state = Target(rs.state, "TOOL_CALL_COMPLETE")
    BY TransitionState
  <2> QED
    BY <1>1, <2>1, Rows DEF StateAtPlace, CommitAssistant
<1> HIDE DEF r
<1>3. pc' = "batch"
  BY <1>1, <1>2, AcceptedMove
<1>4. size \in Nat \ {0}
  BY LimitTypes
<1> QED
  BY <1>1, <1>3, <1>4 DEF CommitAssistant, Opens

\* Every step of the loop is of one of these kinds.
LEMMA StepKinds ==
  ASSUME TypeOK, StateAtPlace, [Next]_vars
  PROVE  Bystander \/ Quiet \/ Opens \/ HandsOver \/ Returns \/ Ends
<1> USE DEF runVars, counters, clock, queueVars
<1>a. log \in Seq(Messages)
  BY DEF TypeOK
<1>1. CASE UNCHANGED vars
  BY <1>1 DEF vars, Bystander
<1>2. CASE StartRun
  <2>1. [type |-> "user", src |-> Task, run |-> runs + 1] \in Messages
    BY DEF TypeOK, Messages, Sources
  <2> QED
    BY <1>2, <1>a, <2>1, HarmlessOne DEF StartRun, NewRun, RunOver, Quiet, BatchOpen
<1>3. CASE ContinueRun
  BY <1>3, <1>a, HarmlessNone DEF ContinueRun, NewRun, RunOver, Quiet, BatchOpen
<1>4. CASE TopAbort \/ TopDeadline \/ TopMaxTurns
  BY <1>4, <1>a, HarmlessNone, MoveGoal
     DEF TopAbort, TopDeadline, TopMaxTurns, AbortRun, FinishBudget, Quiet, BatchOpen
<1>5. CASE RequestModel \/ ContextOverflow
  BY <1>5, HarmlessDrain, MoveGoal
     DEF RequestModel, ContextOverflow, MayBeginTurn, Quiet, BatchOpen
<1>6. CASE ModelTimeout \/ ModelCancelled \/ ModelFails
  BY <1>6, <1>a, HarmlessNone, MoveGoal
     DEF ModelTimeout, ModelCancelled, ModelFails, AbortRun,
         FinishBudget, Quiet, BatchOpen
<1>7. CASE ModelRetry \/ BackoffOver
  BY <1>7, <1>a, HarmlessNone DEF ModelRetry, RetryAfter, BackoffOver, Quiet, BatchOpen
<1>8. CASE ResponseError \/ ResponseCancelled \/ ResponseFinal
  <2>1. AssistantMessage(0) \in Messages /\ AssistantMessage(0).type = "assistant"
        /\ AssistantMessage(0).calls = 0
    BY DEF AssistantMessage, Messages
  <2>2. CommitAssistant(0) /\ pc' \in {"done", "raised", "turn_end"}
    BY <1>8, MoveGoal DEF ResponseError, ResponseCancelled, ResponseFinal, AbortRun
  <2> QED
    BY <1>a, <2>1, <2>2, HarmlessOne DEF CommitAssistant, Quiet, BatchOpen
<1>9. CASE ResponseTools
  BY <1>9, OpeningMoves
<1>10. CASE BatchAbort \/ BatchBudget
  BY <1>10, MoveGoal DEF BatchAbort, BatchBudget, InBatch, AbortRun, FinishBudget, Ends, BatchOpen
<1>11. CASE StartTool
  BY <1>11, HandOverMoves DEF StartTool, HandOver, InBatch, HandsOver
<1>12. CASE ToolReturns
  BY <1>12, ReturnMoves DEF ToolReturns, Returns
<1>13. CASE BatchOverAbort \/ BatchOverContinue
  BY <1>13, MoveGoal DEF BatchOverAbort, BatchOverContinue, BatchOver, AbortRun, Ends, BatchOpen
<1>14. CASE TurnSteering
  BY <1>14, HarmlessDrain, MoveGoal DEF TurnSteering, Quiet, BatchOpen
<1>15. CASE TurnFollowUp
  <2>1. Head(followUps) \in FollowUps
    BY <1>15 DEF TurnFollowUp, TypeOK
  <2>2. UserMessage(Head(followUps)) \in Messages
        /\ UserMessage(Head(followUps)).type = "user"
    BY <2>1 DEF UserMessage, Messages, Sources, TypeOK
  <2> QED
    BY <1>15, <1>a, <2>2, HarmlessOne, MoveGoal DEF TurnFollowUp, Quiet, BatchOpen
<1>16. CASE TurnFinish
  BY <1>16, <1>a, HarmlessNone, MoveGoal DEF TurnFinish, Quiet, BatchOpen
<1>17. CASE SubmitSteering \/ SubmitFollowUp \/ RequestCancel \/ Tick \/ ToolOverruns
  BY <1>17 DEF SubmitSteering, SubmitFollowUp, RequestCancel, Tick, ToolOverruns, Passes,
          Bystander
<1> QED
  BY <1>1, <1>2, <1>3, <1>4, <1>5, <1>6, <1>7, <1>8, <1>9, <1>10, <1>11, <1>12, <1>13,
     <1>14, <1>15, <1>16, <1>17 DEF Next, LoopStep, Response

-----------------------------------------------------------------------------
(* The inductive invariant.                                                *)

\* The executor has had the calls whose results say so, and the one under way.
EffectsKnown ==
  executed = Ran(log) \cup (IF pc = "await_tool" THEN {CurrentCall} ELSE {})

\* Where a request is built or under way, somebody but the model spoke last.
TailReady ==
  pc \in {"top", "await_model", "backoff"} =>
    Len(log) > 0 /\ log[Len(log)].type # "assistant"

Paired ==
  /\ IF BatchOpen THEN Sound(log, batch.at) /\ Unfinished(log, batch) ELSE Sound(log, 0)
  /\ EffectsKnown

LEMMA PairedInit ==
  ASSUME Init
  PROVE  Paired /\ TailReady
<1>1. log = <<>> /\ pc = "idle" /\ executed = {}
  BY DEF Init
<1>2. Sound(log, 0)
  BY <1>1 DEF Sound, Rooted
<1>3. Ran(log) = {}
  BY <1>1 DEF Ran
<1> QED
  BY <1>1, <1>2, <1>3 DEF Paired, EffectsKnown, TailReady, BatchOpen

\* However a batch is over, its responses are all answered and nothing more ran.
LEMMA EndsSettled ==
  ASSUME TypeOK, Paired, Ends
  PROVE  Sound(log', 0) /\ Ran(log') = Ran(log) /\ Proposed(log') = Proposed(log)
<1>1. Sound(log, batch.at) /\ Unfinished(log, batch)
  BY DEF Ends, Paired, BatchOpen
<1>2. log \in Seq(Messages) /\ batch \in [at : Nat, size : Nat, next : Nat]
  BY DEF TypeOK
<1>3. CASE BatchOver /\ UNCHANGED log
  BY <1>1, <1>2, <1>3, LastResult DEF BatchOver
<1>4. CASE InBatch /\ log' = log \o SkippedResults
  <2> DEFINE at == batch.at
             size == batch.size
             next == batch.next
             n == size - next + 1
  <2>1. at \in Nat /\ size \in Nat /\ next \in Nat /\ next <= size
    BY <1>2, <1>4 DEF InBatch
  <2>2. batch = [at |-> at, size |-> size, next |-> next]
    BY <1>2
  <2>3. SkippedResults = [i \in 1..n |-> ToolResult(<<at, next + i - 1>>, FALSE)]
    BY DEF SkippedResults
  <2>4. SkippedResults \in Seq(Messages)
    BY <1>4, SkippedResultsType
  <2>5. Sound(log, at) /\ Unfinished(log, [at |-> at, size |-> size, next |-> next])
    BY <1>1, <2>2
  <2> HIDE DEF at, size, next
  <2>6. Len(SkippedResults) = size - next + 1
    BY <2>1, <2>3
  <2>7. \A i \in 1..Len(SkippedResults) :
          SkippedResults[i] = ToolResult(<<at, next + i - 1>>, FALSE)
    BY <2>1, <2>3, <2>6
  <2> QED
    BY <1>2, <1>4, <2>1, <2>4, <2>5, <2>6, <2>7, FilledIn
<1> QED
  BY <1>3, <1>4 DEF Ends

LEMMA PairedStep ==
  ASSUME TypeOK, StateAtPlace, Paired, [Next]_vars
  PROVE  Paired'
<1>a. log \in Seq(Messages) /\ batch \in [at : Nat, size : Nat, next : Nat]
  BY DEF TypeOK
<1>1. CASE Bystander
  BY <1>1 DEF Bystander, Paired, EffectsKnown, CurrentCall, BatchOpen
<1>2. CASE Quiet
  <2>1. PICK tail \in Seq(Messages) : Harmless(tail) /\ log' = log \o tail
    BY <1>2 DEF Quiet
  <2>2. Sound(log', 0)
    BY <1>2, <1>a, <2>1, HarmlessTail DEF Quiet, Paired
  <2>3. Ran(log') = Ran(log)
    BY <1>a, <2>1, HarmlessSets
  <2> QED
    BY <1>2, <2>2, <2>3 DEF Quiet, Paired, EffectsKnown, BatchOpen
<1>3. CASE Opens
  <2>1. PICK size \in Nat \ {0} :
          /\ log' = Append(log, AssistantMessage(size))
          /\ batch' = [at |-> Len(log) + 1, size |-> size, next |-> 1]
    BY <1>3 DEF Opens
  <2>2. Sound(log, 0)
    BY <1>3 DEF Opens, Paired, BatchOpen
  <2>3. batch'.at = Len(log) + 1
    BY <2>1
  <2>4. Sound(log', batch'.at) /\ Unfinished(log', batch') /\ Ran(log') = Ran(log)
    BY <1>a, <2>1, <2>2, <2>3, NewBatch
  <2> QED
    BY <1>3, <2>4 DEF Opens, Paired, EffectsKnown, BatchOpen
<1>4. CASE HandsOver
  BY <1>4 DEF HandsOver, Paired, EffectsKnown, CurrentCall, BatchOpen
<1>5. CASE Returns
  <2>1. Sound(log, batch.at) /\ Unfinished(log, batch) /\ batch.next <= batch.size
    BY <1>5 DEF Returns, Paired, BatchOpen, StateAtPlace
  <2>2. /\ log' = Append(log, ToolResult(<<batch.at, batch.next>>, TRUE))
        /\ batch' = [batch EXCEPT !.next = batch.next + 1]
    BY <1>5 DEF Returns, CurrentCall
  <2>3. batch'.at = batch.at
    BY <1>a, <2>2
  <2>4. /\ Sound(log', batch.at) /\ Unfinished(log', batch')
        /\ Ran(log') = Ran(log) \cup {<<batch.at, batch.next>>}
    BY <1>a, <2>1, <2>2, NextResult
  <2>5. executed' = Ran(log')
    BY <1>5, <2>4 DEF Returns, Paired, EffectsKnown, CurrentCall
  <2> QED
    BY <1>5, <2>3, <2>4, <2>5 DEF Returns, Paired, EffectsKnown, BatchOpen
<1>6. CASE Ends
  BY <1>6, EndsSettled DEF Ends, Paired, EffectsKnown, BatchOpen
<1> QED
  BY <1>1, <1>2, <1>3, <1>4, <1>5, <1>6, StepKinds

\* An injection ends in a user message, unless there was nothing to inject.
LEMMA InjectedTail ==
  ASSUME TypeOK
  PROVE  LET g == log \o Injected(steering)
         IN  /\ g \in Seq(Messages) /\ Len(g) >= Len(log)
             /\ steering # <<>> => Len(g) > 0 /\ g[Len(g)].type = "user"
             /\ steering = <<>> => g = log
<1> DEFINE g == log \o Injected(steering)
<1>1. Len(Injected(steering)) = Len(steering) /\ Len(steering) \in Nat
  BY DEF TypeOK, Injected
<1>2. log \in Seq(Messages) /\ Injected(steering) \in Seq(Messages)
  BY InjectedType DEF TypeOK
<1>3. g \in Seq(Messages) /\ Len(g) = Len(log) + Len(steering) /\ Len(log) \in Nat
  <2> DEFINE t == Injected(steering)
  <2>1. t \in Seq(Messages) /\ Len(t) = Len(steering)
    BY <1>1, <1>2
  <2> HIDE DEF t
  <2>2. log \o t \in Seq(Messages) /\ Len(log \o t) = Len(log) + Len(t) /\ Len(log) \in Nat
    BY <1>2, <2>1, OldPlaces
  <2> QED
    BY <2>1, <2>2 DEF t
<1>4. CASE steering # <<>>
  <2>1. Len(steering) >= 1
    BY <1>1, <1>4 DEF TypeOK
  <2>2. g[Len(g)] = Injected(steering)[Len(steering)]
    BY <1>1, <1>2, <1>3, <2>1, OldPlaces
  <2>3. Injected(steering)[Len(steering)].type = "user"
    BY <1>1, <2>1 DEF Injected, UserMessage
  <2> QED
    BY <1>1, <1>3, <1>4, <2>1, <2>2, <2>3
<1>5. CASE steering = <<>>
  <2>1. Injected(steering) = <<>>
    BY <1>1, <1>2, <1>5
  <2>2. g = log
    BY <1>2, <2>1
  <2> QED
    BY <1>3, <1>5, <2>2
<1> QED
  BY <1>4, <1>5

LEMMA DrainTail ==
  ASSUME TypeOK, DrainSteering, steering # <<>>
  PROVE  Len(log') > 0 /\ log'[Len(log')].type = "user"
  BY InjectedTail DEF DrainSteering

LEMMA TailStep ==
  ASSUME TypeOK, StateAtPlace, Paired, TailReady, [Next]_vars
  PROVE  TailReady'
<1> USE DEF runVars, counters, clock, queueVars
<1>a. log \in Seq(Messages)
  BY DEF TypeOK
<1>1. CASE UNCHANGED vars
  BY <1>1 DEF vars, TailReady
<1>2. CASE StartRun \/ TurnFollowUp
  <2>1. \E m : log' = Append(log, m) /\ m.type = "user"
    BY <1>2 DEF StartRun, TurnFollowUp, UserMessage
  <2> QED
    BY <1>a, <2>1 DEF TailReady
<1>3. CASE ContinueRun
  BY <1>3, <1>a DEF ContinueRun, HistoryValid, TailReady
<1>4. CASE RequestModel
  <2>1. log' \in Seq(Messages) /\ HistoryValid(log')
    BY <1>4, DrainType DEF RequestModel
  <2> QED
    BY <2>1 DEF HistoryValid, TailReady
<1>5. CASE TurnSteering
  BY <1>5, DrainTail DEF TurnSteering, TailReady
<1>6. CASE ModelRetry \/ BackoffOver
  BY <1>6 DEF ModelRetry, RetryAfter, BackoffOver, TailReady
<1>7. CASE BatchOverContinue
  <2>1. /\ Unfinished(log, batch) /\ batch.next > batch.size /\ batch.size >= 1 /\ log' = log
        /\ batch.at \in Nat /\ batch.size \in Nat /\ batch.next \in Nat
    BY <1>7 DEF BatchOverContinue, BatchOver, Paired, BatchOpen, StateAtPlace, TypeOK
  <2>2. Len(log) = batch.at + batch.size /\ batch.size \in 1..(batch.next - 1)
    BY <2>1 DEF Unfinished
  <2>3. ResultAt(log, batch.at, batch.size)
    BY <2>1, <2>2 DEF Unfinished
  <2>4. log[Len(log)].type = "result" /\ Len(log) > 0
    BY <2>1, <2>2, <2>3 DEF ResultAt
  <2> QED
    BY <2>1, <2>4 DEF TailReady
<1>8. CASE \/ TopAbort \/ TopDeadline \/ TopMaxTurns \/ ContextOverflow
           \/ ModelTimeout \/ ModelCancelled \/ ModelFails
           \/ Response \/ BatchAbort \/ BatchBudget \/ StartTool \/ ToolReturns
           \/ BatchOverAbort \/ TurnFinish
  <2>1. pc' \in {"done", "raised", "turn_end", "batch", "await_tool"}
    BY <1>8, MoveGoal
       DEF TopAbort, TopDeadline, TopMaxTurns, ContextOverflow, ModelTimeout, ModelCancelled,
           ModelFails, Response, ResponseError, ResponseCancelled,
           ResponseFinal, ResponseTools, BatchAbort, BatchBudget, StartTool, HandOver,
           ToolReturns, BatchOverAbort, TurnFinish, AbortRun, FinishBudget
  <2> QED
    BY <2>1 DEF TailReady
<1>9. CASE SubmitSteering \/ SubmitFollowUp \/ RequestCancel \/ Tick \/ ToolOverruns
  BY <1>9 DEF SubmitSteering, SubmitFollowUp, RequestCancel, Tick, ToolOverruns, Passes,
          TailReady
<1> QED
  BY <1>1, <1>2, <1>3, <1>4, <1>5, <1>6, <1>7, <1>8, <1>9 DEF Next, LoopStep

\* All that is known of a state of the loop.
LoopInv == TypeOK /\ StateAtPlace /\ Paired /\ TailReady

LEMMA AlwaysLoopInv == Spec => []LoopInv
<1>1. Init => LoopInv
  BY TypeInit, StateInit, PairedInit DEF LoopInv
<1>2. LoopInv /\ [Next]_vars => LoopInv'
  BY TypeStep, StateStep, PairedStep, TailStep DEF LoopInv
<1> QED
  BY <1>1, <1>2, PTL DEF Spec

-----------------------------------------------------------------------------
(* What follows of the history.                                            *)

\* The results of a response follow it, in the order of its calls and with
\* nothing in between, whatever is injected, skipped or cut short (loop.py).
THEOREM ResultsInPlace == Spec => []ResultsFollowCalls
<1>1. LoopInv => ResultsFollowCalls
  <2> SUFFICES ASSUME LoopInv, NEW p \in 1..Len(log), log[p].type = "assistant",
                      NEW i \in 1..log[p].calls, p + i <= Len(log)
               PROVE  log[p + i].type = "result" /\ log[p + i].call = <<p, i>>
    BY DEF ResultsFollowCalls
  <2>1. log \in Seq(Messages) /\ batch \in [at : Nat, size : Nat, next : Nat]
    BY DEF LoopInv, TypeOK
  <2>2. CASE BatchOpen /\ p = batch.at
    <3>1. Unfinished(log, batch)
      BY <2>2 DEF LoopInv, Paired
    <3>2. i \in 1..(batch.next - 1)
      BY <2>1, <2>2, <3>1 DEF Unfinished
    <3> QED
      BY <2>2, <3>1, <3>2 DEF Unfinished, ResultAt
  <2>3. CASE ~(BatchOpen /\ p = batch.at)
    <3>1. Settled(log, p)
      BY <2>1, <2>3 DEF LoopInv, Paired, Sound
    <3> QED
      BY <3>1 DEF Settled, ResultAt
  <2> QED
    BY <2>2, <2>3
<1> QED
  BY <1>1, AlwaysLoopInv, PTL

\* When a run is over every call it proposed has its one result, and a result
\* says that the call ran if and only if the executor has had it (loop.py).
THEOREM CallsAnswered == Spec => []EveryCallAnswered
<1>1. LoopInv => EveryCallAnswered
  <2> SUFFICES ASSUME LoopInv
               PROVE  EveryCallAnswered
    OBVIOUS
  <2>a. log \in Seq(Messages) /\ batch \in [at : Nat, size : Nat, next : Nat]
    BY DEF LoopInv, TypeOK
  <2>1. RunOver => Unresolved(log) = {}
    BY <2>a, SettledAnswers DEF LoopInv, Paired, BatchOpen, RunOver
  <2>2. ASSUME NEW p \in 1..Len(log), log[p].type = "result"
        PROVE  /\ ResultsFor(log, log[p].call) = {p}
               /\ log[p].ran <=> log[p].call \in executed
    <3>1. ResultsFor(log, log[p].call) = {p}
      BY <2>a, <2>2, OneResult DEF LoopInv, Paired, Sound
    <3>2. log[p].call \in Ran(log) <=> log[p].ran
      BY <2>2, <3>1 DEF Ran, ResultsFor
    <3>3. ASSUME pc = "await_tool"
          PROVE  log[p].call # CurrentCall
      <4>1. Sound(log, batch.at) /\ Unfinished(log, batch) /\ batch.next <= batch.size
        BY <3>3 DEF LoopInv, Paired, BatchOpen, StateAtPlace
      <4>2. CurrentCall \notin Answered(log)
        BY <2>a, <4>1, NextResult DEF CurrentCall
      <4> QED
        BY <2>2, <4>2 DEF Answered
    <3> QED
      BY <3>1, <3>2, <3>3 DEF LoopInv, Paired, EffectsKnown
  <2> QED
    BY <2>1, <2>2 DEF EveryCallAnswered
<1> QED
  BY <1>1, AlwaysLoopInv, PTL

\* The history a request is built from, with the steering still to be injected
\* at the top of a turn, passes the validation of the context builder: no run
\* dies of a history the loop has built (loop.py, builder._validate_history).
THEOREM HistoriesReady == Spec => []HistoryReady
<1>1. LoopInv => HistoryReady
  <2> SUFFICES ASSUME LoopInv, pc \in {"top", "await_model", "backoff"}
               PROVE  IF pc = "top" THEN HistoryValid(log \o Injected(steering))
                                    ELSE HistoryValid(log)
    BY DEF HistoryReady
  <2> DEFINE g == log \o Injected(steering)
  <2>1. TypeOK /\ log \in Seq(Messages)
    BY DEF LoopInv, TypeOK
  <2>2. Sound(log, 0) /\ Len(log) > 0 /\ log[Len(log)].type # "assistant"
    BY DEF LoopInv, Paired, BatchOpen, TailReady
  <2>3. HistoryValid(log)
    BY <2>1, <2>2, SettledAnswers DEF HistoryValid
  <2>4. HistoryValid(g)
    <3>1. g \in Seq(Messages) /\ Sound(g, 0)
      BY <2>1, <2>2, HarmlessInjection, HarmlessTail, InjectedTail
    <3>2. Len(g) > 0 /\ g[Len(g)].type # "assistant"
      BY <2>1, <2>2, InjectedTail
    <3> HIDE DEF g
    <3> QED
      BY <3>1, <3>2, SettledAnswers DEF HistoryValid
  <2> QED
    BY <2>3, <2>4
<1> QED
  BY <1>1, AlwaysLoopInv, PTL

-----------------------------------------------------------------------------
(* The loop implements the ledger of calls.                                *)

LEMMA LedgerVars ==
  UNCHANGED Ledger!ledger <=> UNCHANGED <<Proposed(log), executed, Answered(log), ~RunOver>>
  BY DEF Ledger!ledger, Proposed, Answered

\* The abstract actions, over the history.
LEMMA LedgerActions ==
  /\ Ledger!Open <=> /\ RunOver /\ ~RunOver'
                     /\ UNCHANGED <<Proposed(log), executed, Answered(log)>>
  /\ Ledger!Propose <=> /\ ~RunOver /\ Answered(log) = Proposed(log)
                        /\ Proposed(log) \subseteq Proposed(log)'
                        /\ Proposed(log)' # Proposed(log)
                        /\ UNCHANGED <<executed, Answered(log), ~RunOver>>
  /\ Ledger!Start <=> /\ ~RunOver /\ executed \subseteq Answered(log)
                      /\ \E c \in Proposed(log) \ Answered(log) : executed' = executed \cup {c}
                      /\ UNCHANGED <<Proposed(log), Answered(log), ~RunOver>>
  /\ Ledger!Answer <=> /\ ~RunOver
                       /\ \E c \in executed \ Answered(log) :
                            Answered(log)' = Answered(log) \cup {c}
                       /\ UNCHANGED <<Proposed(log), executed, ~RunOver>>
  /\ Ledger!Close <=> /\ ~RunOver /\ RunOver' /\ executed \subseteq Answered(log)
                      /\ Answered(log)' = Proposed(log)
                      /\ UNCHANGED <<Proposed(log), executed>>
  BY DEF Ledger!Open, Ledger!Propose, Ledger!Start, Ledger!Answer, Ledger!Close, Ledger!Idle,
         Proposed, Answered

LEMMA RanAnswered ==
  ASSUME NEW h
  PROVE  Ran(h) \subseteq Answered(h)
  BY DEF Ran, Answered

LEMMA LedgerStep ==
  ASSUME LoopInv, LoopInv', [Next]_vars
  PROVE  [Ledger!Next]_(Ledger!ledger)
<1>a. /\ TypeOK /\ StateAtPlace /\ Paired /\ Paired'
      /\ log \in Seq(Messages) /\ log' \in Seq(Messages)
      /\ batch \in [at : Nat, size : Nat, next : Nat]
  BY DEF LoopInv, TypeOK
<1>b. pc # "await_tool" => executed \subseteq Answered(log)
  BY <1>a, RanAnswered DEF Paired, EffectsKnown
<1>c. ~BatchOpen' => Answered(log') = Proposed(log')
  BY <1>a, SettledAnswers DEF Paired
<1>d. BatchOpen => ~RunOver
  BY DEF BatchOpen, RunOver
<1>1. CASE Bystander
  BY <1>1, LedgerVars DEF Bystander, RunOver
<1>2. CASE Quiet
  <2>1. PICK tail \in Seq(Messages) : Harmless(tail) /\ log' = log \o tail
    BY <1>2 DEF Quiet
  <2>2. Proposed(log') = Proposed(log) /\ Answered(log') = Answered(log) /\ executed' = executed
    BY <1>2, <1>a, <2>1, HarmlessSets DEF Quiet
  <2>3. CASE RunOver' = RunOver
    BY <2>2, <2>3, LedgerVars
  <2>4. CASE RunOver /\ ~RunOver'
    BY <2>2, <2>4, LedgerActions DEF Ledger!Next
  <2>5. CASE ~RunOver /\ RunOver'
    <3>1. executed \subseteq Answered(log) /\ Answered(log') = Proposed(log')
      BY <1>2, <1>b, <1>c DEF Quiet, BatchOpen
    <3> QED
      BY <2>2, <2>5, <3>1, LedgerActions DEF Ledger!Next
  <2> QED
    BY <2>3, <2>4, <2>5 DEF RunOver
<1>3. CASE Opens
  <2>1. PICK size \in Nat \ {0} : log' = Append(log, AssistantMessage(size))
    BY <1>3 DEF Opens
  <2> DEFINE new == {<<Len(log) + 1, i>> : i \in 1..size}
  <2>2. Sound(log, 0) /\ ~RunOver /\ ~RunOver' /\ executed' = executed
    BY <1>3, <1>a DEF Opens, Paired, BatchOpen, RunOver
  <2>3. Proposed(log') = Proposed(log) \cup new /\ Answered(log') = Answered(log)
    BY <1>a, <2>1, <2>2, NewBatch
  <2>4. Answered(log) = Proposed(log)
    BY <1>a, <2>2, SettledAnswers
  <2>5. <<Len(log) + 1, 1>> \in new /\ <<Len(log) + 1, 1>> \notin Proposed(log)
    <3>1. \A p \in 1..Len(log) : <<Len(log) + 1, 1>> \notin CallsAt(log, p)
      BY <1>a DEF CallsAt
    <3> QED
      BY <3>1 DEF Proposed
  <2> HIDE DEF new
  <2>6. Ledger!Propose
    BY <2>2, <2>3, <2>4, <2>5, LedgerActions
  <2> QED
    BY <2>6 DEF Ledger!Next
<1>4. CASE HandsOver
  <2>1. Sound(log, batch.at) /\ Unfinished(log, batch) /\ batch.next <= batch.size
    BY <1>4, <1>a DEF HandsOver, Paired, BatchOpen
  <2>2. CurrentCall \in Proposed(log) \ Answered(log)
    BY <1>a, <2>1, NextResult DEF CurrentCall
  <2>3. executed \subseteq Answered(log)
    BY <1>4, <1>b DEF HandsOver
  <2>4. ~RunOver /\ ~RunOver' /\ log' = log /\ executed' = executed \cup {CurrentCall}
    BY <1>4 DEF HandsOver, RunOver
  <2>5. Ledger!Start
    BY <2>2, <2>3, <2>4, LedgerActions
  <2> QED
    BY <2>5 DEF Ledger!Next
<1>5. CASE Returns
  <2>1. Sound(log, batch.at) /\ Unfinished(log, batch) /\ batch.next <= batch.size
    BY <1>5, <1>a DEF Returns, Paired, BatchOpen, StateAtPlace
  <2>2. log' = Append(log, ToolResult(<<batch.at, batch.next>>, TRUE))
    BY <1>5 DEF Returns, CurrentCall
  <2>3. /\ Proposed(log') = Proposed(log)
        /\ Answered(log') = Answered(log) \cup {CurrentCall}
        /\ CurrentCall \notin Answered(log)
    BY <1>a, <2>1, <2>2, NextResult DEF CurrentCall
  <2>4. CurrentCall \in executed
    BY <1>5, <1>a DEF Returns, Paired, EffectsKnown
  <2>5. ~RunOver /\ ~RunOver' /\ executed' = executed
    BY <1>5 DEF Returns, RunOver
  <2>6. Ledger!Answer
    BY <2>3, <2>4, <2>5, LedgerActions
  <2> QED
    BY <2>6 DEF Ledger!Next
<1>6. CASE Ends
  <2>1. Proposed(log') = Proposed(log) /\ executed' = executed /\ ~RunOver
    BY <1>6, <1>a, <1>d, EndsSettled DEF Ends, BatchOpen
  <2>2. Answered(log') = Proposed(log') /\ executed \subseteq Answered(log)
    BY <1>6, <1>b, <1>c DEF Ends
  <2>3. CASE RunOver'
    BY <2>1, <2>2, <2>3, LedgerActions DEF Ledger!Next
  <2>4. CASE ~RunOver'
    <3>1. log' = log
      BY <1>6, <2>4 DEF Ends, RunOver
    <3> QED
      BY <2>1, <2>4, <3>1, LedgerVars
  <2> QED
    BY <2>3, <2>4
<1> QED
  BY <1>1, <1>2, <1>3, <1>4, <1>5, <1>6, <1>a, StepKinds

\* The loop implements CallLedger: over all the runs of a session, a call is
\* started at most once, one at a time, and a run closes with every call
\* answered (loop.py, the tool batch and the ways a run ends).
THEOREM LedgerKept == Spec => CallsAccounted
<1>1. Init => Ledger!Init
  <2> SUFFICES ASSUME Init
               PROVE  Ledger!Init
    OBVIOUS
  <2>1. log = <<>> /\ executed = {} /\ RunOver
    BY DEF Init, RunOver
  <2> QED
    BY <2>1 DEF Ledger!Init
<1>2. LoopInv /\ LoopInv' /\ [Next]_vars => [Ledger!Next]_(Ledger!ledger)
  BY LedgerStep
<1> QED
  BY <1>1, <1>2, AlwaysLoopInv, PTL DEF Spec, CallsAccounted, Ledger!Spec
=============================================================================
