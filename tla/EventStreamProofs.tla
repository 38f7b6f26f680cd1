-------------------------- MODULE EventStreamProofs --------------------------
(***************************************************************************)
(* What is proved of EventStream for every value of its constants.         *)
(***************************************************************************)
EXTENDS EventStream, SelectionProofs

-----------------------------------------------------------------------------
(* Type correctness.  An identifier on its way to the client is the number *)
(* of an event that was published.                                         *)

Known ==
  /\ audit \in Seq(0..Len(kinds))
  /\ mailbox \in Seq(1..Len(kinds)) /\ outbox \in Seq(1..Len(kinds))
  /\ cursor \in 0..Len(kinds) /\ lastId \in 0..Len(kinds)

\* Nothing is in flight where no generator is at work.
Quiet ==
  /\ stream # "live" => ~subscribed /\ mailbox = <<>>
  /\ stream \notin {"replay", "live"} => outbox = <<>>

Typed == TypeOK /\ Known /\ Quiet

LEMMA Limits == AuditLimit \in Nat \ {0} /\ QueueLimit \in Nat \ {0}
  BY CapacityAssumption

LEMMA SeqGrows ==
  ASSUME NEW n \in Nat, NEW low \in Nat, NEW s \in Seq(low..n)
  PROVE  s \in Seq(low..(n + 1))
<1>1. \A i \in 1..Len(s) : s[i] \in low..(n + 1)
  <2>1. \A i \in 1..Len(s) : s[i] \in low..n
    OBVIOUS
  <2> QED
    BY <2>1
<1>2. s = [i \in 1..Len(s) |-> s[i]] /\ Len(s) \in Nat
  OBVIOUS
<1>3. s \in [1..Len(s) -> low..(n + 1)]
  BY <1>1, <1>2
<1> QED
  BY <1>2, <1>3

LEMMA RetainedPlaces ==
  ASSUME TypeOK, NEW after
  PROVE  {p \in 1..Len(audit) : audit[p] > after} \subseteq 1..Len(audit) /\ Len(audit) \in Nat
  BY DEF TypeOK

LEMMA RetainedType ==
  ASSUME Typed, NEW after \in Nat
  PROVE  Retained(after) \in Seq(1..Len(kinds))
<1> DEFINE K == {p \in 1..Len(audit) : audit[p] > after}
<1>1. K \subseteq 1..Len(audit) /\ Len(audit) \in Nat
  BY RetainedPlaces DEF Typed
<1>2. \A p \in K : audit[p] \in 1..Len(kinds)
  <2>1. Len(kinds) \in Nat /\ \A p \in 1..Len(audit) : audit[p] \in 0..Len(kinds)
    BY DEF Typed, TypeOK, Known
  <2> QED
    BY <2>1
<1> HIDE DEF K
<1>3. Selected(audit, K) \in Seq(1..Len(kinds))
  BY <1>1, <1>2, SelectedType
<1> QED
  BY <1>3 DEF Retained, K

LEMMA BoundedType ==
  ASSUME NEW S, NEW s \in Seq(S), NEW x \in S, Len(s) <= AuditLimit
  PROVE  Bounded(Append(s, x)) \in Seq(S) /\ Len(Bounded(Append(s, x))) <= AuditLimit
<1>1. Append(s, x) \in Seq(S) /\ Len(Append(s, x)) = Len(s) + 1 /\ Len(s) \in Nat
  OBVIOUS
<1>2. Append(s, x) # <<>>
  OBVIOUS
<1> DEFINE t == Append(s, x)
<1> HIDE DEF t
<1>3. t \in Seq(S) /\ t # <<>> /\ Len(t) = Len(s) + 1
  BY <1>1, <1>2 DEF t
<1>4. Tail(t) \in Seq(S) /\ Len(Tail(t)) = Len(s)
  BY <1>1, <1>3
<1>5. Bounded(t) \in Seq(S) /\ Len(Bounded(t)) <= AuditLimit
  BY <1>1, <1>3, <1>4, Limits DEF Bounded
<1> QED
  BY <1>5 DEF t

\* The sequences of known events, seen as sequences of numbers.
LEMMA KnownNumbers ==
  ASSUME NEW n \in Nat, NEW low \in Nat, NEW s \in Seq(low..n)
  PROVE  s \in Seq(Nat)
<1>1. \A i \in 1..Len(s) : s[i] \in Nat
  <2>1. \A i \in 1..Len(s) : s[i] \in low..n
    OBVIOUS
  <2> QED
    BY <2>1
<1>2. s = [i \in 1..Len(s) |-> s[i]] /\ Len(s) \in Nat
  OBVIOUS
<1>3. s \in [1..Len(s) -> Nat]
  BY <1>1, <1>2
<1> QED
  BY <1>2, <1>3

LEMMA EmitTyped == ASSUME Typed, Emit PROVE Typed'
<1> DEFINE n == Len(kinds)
<1>1. /\ n \in Nat /\ kinds \in Seq(Kinds)
      /\ audit \in Seq(0..n) /\ mailbox \in Seq(1..n) /\ outbox \in Seq(1..n)
      /\ cursor \in 0..n /\ lastId \in 0..n /\ Len(audit) <= AuditLimit /\ seen \subseteq 1..n
  BY DEF Typed, TypeOK, Known
<1>2. PICK kind \in Kinds : kinds' = Append(kinds, kind) /\ Deliver(n + 1, kind)
  BY DEF Emit
<1>3. kinds' \in Seq(Kinds) /\ Len(kinds') = n + 1
  BY <1>1, <1>2
<1>4. /\ audit' = Bounded(Append(audit, n + 1))
      /\ UNCHANGED <<others, subscribed, stream, outbox, cursor, lastId, frames, seen, connections>>
  BY DEF Emit, clientVars
<1> HIDE DEF n
<1>5. audit \in Seq(0..(n + 1)) /\ mailbox \in Seq(1..(n + 1)) /\ outbox \in Seq(1..(n + 1))
  BY <1>1, SeqGrows
<1>6. n + 1 \in 0..(n + 1) /\ n + 1 \in 1..(n + 1)
  BY <1>1
<1>7. audit' \in Seq(0..(n + 1)) /\ Len(audit') <= AuditLimit
  BY <1>1, <1>4, <1>5, <1>6, BoundedType
<1>8. mailbox' \in Seq(1..(n + 1)) /\ cut' \in BOOLEAN
      /\ (~subscribed => mailbox' = mailbox)
  <2>1. cut \in BOOLEAN
    BY DEF Typed, TypeOK
  <2>2. mailbox' = mailbox \/ (subscribed /\ mailbox' = Append(mailbox, n + 1))
    BY <1>2 DEF Deliver
  <2>3. cut' \in BOOLEAN
    BY <1>2, <2>1 DEF Deliver
  <2>4. Append(mailbox, n + 1) \in Seq(1..(n + 1))
    BY <1>5, <1>6
  <2> QED
    BY <1>5, <2>2, <2>3, <2>4
<1>9. Known'
  <2>1. cursor \in 0..(n + 1) /\ lastId \in 0..(n + 1)
    BY <1>1
  <2> QED
    BY <1>3, <1>4, <1>5, <1>7, <1>8, <2>1 DEF Known
<1>10. TypeOK'
  <2>1. seen' \subseteq 1..Len(kinds')
    BY <1>1, <1>3, <1>4
  <2>2. /\ audit' \in Seq(Nat) /\ mailbox' \in Seq(Nat) /\ outbox' \in Seq(Nat)
        /\ cursor' \in Nat /\ lastId' \in Nat
    BY <1>1, <1>3, <1>9, KnownNumbers DEF Known
  <2> QED
    BY <1>3, <1>4, <1>7, <1>8, <2>1, <2>2 DEF Typed, TypeOK
<1>11. Quiet'
  BY <1>4, <1>8 DEF Typed, Quiet
<1> QED
  BY <1>9, <1>10, <1>11 DEF Typed

\* Every other step leaves the events of the run as they are.
LEMMA StillTyped ==
  ASSUME Typed, UNCHANGED kinds, Known', Quiet', Len(audit') <= AuditLimit,
         others' \in Nat, connections' \in Nat, frames' \in Seq(Nat),
         subscribed' \in BOOLEAN, cut' \in BOOLEAN,
         stream' \in {"closed", "accepted", "replay", "live", "over"},
         seen' \subseteq 1..Len(kinds)
  PROVE  Typed'
<1>1. kinds' \in Seq(Kinds)
  BY DEF Typed, TypeOK
<1>2. Len(kinds') \in Nat
  BY <1>1
<1>3. /\ audit' \in Seq(Nat) /\ mailbox' \in Seq(Nat) /\ outbox' \in Seq(Nat)
      /\ cursor' \in Nat /\ lastId' \in Nat
  BY <1>2, KnownNumbers DEF Known
<1> QED
  BY <1>1, <1>3 DEF Typed, TypeOK

LEMMA TypedStep == ASSUME Typed, [Next]_vars PROVE Typed'
<1> DEFINE n == Len(kinds)
<1>a. /\ n \in Nat /\ kinds \in Seq(Kinds)
      /\ audit \in Seq(0..n) /\ mailbox \in Seq(1..n) /\ outbox \in Seq(1..n)
      /\ cursor \in 0..n /\ lastId \in 0..n /\ Len(audit) <= AuditLimit /\ seen \subseteq 1..n
  BY DEF Typed, TypeOK, Known
<1>b. /\ others \in Nat /\ connections \in Nat /\ frames \in Seq(Nat)
      /\ subscribed \in BOOLEAN /\ cut \in BOOLEAN
      /\ stream \in {"closed", "accepted", "replay", "live", "over"}
  BY DEF Typed, TypeOK
<1>c. Quiet
  BY DEF Typed
<1>d. <<>> \in Seq(1..n)
  OBVIOUS
<1>1. CASE Emit
  BY <1>1, EmitTyped
<1>2. CASE EmitOther
  <2>1. UNCHANGED <<kinds, mailbox, subscribed, cut, stream, outbox, cursor, lastId, frames,
                    seen, connections>>
    BY <1>2 DEF EmitOther, subscription, clientVars
  <2>2. audit' = Bounded(Append(audit, OtherRun)) /\ others' = others + 1
    BY <1>2 DEF EmitOther
  <2>3. OtherRun \in 0..n
    BY <1>a DEF OtherRun
  <2>4. audit' \in Seq(0..n) /\ Len(audit') <= AuditLimit
    BY <1>a, <2>2, <2>3, BoundedType
  <2>5. Known'
    BY <1>a, <2>1, <2>4 DEF Known
  <2>6. Quiet'
    BY <1>c, <2>1 DEF Quiet
  <2> QED
    BY <1>a, <1>b, <2>1, <2>2, <2>4, <2>5, <2>6, StillTyped
<1>3. CASE Connect
  <2>1. /\ UNCHANGED <<kinds, audit, others, mailbox, subscribed, cut, outbox, lastId, seen>>
        /\ stream' = "accepted" /\ cursor' = lastId /\ connections' = connections + 1
        /\ frames' = <<>> /\ stream \in {"closed", "over"}
    BY <1>3 DEF Connect, MayConnect, busVars, subscription
  <2>2. Known'
    BY <1>a, <2>1 DEF Known
  <2>3. Quiet'
    BY <1>c, <2>1 DEF Quiet
  <2> QED
    BY <1>a, <1>b, <2>1, <2>2, <2>3, StillTyped
<1>4. CASE Replay
  <2>1. /\ UNCHANGED <<kinds, audit, others, mailbox, subscribed, cut, cursor, lastId, frames,
                       seen, connections>>
        /\ stream' = "replay" /\ outbox' = Retained(cursor) /\ stream = "accepted"
    BY <1>4 DEF Replay, busVars, subscription, clientVars
  <2>2. outbox' \in Seq(1..n)
    BY <1>a, <2>1, RetainedType
  <2>3. Known'
    BY <1>a, <2>1, <2>2 DEF Known
  <2>4. Quiet'
    BY <1>c, <2>1 DEF Quiet
  <2> QED
    BY <1>a, <1>b, <2>1, <2>3, <2>4, StillTyped
<1>5. CASE Subscribe
  <2>1. /\ UNCHANGED <<kinds, audit, others, cursor, lastId, frames, seen, connections>>
        /\ stream' = "live" /\ outbox' = Retained(cursor) /\ mailbox' = <<>>
        /\ subscribed' = TRUE /\ cut' = FALSE
    BY <1>5 DEF Subscribe, busVars, clientVars
  <2>2. outbox' \in Seq(1..n)
    BY <1>a, <2>1, RetainedType
  <2>3. Known'
    BY <1>a, <1>d, <2>1, <2>2 DEF Known
  <2>4. Quiet'
    BY <2>1 DEF Quiet
  <2> QED
    BY <1>a, <1>b, <2>1, <2>3, <2>4, StillTyped
<1>6. CASE Drain
  <2>1. /\ UNCHANGED <<kinds, audit, others, subscribed, cut, stream, cursor, lastId, frames,
                       seen, connections>>
        /\ stream = "live" /\ outbox' = mailbox /\ mailbox' = <<>>
    BY <1>6 DEF Drain, busVars, clientVars
  <2>2. Known'
    BY <1>a, <1>d, <2>1 DEF Known
  <2>3. Quiet'
    BY <2>1 DEF Quiet
  <2> QED
    BY <1>a, <1>b, <2>1, <2>2, <2>3, StillTyped
<1>7. CASE Yield
  <2> DEFINE seq == Head(outbox)
  <2>1. /\ UNCHANGED <<kinds, audit, others, cursor, connections>>
        /\ outbox # <<>> /\ stream \in {"replay", "live"}
        /\ frames' = Append(frames, seq) /\ lastId' = seq /\ seen' = seen \cup {seq}
    BY <1>7 DEF Yield, busVars
  <2>2. \/ /\ stream' = "over" /\ outbox' = <<>>
           /\ subscribed' = FALSE /\ cut' = FALSE /\ mailbox' = <<>>
        \/ /\ outbox' = Tail(outbox)
           /\ UNCHANGED <<stream, mailbox, subscribed, cut>>
    BY <1>7 DEF Yield, subscription
  <2>3. seq \in 1..n /\ Tail(outbox) \in Seq(1..n)
    BY <1>a, <2>1
  <2> HIDE DEF seq
  <2>4. seq \in Nat /\ seq \in 0..n
    BY <1>a, <2>3
  <2>5. outbox' \in Seq(1..n) /\ mailbox' \in Seq(1..n)
    BY <1>a, <1>d, <2>2, <2>3
  <2>6. Known'
    BY <1>a, <2>1, <2>4, <2>5 DEF Known
  <2>7. Quiet'
    BY <1>c, <2>1, <2>2 DEF Quiet
  <2>8. frames' \in Seq(Nat) /\ seen' \subseteq 1..n
    BY <1>a, <1>b, <2>1, <2>3, <2>4
  <2>9. /\ subscribed' \in BOOLEAN /\ cut' \in BOOLEAN
        /\ stream' \in {"closed", "accepted", "replay", "live", "over"}
    BY <1>b, <2>2
  <2> QED
    BY <1>a, <1>b, <2>1, <2>6, <2>7, <2>8, <2>9, StillTyped
<1>8. CASE Disconnect
  <2>1. /\ UNCHANGED <<kinds, audit, others, cursor, lastId, frames, seen, connections>>
        /\ stream' = "closed" /\ outbox' = <<>> /\ mailbox' = <<>>
        /\ subscribed' = FALSE /\ cut' = FALSE
    BY <1>8 DEF Disconnect, busVars, clientVars
  <2>2. Known'
    BY <1>a, <1>d, <2>1 DEF Known
  <2>3. Quiet'
    BY <2>1 DEF Quiet
  <2> QED
    BY <1>a, <1>b, <2>1, <2>2, <2>3, StillTyped
<1>9. CASE UNCHANGED vars
  <2>1. UNCHANGED <<kinds, audit, others, mailbox, subscribed, cut, stream, outbox, cursor,
                    lastId, frames, seen, connections>>
    BY <1>9 DEF vars, busVars, subscription, clientVars
  <2>2. Known'
    BY <1>a, <2>1 DEF Known
  <2>3. Quiet'
    BY <1>c, <2>1 DEF Quiet
  <2> QED
    BY <1>a, <1>b, <2>1, <2>2, <2>3, StillTyped
<1> QED
  BY <1>1, <1>2, <1>3, <1>4, <1>5, <1>6, <1>7, <1>8, <1>9 DEF Next, Generate

LEMMA TypedInit == Init => Typed
<1> SUFFICES ASSUME Init PROVE Typed
  OBVIOUS
<1>1. /\ <<>> \in Seq(Kinds) /\ Len(<<>>) = 0 /\ <<>> \in Seq(Nat)
      /\ <<>> \in Seq(0..0) /\ <<>> \in Seq(1..0)
  OBVIOUS
<1>2. Known
  BY <1>1 DEF Init, Known
<1>3. TypeOK
  <2>1. 0 <= AuditLimit /\ 0 \in Nat
    BY Limits
  <2>2. seen \subseteq 1..Len(kinds)
    BY DEF Init
  <2> QED
    BY <1>1, <2>1, <2>2 DEF Init, TypeOK
<1>4. Quiet
  BY DEF Init, Quiet
<1> QED
  BY <1>2, <1>3, <1>4 DEF Typed

\* Whatever is published, replayed, read slowly or broken off: the audit stays
\* within its limit and the client receives only events that were published.
THEOREM StreamTyped == Spec => []TypeOK
<1>1. Typed /\ [Next]_vars => Typed'
  BY TypedStep
<1>2. Typed => TypeOK
  BY DEF Typed
<1> QED
  BY <1>1, <1>2, TypedInit, PTL DEF Spec

-----------------------------------------------------------------------------
(* The mailbox.  Only the fan-out puts an event into it, one at a time; a  *)
(* replay that fills it beyond its limit drains it before anyone looks.    *)

LEMMA MailboxStep == ASSUME Typed, MailboxBounded, [Next]_vars PROVE MailboxBounded'
<1>a. mailbox \in Seq(Nat) /\ Len(mailbox) <= QueueLimit /\ QueueLimit \in Nat
  BY Limits DEF Typed, TypeOK, MailboxBounded
<1>b. Len(<<>>) = 0 /\ Len(<<>>) <= QueueLimit
  BY <1>a
<1>1. CASE Emit
  <2>1. \/ mailbox' = mailbox
        \/ Len(mailbox) < QueueLimit /\ mailbox' = Append(mailbox, Len(kinds) + 1)
    BY <1>1 DEF Emit, Deliver
  <2>2. Len(Append(mailbox, Len(kinds) + 1)) = Len(mailbox) + 1 /\ Len(mailbox) \in Nat
    BY <1>a
  <2> QED
    BY <1>a, <2>1, <2>2 DEF MailboxBounded
<1>2. CASE EmitOther \/ Connect \/ Replay \/ UNCHANGED vars
  <2>1. mailbox' = mailbox
    BY <1>2 DEF EmitOther, Connect, Replay, subscription, vars
  <2> QED
    BY <1>a, <2>1 DEF MailboxBounded
<1>3. CASE Subscribe \/ Drain \/ Disconnect
  <2>1. mailbox' = <<>>
    BY <1>3 DEF Subscribe, Drain, Disconnect
  <2> QED
    BY <1>b, <2>1 DEF MailboxBounded
<1>4. CASE Yield
  <2>1. mailbox' = mailbox \/ mailbox' = <<>>
    BY <1>4 DEF Yield, subscription
  <2> QED
    BY <1>a, <1>b, <2>1 DEF MailboxBounded
<1> QED
  BY <1>1, <1>2, <1>3, <1>4 DEF Next, Generate

\* However fast the run publishes and however slowly the client reads, what
\* EventBus keeps for a subscriber stays within its queue_limit.
THEOREM MailboxIsBounded == Spec => []MailboxBounded
<1>1. Init => MailboxBounded
  <2>1. Len(<<>>) = 0
    OBVIOUS
  <2>2. 0 <= QueueLimit
    BY Limits
  <2> QED
    BY <2>1, <2>2 DEF Init, MailboxBounded
<1>2. Typed /\ MailboxBounded /\ [Next]_vars => Typed' /\ MailboxBounded'
  BY TypedStep, MailboxStep
<1> QED
  BY <1>1, <1>2, TypedInit, PTL DEF Spec

-----------------------------------------------------------------------------
(* No fact is skipped.  As long as the audit has forgotten nothing, every  *)
(* fact up to an event on its way to the client has been seen or is before *)
(* it on the same way, and a subscription that was not cut misses none.    *)

FactsOf(run) == {seq \in 1..Len(run) : run[seq] \notin Droppable}

Facts == FactsOf(kinds)

\* The events of the run stand in the audit in their order, gaps or not.
InOrder(deque) ==
  \A p, q \in 1..Len(deque) :
    p < q /\ deque[p] # OtherRun /\ deque[q] # OtherRun => deque[p] < deque[q]

Whole == Len(kinds) + others <= AuditLimit

Holds(deque, n) == \A seq \in 1..n : \E p \in 1..Len(deque) : deque[p] = seq

AuditKept ==
  /\ InOrder(audit)
  /\ Whole => Len(audit) = Len(kinds) + others /\ Holds(audit, Len(kinds))

\* Every fact up to n has been received.
Caught(n, facts, got) == \A seq \in facts : seq <= n => seq \in got

\* A fact not later than an event of the queue comes before it or was received.
NoGap(queue, facts, got) ==
  \A k \in 1..Len(queue) : \A seq \in facts :
    seq <= queue[k] => seq \in got \/ \E j \in 1..k : queue[j] = seq

\* Every fact was received or is in the queue.
Complete(queue, facts, got) ==
  \A seq \in facts : seq \in got \/ \E j \in 1..Len(queue) : queue[j] = seq

Flow == outbox \o mailbox

NothingMissed ==
  Whole =>
    /\ Caught(cursor, Facts, seen) /\ Caught(lastId, Facts, seen)
    /\ NoGap(Flow, Facts, seen)
    /\ subscribed /\ ~cut => Complete(Flow, Facts, seen)

StreamInv == Typed /\ AuditKept /\ NothingMissed

LEMMA FactsType ==
  ASSUME TypeOK
  PROVE  Facts \subseteq 1..Len(kinds) /\ Len(kinds) \in Nat
         /\ \A seq \in Facts : seq \in Nat /\ seq <= Len(kinds)
<1>1. Len(kinds) \in Nat
  BY DEF TypeOK
<1> QED
  BY <1>1 DEF Facts, FactsOf

\* The audit goes on in order, whether or not it forgets its first event.
LEMMA OrderAppended ==
  ASSUME NEW n \in Nat, NEW deque \in Seq(0..n), InOrder(deque),
         NEW x \in Nat, x = OtherRun \/ x = n + 1
  PROVE  InOrder(Append(deque, x))
<1> DEFINE t == Append(deque, x)
<1>1. /\ Len(t) = Len(deque) + 1 /\ Len(deque) \in Nat /\ t[Len(deque) + 1] = x
      /\ \A p \in 1..Len(deque) : t[p] = deque[p] /\ deque[p] \in 0..n
  OBVIOUS
<1> HIDE DEF t
<1>2. InOrder(t)
  <2> SUFFICES ASSUME NEW p \in 1..Len(t), NEW q \in 1..Len(t), p < q,
                      t[p] # OtherRun, t[q] # OtherRun
               PROVE  t[p] < t[q]
    BY DEF InOrder
  <2>1. p \in 1..Len(deque)
    BY <1>1
  <2>2. CASE q \in 1..Len(deque)
    BY <1>1, <2>1, <2>2 DEF InOrder
  <2>3. CASE q \notin 1..Len(deque)
    <3>1. q = Len(deque) + 1
      BY <1>1, <2>3
    <3>2. t[q] = n + 1
      BY <1>1, <3>1
    <3> QED
      BY <1>1, <2>1, <3>2, SMTT(30)
  <2> QED
    BY <2>2, <2>3
<1> QED
  BY <1>2 DEF t

LEMMA OrderInTail ==
  ASSUME NEW S, NEW deque \in Seq(S), deque # <<>>, InOrder(deque)
  PROVE  InOrder(Tail(deque))
<1> DEFINE t == Tail(deque)
<1>1. /\ Len(deque) = Len(t) + 1 /\ Len(t) \in Nat
      /\ \A p \in 1..Len(t) : t[p] = deque[p + 1]
  OBVIOUS
<1> HIDE DEF t
<1>2. InOrder(t)
  <2> SUFFICES ASSUME NEW p \in 1..Len(t), NEW q \in 1..Len(t), p < q,
                      t[p] # OtherRun, t[q] # OtherRun
               PROVE  t[p] < t[q]
    BY DEF InOrder
  <2>1. p + 1 \in 1..Len(deque) /\ q + 1 \in 1..Len(deque) /\ p + 1 < q + 1
    BY <1>1
  <2>2. t[p] = deque[p + 1] /\ t[q] = deque[q + 1]
    BY <1>1
  <2> QED
    BY <2>1, <2>2 DEF InOrder
<1> QED
  BY <1>2 DEF t

LEMMA OrderBounded ==
  ASSUME NEW n \in Nat, NEW deque \in Seq(0..n), InOrder(deque),
         NEW x \in Nat, x = OtherRun \/ x = n + 1
  PROVE  InOrder(Bounded(Append(deque, x)))
<1>1. InOrder(Append(deque, x))
  BY OrderAppended
<1>2. Append(deque, x) \in Seq(Nat) /\ Append(deque, x) # <<>>
  <2>1. deque \in Seq(Nat)
    BY KnownNumbers
  <2> QED
    BY <2>1
<1>3. InOrder(Tail(Append(deque, x)))
  BY <1>1, <1>2, OrderInTail
<1> QED
  BY <1>1, <1>3 DEF Bounded

\* Nothing is forgotten up to the capacity.
LEMMA HeldAppended ==
  ASSUME NEW deque \in Seq(Nat), NEW n \in Nat, Holds(deque, n), NEW x \in Nat,
         Len(deque) + 1 <= AuditLimit
  PROVE  /\ Bounded(Append(deque, x)) = Append(deque, x)
         /\ Len(Append(deque, x)) = Len(deque) + 1
         /\ Holds(Append(deque, x), n)
         /\ x = n + 1 => Holds(Append(deque, x), n + 1)
<1> DEFINE t == Append(deque, x)
<1>1. /\ Len(t) = Len(deque) + 1 /\ Len(deque) \in Nat /\ t[Len(deque) + 1] = x
      /\ \A p \in 1..Len(deque) : t[p] = deque[p]
  OBVIOUS
<1>2. AuditLimit \in Nat
  BY Limits
<1> HIDE DEF t
<1>3. Bounded(t) = t
  BY <1>1, <1>2 DEF Bounded
<1>4. ASSUME NEW seq \in 1..n
      PROVE  \E p \in 1..Len(t) : t[p] = seq
  <2>1. PICK p \in 1..Len(deque) : deque[p] = seq
    BY DEF Holds
  <2>2. p \in 1..Len(t) /\ t[p] = seq
    BY <1>1, <2>1
  <2> QED
    BY <2>2
<1>5. Holds(t, n)
  BY <1>4 DEF Holds
<1>6. ASSUME x = n + 1
      PROVE  Holds(t, n + 1)
  <2> SUFFICES ASSUME NEW seq \in 1..(n + 1)
               PROVE  \E p \in 1..Len(t) : t[p] = seq
    BY DEF Holds
  <2>1. CASE seq \in 1..n
    BY <1>4, <2>1
  <2>2. CASE seq \notin 1..n
    <3>1. seq = x
      BY <1>6, <2>2
    <3>2. Len(deque) + 1 \in 1..Len(t)
      BY <1>1
    <3> QED
      BY <1>1, <3>1, <3>2
  <2> QED
    BY <2>1, <2>2
<1> QED
  BY <1>1, <1>3, <1>5, <1>6 DEF t

LEMMA AuditStep == ASSUME Typed, AuditKept, [Next]_vars PROVE AuditKept'
<1> DEFINE n == Len(kinds)
<1>a. /\ n \in Nat /\ others \in Nat /\ audit \in Seq(0..n) /\ kinds \in Seq(Kinds)
      /\ InOrder(audit) /\ AuditLimit \in Nat
      /\ Whole => Len(audit) = n + others /\ Holds(audit, n)
  BY Limits DEF Typed, TypeOK, Known, AuditKept
<1>1. CASE Emit
  <2>1. PICK kind \in Kinds : kinds' = Append(kinds, kind)
    BY <1>1 DEF Emit
  <2>2. Len(kinds') = n + 1 /\ others' = others /\ audit' = Bounded(Append(audit, n + 1))
    BY <1>1, <1>a, <2>1 DEF Emit
  <2> HIDE DEF n
  <2>3. InOrder(audit')
    BY <1>a, <2>2, OrderBounded
  <2>4. ASSUME Whole'
        PROVE  Len(audit') = Len(kinds') + others' /\ Holds(audit', Len(kinds'))
    <3>1. (n + 1) + others <= AuditLimit
      BY <2>2, <2>4 DEF Whole
    <3>2. Whole
      BY <1>a, <3>1 DEF Whole, n
    <3>3. Len(audit) + 1 <= AuditLimit /\ Holds(audit, n) /\ Len(audit) = n + others
      BY <1>a, <3>1, <3>2
    <3>4. audit \in Seq(Nat) /\ n + 1 \in Nat
      BY <1>a, KnownNumbers
    <3> DEFINE t == Append(audit, n + 1)
    <3>5. Bounded(t) = t /\ Len(t) = Len(audit) + 1 /\ Holds(t, n + 1)
      BY <1>a, <3>3, <3>4, HeldAppended
    <3>6. audit' = t
      BY <2>2, <3>5
    <3> HIDE DEF t
    <3>7. Len(audit') = (n + 1) + others
      BY <1>a, <3>3, <3>5, <3>6
    <3> QED
      BY <2>2, <3>5, <3>6, <3>7
  <2> QED
    BY <2>3, <2>4 DEF AuditKept
<1>2. CASE EmitOther
  <2>1. kinds' = kinds /\ others' = others + 1 /\ audit' = Bounded(Append(audit, OtherRun))
    BY <1>2 DEF EmitOther
  <2>2. InOrder(audit')
    BY <1>a, <2>1, OrderBounded DEF OtherRun
  <2>3. ASSUME Whole'
        PROVE  Len(audit') = Len(kinds') + others' /\ Holds(audit', Len(kinds'))
    <3>1. n + (others + 1) <= AuditLimit
      BY <2>1, <2>3 DEF Whole
    <3>2. Whole
      BY <1>a, <3>1 DEF Whole
    <3>3. Len(audit) + 1 <= AuditLimit /\ Holds(audit, n) /\ Len(audit) = n + others
      BY <1>a, <3>1, <3>2
    <3>4. audit \in Seq(Nat) /\ OtherRun \in Nat
      BY <1>a, KnownNumbers DEF OtherRun
    <3> DEFINE t == Append(audit, OtherRun)
    <3>5. Bounded(t) = t /\ Len(t) = Len(audit) + 1 /\ Holds(t, n)
      BY <1>a, <3>3, <3>4, HeldAppended
    <3> QED
      BY <1>a, <2>1, <3>3, <3>5
  <2> QED
    BY <2>2, <2>3 DEF AuditKept
<1>3. CASE UNCHANGED <<kinds, audit, others>>
  BY <1>3 DEF AuditKept, Whole
<1>4. CASE Connect \/ Generate \/ Disconnect \/ UNCHANGED vars
  <2>1. UNCHANGED <<kinds, audit, others>>
    BY <1>4 DEF Connect, Generate, Replay, Subscribe, Drain, Yield, Disconnect, busVars, vars
  <2> QED
    BY <1>3, <2>1
<1> QED
  BY <1>1, <1>2, <1>4 DEF Next

\* Events on their way are replaced by what the audit holds after a cursor that
\* was reached: nothing is missed.
LEMMA Replayed ==
  ASSUME Typed, AuditKept, Whole, NEW after \in Nat, Caught(after, Facts, seen)
  PROVE  /\ NoGap(Retained(after), Facts, seen)
         /\ Complete(Retained(after), Facts, seen)
<1> DEFINE K == {p \in 1..Len(audit) : audit[p] > after}
           queue == Selected(audit, K)
<1>a. /\ K \subseteq 1..Len(audit) /\ Len(audit) \in Nat
      /\ \A p \in K : p \in Nat /\ p \in 1..Len(audit) /\ audit[p] > after
      /\ \A p \in 1..Len(audit) : audit[p] > after => p \in K
  BY DEF Typed, TypeOK
<1>b. /\ InOrder(audit) /\ Holds(audit, Len(kinds))
      /\ \A p \in 1..Len(audit) : audit[p] \in Nat
  BY DEF AuditKept, Typed, TypeOK
<1>c. \A seq \in Facts : seq \in 1..Len(kinds) /\ seq \in Nat
  BY FactsType DEF Typed
<1>d. Retained(after) = queue
  BY DEF Retained
<1> HIDE DEF K
<1>e. IsFiniteSet(K) /\ (\A p \in K : p \in Nat) /\ Len(queue) = Cardinality(K)
      /\ Cardinality(K) \in Nat
  BY <1>a, PlacesBounded, SelectedLen
<1>1. ASSUME NEW seq \in Facts, seq \notin seen
      PROVE  \E p \in K : audit[p] = seq
  <2>1. seq > after
    BY <1>1, <1>c DEF Caught
  <2>2. PICK p \in 1..Len(audit) : audit[p] = seq
    BY <1>b, <1>c DEF Holds
  <2> QED
    BY <1>a, <2>1, <2>2
<1>2. ASSUME NEW p \in K
      PROVE  Rank(K, p) \in 1..Len(queue) /\ queue[Rank(K, p)] = audit[p]
  BY <1>a, <1>e, SelectedAt
<1>3. ASSUME NEW k \in 1..Len(queue)
      PROVE  Place(K, k) \in K /\ Rank(K, Place(K, k)) = k /\ queue[k] = audit[Place(K, k)]
  <2>1. k \in 1..Cardinality(K) /\ K \subseteq 1..Len(audit) /\ Len(audit) \in Nat
    BY <1>a, <1>e
  <2>2. Place(K, k) \in K /\ Rank(K, Place(K, k)) = k
    BY <2>1, PlaceRanked
  <2>3. queue[k] = audit[Place(K, k)]
    BY <2>1, SelectedFrom
  <2> QED
    BY <2>2, <2>3
<1> HIDE DEF queue
<1>4. Complete(queue, Facts, seen)
  BY <1>1, <1>2 DEF Complete
<1>5. ASSUME NEW k \in 1..Len(queue), NEW seq \in Facts, seq <= queue[k], seq \notin seen
      PROVE  \E j \in 1..k : queue[j] = seq
  <2>1. PICK p \in K : audit[p] = seq
    BY <1>1, <1>5
  <2>2. PICK q \in K : Rank(K, q) = k /\ queue[k] = audit[q]
    BY <1>3
  <2>3. p <= q
    <3>1. audit[p] # OtherRun /\ audit[q] # OtherRun
      BY <1>a, <1>b DEF OtherRun
    <3>2. q < p => audit[q] < audit[p]
      BY <1>a, <1>b, <3>1 DEF InOrder
    <3>3. audit[p] <= audit[q] /\ audit[p] \in Nat /\ audit[q] \in Nat
      BY <1>5, <1>a, <1>b, <2>1, <2>2
    <3> QED
      BY <1>a, <3>2, <3>3
  <2>4. Rank(K, p) <= Rank(K, q)
    <3>1. CASE p = q
      BY <1>e, <3>1, RankType
    <3>2. CASE p < q
      <4>1. Rank(K, p) < Rank(K, q) /\ Rank(K, p) \in Nat /\ Rank(K, q) \in Nat
        BY <1>e, <3>2, RankOrder, RankType
      <4> QED
        BY <4>1
    <3> QED
      BY <1>a, <2>3, <3>1, <3>2
  <2>5. Rank(K, p) \in 1..k
    BY <1>2, <2>2, <2>4, <1>e
  <2>6. queue[Rank(K, p)] = seq
    BY <1>2, <2>1
  <2> QED
    BY <2>5, <2>6
<1>6. NoGap(queue, Facts, seen)
  BY <1>5 DEF NoGap
<1> QED
  BY <1>4, <1>6, <1>d

\* An event goes to the end of the queue of a subscription that misses nothing.
LEMMA Enqueued ==
  ASSUME NEW n \in Nat, NEW facts, \A seq \in facts : seq \in Nat /\ seq <= n,
         NEW new, new \subseteq {n + 1}, NEW got, NEW queue \in Seq(1..n),
         NoGap(queue, facts, got), Complete(queue, facts, got)
  PROVE  /\ NoGap(Append(queue, n + 1), facts \cup new, got)
         /\ Complete(Append(queue, n + 1), facts \cup new, got)
<1> DEFINE t == Append(queue, n + 1)
<1>1. /\ Len(queue) \in Nat /\ Len(t) = Len(queue) + 1 /\ t[Len(queue) + 1] = n + 1
      /\ \A k \in 1..Len(queue) : t[k] = queue[k] /\ queue[k] \in 1..n
  OBVIOUS
<1> HIDE DEF t
<1>2. Complete(t, facts \cup new, got)
  <2> SUFFICES ASSUME NEW seq \in facts \cup new, seq \notin got
               PROVE  \E j \in 1..Len(t) : t[j] = seq
    BY DEF Complete
  <2>1. CASE seq \in facts
    <3>1. PICK j \in 1..Len(queue) : queue[j] = seq
      BY <2>1 DEF Complete
    <3>2. j \in 1..Len(t) /\ t[j] = seq
      BY <1>1, <3>1
    <3> QED
      BY <3>2
  <2>2. CASE seq \in new
    <3>1. seq = n + 1 /\ Len(queue) + 1 \in 1..Len(t)
      BY <1>1, <2>2
    <3> QED
      BY <1>1, <3>1
  <2> QED
    BY <2>1, <2>2
<1>3. NoGap(t, facts \cup new, got)
  <2> SUFFICES ASSUME NEW k \in 1..Len(t), NEW seq \in facts \cup new, seq <= t[k], seq \notin got
               PROVE  \E j \in 1..k : t[j] = seq
    BY DEF NoGap
  <2>1. CASE k \in 1..Len(queue)
    <3>1. seq \in facts
      <4>1. t[k] \in 1..n
        BY <1>1, <2>1
      <4>2. seq # n + 1
        BY <4>1
      <4> QED
        BY <4>2
    <3>2. PICK j \in 1..k : queue[j] = seq
      BY <1>1, <2>1, <3>1 DEF NoGap
    <3>3. t[j] = seq
      BY <1>1, <2>1, <3>2
    <3> QED
      BY <3>3
  <2>2. CASE k \notin 1..Len(queue)
    <3>1. k = Len(t)
      BY <1>1, <2>2
    <3> QED
      BY <1>2, <3>1 DEF Complete
  <2> QED
    BY <2>1, <2>2
<1> QED
  BY <1>2, <1>3 DEF t

\* An event that is only published reaches nobody: what was promised of the
\* earlier ones stays.
LEMMA Published ==
  ASSUME NEW n \in Nat, NEW facts, NEW new, new \subseteq {n + 1}, NEW got,
         NEW queue \in Seq(1..n), NEW c \in 0..n,
         NoGap(queue, facts, got), Caught(c, facts, got)
  PROVE  NoGap(queue, facts \cup new, got) /\ Caught(c, facts \cup new, got)
<1>1. \A k \in 1..Len(queue) : queue[k] \in 1..n
  OBVIOUS
<1>2. \A seq \in new : seq = n + 1
  OBVIOUS
<1>3. Caught(c, facts \cup new, got)
  <2> SUFFICES ASSUME NEW seq \in facts \cup new, seq <= c
               PROVE  seq \in got
    BY DEF Caught
  <2>1. seq # n + 1
    OBVIOUS
  <2> QED
    BY <1>2, <2>1 DEF Caught
<1>4. NoGap(queue, facts \cup new, got)
  <2> SUFFICES ASSUME NEW k \in 1..Len(queue), NEW seq \in facts \cup new, seq <= queue[k]
               PROVE  seq \in got \/ \E j \in 1..k : queue[j] = seq
    BY DEF NoGap
  <2>1. seq # n + 1
    BY <1>1
  <2>2. seq \in facts
    BY <1>2, <2>1
  <2> QED
    BY <2>2 DEF NoGap
<1> QED
  BY <1>3, <1>4

\* The first event of the queue reaches the client.
LEMMA Received ==
  ASSUME NEW n \in Nat, NEW facts, NEW got, NEW queue \in Seq(1..n), queue # <<>>,
         NoGap(queue, facts, got)
  PROVE  LET all == got \cup {Head(queue)}
         IN  /\ Caught(Head(queue), facts, all)
             /\ NoGap(Tail(queue), facts, all)
             /\ Complete(queue, facts, got) => Complete(Tail(queue), facts, all)
<1> DEFINE t == Tail(queue)
           h == Head(queue)
           all == got \cup {h}
<1>1. /\ Len(t) \in Nat /\ Len(queue) = Len(t) + 1 /\ queue[1] = h
      /\ \A k \in 1..Len(t) : t[k] = queue[k + 1]
      /\ \A k \in 1..Len(queue) : queue[k] \in 1..n
  OBVIOUS
<1> HIDE DEF t, h
<1>2. Caught(h, facts, all)
  <2> SUFFICES ASSUME NEW seq \in facts, seq <= h, seq \notin got
               PROVE  seq = h
    BY DEF Caught
  <2>1. 1 \in 1..Len(queue) /\ seq <= queue[1]
    BY <1>1
  <2>2. PICK j \in 1..1 : queue[j] = seq
    BY <2>1 DEF NoGap
  <2> QED
    BY <1>1, <2>2
<1>3. ASSUME NEW k \in Nat, k <= Len(t), NEW seq \in facts, seq \notin all,
             \E j \in 1..(k + 1) : queue[j] = seq
      PROVE  \E j \in 1..k : t[j] = seq
  <2>1. PICK j \in 1..(k + 1) : queue[j] = seq
    BY <1>3
  <2>2. j # 1
    BY <1>1, <1>3, <2>1
  <2>3. j \in Nat /\ j - 1 \in 1..k /\ j - 1 \in 1..Len(t)
    BY <1>1, <1>3, <2>2
  <2>4. t[j - 1] = queue[j]
    <3>1. \A i \in 1..Len(t) : t[i] = queue[i + 1]
      BY <1>1
    <3>2. t[j - 1] = queue[(j - 1) + 1]
      BY <2>3, <3>1
    <3>3. (j - 1) + 1 = j
      BY <2>3
    <3> QED
      BY <3>2, <3>3
  <2> QED
    BY <2>1, <2>3, <2>4
<1>4. NoGap(t, facts, all)
  <2> SUFFICES ASSUME NEW k \in 1..Len(t), NEW seq \in facts, seq <= t[k], seq \notin all
               PROVE  \E j \in 1..k : t[j] = seq
    BY DEF NoGap
  <2>1. k + 1 \in 1..Len(queue) /\ seq <= queue[k + 1] /\ k \in Nat /\ k <= Len(t)
    BY <1>1
  <2>2. \E j \in 1..(k + 1) : queue[j] = seq
    BY <2>1 DEF NoGap
  <2> QED
    BY <1>3, <2>1, <2>2
<1>5. ASSUME Complete(queue, facts, got)
      PROVE  Complete(t, facts, all)
  <2> SUFFICES ASSUME NEW seq \in facts, seq \notin all
               PROVE  \E j \in 1..Len(t) : t[j] = seq
    BY DEF Complete
  <2>1. \E j \in 1..(Len(t) + 1) : queue[j] = seq
    BY <1>1, <1>5 DEF Complete
  <2>2. Len(t) \in Nat /\ Len(t) <= Len(t)
    BY <1>1
  <2> DEFINE k == Len(t)
  <2> HIDE DEF k
  <2>3. k \in Nat /\ k <= Len(t) /\ \E j \in 1..(k + 1) : queue[j] = seq
    BY <2>1, <2>2 DEF k
  <2>4. \E j \in 1..k : t[j] = seq
    BY <1>3, <2>3
  <2> QED
    BY <2>4 DEF k
<1> QED
  BY <1>2, <1>4, <1>5 DEF t, h

LEMMA FlowType ==
  ASSUME Typed
  PROVE  Flow \in Seq(1..Len(kinds)) /\ Len(kinds) \in Nat
  BY DEF Typed, TypeOK, Known, Flow

\* What the client has and what is on its way does not change: a step that is
\* only about the generator, the audit or a new connection.
LEMMA NothingMoves ==
  ASSUME NothingMissed, Whole, UNCHANGED <<kinds, seen, lastId>>, Flow' = Flow,
         cursor' \in {cursor, lastId}, subscribed' /\ ~cut' => subscribed /\ ~cut
  PROVE  NothingMissed'
<1>1. Facts' = Facts
  BY DEF Facts
<1> QED
  BY <1>1 DEF NothingMissed

\* What is on its way is dropped, with the subscription.
LEMMA NothingComes ==
  ASSUME NothingMissed, Whole, UNCHANGED <<kinds, cursor>>, outbox' = <<>>, mailbox' = <<>>,
         ~subscribed', Caught(cursor, Facts, seen'), Caught(lastId', Facts, seen')
  PROVE  NothingMissed'
<1>1. Facts' = Facts
  BY DEF Facts
<1>2. Flow' = <<>> /\ Len(<<>>) = 0
  BY DEF Flow
<1>3. NoGap(Flow', Facts, seen')
  BY <1>2 DEF NoGap
<1> QED
  BY <1>1, <1>3 DEF NothingMissed

LEMMA EmitMissesNothing ==
  ASSUME Typed, NothingMissed, Whole, Emit
  PROVE  NothingMissed'
<1> DEFINE n == Len(kinds)
           new == Facts' \ Facts
<1>a. /\ n \in Nat /\ Flow \in Seq(1..n) /\ kinds \in Seq(Kinds)
      /\ cursor \in 0..n /\ lastId \in 0..n /\ outbox \in Seq(1..n) /\ mailbox \in Seq(1..n)
  BY FlowType DEF Typed, TypeOK, Known
<1>b. /\ Caught(cursor, Facts, seen) /\ Caught(lastId, Facts, seen)
      /\ NoGap(Flow, Facts, seen)
      /\ subscribed /\ ~cut => Complete(Flow, Facts, seen)
  BY DEF NothingMissed
<1>c. \A seq \in Facts : seq \in Nat /\ seq <= n
  BY FactsType DEF Typed
<1>1. PICK kind \in Kinds : kinds' = Append(kinds, kind) /\ Deliver(n + 1, kind)
  BY DEF Emit
<1>2. UNCHANGED <<subscribed, outbox, cursor, lastId, seen>>
  BY DEF Emit, clientVars
<1>3. /\ Facts' = Facts \cup new
      /\ new \subseteq {n + 1}
      /\ kind \in Droppable => new = {}
  <2>1. /\ Len(kinds') = n + 1
        /\ \A seq \in 1..n : kinds'[seq] = kinds[seq]
        /\ kinds'[n + 1] = kind
    BY <1>a, <1>1
  <2>2. \A seq \in 1..(n + 1) : seq \in 1..n \/ seq = n + 1
    BY <1>a
  <2>3. 1..n \subseteq 1..(n + 1)
    BY <1>a
  <2>4. Facts \subseteq Facts'
    BY <2>1, <2>3 DEF Facts, FactsOf
  <2>5. \A seq \in Facts' : seq \in Facts \/ (seq = n + 1 /\ kind \notin Droppable)
    BY <2>1, <2>2 DEF Facts, FactsOf
  <2> QED
    BY <2>4, <2>5
<1> HIDE DEF n, new
<1>4. CASE mailbox' = mailbox /\ (subscribed /\ ~cut' => ~cut /\ new = {})
  <2>1. Flow' = Flow
    BY <1>2, <1>4 DEF Flow
  <2>2. /\ NoGap(Flow, Facts \cup new, seen)
        /\ Caught(cursor, Facts \cup new, seen) /\ Caught(lastId, Facts \cup new, seen)
    BY <1>a, <1>b, <1>3, Published
  <2>3. subscribed' /\ ~cut' => Complete(Flow, Facts \cup new, seen)
    <3>1. new = {} => Facts \cup new = Facts
      OBVIOUS
    <3> QED
      BY <1>b, <1>2, <1>4, <3>1
  <2> QED
    BY <1>2, <1>3, <2>1, <2>2, <2>3 DEF NothingMissed
<1>5. CASE subscribed /\ ~cut /\ mailbox' = Append(mailbox, n + 1)
  <2>1. Flow' = Append(Flow, n + 1)
    <3>1. outbox \o Append(mailbox, n + 1) = Append(outbox \o mailbox, n + 1)
      <4>1. n + 1 \in Nat /\ outbox \in Seq(Nat) /\ mailbox \in Seq(Nat)
        BY <1>a, KnownNumbers
      <4> HIDE DEF n
      <4> QED
        BY <4>1
    <3> QED
      BY <1>2, <1>5, <3>1 DEF Flow
  <2>2. /\ NoGap(Append(Flow, n + 1), Facts \cup new, seen)
        /\ Complete(Append(Flow, n + 1), Facts \cup new, seen)
    BY <1>a, <1>b, <1>c, <1>3, <1>5, Enqueued
  <2>3. Caught(cursor, Facts \cup new, seen) /\ Caught(lastId, Facts \cup new, seen)
    BY <1>a, <1>b, <1>3, Published
  <2> QED
    BY <1>2, <1>3, <2>1, <2>2, <2>3 DEF NothingMissed
<1>6. \/ mailbox' = mailbox /\ (subscribed /\ ~cut' => ~cut /\ new = {})
      \/ subscribed /\ ~cut /\ mailbox' = Append(mailbox, n + 1)
  <2>1. CASE ~subscribed \/ cut
    BY <1>1, <2>1 DEF Deliver
  <2>2. CASE subscribed /\ ~cut /\ Len(mailbox) < QueueLimit
    BY <1>1, <2>2 DEF Deliver
  <2>3. CASE subscribed /\ ~cut /\ ~(Len(mailbox) < QueueLimit)
    BY <1>1, <1>3, <2>3 DEF Deliver
  <2> QED
    BY <2>1, <2>2, <2>3
<1> QED
  BY <1>4, <1>5, <1>6

LEMMA ReplayMissesNothing ==
  ASSUME Typed, AuditKept, NothingMissed, Whole, Replay \/ Subscribe
  PROVE  NothingMissed'
<1>1. /\ UNCHANGED <<kinds, audit, cursor, lastId, seen>>
      /\ outbox' = Retained(cursor) /\ mailbox' = <<>>
  <2>1. CASE Replay
    <3>1. mailbox = <<>>
      BY <2>1 DEF Replay, Typed, Quiet
    <3> QED
      BY <2>1, <3>1 DEF Replay, busVars, subscription, clientVars
  <2>2. CASE Subscribe
    BY <2>2 DEF Subscribe, busVars, clientVars
  <2> QED
    BY <2>1, <2>2
<1>2. /\ Caught(cursor, Facts, seen) /\ Caught(lastId, Facts, seen)
      /\ cursor \in Nat /\ Retained(cursor) \in Seq(1..Len(kinds))
  BY RetainedType DEF NothingMissed, Typed, TypeOK
<1>3. Flow' = Retained(cursor)
  BY <1>1, <1>2, ConcatEmptySeq DEF Flow
<1>4. NoGap(Retained(cursor), Facts, seen) /\ Complete(Retained(cursor), Facts, seen)
  BY <1>2, Replayed
<1>5. Facts' = Facts
  BY <1>1 DEF Facts
<1> QED
  BY <1>1, <1>2, <1>3, <1>4, <1>5 DEF NothingMissed

LEMMA YieldMissesNothing ==
  ASSUME Typed, NothingMissed, Whole, Yield
  PROVE  NothingMissed'
<1> DEFINE seq == Head(outbox)
           n == Len(kinds)
<1>a. /\ n \in Nat /\ Flow \in Seq(1..n) /\ outbox \in Seq(1..n) /\ mailbox \in Seq(1..n)
      /\ outbox # <<>>
  BY FlowType DEF Typed, Known, Yield
<1>b. /\ Caught(cursor, Facts, seen) /\ NoGap(Flow, Facts, seen)
      /\ subscribed /\ ~cut => Complete(Flow, Facts, seen)
  BY DEF NothingMissed
<1>1. UNCHANGED <<kinds, cursor>> /\ lastId' = seq /\ seen' = seen \cup {seq}
  BY DEF Yield, busVars
<1>2. Flow # <<>> /\ Head(Flow) = seq /\ Tail(Flow) = Tail(outbox) \o mailbox
  <2>1. outbox \in Seq(Nat) /\ mailbox \in Seq(Nat)
    BY <1>a, KnownNumbers
  <2> HIDE DEF n
  <2>2. outbox = <<seq>> \o Tail(outbox)
    BY <1>a, <2>1
  <2>3. /\ Len(outbox) \in Nat /\ Len(outbox) # 0 /\ Len(Flow) = Len(outbox) + Len(mailbox)
        /\ Flow[1] = outbox[1] /\ seq = outbox[1]
    BY <1>a, <2>1 DEF Flow
  <2>4. Flow # <<>> /\ Head(Flow) = seq
    BY <1>a, <2>1, <2>3 DEF Flow
  <2>5. Tail(Flow) = Tail(outbox) \o mailbox
    BY <1>a, <2>1 DEF Flow
  <2> QED
    BY <2>4, <2>5
<1>3. Facts' = Facts
  BY <1>1 DEF Facts
<1> HIDE DEF n, seq
<1>4. /\ Caught(seq, Facts, seen') /\ NoGap(Tail(Flow), Facts, seen')
      /\ subscribed /\ ~cut => Complete(Tail(Flow), Facts, seen')
  BY <1>a, <1>b, <1>1, <1>2, Received
<1>5. Caught(cursor, Facts, seen')
  BY <1>b, <1>1 DEF Caught
<1>6. CASE outbox' = <<>> /\ mailbox' = <<>> /\ subscribed' = FALSE
  BY <1>1, <1>4, <1>5, <1>6, NothingComes
<1>7. CASE outbox' = Tail(outbox) /\ UNCHANGED <<mailbox, subscribed, cut>>
  <2>1. Flow' = Tail(Flow)
    BY <1>2, <1>7 DEF Flow
  <2> QED
    BY <1>1, <1>3, <1>4, <1>5, <1>7, <2>1 DEF NothingMissed
<1> QED
  BY <1>6, <1>7 DEF Yield, subscription

LEMMA MissedStep == ASSUME StreamInv, [Next]_vars PROVE NothingMissed'
<1>a. Typed /\ AuditKept /\ NothingMissed
  BY DEF StreamInv
<1>b. mailbox \in Seq(Nat) /\ outbox \in Seq(Nat)
  BY DEF StreamInv, Typed, TypeOK
<1> SUFFICES ASSUME Whole' PROVE NothingMissed'
  BY DEF NothingMissed
<1>c. Whole
  <2>1. Len(kinds) \in Nat /\ others \in Nat /\ AuditLimit \in Nat /\ kinds \in Seq(Kinds)
    BY Limits DEF StreamInv, Typed, TypeOK
  <2>2. \/ Len(kinds') = Len(kinds) + 1 /\ others' = others
        \/ kinds' = kinds /\ others' = others + 1
        \/ kinds' = kinds /\ others' = others
    <3>1. CASE Emit
      <4>1. PICK kind \in Kinds : kinds' = Append(kinds, kind)
        BY <3>1 DEF Emit
      <4>2. Len(kinds') = Len(kinds) + 1 /\ others' = others
        BY <2>1, <3>1, <4>1 DEF Emit
      <4> QED
        BY <4>2
    <3>2. CASE EmitOther
      BY <3>2 DEF EmitOther
    <3>3. CASE Connect \/ Generate \/ Disconnect \/ UNCHANGED vars
      BY <3>3 DEF Connect, Generate, Replay, Subscribe, Drain, Yield, Disconnect, busVars, vars
    <3> QED
      BY <3>1, <3>2, <3>3 DEF Next
  <2> QED
    BY <2>1, <2>2 DEF Whole
<1>1. CASE Emit
  BY <1>1, <1>a, <1>c, EmitMissesNothing
<1>2. CASE Replay \/ Subscribe
  BY <1>2, <1>a, <1>c, ReplayMissesNothing
<1>3. CASE Yield
  BY <1>3, <1>a, <1>c, YieldMissesNothing
<1>4. CASE EmitOther \/ Connect \/ UNCHANGED vars
  <2>1. /\ UNCHANGED <<kinds, seen, lastId, outbox, mailbox, subscribed, cut>>
        /\ cursor' \in {cursor, lastId}
    BY <1>4 DEF EmitOther, Connect, subscription, clientVars, busVars, vars
  <2>2. Flow' = Flow
    BY <2>1 DEF Flow
  <2> QED
    BY <1>a, <1>c, <2>1, <2>2, NothingMoves
<1>5. CASE Drain
  <2>1. /\ UNCHANGED <<kinds, seen, lastId, cursor, subscribed, cut>>
        /\ outbox = <<>> /\ outbox' = mailbox /\ mailbox' = <<>>
    BY <1>5 DEF Drain, busVars, clientVars
  <2>2. Flow' = mailbox /\ Flow = mailbox
    BY <1>b, <2>1, ConcatEmptySeq DEF Flow
  <2> QED
    BY <1>a, <1>c, <2>1, <2>2, NothingMoves
<1>6. CASE Disconnect
  <2>1. /\ UNCHANGED <<kinds, seen, lastId, cursor>>
        /\ outbox' = <<>> /\ mailbox' = <<>> /\ subscribed' = FALSE
    BY <1>6 DEF Disconnect, busVars, clientVars
  <2>2. Caught(cursor, Facts, seen') /\ Caught(lastId', Facts, seen')
    BY <1>a, <1>c, <2>1 DEF NothingMissed
  <2> QED
    BY <1>a, <1>c, <2>1, <2>2, NothingComes
<1> QED
  BY <1>1, <1>2, <1>3, <1>4, <1>5, <1>6 DEF Next, Generate

LEMMA StreamInit == Init => StreamInv
<1> SUFFICES ASSUME Init PROVE StreamInv
  OBVIOUS
<1>1. /\ kinds = <<>> /\ audit = <<>> /\ others = 0 /\ outbox = <<>> /\ mailbox = <<>>
      /\ subscribed = FALSE /\ Len(<<>>) = 0
  BY DEF Init
<1>2. Facts = {}
  BY <1>1 DEF Facts, FactsOf
<1>3. AuditKept
  BY <1>1 DEF AuditKept, InOrder, Holds
<1>4. NothingMissed
  BY <1>1, <1>2 DEF NothingMissed, Caught, NoGap
<1> QED
  BY <1>3, <1>4, TypedInit DEF StreamInv

\* However often the connection breaks and whatever the mailbox drops: a client
\* that holds a frame has seen every earlier event that may not be dropped
\* (EventBus.emit, subscribe, drain and the generator of run_events).
THEOREM FactsArrive == Spec => []NoFactSkipped
<1>1. StreamInv /\ [Next]_vars => StreamInv'
  BY TypedStep, AuditStep, MissedStep DEF StreamInv
<1>2. StreamInv => NoFactSkipped
  <2> SUFFICES ASSUME StreamInv, Whole, NEW seq \in 1..lastId, kinds[seq] \notin Droppable
               PROVE  seq \in seen
    BY DEF NoFactSkipped, Whole
  <2>1. lastId \in 0..Len(kinds) /\ Len(kinds) \in Nat
    BY FactsType DEF StreamInv, Typed, Known
  <2>2. seq \in 1..Len(kinds) /\ seq <= lastId
    BY <2>1
  <2>3. seq \in Facts
    BY <2>2 DEF Facts, FactsOf
  <2> QED
    BY <2>2, <2>3 DEF StreamInv, NothingMissed, Caught
<1> QED
  BY <1>1, <1>2, StreamInit, PTL DEF Spec
=============================================================================
