-------------------------- MODULE AgentControlProofs --------------------------
(***************************************************************************)
(* What is proved of the control channel of AgentLoop for every value of   *)
(* its constants: the two queues deliver what they accepted, once and in   *)
(* order.  A message is found by counting: the n-th one accepted is the    *)
(* one at the n-th place of its kind, or waits in the queue.               *)
(***************************************************************************)
EXTENDS AgentLoopProofs, SelectionProofs

-----------------------------------------------------------------------------
(* Counting places.                                                        *)

LEMMA PlacesFinite ==
  ASSUME NEW h \in Seq(Messages), NEW S, NEW R
  PROVE  /\ Places(h, S, R) \subseteq 1..Len(h) /\ Len(h) \in Nat
         /\ IsFiniteSet(Places(h, S, R))
         /\ Cardinality(Places(h, S, R)) \in Nat
<1>1. Places(h, S, R) \subseteq 1..Len(h) /\ Len(h) \in Nat
  BY DEF Places
<1>2. IsFiniteSet(1..Len(h))
  BY <1>1, FS_Interval
<1>3. IsFiniteSet(Places(h, S, R))
  BY <1>1, <1>2, FS_Subset
<1> QED
  BY <1>1, <1>3, FS_CardinalityType

\* A block of places behind all others: the old ranks stay, the new ones follow.
LEMMA RankAfter ==
  ASSUME NEW n \in Nat, NEW A \in SUBSET (1..n), NEW k \in Nat
  PROVE  LET B == A \cup (n + 1)..(n + k)
         IN  /\ Cardinality(B) = Cardinality(A) + k
             /\ \A p \in A : Rank(B, p) = Rank(A, p)
             /\ \A j \in 1..k : Rank(B, n + j) = Cardinality(A) + j
<1> DEFINE B == A \cup (n + 1)..(n + k)
<1>1. IsFiniteSet(A) /\ Cardinality(A) \in Nat
  <2>1. IsFiniteSet(1..n)
    BY FS_Interval
  <2>2. IsFiniteSet(A)
    BY <2>1, FS_Subset
  <2> QED
    BY <2>2, FS_CardinalityType
<1>2. ASSUME NEW j \in 0..k
      PROVE  Cardinality(A \cup (n + 1)..(n + j)) = Cardinality(A) + j
  <2> DEFINE I == (n + 1)..(n + j)
  <2>1. IsFiniteSet(I) /\ Cardinality(I) = j
    <3>1. /\ n + 1 \in Int /\ n + j \in Int /\ j \in Nat
          /\ (IF n + 1 > n + j THEN 0 ELSE (n + j) - (n + 1) + 1) = j
      OBVIOUS
    <3> QED
      BY <3>1, FS_Interval
  <2>2. A \cap I = {}
    OBVIOUS
  <2> HIDE DEF I
  <2>3. Cardinality(A \cup I) = Cardinality(A) + Cardinality(I) - Cardinality(A \cap I)
    BY <1>1, <2>1, FS_Union
  <2>4. Cardinality(A \cap I) = 0
    BY <2>2, FS_EmptySet
  <2>5. Cardinality(A \cup I) = Cardinality(A) + j
    BY <1>1, <2>1, <2>3, <2>4
  <2> QED
    BY <2>5 DEF I
<1>3. Cardinality(B) = Cardinality(A) + k
  BY <1>2
<1>4. ASSUME NEW p \in A
      PROVE  Rank(B, p) = Rank(A, p)
  <2>1. {q \in B : q <= p} = {q \in A : q <= p}
    OBVIOUS
  <2> QED
    BY <2>1 DEF Rank
<1>5. ASSUME NEW j \in 1..k
      PROVE  Rank(B, n + j) = Cardinality(A) + j
  <2>1. {q \in B : q <= n + j} = A \cup (n + 1)..(n + j)
    <3>1. \A q \in A : q <= n + j
      OBVIOUS
    <3>2. \A q \in (n + 1)..(n + k) : q <= n + j <=> q \in (n + 1)..(n + j)
      OBVIOUS
    <3>3. (n + 1)..(n + j) \subseteq (n + 1)..(n + k)
      OBVIOUS
    <3> QED
      BY <3>1, <3>2, <3>3
  <2>2. j \in 0..k
    OBVIOUS
  <2>3. Cardinality({q \in B : q <= n + j}) = Cardinality(A) + j
    BY <1>2, <2>1, <2>2
  <2> QED
    BY <2>3 DEF Rank
<1> QED
  BY <1>3, <1>4, <1>5

-----------------------------------------------------------------------------
(* What can happen to a queue.                                             *)

\* Messages that came from elsewhere change nothing.
LEMMA OthersAdded ==
  ASSUME NEW h \in Seq(Messages), NEW t \in Seq(Messages), NEW S, NEW R,
         \A j \in 1..Len(t) : ~(t[j].type = "user" /\ t[j].src \in S /\ t[j].run \in R),
         NEW submitted, NEW queue,
         Conserved(submitted, h, Places(h, S, R), queue)
  PROVE  Conserved(submitted, h \o t, Places(h \o t, S, R), queue)
<1> DEFINE g == h \o t
<1>1. /\ Len(g) = Len(h) + Len(t) /\ Len(h) \in Nat /\ Len(t) \in Nat
      /\ \A p \in 1..Len(h) : g[p] = h[p]
      /\ \A p \in 1..Len(g) : p \notin 1..Len(h) =>
           p - Len(h) \in 1..Len(t) /\ g[p] = t[p - Len(h)]
  OBVIOUS
<1> HIDE DEF g
<1>2. Places(g, S, R) = Places(h, S, R)
  BY <1>1 DEF Places
<1>3. \A p \in Places(h, S, R) : g[p] = h[p]
  BY <1>1 DEF Places
<1>4. Conserved(submitted, g, Places(g, S, R), queue)
  BY <1>2, <1>3 DEF Conserved
<1> QED
  BY <1>4 DEF g

\* The first messages of the queue go to the end of the history.
LEMMA Delivered ==
  ASSUME NEW h \in Seq(Messages), NEW t \in Seq(Messages), NEW S, NEW R, NEW T,
         \A j \in 1..Len(t) : t[j].type = "user" /\ t[j].src \in S /\ t[j].run \in R,
         NEW submitted \in Seq(T), NEW queue \in Seq(T), NEW rest \in Seq(T),
         Conserved(submitted, h, Places(h, S, R), queue),
         Len(queue) = Len(t) + Len(rest),
         \A j \in 1..Len(t) : t[j].src = queue[j],
         \A i \in 1..Len(rest) : rest[i] = queue[Len(t) + i]
  PROVE  Conserved(submitted, h \o t, Places(h \o t, S, R), rest)
<1> DEFINE g == h \o t
           A == Places(h, S, R)
           B == Places(g, S, R)
           n == Len(h)
           k == Len(t)
<1>1. /\ Len(g) = n + k /\ n \in Nat /\ k \in Nat
      /\ \A p \in 1..n : g[p] = h[p]
      /\ \A j \in 1..k : g[n + j] = t[j]
      /\ \A p \in 1..Len(g) : p \notin 1..n => p - n \in 1..k /\ g[p] = t[p - n]
  OBVIOUS
<1>2. A \in SUBSET (1..n) /\ Cardinality(A) \in Nat
  BY PlacesFinite
<1> HIDE DEF g
<1>3. B = A \cup (n + 1)..(n + k)
  <2>1. ASSUME NEW p \in 1..n
        PROVE  p \in B <=> p \in A
    BY <1>1 DEF Places
  <2>2. ASSUME NEW p \in (n + 1)..(n + k)
        PROVE  p \in B
    <3>1. p \in 1..Len(g) /\ p \notin 1..n
      BY <1>1
    <3>2. p - n \in 1..k /\ g[p] = t[p - n]
      BY <1>1, <3>1
    <3> QED
      BY <3>1, <3>2 DEF Places
  <2>3. B \subseteq 1..n \cup (n + 1)..(n + k)
    BY <1>1 DEF Places
  <2> HIDE DEF A, B
  <2> QED
    BY <1>2, <2>1, <2>2, <2>3
<1>4. Len(submitted) = Cardinality(A) + Len(queue)
      /\ (\A p \in A : h[p].src = submitted[Rank(A, p)])
      /\ (\A i \in 1..Len(queue) : queue[i] = submitted[Cardinality(A) + i])
  BY DEF Conserved
<1> HIDE DEF A, B, n, k
<1>5. /\ Cardinality(B) = Cardinality(A) + k
      /\ \A p \in A : Rank(B, p) = Rank(A, p)
      /\ \A j \in 1..k : Rank(B, n + j) = Cardinality(A) + j
  <2>1. n \in Nat /\ k \in Nat
    BY <1>1
  <2>2. A \in SUBSET (1..n)
    BY <1>2
  <2>3. LET C == A \cup (n + 1)..(n + k)
        IN  /\ Cardinality(C) = Cardinality(A) + k
            /\ \A p \in A : Rank(C, p) = Rank(A, p)
            /\ \A j \in 1..k : Rank(C, n + j) = Cardinality(A) + j
    BY ONLY <2>1, <2>2, RankAfter
  <2> QED
    BY ONLY <1>3, <2>3
<1>6. Len(queue) \in Nat /\ Len(rest) \in Nat /\ Len(queue) = k + Len(rest)
  BY DEF k
<1>7. Len(submitted) = Cardinality(B) + Len(rest)
  <2>1. Len(submitted) = Cardinality(A) + (k + Len(rest)) /\ k \in Nat
    BY <1>1, <1>4, <1>6
  <2> QED
    BY <1>2, <1>5, <1>6, <2>1
<1>8. ASSUME NEW p \in B
      PROVE  g[p].src = submitted[Rank(B, p)]
  <2>1. CASE p \in A
    BY <1>1, <1>2, <1>4, <1>5, <2>1
  <2>2. CASE p \in (n + 1)..(n + k)
    <3>1. PICK j \in 1..k : p = n + j
      <4>1. p - n \in 1..k /\ p = n + (p - n)
        BY <1>1, <2>2
      <4> QED
        BY <4>1
    <3>2. g[p] = t[j] /\ t[j].src = queue[j]
      BY <1>1, <3>1 DEF k
    <3>3. j \in 1..Len(queue)
      BY <1>1, <1>6
    <3> QED
      BY <1>4, <1>5, <3>1, <3>2, <3>3
  <2> QED
    BY <1>3, <2>1, <2>2
<1>9. ASSUME NEW i \in 1..Len(rest)
      PROVE  rest[i] = submitted[Cardinality(B) + i]
  <2>1. rest[i] = queue[k + i] /\ k + i \in 1..Len(queue)
    BY <1>1, <1>6 DEF k
  <2>2. rest[i] = submitted[Cardinality(A) + (k + i)]
    BY <1>4, <2>1
  <2>3. Cardinality(A) + (k + i) = Cardinality(B) + i
    BY <1>1, <1>2, <1>5
  <2> QED
    BY <2>2, <2>3
<1>10. Conserved(submitted, g, B, rest)
  BY <1>7, <1>8, <1>9 DEF Conserved
<1> QED
  BY <1>10 DEF g, B

\* A message is accepted: it is the last one submitted and the last one queued.
LEMMA Accepted ==
  ASSUME NEW h \in Seq(Messages), NEW S, NEW R, NEW T,
         NEW submitted \in Seq(T), NEW queue \in Seq(T), NEW m \in T,
         Conserved(submitted, h, Places(h, S, R), queue)
  PROVE  Conserved(Append(submitted, m), h, Places(h, S, R), Append(queue, m))
<1> DEFINE A == Places(h, S, R)
           new == Append(submitted, m)
           waiting == Append(queue, m)
<1>1. IsFiniteSet(A) /\ A \subseteq Nat /\ Cardinality(A) \in Nat
  BY PlacesFinite
<1>2. /\ Len(submitted) \in Nat /\ Len(queue) \in Nat
      /\ Len(new) = Len(submitted) + 1 /\ Len(waiting) = Len(queue) + 1
      /\ \A i \in 1..Len(submitted) : new[i] = submitted[i]
      /\ \A i \in 1..Len(queue) : waiting[i] = queue[i]
      /\ new[Len(submitted) + 1] = m /\ waiting[Len(queue) + 1] = m
  OBVIOUS
<1>3. /\ Len(submitted) = Cardinality(A) + Len(queue)
      /\ \A p \in A : h[p].src = submitted[Rank(A, p)]
      /\ \A i \in 1..Len(queue) : queue[i] = submitted[Cardinality(A) + i]
  BY DEF Conserved
<1> HIDE DEF A, new, waiting
<1>4. ASSUME NEW p \in A
      PROVE  Rank(A, p) \in 1..Len(submitted)
  <2>1. Rank(A, p) \in 1..Cardinality(A)
    BY <1>1, RankRange
  <2>2. Cardinality(A) <= Len(submitted)
    BY <1>1, <1>2, <1>3
  <2> QED
    BY <1>1, <1>2, <2>1, <2>2
<1>5. ASSUME NEW i \in 1..Len(waiting)
      PROVE  waiting[i] = new[Cardinality(A) + i]
  <2>1. CASE i \in 1..Len(queue)
    <3>1. Cardinality(A) + i \in 1..Len(submitted)
      BY <1>1, <1>2, <1>3, <2>1
    <3> QED
      BY <1>2, <1>3, <2>1, <3>1
  <2>2. CASE i \notin 1..Len(queue)
    <3>1. i = Len(queue) + 1 /\ Cardinality(A) + i = Len(submitted) + 1
      BY <1>1, <1>2, <1>3, <2>2
    <3> QED
      BY <1>2, <3>1
  <2> QED
    BY <2>1, <2>2
<1>6. Len(new) = Cardinality(A) + Len(waiting)
  BY <1>1, <1>2, <1>3
<1>7. \A p \in A : h[p].src = new[Rank(A, p)]
  BY <1>2, <1>3, <1>4
<1>8. Conserved(new, h, A, waiting)
  BY <1>5, <1>6, <1>7 DEF Conserved
<1> QED
  BY <1>8 DEF A, new, waiting

-----------------------------------------------------------------------------
(* The invariant.                                                          *)

\* No message belongs to a run that has not been started.
Numbered == \A p \in 1..Len(log) : log[p].type = "user" => log[p].run <= runs

Controlled == ControlConserved /\ Numbered

\* A history that grows by messages of the model and of tools only.
LEMMA NoUserAdded ==
  ASSUME TypeOK, Controlled, NEW t \in Seq(Messages), log' = log \o t,
         \A j \in 1..Len(t) : t[j].type # "user",
         UNCHANGED <<runs, steering, accepted, followUps, enqueued>>
  PROVE  Controlled'
<1>a. log \in Seq(Messages)
  BY DEF TypeOK
<1>1. Conserved(accepted, log', Places(log', Steers, {runs}), steering)
  BY <1>a, OthersAdded DEF Controlled, ControlConserved
<1>2. Conserved(enqueued, log', Places(log', FollowUps, Nat), followUps)
  BY <1>a, OthersAdded DEF Controlled, ControlConserved
<1>3. ASSUME NEW p \in 1..Len(log'), log'[p].type = "user"
      PROVE  log'[p].run <= runs
  <2>1. p \in 1..Len(log) /\ log'[p] = log[p]
    <3>1. p \notin 1..Len(log) => p - Len(log) \in 1..Len(t) /\ log'[p] = t[p - Len(log)]
      BY <1>a
    <3> QED
      BY <1>a, <1>3, <3>1
  <2> QED
    BY <1>3, <2>1 DEF Controlled, Numbered
<1> QED
  BY <1>1, <1>2, <1>3 DEF Controlled, ControlConserved, Numbered

LEMMA NothingAdded ==
  ASSUME TypeOK, Controlled, UNCHANGED <<log, runs, steering, accepted, followUps, enqueued>>
  PROVE  Controlled'
<1>1. Places(log, Steers, {runs})' = Places(log, Steers, {runs})
      /\ Places(log, FollowUps, Nat)' = Places(log, FollowUps, Nat)
  BY DEF Places
<1>2. Conserved(accepted, log, Places(log, Steers, {runs}), steering)'
  BY <1>1 DEF Controlled, ControlConserved, Conserved, Rank
<1>3. Conserved(enqueued, log, Places(log, FollowUps, Nat), followUps)'
  BY <1>1 DEF Controlled, ControlConserved, Conserved, Rank
<1>4. Numbered'
  BY DEF Controlled, Numbered
<1> QED
  BY <1>2, <1>3, <1>4 DEF Controlled, ControlConserved

LEMMA OneNotUser ==
  ASSUME TypeOK, Controlled, NEW m \in Messages, m.type # "user", log' = Append(log, m),
         UNCHANGED <<runs, steering, accepted, followUps, enqueued>>
  PROVE  Controlled'
<1>1. <<m>> \in Seq(Messages) /\ log' = log \o <<m>>
  BY AppendIsConcat DEF TypeOK
<1>2. \A j \in 1..Len(<<m>>) : <<m>>[j].type # "user"
  OBVIOUS
<1> DEFINE t == <<m>>
<1> HIDE DEF t
<1>3. t \in Seq(Messages) /\ log' = log \o t /\ \A j \in 1..Len(t) : t[j].type # "user"
  BY <1>1, <1>2 DEF t
<1> QED
  BY <1>3, NoUserAdded

\* A message of a queue, or the task, put at the end of the history.
LEMMA NumberedStays ==
  ASSUME TypeOK, Numbered, NEW t \in Seq(Messages), log' = log \o t,
         \A j \in 1..Len(t) : t[j].type = "user" => t[j].run <= runs',
         runs <= runs', runs' \in Nat
  PROVE  Numbered'
<1>1. log \in Seq(Messages) /\ runs \in Nat
  BY DEF TypeOK
<1> SUFFICES ASSUME NEW p \in 1..Len(log'), log'[p].type = "user"
             PROVE  log'[p].run <= runs'
  BY DEF Numbered
<1>2. CASE p \in 1..Len(log)
  <2>1. log'[p] = log[p] /\ log[p].run <= runs
    BY <1>1, <1>2 DEF Numbered
  <2>2. log[p].run \in Nat
    <3>1. log[p] \in Messages /\ log[p].type = "user"
      BY <1>1, <1>2, <2>1
    <3> QED
      BY <3>1 DEF Messages
  <2> QED
    BY <1>1, <2>1, <2>2
<1>3. CASE p \notin 1..Len(log)
  <2>1. p - Len(log) \in 1..Len(t) /\ log'[p] = t[p - Len(log)]
    BY <1>1, <1>3
  <2> QED
    BY <2>1
<1> QED
  BY <1>2, <1>3

\* A new run has no steering yet, sent or queued.
LEMMA NewRunControlled ==
  ASSUME TypeOK, Controlled, NewRun, NEW t \in Seq(Messages), log' = log \o t,
         \A j \in 1..Len(t) : t[j].type = "user" => t[j].src = Task /\ t[j].run = runs + 1
  PROVE  Controlled'
<1>a. log \in Seq(Messages) /\ runs \in Nat /\ runs' = runs + 1
  BY DEF TypeOK, NewRun
<1>1. Numbered'
  BY <1>a, NumberedStays DEF Controlled
<1>2. Places(log', Steers, {runs'}) = {}
  <2> SUFFICES ASSUME NEW p \in 1..Len(log'), log'[p].type = "user", log'[p].src \in Steers,
                      log'[p].run = runs + 1
               PROVE  FALSE
    BY <1>a DEF Places
  <2>1. CASE p \in 1..Len(log)
    <3>1. log'[p] = log[p] /\ log[p].run <= runs
      BY <1>a, <2>1 DEF Controlled, Numbered
    <3> QED
      BY <1>a, <3>1
  <2>2. CASE p \notin 1..Len(log)
    <3>1. p - Len(log) \in 1..Len(t) /\ log'[p] = t[p - Len(log)]
      BY <1>a, <2>2
    <3> QED
      BY <3>1, LimitsAssumption
  <2> QED
    BY <2>1, <2>2
<1>3. Conserved(accepted', log', Places(log', Steers, {runs'}), steering')
  <2>1. accepted' = <<>> /\ steering' = <<>>
    BY DEF NewRun
  <2>2. Cardinality({}) = 0
    BY FS_EmptySet
  <2>3. Conserved(<<>>, log', {}, <<>>)
    BY <2>2 DEF Conserved
  <2> QED
    BY <1>2, <2>1, <2>3
<1>4. Conserved(enqueued', log', Places(log', FollowUps, Nat), followUps')
  <2>1. enqueued' = enqueued /\ followUps' = followUps
    BY DEF NewRun
  <2>2. \A j \in 1..Len(t) : ~(t[j].type = "user" /\ t[j].src \in FollowUps /\ t[j].run \in Nat)
    BY LimitsAssumption
  <2>3. Conserved(enqueued, log \o t, Places(log \o t, FollowUps, Nat), followUps)
    BY <1>a, <2>2, OthersAdded DEF Controlled, ControlConserved
  <2> QED
    BY <2>1, <2>3
<1> QED
  BY <1>1, <1>3, <1>4 DEF Controlled, ControlConserved

\* The whole steering queue is injected.
LEMMA DrainControlled ==
  ASSUME TypeOK, Controlled, DrainSteering, runs' = runs
  PROVE  Controlled'
<1> DEFINE t == Injected(steering)
<1>a. /\ log \in Seq(Messages) /\ runs \in Nat /\ t \in Seq(Messages)
      /\ steering \in Seq(Steers) /\ accepted \in Seq(Steers)
  BY InjectedType DEF TypeOK
<1>b. log' = log \o t /\ steering' = <<>> /\ UNCHANGED <<accepted, followUps, enqueued>>
  BY DEF DrainSteering
<1>1. Len(t) = Len(steering)
      /\ \A j \in 1..Len(t) : t[j].type = "user" /\ t[j].src = steering[j] /\ t[j].run = runs
                              /\ t[j].src \in Steers
  BY <1>a DEF Injected, UserMessage
<1> HIDE DEF t
<1>2. Numbered'
  <2>1. (\A j \in 1..Len(t) : t[j].type = "user" => t[j].run <= runs')
        /\ runs <= runs' /\ runs' \in Nat
    BY <1>a, <1>1
  <2> QED
    BY <1>a, <1>b, <2>1, NumberedStays DEF Controlled
<1>3. Conserved(accepted, log \o t, Places(log \o t, Steers, {runs}), <<>>)
  <2>1. <<>> \in Seq(Steers) /\ Len(<<>>) = 0 /\ Len(steering) = Len(t) + Len(<<>>)
    BY <1>a, <1>1
  <2>2. Conserved(accepted, log, Places(log, Steers, {runs}), steering)
    BY DEF Controlled, ControlConserved
  <2>3. \A i \in 1..Len(<<>>) : <<>>[i] = steering[Len(t) + i]
    BY <2>1
  <2> QED
    BY <1>a, <1>1, <2>1, <2>2, <2>3, Delivered
<1>4. Conserved(enqueued, log \o t, Places(log \o t, FollowUps, Nat), followUps)
  <2>1. \A j \in 1..Len(t) : ~(t[j].type = "user" /\ t[j].src \in FollowUps /\ t[j].run \in Nat)
    BY <1>1, LimitsAssumption
  <2> QED
    BY <1>a, <2>1, OthersAdded DEF Controlled, ControlConserved
<1> QED
  BY <1>b, <1>2, <1>3, <1>4 DEF Controlled, ControlConserved

\* One follow-up is taken from its queue.
LEMMA FollowUpControlled ==
  ASSUME TypeOK, Controlled, TurnFollowUp
  PROVE  Controlled'
<1> DEFINE m == UserMessage(Head(followUps))
           t == <<m>>
           rest == Tail(followUps)
<1>a. /\ log \in Seq(Messages) /\ runs \in Nat
      /\ followUps \in Seq(FollowUps) /\ enqueued \in Seq(FollowUps) /\ followUps # <<>>
  BY DEF TypeOK, TurnFollowUp
<1>b. /\ log' = Append(log, m) /\ followUps' = rest
      /\ UNCHANGED <<runs, steering, accepted, enqueued>>
  BY DEF TurnFollowUp
<1>1. /\ Head(followUps) \in FollowUps /\ rest \in Seq(FollowUps)
      /\ Head(followUps) = followUps[1] /\ Len(followUps) = 1 + Len(rest)
      /\ \A i \in 1..Len(rest) : rest[i] = followUps[1 + i]
  BY <1>a
<1>2. m \in Messages /\ m.type = "user" /\ m.src = followUps[1] /\ m.run = runs
      /\ m.src \in FollowUps
  BY <1>a, <1>1 DEF UserMessage, Messages, Sources
<1> HIDE DEF m, rest
<1>3. t \in Seq(Messages) /\ Len(t) = 1 /\ t[1] = m /\ log' = log \o t
  BY <1>a, <1>b, <1>2, AppendIsConcat
<1> HIDE DEF t
<1>4. Numbered'
  <2>1. (\A j \in 1..Len(t) : t[j].type = "user" => t[j].run <= runs')
        /\ runs <= runs' /\ runs' \in Nat
    BY <1>a, <1>b, <1>2, <1>3
  <2> QED
    BY <1>3, <2>1, NumberedStays DEF Controlled
<1>5. Conserved(enqueued, log \o t, Places(log \o t, FollowUps, Nat), rest)
  <2>1. \A j \in 1..Len(t) : t[j].type = "user" /\ t[j].src \in FollowUps /\ t[j].run \in Nat
                             /\ t[j].src = followUps[j]
    BY <1>a, <1>2, <1>3
  <2>2. Len(followUps) = Len(t) + Len(rest)
        /\ \A i \in 1..Len(rest) : rest[i] = followUps[Len(t) + i]
    BY <1>1, <1>3
  <2>3. Conserved(enqueued, log, Places(log, FollowUps, Nat), followUps)
    BY DEF Controlled, ControlConserved
  <2> QED
    BY <1>a, <1>1, <1>3, <2>1, <2>2, <2>3, Delivered
<1>6. Conserved(accepted, log \o t, Places(log \o t, Steers, {runs}), steering)
  <2>1. \A j \in 1..Len(t) : ~(t[j].type = "user" /\ t[j].src \in Steers /\ t[j].run \in {runs})
    BY <1>2, <1>3, LimitsAssumption
  <2> QED
    BY <1>a, <1>3, <2>1, OthersAdded DEF Controlled, ControlConserved
<1> QED
  BY <1>b, <1>3, <1>4, <1>5, <1>6 DEF Controlled, ControlConserved

-----------------------------------------------------------------------------
(* Every step.                                                             *)

LEMMA SkippedNotUser ==
  ASSUME TypeOK, InBatch
  PROVE  \A j \in 1..Len(SkippedResults) : SkippedResults[j].type # "user"
  BY DEF SkippedResults, ToolResult, TypeOK, InBatch

\* A submission adds its message behind those already sent, and moves nothing.
LEMMA SubmissionControlled ==
  ASSUME TypeOK, Controlled, SubmitSteering \/ SubmitFollowUp
  PROVE  Controlled'
<1>a. /\ log \in Seq(Messages) /\ log' = log /\ runs' = runs
      /\ steering \in Seq(Steers) /\ accepted \in Seq(Steers)
      /\ followUps \in Seq(FollowUps) /\ enqueued \in Seq(FollowUps)
  BY DEF TypeOK, SubmitSteering, SubmitFollowUp
<1>b. Conserved(accepted, log, Places(log, Steers, {runs}), steering)
      /\ Conserved(enqueued, log, Places(log, FollowUps, Nat), followUps)
  BY DEF Controlled, ControlConserved
<1>c. Numbered'
  BY <1>a DEF Controlled, Numbered
<1>1. CASE SubmitSteering
  <2>1. PICK m \in Steers : steering' = Append(steering, m) /\ accepted' = Append(accepted, m)
    BY <1>1 DEF SubmitSteering
  <2>2. Conserved(accepted', log, Places(log, Steers, {runs}), steering')
    BY <1>a, <1>b, <2>1, Accepted
  <2>3. followUps' = followUps /\ enqueued' = enqueued
    BY <1>1 DEF SubmitSteering
  <2> QED
    BY <1>a, <1>b, <1>c, <2>2, <2>3 DEF Controlled, ControlConserved
<1>2. CASE SubmitFollowUp
  <2>1. PICK m \in FollowUps : followUps' = Append(followUps, m) /\ enqueued' = Append(enqueued, m)
    BY <1>2 DEF SubmitFollowUp
  <2>2. Conserved(enqueued', log, Places(log, FollowUps, Nat), followUps')
    BY <1>a, <1>b, <2>1, Accepted
  <2>3. steering' = steering /\ accepted' = accepted
    BY <1>2 DEF SubmitFollowUp
  <2> QED
    BY <1>a, <1>b, <1>c, <2>2, <2>3 DEF Controlled, ControlConserved
<1> QED
  BY <1>1, <1>2

LEMMA ControlStep ==
  ASSUME TypeOK, Controlled, [Next]_vars
  PROVE  Controlled'
<1>1. CASE StartRun
  <2> DEFINE m == [type |-> "user", src |-> Task, run |-> runs + 1]
             t == <<m>>
  <2>1. m \in Messages /\ log \in Seq(Messages)
    BY DEF TypeOK, Messages, Sources
  <2>2. log' = log \o t /\ t \in Seq(Messages)
    BY <1>1, <2>1, AppendIsConcat DEF StartRun
  <2>3. \A j \in 1..Len(t) : t[j].type = "user" => t[j].src = Task /\ t[j].run = runs + 1
    OBVIOUS
  <2> HIDE DEF t
  <2> QED
    BY <1>1, <2>2, <2>3, NewRunControlled DEF StartRun
<1>2. CASE ContinueRun
  <2> DEFINE t == <<>>
  <2>1. t \in Seq(Messages) /\ log' = log \o t /\ 1..Len(t) = {}
    BY <1>2, ConcatEmptySeq DEF ContinueRun, TypeOK
  <2> HIDE DEF t
  <2> QED
    BY <1>2, <2>1, NewRunControlled DEF ContinueRun
<1>3. CASE RequestModel \/ ContextOverflow \/ TurnSteering
  <2>1. DrainSteering /\ runs' = runs
    BY <1>3 DEF RequestModel, ContextOverflow, TurnSteering
  <2> QED
    BY <2>1, DrainControlled
<1>4. CASE TurnFollowUp
  BY <1>4, FollowUpControlled
<1>5. CASE SubmitSteering \/ SubmitFollowUp
  BY <1>5, SubmissionControlled
<1>6. CASE BatchAbort \/ BatchBudget
  <2>1. InBatch /\ log' = log \o SkippedResults
        /\ UNCHANGED <<runs, steering, accepted, followUps, enqueued>>
    BY <1>6 DEF BatchAbort, BatchBudget, queueVars
  <2> QED
    BY <2>1, SkippedResultsType, SkippedNotUser, NoUserAdded
<1>7. CASE ToolReturns
  <2>1. /\ log' = Append(log, ToolResult(CurrentCall, TRUE))
        /\ UNCHANGED <<runs, steering, accepted, followUps, enqueued>>
    BY <1>7 DEF ToolReturns, queueVars
  <2>2. ToolResult(CurrentCall, TRUE) \in Messages /\ ToolResult(CurrentCall, TRUE).type # "user"
    BY CurrentCallType DEF ToolResult, Messages
  <2> QED
    BY <2>1, <2>2, OneNotUser
<1>8. CASE Response
  <2>1. PICK size \in Nat : CommitAssistant(size)
    BY <1>8, LimitTypes
       DEF Response, ResponseError, ResponseCancelled, ResponseFinal, ResponseTools
  <2>2. /\ log' = Append(log, AssistantMessage(size))
        /\ UNCHANGED <<runs, steering, accepted, followUps, enqueued>>
    BY <2>1 DEF CommitAssistant, queueVars
  <2>3. AssistantMessage(size) \in Messages /\ AssistantMessage(size).type # "user"
    BY DEF AssistantMessage, Messages
  <2> QED
    BY <2>2, <2>3, OneNotUser
<1>9. CASE UNCHANGED <<log, runs, queueVars>>
  BY <1>9, NothingAdded DEF queueVars
<1>10. CASE \/ TopAbort \/ TopDeadline \/ TopMaxTurns
            \/ StartTool \/ BatchOverAbort \/ BatchOverContinue \/ TurnFinish
  <2>1. UNCHANGED <<log, runs, queueVars>>
    BY <1>10 DEF TopAbort, TopDeadline, TopMaxTurns, StartTool, HandOver, BatchOverAbort,
                 BatchOverContinue, TurnFinish
  <2> QED
    BY <1>9, <2>1
<1>11. CASE \/ ModelTimeout \/ ModelCancelled \/ ModelRetry
            \/ BackoffOver \/ ModelFails \/ RequestCancel \/ Tick \/ ToolOverruns
  <2>1. UNCHANGED <<log, runs, queueVars>>
    BY <1>11 DEF ModelTimeout, ModelCancelled, ModelRetry, BackoffOver,
                 ModelFails, RequestCancel, Tick, ToolOverruns, Passes
  <2> QED
    BY <1>9, <2>1
<1>12. CASE UNCHANGED vars
  BY <1>9, <1>12 DEF vars
<1> QED
  BY <1>1, <1>2, <1>3, <1>4, <1>5, <1>6, <1>7, <1>8, <1>10, <1>11, <1>12 DEF Next, LoopStep

LEMMA ControlInit == Init => Controlled
<1> SUFFICES ASSUME Init PROVE Controlled
  OBVIOUS
<1>1. Places(log, Steers, {runs}) = {} /\ Places(log, FollowUps, Nat) = {}
  BY DEF Init, Places
<1>2. Cardinality({}) = 0
  BY FS_EmptySet
<1>3. Conserved(<<>>, log, {}, <<>>)
  BY <1>2 DEF Conserved
<1>4. Numbered
  BY DEF Init, Numbered
<1> QED
  BY <1>1, <1>3, <1>4 DEF Init, Controlled, ControlConserved

\* Whatever is submitted, drained, cancelled or retried, and in whatever order:
\* SteeringQueue and FollowUpQueue lose, double and overtake nothing.
THEOREM ControlIsConserved == Spec => []ControlConserved
<1>1. TypeOK /\ Controlled /\ [Next]_vars => Controlled'
  BY ControlStep
<1>2. Controlled => ControlConserved
  BY DEF Controlled
<1> QED
  BY <1>1, <1>2, ControlInit, TypeCorrect, PTL DEF Spec
=============================================================================
