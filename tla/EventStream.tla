----------------------------- MODULE EventStream -----------------------------
(***************************************************************************)
(* The events of one run on their way to one HTTP client: the event bus    *)
(* (observability/event_bus.py) with its bounded audit and the bounded     *)
(* mailbox of a subscription, and the SSE generator (server/app.py) that   *)
(* replays the audit from a cursor and then forwards the mailbox.          *)
(*                                                                         *)
(* An event is its sequence number within the run; in the audit, which all *)
(* runs share, OtherRun stands for an event of another one.  The generator *)
(* gives up control at each frame it yields and while it polls; the run    *)
(* and the client act there.  The run publishes AGENT_END last.            *)
(***************************************************************************)
EXTENDS Naturals, Sequences, FiniteSets, Selection

CONSTANTS
  AuditLimit,     \* capacity of the audit
  QueueLimit,     \* capacity of a mailbox
  MaxEvents,      \* bound: events of the run
  MaxOthers,      \* bound: events of other runs
  MaxConnections  \* bound: connections of the client

ASSUME CapacityAssumption ==
  /\ {AuditLimit, QueueLimit} \subseteq Nat \ {0}
  /\ {MaxEvents, MaxOthers, MaxConnections} \subseteq Nat

VARIABLES
  kinds,       \* the run's events so far, by sequence number
  audit,       \* EventBus._audit
  others,      \* events of other runs so far
  mailbox,     \* the subscription's mailbox, empty without one
  subscribed,  \* the generator's subscription exists
  cut,         \* _Subscription.disconnected
  stream,      \* where the generator stands
  outbox,      \* the tuple it is yielding from
  cursor,      \* the cursor of the connection
  lastId,      \* the id of the last frame the client received
  frames,      \* ids of the frames of this connection, in order
  seen,        \* every event the client ever received
  connections  \* connections accepted so far

busVars == <<kinds, audit, others>>
subscription == <<mailbox, subscribed, cut>>
clientVars == <<lastId, frames, seen, connections>>
vars == <<busVars, subscription, stream, outbox, cursor, clientVars>>

OtherRun == 0

Kinds == {"delta", "fact", "end"}

\* The bus the runtime builds may drop LLM_REQUEST_STREAM events only.
Droppable == {"delta"}

Ended == kinds # <<>> /\ kinds[Len(kinds)] = "end"

\* events(run_id, after_seq), which is also what subscribe(cursor) prefills.
Retained(after) == Selected(audit, {p \in 1..Len(audit) : audit[p] > after})

\* A deque of bounded length.
Bounded(deque) == IF Len(deque) > AuditLimit THEN Tail(deque) ELSE deque

-----------------------------------------------------------------------------
(* The bus.                                                                *)

\* Mutants: a full mailbox takes one more event, or loses a fact.
DeliverOneMore(seq, kind) ==
  IF ~subscribed \/ cut THEN UNCHANGED <<mailbox, cut>>
  ELSE IF Len(mailbox) <= QueueLimit
       THEN mailbox' = Append(mailbox, seq) /\ UNCHANGED cut
       ELSE cut' = (kind \notin Droppable) /\ UNCHANGED mailbox

DeliverDropping(seq, kind) ==
  /\ UNCHANGED cut
  /\ mailbox' = IF subscribed /\ Len(mailbox) < QueueLimit THEN Append(mailbox, seq)
                                                          ELSE mailbox

\* The fan-out: a full mailbox loses a droppable event, and its subscription
\* at the first event of another kind.
Deliver(seq, kind) ==
  IF ~subscribed \/ cut THEN UNCHANGED <<mailbox, cut>>
  ELSE IF Len(mailbox) < QueueLimit
       THEN mailbox' = Append(mailbox, seq) /\ UNCHANGED cut
       ELSE cut' = (kind \notin Droppable) /\ UNCHANGED mailbox

Emit ==
  /\ ~Ended /\ Len(kinds) < MaxEvents
  /\ \E kind \in Kinds :
       /\ kinds' = Append(kinds, kind)
       /\ Deliver(Len(kinds) + 1, kind)
  /\ audit' = Bounded(Append(audit, Len(kinds) + 1))
  /\ UNCHANGED <<others, subscribed, stream, outbox, cursor, clientVars>>

EmitOther ==
  /\ others < MaxOthers
  /\ others' = others + 1
  /\ audit' = Bounded(Append(audit, OtherRun))
  /\ UNCHANGED <<kinds, subscription, stream, outbox, cursor, clientVars>>

-----------------------------------------------------------------------------
(* The connection.                                                         *)

\* run_events: a cursor before the retained window is refused with 409.  A
\* client comes back after a stream that ended, too.
MayConnect ==
  /\ stream \in {"closed", "over"} /\ connections < MaxConnections
  /\ Retained(0) # <<>> => lastId >= Retained(0)[1] - 1

\* Mutant: the client asks for the last frame again.
ConnectBehind ==
  /\ MayConnect
  /\ stream' = "accepted" /\ cursor' = lastId - 1
  /\ connections' = connections + 1
  /\ frames' = <<>>
  /\ UNCHANGED <<busVars, subscription, outbox, lastId, seen>>

\* A connection is accepted; the generator starts later.
Connect ==
  /\ MayConnect
  /\ stream' = "accepted" /\ cursor' = lastId
  /\ connections' = connections + 1
  /\ frames' = <<>>
  /\ UNCHANGED <<busVars, subscription, outbox, lastId, seen>>

\* The generator starts: what the audit holds after the cursor, at once.
Replay ==
  /\ stream = "accepted"
  /\ stream' = "replay" /\ outbox' = Retained(cursor)
  /\ UNCHANGED <<busVars, subscription, cursor, clientVars>>

\* Mutant: the subscription is not given the cursor.
SubscribeNow ==
  /\ stream = "replay" /\ outbox = <<>>
  /\ stream' = "live"
  /\ subscribed' = TRUE /\ cut' = FALSE
  /\ UNCHANGED <<busVars, mailbox, outbox, cursor, clientVars>>

\* After the last replayed frame: subscribe from the same cursor, which fills
\* the mailbox whatever its limit, and drain it before anything else happens.
Subscribe ==
  /\ stream = "replay" /\ outbox = <<>>
  /\ stream' = "live"
  /\ subscribed' = TRUE /\ cut' = FALSE
  /\ outbox' = Retained(cursor) /\ mailbox' = <<>>
  /\ UNCHANGED <<busVars, cursor, clientVars>>

Drain ==
  /\ stream = "live" /\ outbox = <<>> /\ mailbox # <<>>
  /\ outbox' = mailbox /\ mailbox' = <<>>
  /\ UNCHANGED <<busVars, subscribed, cut, stream, cursor, clientVars>>

\* A frame reaches the client; the generator returns after AGENT_END, and
\* unsubscribes on its way out.
Yield ==
  /\ stream \in {"replay", "live"} /\ outbox # <<>>
  /\ LET seq == Head(outbox)
     IN  /\ frames' = Append(frames, seq)
         /\ lastId' = seq
         /\ seen' = seen \cup {seq}
         /\ IF kinds[seq] = "end"
            THEN /\ stream' = "over" /\ outbox' = <<>>
                 /\ subscribed' = FALSE /\ cut' = FALSE /\ mailbox' = <<>>
            ELSE /\ outbox' = Tail(outbox)
                 /\ UNCHANGED <<stream, subscription>>
  /\ UNCHANGED <<busVars, cursor, connections>>

\* The client goes away: the generator only unsubscribes.  The client may come
\* back with the id of the last frame it received.
Disconnect ==
  /\ stream \in {"accepted", "replay", "live"}
  /\ stream' = "closed" /\ outbox' = <<>>
  /\ subscribed' = FALSE /\ cut' = FALSE /\ mailbox' = <<>>
  /\ UNCHANGED <<busVars, cursor, clientVars>>

-----------------------------------------------------------------------------
Init ==
  /\ kinds = <<>> /\ audit = <<>> /\ others = 0
  /\ mailbox = <<>> /\ subscribed = FALSE /\ cut = FALSE
  /\ stream = "closed" /\ outbox = <<>> /\ cursor = 0
  /\ lastId = 0 /\ frames = <<>> /\ seen = {} /\ connections = 0

Generate == Replay \/ Subscribe \/ Drain \/ Yield

Next == Emit \/ EmitOther \/ Connect \/ Generate \/ Disconnect

Spec == Init /\ [][Next]_vars

(* The server drives a generator whose client reads; nothing obliges the   *)
(* run to publish, or the client to come, to stay or to leave.             *)
FairSpec == Spec /\ WF_vars(Generate)

-----------------------------------------------------------------------------
(* Properties.                                                             *)

\* Every variable keeps its type: what the audit, the mailbox, the generator's
\* locals and the client hold.
TypeOK ==
  /\ kinds \in Seq(Kinds)
  /\ audit \in Seq(Nat) /\ Len(audit) <= AuditLimit
  /\ others \in Nat /\ connections \in Nat
  /\ mailbox \in Seq(Nat) /\ outbox \in Seq(Nat) /\ frames \in Seq(Nat)
  /\ subscribed \in BOOLEAN /\ cut \in BOOLEAN
  /\ stream \in {"closed", "accepted", "replay", "live", "over"}
  /\ cursor \in Nat /\ lastId \in Nat
  /\ seen \subseteq 1..Len(kinds)

\* A mailbox never holds more than its limit when anyone else can look, though
\* a replay fills it without regard to the limit.
MailboxBounded == Len(mailbox) <= QueueLimit

\* No fact is skipped: when the client holds a frame it has seen every earlier
\* event that is not droppable, however often the connection broke, however
\* slowly it read; provided the audit forgot nothing.
NoFactSkipped ==
  Len(kinds) + others <= AuditLimit =>
    \A seq \in 1..lastId : kinds[seq] \notin Droppable => seq \in seen

\* A stream whose client keeps reading ends after the run does, as long as
\* the audit holds the end of the run, unless the client fell behind so far
\* that its subscription was cut, or asked for what follows the end.
StreamEnds ==
  (/\ Ended /\ stream = "live" /\ ~cut
   /\ lastId < Len(kinds) /\ \E i \in 1..Len(audit) : audit[i] = Len(kinds))
    ~> (stream \in {"over", "closed"})

-----------------------------------------------------------------------------
(* What a document or a test says of the stream and the stream does not do. *)

\* The reconnect test of test_sse_server.py: a replay brings no duplicates.
ExactReplay == \A i, j \in 1..Len(frames) : i < j => frames[i] < frames[j]
=============================================================================
