------------------------- MODULE CrashRecoveryProofs -------------------------
(***************************************************************************)
(* What is proved of CrashRecovery for every number of calls, messages,    *)
(* runs and crashes: the five safety properties of its run.                *)
(***************************************************************************)
EXTENDS CrashRecovery, FiniteSetTheorems, SequenceTheorems, TLAPS

-----------------------------------------------------------------------------
(* The invariant.                                                          *)

\* Calls are proposed under consecutive numbers, and answered only then.
CallsInOrder ==
  /\ \E n \in 0..MaxCalls : Proposed = 1..n
  /\ \A c \in Calls : Results(c) # {} => c \in Proposed

InTurn == {"batch", "start", "execute", "close", "boundary"}

\* The calls of the batch nothing was done about yet, and the one in hand.
Waiting ==
  {c \in batch.next..batch.last :
     \/ pc \in {"journal", "batch"}
     \/ pc \in InTurn /\ c # batch.next}

InHand == IF pc \in InTurn \ {"batch"} THEN {batch.next} ELSE {}

\* What the run relies on at each of its steps: the calls that wait have left
\* no trace but their intents, and those are written before the first starts.
BatchInOrder ==
  /\ pc \in InTurn => batch.next \in Calls /\ batch.next <= batch.last
  /\ Waiting \cup InHand \subseteq Proposed
  /\ \A c \in Waiting : /\ intents[c] \in {"absent", "planned"}
                        /\ pc # "journal" => intents[c] = "planned"
                        /\ ran[c] = 0 /\ Results(c) = {}
  /\ pc = "start" =>
       intents[batch.next] = "started" /\ ran[batch.next] = 0 /\ Results(batch.next) = {}
  /\ pc = "execute" =>
       intents[batch.next] = "started" /\ ran[batch.next] > 0 /\ Results(batch.next) = {}
  /\ pc = "close" => Results(batch.next) # {}
  /\ pc \in {"batch", "start"} => batch.next \in ckpt.pending

\* What the operator relies on: a plan names calls no run will touch again, and
\* a command gives them results that agree with the workspace.
OperatorInOrder ==
  /\ pc # "down" => op = NoOperation
  /\ op.phase = "none" => op = NoOperation
  /\ plan.pending \cup plan.uncertain \cup op.calls \subseteq Proposed \ (Waiting \cup InHand)
  /\ \A c \in plan.pending : ran[c] = 0
  /\ op.phase # "none" =>
       \/ op.status = "not_executed" /\ op.mark = "abandoned"
       \/ op.status = "executed_unknown" /\ op.mark = "resolved"
  /\ op.phase = "append" =>
       \A c \in op.calls : op.status = "not_executed" <=> ran[c] = 0
  /\ op.phase = "mark" => \A c \in op.calls : Results(c) # {}

\* Each result is of a proposed call, and at most one if plans are fresh.
AnsweredOnce ==
  /\ \A c \in Calls : \A p, q \in Results(c) : p = q
  /\ plan.pending \cup plan.uncertain \subseteq OpenCalls
  /\ op # NoOperation => plan = NoPlan
  /\ op.phase = "append" => op.calls \subseteq OpenCalls

Consistent ==
  /\ TypeOK /\ CallsInOrder /\ BatchInOrder /\ OperatorInOrder
  /\ HistoryTruthful /\ EvidenceBeforeEffect /\ JournalFollowsHistory /\ CheckpointCovers

-----------------------------------------------------------------------------
(* The history.                                                            *)

LEMMA MessageTypes ==
  /\ UserMessage \in Messages
  /\ \A calls \in SUBSET Calls : AssistantMessage(calls) \in Messages
  /\ \A c \in Calls, s \in ResultStatuses : ToolResult(c, s) \in Messages
  BY DEF Messages, UserMessage, AssistantMessage, ToolResult

LEMMA MessageFields ==
  ASSUME NEW m \in Messages
  PROVE  /\ m.type = "assistant" => m.calls \subseteq Calls
         /\ m.type = "result" => m.call \in Calls /\ m.status \in ResultStatuses
  BY DEF Messages

\* What it means for a call to be proposed, in terms of positions.
LEMMA ProposedAt ==
  ASSUME NEW c
  PROVE  c \in Proposed <=>
           \E p \in 1..Len(history) : history[p].type = "assistant" /\ c \in history[p].calls
  BY DEF Proposed, Elements

LEMMA ProposedAtNext ==
  ASSUME NEW c
  PROVE  c \in Proposed' <=>
           \E p \in 1..Len(history') : history'[p].type = "assistant" /\ c \in history'[p].calls
  BY DEF Proposed, Elements

\* A step that leaves the history alone changes nothing said of it.
LEMMA SameHistory ==
  ASSUME history' = history
  PROVE  Proposed' = Proposed /\ (\A c : Results(c)' = Results(c)) /\ OpenCalls' = OpenCalls
<1>1. Proposed' = Proposed
  BY DEF Proposed, Elements
<1>2. \A c : Results(c)' = Results(c)
  BY DEF Results
<1> QED
  BY <1>1, <1>2 DEF OpenCalls

\* The commit of one message.
LEMMA CommitOne ==
  ASSUME history \in Seq(Messages), NEW m \in Messages, Commit(<<m>>)
  PROVE  /\ history' \in Seq(Messages)
         /\ Len(history') = Len(history) + 1
         /\ history'[Len(history) + 1] = m
         /\ \A p \in 1..Len(history) : history'[p] = history[p]
<1>1. history' = Append(history, m)
  <2>1. history' = history \o <<m>>
    BY DEF Commit
  <2> QED
    BY <2>1, AppendIsConcat
<1> QED
  BY <1>1, AppendProperties

\* A commit of anything but a result leaves the results alone; a commit of
\* anything but a response leaves the proposals alone.
LEMMA CommitQuiet ==
  ASSUME history \in Seq(Messages), NEW m \in Messages, Commit(<<m>>), m.type # "result"
  PROVE  \A c : Results(c)' = Results(c)
<1> TAKE c
<1>1. Len(history) \in Nat
  OBVIOUS
<1>2. \A p \in 1..Len(history') : p \in 1..Len(history) \/ history'[p].type # "result"
  BY <1>1, CommitOne
<1> QED
  BY <1>1, <1>2, CommitOne DEF Results

LEMMA CommitUnproposed ==
  ASSUME history \in Seq(Messages), NEW m \in Messages, Commit(<<m>>), m.type # "assistant"
  PROVE  Proposed' = Proposed
<1>1. Len(history) \in Nat
  OBVIOUS
<1>2. /\ Len(history') = Len(history) + 1 /\ history'[Len(history) + 1].type # "assistant"
      /\ \A p \in 1..Len(history) : history'[p] = history[p]
  BY CommitOne
<1>3. ASSUME NEW c PROVE c \in Proposed' <=> c \in Proposed
  <2>1. c \in Proposed' => c \in Proposed
    BY <1>1, <1>2, ProposedAt, ProposedAtNext
  <2>2. c \in Proposed => c \in Proposed'
    BY <1>1, <1>2, ProposedAt, ProposedAtNext
  <2> QED
    BY <2>1, <2>2
<1> QED
  BY <1>3

\* The commit of a response proposes its calls.
LEMMA CommitProposal ==
  ASSUME history \in Seq(Messages), NEW calls \in SUBSET Calls,
         Commit(<<AssistantMessage(calls)>>)
  PROVE  Proposed' = Proposed \cup calls /\ \A c : Results(c)' = Results(c)
<1> DEFINE m == AssistantMessage(calls)
<1>1. m \in Messages /\ m.type = "assistant" /\ m.calls = calls
  BY MessageTypes DEF AssistantMessage
<1>2. Len(history) \in Nat
  OBVIOUS
<1> HIDE DEF m
<1>3. /\ Len(history') = Len(history) + 1
      /\ history'[Len(history) + 1] = m
      /\ \A p \in 1..Len(history) : history'[p] = history[p]
  BY <1>1, CommitOne DEF m
<1>4. ASSUME NEW c PROVE c \in Proposed' <=> c \in Proposed \cup calls
  <2>1. ASSUME c \in Proposed \cup calls
        PROVE  \E p \in 1..Len(history') : history'[p].type = "assistant" /\ c \in history'[p].calls
    <3>1. CASE c \in Proposed
      BY <1>2, <1>3, <3>1, ProposedAt
    <3>2. CASE c \in calls
      BY <1>1, <1>2, <1>3, <3>2
    <3> QED
      BY <2>1, <3>1, <3>2
  <2>2. ASSUME NEW p \in 1..Len(history'), history'[p].type = "assistant", c \in history'[p].calls
        PROVE  c \in Proposed \cup calls
    <3>1. CASE p = Len(history) + 1
      BY <1>1, <1>3, <2>2, <3>1
    <3>2. CASE p \in 1..Len(history)
      BY <1>3, <2>2, <3>2, ProposedAt
    <3> QED
      BY <1>2, <1>3, <3>1, <3>2
  <2> QED
    BY <2>1, <2>2, ProposedAtNext
<1> QED
  BY <1>1, <1>4, CommitQuiet DEF m

\* The commit of a result adds one result, at the end.
LEMMA CommitAnswer ==
  ASSUME history \in Seq(Messages), NEW call \in Calls, NEW s \in ResultStatuses,
         Commit(<<ToolResult(call, s)>>)
  PROVE  /\ Proposed' = Proposed
         /\ Results(call)' = Results(call) \cup {Len(history) + 1}
         /\ \A c : c # call => Results(c)' = Results(c)
         /\ history'[Len(history) + 1].status = s
<1> DEFINE m == ToolResult(call, s)
<1>1. m \in Messages /\ m.type = "result" /\ m.call = call /\ m.status = s
  BY MessageTypes DEF ToolResult
<1>2. Len(history) \in Nat
  OBVIOUS
<1> HIDE DEF m
<1>3. Proposed' = Proposed
  BY <1>1, CommitUnproposed DEF m
<1>4. Results(call)' = Results(call) \cup {Len(history) + 1}
  BY <1>1, <1>2, CommitOne DEF Results, m
<1>5. ASSUME NEW c, c # call PROVE Results(c)' = Results(c)
  BY <1>1, <1>2, <1>5, CommitOne DEF Results, m
<1> QED
  BY <1>1, <1>3, <1>4, <1>5, CommitOne DEF m

\* Finitely many calls are numbered from one on by the order they stand in.
LEMMA Ranks ==
  ASSUME NEW calls \in SUBSET Calls
  PROVE  /\ IsFiniteSet(calls) /\ Cardinality(calls) \in Nat
         /\ \A i \in 1..Cardinality(calls) :
              \E c \in calls : Cardinality({d \in calls : d <= c}) = i
         /\ \A c \in calls : Cardinality({d \in calls : d <= c}) \in 1..Cardinality(calls)
         /\ \A c, e \in calls :
              Cardinality({d \in calls : d <= c}) = Cardinality({d \in calls : d <= e}) => c = e
<1> DEFINE below(c) == {d \in calls : d <= c}
           rank == [c \in calls |-> Cardinality(below(c))]
<1>1. IsFiniteSet(calls) /\ Cardinality(calls) \in Nat
  <2>1. IsFiniteSet(Calls)
    <3>1. 1 \in Int /\ MaxCalls \in Int
      BY BoundsAssumption
    <3> QED
      BY <3>1, FS_Interval DEF Calls
  <2> QED
    BY <2>1, FS_Subset, FS_CardinalityType
<1>2. \A c \in calls : c \in Nat
  BY BoundsAssumption DEF Calls
<1>3. ASSUME NEW c \in calls
      PROVE  /\ IsFiniteSet(below(c))
             /\ Cardinality(below(c)) \in 1..Cardinality(calls)
  <2>1. below(c) \in SUBSET calls /\ c \in below(c)
    BY <1>2
  <2>2. IsFiniteSet(below(c)) /\ Cardinality(below(c)) <= Cardinality(calls)
    BY <1>1, <2>1, FS_Subset
  <2>3. Cardinality(below(c)) \in Nat /\ Cardinality(below(c)) # 0
    BY <2>1, <2>2, FS_CardinalityType, FS_EmptySet
  <2> QED
    BY <1>1, <2>2, <2>3
<1>4. ASSUME NEW c \in calls, NEW d \in calls, c < d
      PROVE  Cardinality(below(c)) # Cardinality(below(d))
  <2>1. below(c) \in SUBSET below(d) /\ d \in below(d) /\ d \notin below(c)
    BY <1>2, <1>4
  <2> QED
    BY <1>3, <2>1, FS_Subset
<1>5. rank \in [calls -> 1..Cardinality(calls)]
  BY <1>3
<1>6. ASSUME NEW c \in calls, NEW d \in calls, rank[c] = rank[d] PROVE c = d
  BY <1>2, <1>4, <1>6
<1>7. rank \in Injection(calls, 1..Cardinality(calls))
  BY <1>5, <1>6 DEF Injection, IsInjective
<1>8. rank \in Surjection(calls, 1..Cardinality(calls))
  BY <1>1, <1>7, FS_Interval, FS_Injection
<1>9. \A i \in 1..Cardinality(calls) : \E c \in calls : rank[c] = i
  BY <1>8 DEF Surjection
<1> QED
  BY <1>1, <1>3, <1>6, <1>9

\* The rows of _record_results: one result for each call, none for another.
LEMMA AnswersInOrder ==
  ASSUME NEW calls \in SUBSET Calls, NEW s \in ResultStatuses
  PROVE  LET rows == InCallOrder(calls, s)
         IN  /\ rows \in Seq(Messages)
             /\ \A i \in 1..Len(rows) :
                  rows[i].type = "result" /\ rows[i].call \in calls /\ rows[i].status = s
             /\ \A i, j \in 1..Len(rows) : rows[i].call = rows[j].call => i = j
             /\ \A c \in calls : \E i \in 1..Len(rows) : rows[i].call = c
<1> DEFINE rank(c) == Cardinality({d \in calls : d <= c})
           nth(i) == CHOOSE c \in calls : rank(c) = i
           n == Cardinality(calls)
           rows == InCallOrder(calls, s)
<1>1. rows = [i \in 1..n |-> ToolResult(nth(i), s)]
  BY DEF InCallOrder
<1>2. n \in Nat /\ \A c \in calls : rank(c) \in 1..n
  BY Ranks
<1>3. ASSUME NEW i \in 1..n PROVE nth(i) \in calls /\ rank(nth(i)) = i
  <2>1. \E c \in calls : rank(c) = i
    BY Ranks
  <2> HIDE DEF rank
  <2> QED
    BY <2>1
<1> HIDE DEF rank, nth, n, rows
<1>4. \A i \in 1..n : nth(i) \in Calls /\ ToolResult(nth(i), s) \in Messages
  BY <1>3, MessageTypes
<1>5. rows \in Seq(Messages) /\ Len(rows) = n
  BY <1>1, <1>2, <1>4
<1>6. \A i \in 1..n : /\ rows[i].type = "result"
                      /\ rows[i].call = nth(i) /\ rows[i].status = s
  BY <1>1 DEF ToolResult
<1>7. \A i, j \in 1..n : nth(i) = nth(j) => i = j
  BY <1>3
<1>8. ASSUME NEW c \in calls PROVE \E i \in 1..n : nth(i) = c
  <2>1. rank(c) \in 1..n
    BY <1>2
  <2>2. nth(rank(c)) \in calls /\ rank(nth(rank(c))) = rank(c)
    BY <1>3, <2>1
  <2>3. \A d, e \in calls : rank(d) = rank(e) => d = e
    BY Ranks DEF rank
  <2> QED
    BY <2>1, <2>2, <2>3
<1> QED
  BY <1>3, <1>5, <1>6, <1>7, <1>8 DEF rows

-----------------------------------------------------------------------------
(* What each commit of the model does to the history.                      *)

\* Commits of a user message: of a task, of steering or of a follow-up.
LEMMA UserCommits ==
  ASSUME TypeOK, CommitTask \/ CommitInjected
  PROVE  /\ history' \in Seq(Messages) /\ version' = version + 1
         /\ Len(history') = Len(history) + 1
         /\ history'[Len(history) + 1].type = "user"
         /\ \A p \in 1..Len(history) : history'[p] = history[p]
         /\ Proposed' = Proposed /\ \A c : Results(c)' = Results(c)
<1>1. Commit(<<UserMessage>>) /\ UserMessage \in Messages /\ UserMessage.type = "user"
  BY MessageTypes DEF CommitTask, CommitInjected, UserMessage
<1>2. history \in Seq(Messages)
  BY DEF TypeOK
<1>3. version' = version + 1
  BY <1>1 DEF Commit
<1> QED
  BY <1>1, <1>2, <1>3, CommitOne, CommitQuiet, CommitUnproposed

\* The commit of a response: its calls are numbered after all earlier ones.
LEMMA ResponseCommit ==
  ASSUME TypeOK, CallsInOrder, CommitAssistant
  PROVE  \E n \in 0..MaxCalls, last \in Nat :
           /\ Proposed = 1..n /\ n <= last /\ last <= MaxCalls
           /\ batch' = [next |-> n + 1, last |-> last]
           /\ Proposed' = 1..last /\ \A c : Results(c)' = Results(c)
           /\ history' \in Seq(Messages) /\ version' = version + 1
           /\ Len(history') = Len(history) + 1
           /\ history'[Len(history) + 1].type = "assistant"
           /\ \A p \in 1..Len(history) : history'[p] = history[p]
<1>1. PICK n \in 0..MaxCalls : Proposed = 1..n
  BY DEF CallsInOrder
<1>2. n \in Nat /\ MaxCalls \in Nat
  BY BoundsAssumption
<1>3. Cardinality(Proposed) = n
  <2>1. 1 \in Int /\ n \in Int
    BY <1>2
  <2>2. Cardinality(1..n) = IF 1 > n THEN 0 ELSE n - 1 + 1
    BY <2>1, FS_Interval
  <2> QED
    BY <1>1, <1>2, <2>2
<1>4. PICK last \in n..MaxCalls : /\ Commit(<<AssistantMessage(n + 1..last)>>)
                                  /\ batch' = [next |-> n + 1, last |-> last]
  <2>1. (n + 1) - 1 = n
    BY <1>2
  <2> QED
    BY <1>3, <2>1 DEF CommitAssistant
<1>5. n + 1..last \in SUBSET Calls
  BY <1>2 DEF Calls
<1>6. history \in Seq(Messages)
  BY DEF TypeOK
<1>7. Proposed' = Proposed \cup (n + 1..last) /\ \A c : Results(c)' = Results(c)
  BY <1>4, <1>5, <1>6, CommitProposal
<1>8. Proposed' = 1..last
  BY <1>1, <1>2, <1>7
<1>9. /\ AssistantMessage(n + 1..last) \in Messages
      /\ AssistantMessage(n + 1..last).type = "assistant"
  BY <1>5, MessageTypes DEF AssistantMessage
<1>10. /\ history' \in Seq(Messages) /\ version' = version + 1
       /\ Len(history') = Len(history) + 1
       /\ history'[Len(history) + 1].type = "assistant"
       /\ \A p \in 1..Len(history) : history'[p] = history[p]
  BY <1>4, <1>6, <1>9, CommitOne DEF Commit
<1>11. last \in Nat /\ n <= last /\ last <= MaxCalls
  BY <1>2
<1> QED
  BY <1>1, <1>4, <1>7, <1>8, <1>10, <1>11

\* The commit of the result of the call in hand, executed or skipped.
LEMMA ResultCommit ==
  ASSUME TypeOK, BatchInOrder, CommitResult \/ CommitSkipped
  PROVE  /\ history' \in Seq(Messages) /\ version' = version + 1
         /\ Proposed' = Proposed
         /\ \A c : Results(c)' = IF c = batch.next THEN Results(c) \cup {Len(history) + 1}
                                                   ELSE Results(c)
         /\ Len(history') = Len(history) + 1
         /\ \A p \in 1..Len(history) : history'[p] = history[p]
         /\ history'[Len(history) + 1].type = "result"
         /\ history'[Len(history) + 1].call = batch.next
         /\ history'[Len(history) + 1].status =
              IF pc = "execute" THEN "executed" ELSE "not_executed"
<1>1. pc \in {"execute", "batch"}
  BY DEF CommitResult, CommitSkipped
<1>2. batch.next \in Calls /\ history \in Seq(Messages)
  BY <1>1 DEF BatchInOrder, InTurn, TypeOK
<1>3. PICK call \in Calls : call = batch.next
  BY <1>2
<1>4. PICK s \in ResultStatuses : s = IF pc = "execute" THEN "executed" ELSE "not_executed"
  BY DEF ResultStatuses
<1>5. Commit(<<ToolResult(call, s)>>)
  BY <1>3, <1>4 DEF CommitResult, CommitSkipped
<1>6. /\ ToolResult(call, s) \in Messages
      /\ ToolResult(call, s).type = "result"
      /\ ToolResult(call, s).call = call /\ ToolResult(call, s).status = s
  BY MessageTypes DEF ToolResult
<1>7. /\ Proposed' = Proposed
      /\ Results(call)' = Results(call) \cup {Len(history) + 1}
      /\ \A c : c # call => Results(c)' = Results(c)
  BY <1>2, <1>5, CommitAnswer
<1>8. /\ history' \in Seq(Messages)
      /\ Len(history') = Len(history) + 1
      /\ history'[Len(history) + 1] = ToolResult(call, s)
      /\ \A p \in 1..Len(history) : history'[p] = history[p]
  BY <1>2, <1>5, <1>6, CommitOne
<1>9. version' = version + 1
  BY <1>5 DEF Commit
<1> QED
  BY <1>3, <1>4, <1>6, <1>7, <1>8, <1>9

\* The append of a recovery command answers each of its calls once more.
LEMMA RecoveryCommit ==
  ASSUME TypeOK, OperatorInOrder, RecordResults
  PROVE  /\ history' \in Seq(Messages) /\ version' = version + 1
         /\ Proposed' = Proposed
         /\ \A c : c \notin op.calls => Results(c)' = Results(c)
         /\ \A c \in op.calls :
              \E p \in 1..Len(history') : /\ p > Len(history)
                                          /\ Results(c)' = Results(c) \cup {p}
         /\ Len(history') >= Len(history)
         /\ \A p \in 1..Len(history) : history'[p] = history[p]
         /\ \A p \in 1..Len(history') : p > Len(history) =>
              /\ history'[p].type = "result"
              /\ history'[p].call \in op.calls
              /\ history'[p].status = op.status
<1> DEFINE rows == InCallOrder(op.calls, op.status)
<1>1. history' = history \o rows /\ version' = version + 1
  BY DEF RecordResults, Commit
<1>2. op.calls \in SUBSET Calls /\ op.status \in ResultStatuses /\ history \in Seq(Messages)
  BY DEF RecordResults, OperatorInOrder, TypeOK, ResultStatuses
<1>3. /\ rows \in Seq(Messages)
      /\ \A i \in 1..Len(rows) :
           rows[i].type = "result" /\ rows[i].call \in op.calls /\ rows[i].status = op.status
      /\ \A i, j \in 1..Len(rows) : rows[i].call = rows[j].call => i = j
      /\ \A c \in op.calls : \E i \in 1..Len(rows) : rows[i].call = c
  BY <1>2, AnswersInOrder
<1> HIDE DEF rows
<1>4. Len(history) \in Nat /\ Len(rows) \in Nat
  BY <1>2, <1>3
<1>5. /\ history' \in Seq(Messages)
      /\ Len(history') = Len(history) + Len(rows)
      /\ \A p \in 1..Len(history) : history'[p] = history[p]
      /\ \A p \in 1..Len(history') : p > Len(history) =>
           p - Len(history) \in 1..Len(rows) /\ history'[p] = rows[p - Len(history)]
  <2>1. /\ history \o rows \in Seq(Messages)
        /\ Len(history \o rows) = Len(history) + Len(rows)
        /\ \A i \in 1..Len(history) + Len(rows) :
             (history \o rows)[i] = IF i <= Len(history) THEN history[i]
                                    ELSE rows[i - Len(history)]
    BY <1>2, <1>3, ConcatProperties
  <2> QED
    BY <1>1, <1>4, <2>1
<1>6. \A p \in 1..Len(history') : p > Len(history) =>
        history'[p].type = "result" /\ history'[p].call \in op.calls
          /\ history'[p].status = op.status
  BY <1>3, <1>5
<1>7. ASSUME NEW c, c \notin op.calls PROVE Results(c)' = Results(c)
  BY <1>4, <1>5, <1>6, <1>7 DEF Results
<1>8. ASSUME NEW c \in op.calls
      PROVE  \E p \in 1..Len(history') : p > Len(history) /\ Results(c)' = Results(c) \cup {p}
  <2>1. PICK i \in 1..Len(rows) : rows[i].call = c
    BY <1>3
  <2>2. Len(history) + i \in 1..Len(history') /\ Len(history) + i > Len(history)
    BY <1>4, <1>5
  <2>3. \A q \in 1..Len(history') : q > Len(history) =>
          (history'[q].call = c <=> q = Len(history) + i)
    <3> SUFFICES ASSUME NEW q \in 1..Len(history'), q > Len(history)
                 PROVE  history'[q].call = c <=> q = Len(history) + i
      OBVIOUS
    <3>1. q - Len(history) \in 1..Len(rows) /\ history'[q] = rows[q - Len(history)]
      BY <1>5
    <3>2. rows[q - Len(history)].call = c <=> q - Len(history) = i
      BY <1>3, <2>1, <3>1
    <3>3. q \in Nat /\ i \in Nat /\ Len(history) \in Nat
      BY <1>4, <1>5
    <3>4. q - Len(history) = i <=> q = Len(history) + i
      BY <3>3
    <3> QED
      BY <3>1, <3>2, <3>4
  <2>4. Results(c)' = Results(c) \cup {Len(history) + i}
    BY <1>4, <1>5, <1>6, <2>2, <2>3 DEF Results
  <2> QED
    BY <2>2, <2>4
<1>9. ASSUME NEW c PROVE c \in Proposed' <=> c \in Proposed
  BY <1>4, <1>5, <1>6, ProposedAt, ProposedAtNext
<1> QED
  BY <1>1, <1>4, <1>5, <1>6, <1>7, <1>8, <1>9

-----------------------------------------------------------------------------
(* Types.                                                                  *)

\* Actions that move the run or the operator and nothing they leave behind.
Moves ==
  \/ StartRun \/ ContinueRun \/ RequestRefused \/ StopAtTop \/ TurnFinish \/ ReleaseLock
  \/ Kill \/ Unwind \/ OperatorCrash
  \/ Inspect \/ Resume \/ Resolve

Boundaries == JournalDone \/ ResultBoundary \/ UserBoundary \/ RunEnd \/ RecoveryCheckpoint

Journals == RecordIntent \/ MarkStarted \/ CloseIntent \/ MarkIntent

LEMMA AllSteps ==
  ASSUME [Next]_vars
  PROVE  \/ UNCHANGED vars
         \/ Moves \/ Boundaries \/ Journals \/ Execute
         \/ CommitTask \/ CommitInjected \/ CommitAssistant
         \/ CommitResult \/ CommitSkipped \/ RecordResults
  BY DEF Next, RunStep, RecoveryStep, Moves, Boundaries, Journals

\* The plan of an inspection names open calls of the right status.
LEMMA InspectedPlan ==
  ASSUME Inspect
  PROVE  /\ plan'.decision \in {"STOP", "RECONCILE", "RESUME"}
         /\ plan'.pending \subseteq OpenIn("planned")
         /\ plan'.uncertain \subseteq OpenIn("started")
         /\ plan' = [decision |-> plan'.decision, pending |-> plan'.pending,
                     uncertain |-> plan'.uncertain]
<1>1. Decision \in {"STOP", "RECONCILE", "RESUME"}
  BY DEF Decision
<1> QED
  BY <1>1 DEF Inspect, NoPlan

LEMMA TypeInit ==
  ASSUME Init
  PROVE  TypeOK
<1>1. history \in Seq(Messages)
  BY DEF Init
<1>2. 0 \in 0..runs /\ runs \in Nat
  BY DEF Init
<1>3. intents \in [Calls -> IntentStatuses] /\ ran \in [Calls -> Nat]
  BY DEF Init, IntentStatuses
<1>4. /\ plan \in [decision : {"none", "STOP", "RECONCILE", "RESUME"},
                   pending : SUBSET Calls, uncertain : SUBSET Calls]
      /\ op \in [phase : {"none", "append", "mark"}, calls : SUBSET Calls,
                 status : ResultStatuses \cup {"none"}, mark : IntentStatuses \cup {"none"}]
  BY DEF Init, NoPlan, NoOperation
<1>5. ckpt \in [version : Nat, pending : SUBSET Calls] /\ batch \in [next : Nat, last : Nat]
  BY DEF Init
<1> QED
  BY <1>1, <1>2, <1>3, <1>4, <1>5 DEF Init, TypeOK, PCs

LEMMA SavedCheckpoint ==
  ASSUME TypeOK, SaveCheckpoint
  PROVE  /\ ckpt' \in [version : Nat, pending : SUBSET Calls]
         /\ ckpt'.version = version /\ ckpt'.pending = OpenIntents
  BY DEF SaveCheckpoint, OpenIntents, TypeOK

LEMMA OpenAreCalls ==
  ASSUME CallsInOrder
  PROVE  Proposed \subseteq Calls /\ OpenCalls \subseteq Proposed
         /\ \A st : OpenIn(st) \subseteq OpenCalls
  BY BoundsAssumption DEF CallsInOrder, OpenCalls, OpenIn, Calls

LEMMA TypeStep ==
  ASSUME Consistent, [Next]_vars
  PROVE  TypeOK'
<1> USE DEF Consistent
<1> USE DEF durable, process, operator
<1>1. CASE UNCHANGED vars
  BY <1>1 DEF vars, TypeOK
<1>2. CASE StartRun \/ ContinueRun
  <2>1. batch' \in [next : Nat, last : Nat] /\ pc' \in PCs /\ skipping' \in BOOLEAN
    <3>1. batch' = [next |-> 1, last |-> 0] /\ skipping' = FALSE /\ pc' \in {"task", "request"}
      BY <1>2 DEF StartRun, ContinueRun, Enter
    <3> QED
      BY <3>1 DEF PCs
  <2>2. runs' \in Nat /\ lock' \in 0..runs'
    BY <1>2 DEF StartRun, ContinueRun, Enter, TypeOK
  <2>3. UNCHANGED <<history, version, intents, ckpt, ran, operator, crashes>>
    BY <1>2 DEF StartRun, ContinueRun, Enter
  <2> QED
    BY <2>1, <2>2, <2>3 DEF TypeOK
<1>3. CASE RequestRefused \/ StopAtTop \/ TurnFinish
  BY <1>3 DEF RequestRefused, StopAtTop, TurnFinish, TypeOK, PCs
<1>4. CASE ReleaseLock \/ Kill \/ Unwind
  BY <1>4, SMTT(30) DEF ReleaseLock, Kill, Unwind, TypeOK, PCs
<1>5. CASE OperatorCrash
  BY <1>5 DEF OperatorCrash, TypeOK, NoOperation
<1>6. CASE Inspect
  <2>1. plan' \in [decision : {"none", "STOP", "RECONCILE", "RESUME"},
                   pending : SUBSET Calls, uncertain : SUBSET Calls]
    BY <1>6, InspectedPlan, OpenAreCalls
  <2> QED
    BY <1>6, <2>1 DEF Inspect, TypeOK
<1>7. CASE Resume \/ Resolve
  <2>1. ASSUME NEW calls \in SUBSET Calls, NEW s \in ResultStatuses, NEW mark \in IntentStatuses,
               Command(calls, s, mark)
        PROVE  TypeOK'
    BY <2>1 DEF Command, TypeOK, NoPlan
  <2>2. {"not_executed", "executed_unknown"} \subseteq ResultStatuses
        /\ {"abandoned", "resolved"} \subseteq IntentStatuses
    BY DEF ResultStatuses, IntentStatuses
  <2>3. CASE Resume
    <3>1. plan.pending \in SUBSET Calls
      BY DEF TypeOK
    <3>2. Command(plan.pending, "not_executed", "abandoned")
      BY <2>3 DEF Resume
    <3> QED
      BY <2>2, <3>1, <3>2 DEF Command, TypeOK, NoPlan
  <2>4. CASE Resolve
    BY <2>1, <2>2, <2>4 DEF Resolve
  <2> QED
    BY <1>7, <2>3, <2>4
<1>8. CASE Boundaries
  <2>1. SaveCheckpoint
    BY <1>8 DEF Boundaries, JournalDone, ResultBoundary, UserBoundary, RunEnd,
                RecoveryCheckpoint
  <2>2. ckpt' \in [version : Nat, pending : SUBSET Calls]
    BY <2>1, SavedCheckpoint
  <2>3. CASE JournalDone \/ UserBoundary \/ RunEnd
    BY <2>2, <2>3 DEF JournalDone, UserBoundary, RunEnd, TypeOK, PCs
  <2>4. CASE ResultBoundary
    <3>1. batch' \in [next : Nat, last : Nat]
      <4>1. batch \in [next : Nat, last : Nat] /\ batch' = [batch EXCEPT !.next = @ + 1]
        BY <2>4 DEF ResultBoundary, TypeOK
      <4> QED
        BY <4>1
    <3>2. pc' \in PCs
      BY <2>4 DEF ResultBoundary, PCs
    <3>3. UNCHANGED <<history, version, intents, lock, ran, runs, skipping, operator, crashes>>
      BY <2>4 DEF ResultBoundary
    <3> QED
      BY <2>2, <3>1, <3>2, <3>3 DEF TypeOK
  <2>5. CASE RecoveryCheckpoint
    BY <2>2, <2>5 DEF RecoveryCheckpoint, TypeOK, NoOperation
  <2> QED
    BY <1>8, <2>3, <2>4, <2>5 DEF Boundaries
<1>9. CASE RecordIntent \/ MarkStarted \/ CloseIntent
  <2>1. intents' \in [Calls -> IntentStatuses]
    <3>1. intents \in [Calls -> IntentStatuses]
      BY DEF TypeOK
    <3>2. CASE RecordIntent
      BY <3>1, <3>2 DEF RecordIntent, IntentStatuses
    <3>3. CASE MarkStarted
      BY <3>1, <3>3 DEF MarkStarted, IntentStatuses
    <3>4. CASE CloseIntent
      BY <3>1, <3>4 DEF CloseIntent, IntentStatuses
    <3> QED
      BY <1>9, <3>2, <3>3, <3>4
  <2>2. pc' \in PCs /\ UNCHANGED <<history, version, ckpt, lock, ran, runs, batch, skipping,
                                   operator, crashes>>
    BY <1>9 DEF RecordIntent, MarkStarted, CloseIntent, TypeOK, PCs
  <2> QED
    BY <2>1, <2>2 DEF TypeOK
<1>10. CASE MarkIntent
  <2>1. op.mark \in IntentStatuses
    BY <1>10 DEF MarkIntent, OperatorInOrder, IntentStatuses
  <2> QED
    BY <1>10, <2>1 DEF MarkIntent, TypeOK
<1>11. CASE Execute
  <2>1. ran' \in [Calls -> Nat]
    <3>1. ran \in [Calls -> Nat] /\ ran' = [ran EXCEPT ![batch.next] = ran[batch.next] + 1]
      BY <1>11 DEF Execute, TypeOK
    <3>2. batch.next \in Calls
      BY <1>11 DEF Execute, BatchInOrder, InTurn
    <3>3. ran[batch.next] + 1 \in Nat
      BY <3>1, <3>2
    <3> QED
      BY <3>1, <3>3
  <2>2. pc' \in PCs /\ UNCHANGED <<durable, runs, batch, skipping, operator, crashes>>
    BY <1>11 DEF Execute, PCs
  <2> QED
    BY <2>1, <2>2 DEF TypeOK
<1>12. CASE CommitTask \/ CommitInjected
  <2>1. history' \in Seq(Messages) /\ version' = version + 1
    BY <1>12, UserCommits
  <2>2. /\ UNCHANGED <<intents, ckpt, lock, ran, runs, batch, skipping, operator, crashes>>
        /\ pc' \in PCs
    BY <1>12 DEF CommitTask, CommitInjected, PCs
  <2> QED
    BY <2>1, <2>2 DEF TypeOK
<1>13. CASE CommitAssistant
  <2>1. /\ history' \in Seq(Messages) /\ version' = version + 1
        /\ batch' \in [next : Nat, last : Nat]
    BY <1>13, ResponseCommit
  <2> QED
    <3>1. /\ UNCHANGED <<intents, ckpt, lock, ran, runs, operator, crashes>>
          /\ pc' \in PCs /\ skipping' \in BOOLEAN
      BY <1>13 DEF CommitAssistant, PCs
    <3> QED
      BY <2>1, <3>1 DEF TypeOK
<1>14. CASE CommitResult \/ CommitSkipped
  <2>1. history' \in Seq(Messages) /\ version' = version + 1
    BY <1>14, ResultCommit
  <2> QED
    <3>1. /\ UNCHANGED <<intents, ckpt, lock, ran, runs, batch, operator, crashes>>
          /\ pc' \in PCs /\ skipping' \in BOOLEAN
      BY <1>14 DEF CommitResult, CommitSkipped, TypeOK, PCs
    <3> QED
      BY <2>1, <3>1 DEF TypeOK
<1>15. CASE RecordResults
  <2>1. history' \in Seq(Messages) /\ version' = version + 1
    BY <1>15, RecoveryCommit
  <2> QED
    <3>1. op' \in [phase : {"none", "append", "mark"}, calls : SUBSET Calls,
                   status : ResultStatuses \cup {"none"}, mark : IntentStatuses \cup {"none"}]
      BY <1>15 DEF RecordResults, TypeOK
    <3>2. UNCHANGED <<intents, ckpt, lock, ran, process, plan, crashes>>
      BY <1>15 DEF RecordResults
    <3> QED
      BY <2>1, <3>1, <3>2 DEF TypeOK
<1> QED
  BY <1>1, <1>2, <1>3, <1>4, <1>5, <1>6, <1>7, <1>8, <1>9, <1>10, <1>11, <1>12, <1>13,
     <1>14, <1>15, AllSteps DEF Moves, Journals

-----------------------------------------------------------------------------
(* The numbers of the calls.                                               *)

LEMMA QuietSteps ==
  ASSUME UNCHANGED vars \/ Moves \/ Boundaries \/ Journals \/ Execute
  PROVE  /\ history' = history
         /\ Proposed' = Proposed /\ (\A c : Results(c)' = Results(c)) /\ OpenCalls' = OpenCalls
<1>1. history' = history
  <2> USE DEF durable, process, operator
  <2>1. CASE UNCHANGED vars
    BY <2>1 DEF vars
  <2>2. CASE Moves
    BY <2>2 DEF Moves, StartRun, ContinueRun, Enter, RequestRefused, StopAtTop, TurnFinish,
                ReleaseLock, Kill, Unwind, OperatorCrash, Inspect, Resume, Resolve, Command
  <2>3. CASE Boundaries
    BY <2>3 DEF Boundaries, JournalDone, ResultBoundary, UserBoundary, RunEnd,
                RecoveryCheckpoint
  <2>4. CASE Journals \/ Execute
    BY <2>4 DEF Journals, RecordIntent, MarkStarted, CloseIntent, MarkIntent, Execute
  <2> QED
    BY <2>1, <2>2, <2>3, <2>4
<1> QED
  BY <1>1, SameHistory

\* Proposals only grow, and only by a response.
LEMMA ProposalsGrow ==
  ASSUME Consistent, [Next]_vars
  PROVE  Proposed \subseteq Proposed' /\ (~CommitAssistant => Proposed' = Proposed)
<1> USE DEF Consistent
<1>1. CASE CommitAssistant
  <2>1. PICK n \in 0..MaxCalls, last \in Nat :
          Proposed = 1..n /\ n <= last /\ Proposed' = 1..last
    BY <1>1, ResponseCommit
  <2>2. n \in Nat
    BY BoundsAssumption
  <2> QED
    BY <1>1, <2>1, <2>2
<1>2. CASE CommitTask \/ CommitInjected
  BY <1>2, UserCommits
<1>3. CASE CommitResult \/ CommitSkipped
  BY <1>3, ResultCommit
<1>4. CASE RecordResults
  BY <1>4, RecoveryCommit
<1>5. CASE UNCHANGED vars \/ Moves \/ Boundaries \/ Journals \/ Execute
  BY <1>5, QuietSteps
<1> QED
  BY <1>1, <1>2, <1>3, <1>4, <1>5, AllSteps

LEMMA OrderStep ==
  ASSUME Consistent, [Next]_vars
  PROVE  CallsInOrder'
<1> USE DEF Consistent
<1>1. \E n \in 0..MaxCalls : Proposed' = 1..n
  <2>1. CASE CommitAssistant
    <3>1. PICK n \in 0..MaxCalls, last \in Nat : last <= MaxCalls /\ Proposed' = 1..last
      BY <2>1, ResponseCommit
    <3>2. last \in 0..MaxCalls
      BY <3>1, BoundsAssumption
    <3> QED
      BY <3>1, <3>2
  <2>2. CASE ~CommitAssistant
    BY <2>2, ProposalsGrow DEF CallsInOrder
  <2> QED
    BY <2>1, <2>2
<1>2. ASSUME NEW c \in Calls, Results(c)' # {} PROVE c \in Proposed'
  <2>1. CASE CommitAssistant
    <3>1. Results(c)' = Results(c)
      BY <2>1, ResponseCommit
    <3> QED
      BY <1>2, <3>1, ProposalsGrow DEF CallsInOrder
  <2>2. CASE CommitResult \/ CommitSkipped
    <3>1. batch.next \in Proposed
      <4>1. pc = "execute" \/ pc = "batch"
        BY <2>2 DEF CommitResult, CommitSkipped
      <4>2. batch.next \in Nat /\ batch.last \in Nat
        BY DEF TypeOK
      <4> QED
        BY <4>1, <4>2 DEF BatchInOrder, Waiting, InHand, InTurn
    <3> QED
      BY <1>2, <2>2, <3>1, ResultCommit DEF CallsInOrder
  <2>3. CASE RecordResults
    <3>1. op.calls \subseteq Proposed
      BY DEF OperatorInOrder
    <3> QED
      BY <1>2, <2>3, <3>1, RecoveryCommit DEF CallsInOrder
  <2>4. CASE CommitTask \/ CommitInjected
    BY <1>2, <2>4, UserCommits DEF CallsInOrder
  <2>5. CASE UNCHANGED vars \/ Moves \/ Boundaries \/ Journals \/ Execute
    BY <1>2, <2>5, QuietSteps DEF CallsInOrder
  <2> QED
    BY <2>1, <2>2, <2>3, <2>4, <2>5, AllSteps
<1> QED
  BY <1>1, <1>2 DEF CallsInOrder

-----------------------------------------------------------------------------
(* The batch.                                                              *)

LEMMA NoBatch ==
  ASSUME pc' \notin {"journal"} \cup InTurn
  PROVE  Waiting' = {} /\ InHand' = {} /\ BatchInOrder'
<1>1. Waiting' = {} /\ InHand' = {}
  BY DEF Waiting, InHand, InTurn
<1>2. pc' \notin {"journal", "batch", "start", "execute", "close", "boundary"}
  BY DEF InTurn
<1> QED
  BY <1>1, <1>2 DEF BatchInOrder, InTurn

\* The operator's steps are taken while no run is going on.
LEMMA OperatorSteps ==
  ASSUME OperatorInOrder,
         Inspect \/ Resume \/ Resolve \/ OperatorCrash \/ RecoveryStep
  PROVE  pc = "down" /\ pc' = "down"
<1> USE DEF process
<1>1. CASE Inspect \/ Resume \/ Resolve
  BY <1>1 DEF Inspect, Resume, Resolve, OperatorAtWork, Command
<1>2. CASE OperatorCrash
  BY <1>2 DEF OperatorCrash, OperatorInOrder
<1>3. CASE RecoveryStep
  BY <1>3 DEF RecoveryStep, RecordResults, MarkIntent, RecoveryCheckpoint, OperatorInOrder,
              NoOperation
<1> QED
  BY <1>1, <1>2, <1>3

\* Steps that leave the run without a batch.
LEMMA BatchlessSteps ==
  ASSUME Consistent,
         \/ Moves \/ UserBoundary \/ RunEnd \/ CommitTask \/ CommitInjected
         \/ MarkIntent \/ RecordResults \/ RecoveryCheckpoint
  PROVE  pc' \notin {"journal"} \cup InTurn
<1> USE DEF Consistent
<1>1. CASE Inspect \/ Resume \/ Resolve \/ OperatorCrash \/ RecoveryStep
  BY <1>1, OperatorSteps DEF InTurn
<1>2. CASE StartRun \/ ContinueRun \/ RequestRefused \/ StopAtTop \/ TurnFinish
  BY <1>2 DEF StartRun, ContinueRun, Enter, RequestRefused, StopAtTop, TurnFinish, InTurn
<1>3. CASE ReleaseLock \/ Kill \/ Unwind \/ UserBoundary \/ RunEnd \/ CommitTask \/ CommitInjected
  BY <1>3 DEF ReleaseLock, Kill, Unwind, UserBoundary, RunEnd, CommitTask, CommitInjected, InTurn
<1> QED
  BY <1>1, <1>2, <1>3 DEF Moves, RecoveryStep

\* The other steps, a response apart, take calls out of the batch only.
BatchSteps ==
  \/ JournalDone \/ ResultBoundary
  \/ RecordIntent \/ MarkStarted \/ Execute \/ CommitResult \/ CommitSkipped \/ CloseIntent

LEMMA BatchShrinks ==
  ASSUME TypeOK, BatchInOrder, BatchSteps
  PROVE  /\ Waiting' \subseteq Waiting /\ InHand' \subseteq Waiting \cup InHand
         /\ pc # "down" /\ UNCHANGED operator
         /\ pc' \in InTurn \ {"batch"} => batch' = batch /\ batch.next \notin Waiting'
<1>1. batch.next \in Nat /\ batch.last \in Nat
  BY DEF TypeOK
<1>2. CASE RecordIntent
  BY <1>2 DEF RecordIntent, process, Waiting, InHand, InTurn
<1>3. CASE JournalDone
  BY <1>3 DEF JournalDone, Waiting, InHand, InTurn
<1>4. CASE ResultBoundary
  <2>1. /\ batch'.next = batch.next + 1 /\ batch'.last = batch.last
        /\ pc = "boundary" /\ pc' \in {"batch", "run_end", "request"}
    BY <1>4 DEF ResultBoundary, TypeOK
  <2> QED
    BY <1>1, <1>4, <2>1 DEF ResultBoundary, Waiting, InHand, InTurn
<1>5. CASE MarkStarted \/ CommitSkipped
  <2>1. pc = "batch" /\ pc' \in InTurn \ {"batch"} /\ batch' = batch /\ UNCHANGED operator
    BY <1>5 DEF MarkStarted, CommitSkipped, InTurn
  <2>2. batch.next <= batch.last
    BY <2>1 DEF BatchInOrder, InTurn
  <2> QED
    BY <1>1, <2>1, <2>2 DEF Waiting, InHand, InTurn
<1>6. CASE Execute \/ CommitResult \/ CloseIntent
  <2>1. /\ pc \in InTurn \ {"batch"} /\ pc' \in InTurn \ {"batch"}
        /\ batch' = batch /\ UNCHANGED operator
    BY <1>6 DEF Execute, CommitResult, CloseIntent, InTurn
  <2> QED
    BY <2>1 DEF Waiting, InHand, InTurn
<1> QED
  BY <1>2, <1>3, <1>4, <1>5, <1>6 DEF BatchSteps

\* A fresh call has left no trace anywhere.
LEMMA FreshCalls ==
  ASSUME Consistent, NEW c \in Calls, c \notin Proposed
  PROVE  intents[c] = "absent" /\ ran[c] = 0 /\ Results(c) = {}
<1>1. intents[c] = "absent"
  BY DEF Consistent, JournalFollowsHistory
<1>2. Results(c) = {}
  BY DEF Consistent, CallsInOrder
<1>3. ran[c] \in Nat
  BY DEF Consistent, TypeOK
<1> QED
  BY <1>1, <1>2, <1>3 DEF Consistent, EvidenceBeforeEffect

LEMMA BatchStep ==
  ASSUME Consistent, [Next]_vars
  PROVE  BatchInOrder'
<1> USE DEF Consistent
<1>1. CASE UNCHANGED vars
  <2>1. /\ UNCHANGED <<pc, batch, intents, ran, ckpt>> /\ Waiting' = Waiting /\ InHand' = InHand
        /\ Proposed' = Proposed /\ \A c : Results(c)' = Results(c)
    BY <1>1, QuietSteps DEF vars, durable, process, Waiting, InHand
  <2> QED
    BY <2>1 DEF BatchInOrder
<1>2. CASE Moves \/ UserBoundary \/ RunEnd \/ CommitTask \/ CommitInjected
           \/ MarkIntent \/ RecordResults \/ RecoveryCheckpoint
  BY <1>2, BatchlessSteps, NoBatch
<1>3. CASE CommitAssistant
  <2>1. PICK n \in 0..MaxCalls, last \in Nat :
          /\ Proposed = 1..n /\ last <= MaxCalls /\ batch' = [next |-> n + 1, last |-> last]
          /\ Proposed' = 1..last /\ \A c : Results(c)' = Results(c)
    BY <1>3, ResponseCommit
  <2>2. pc' = "journal" /\ UNCHANGED <<intents, ran>>
    BY <1>3 DEF CommitAssistant
  <2>3. Waiting' = n + 1..last /\ InHand' = {}
    BY <2>1, <2>2 DEF Waiting, InHand, InTurn
  <2>4. n \in Nat /\ MaxCalls \in Nat
    BY BoundsAssumption
  <2>5. \A c \in Waiting' : c \in Calls /\ c \notin Proposed /\ c \in Proposed'
    BY <2>1, <2>3, <2>4 DEF Calls
  <2>6. \A c \in Waiting' : intents'[c] = "absent" /\ ran'[c] = 0 /\ Results(c)' = {}
    BY <2>1, <2>2, <2>5, FreshCalls
  <2> QED
    BY <2>2, <2>3, <2>5, <2>6 DEF BatchInOrder, InTurn
<1>4. CASE RecordIntent
  <2>1. /\ UNCHANGED <<pc, batch, ran>> /\ pc = "journal"
        /\ Waiting' = Waiting /\ InHand' = {}
        /\ Proposed' = Proposed /\ \A c : Results(c)' = Results(c)
    BY <1>4, QuietSteps DEF RecordIntent, process, Waiting, InHand, InTurn, Journals
  <2>2. PICK c \in Calls : intents' = [intents EXCEPT ![c] = "planned"]
    <3>1. Unjournaled \subseteq Waiting
      BY <2>1 DEF Unjournaled, Waiting
    <3>2. Waiting \subseteq Calls
      BY OpenAreCalls DEF BatchInOrder
    <3> QED
      BY <1>4, <3>1, <3>2 DEF RecordIntent
  <2>3. intents \in [Calls -> IntentStatuses]
    BY DEF TypeOK
  <2>4. \A d \in Waiting : intents'[d] \in {"absent", "planned"}
    BY <2>2, <2>3, OpenAreCalls DEF BatchInOrder
  <2> QED
    BY <2>1, <2>4 DEF BatchInOrder, InTurn
<1>5. CASE JournalDone
  <2>1. CASE batch.next > batch.last
    <3>1. pc' = "turn_end"
      BY <1>5, <2>1 DEF JournalDone, TypeOK
    <3> QED
      BY <3>1, NoBatch DEF InTurn
  <2>2. CASE batch.next <= batch.last
    <3>1. /\ pc = "journal" /\ pc' = "batch" /\ UNCHANGED <<batch, intents, ran>>
          /\ Unjournaled = {} /\ SaveCheckpoint
      BY <1>5, <2>2 DEF JournalDone
    <3>2. /\ Waiting' = Waiting /\ InHand' = {} /\ InHand = {}
          /\ Proposed' = Proposed /\ \A c : Results(c)' = Results(c)
      BY <1>5, <3>1, QuietSteps DEF Boundaries, Waiting, InHand, InTurn
    <3>3. \A c \in Waiting : intents[c] = "planned"
      BY <3>1 DEF Waiting, Unjournaled, BatchInOrder, InTurn
    <3>4. batch.next \in Waiting
      BY <2>2, <3>1 DEF Waiting, TypeOK
    <3>5. batch.next \in Calls
      BY <3>4, OpenAreCalls DEF BatchInOrder
    <3>6. batch.next \in ckpt'.pending
      BY <3>1, <3>3, <3>4, <3>5, SavedCheckpoint DEF OpenIntents
    <3> QED
      BY <2>2, <3>1, <3>2, <3>3, <3>5, <3>6 DEF BatchInOrder, InTurn
  <2> QED
    BY <2>1, <2>2 DEF TypeOK
<1>6. CASE MarkStarted
  <2>1. /\ pc = "batch" /\ pc' = "start" /\ UNCHANGED <<batch, ran, ckpt>>
        /\ intents' = [intents EXCEPT ![batch.next] = IF @ = "planned" THEN "started" ELSE @]
    BY <1>6 DEF MarkStarted
  <2>2. Waiting' \subseteq Waiting /\ InHand' = {batch.next} /\ batch.next \notin Waiting'
    BY <1>6, <2>1, BatchShrinks DEF BatchSteps, InHand, InTurn
  <2>3. batch.next \in Waiting
    BY <2>1 DEF Waiting, BatchInOrder, InTurn, TypeOK
  <2>4. /\ intents[batch.next] = "planned" /\ ran[batch.next] = 0 /\ Results(batch.next) = {}
        /\ batch.next \in Calls /\ batch.next \in Proposed /\ batch.next <= batch.last
        /\ batch.next \in ckpt.pending
    BY <2>1, <2>3 DEF BatchInOrder, InTurn
  <2>5. intents \in [Calls -> IntentStatuses] /\ Waiting \subseteq Calls
    BY OpenAreCalls DEF TypeOK, BatchInOrder
  <2>6. /\ intents'[batch.next] = "started"
        /\ \A c \in Waiting' : intents'[c] = intents[c]
    BY <2>1, <2>2, <2>4, <2>5
  <2>7. Proposed' = Proposed /\ \A c : Results(c)' = Results(c)
    BY <1>6, QuietSteps DEF Journals
  <2> QED
    BY <2>1, <2>2, <2>3, <2>4, <2>6, <2>7 DEF BatchInOrder, InTurn
<1>7. CASE Execute
  <2>1. /\ pc = "start" /\ pc' = "execute" /\ UNCHANGED <<batch, intents>>
        /\ ran' = [ran EXCEPT ![batch.next] = @ + 1]
    BY <1>7 DEF Execute, durable
  <2>2. Waiting' \subseteq Waiting /\ InHand' = {batch.next} /\ batch.next \notin Waiting'
    BY <1>7, <2>1, BatchShrinks DEF BatchSteps, InHand, InTurn
  <2>3. /\ batch.next \in Calls /\ batch.next <= batch.last /\ batch.next \in Proposed
        /\ intents[batch.next] = "started" /\ Results(batch.next) = {}
    BY <2>1 DEF BatchInOrder, InHand, InTurn
  <2>4. ran \in [Calls -> Nat] /\ Waiting \subseteq Calls
    BY OpenAreCalls DEF TypeOK, BatchInOrder
  <2>5. ran'[batch.next] > 0 /\ \A c \in Waiting' : ran'[c] = ran[c]
    BY <2>1, <2>2, <2>3, <2>4
  <2>6. Proposed' = Proposed /\ \A c : Results(c)' = Results(c)
    BY <1>7, QuietSteps
  <2> QED
    BY <2>1, <2>2, <2>3, <2>5, <2>6 DEF BatchInOrder, InTurn
<1>8. CASE CommitResult \/ CommitSkipped
  <2>1. pc \in {"execute", "batch"} /\ pc' = "close" /\ UNCHANGED <<batch, intents, ran>>
    BY <1>8 DEF CommitResult, CommitSkipped
  <2>2. Waiting' \subseteq Waiting /\ InHand' = {batch.next} /\ batch.next \notin Waiting'
    BY <1>8, <2>1, BatchShrinks DEF BatchSteps, InHand, InTurn
  <2>3. batch.next \in Calls /\ batch.next <= batch.last
    BY <2>1 DEF BatchInOrder, InTurn
  <2>4. InHand' \subseteq Waiting \cup InHand
    BY <1>8, BatchShrinks DEF BatchSteps
  <2>5. /\ Proposed' = Proposed
        /\ \A c : Results(c)' = IF c = batch.next THEN Results(c) \cup {Len(history) + 1}
                                                  ELSE Results(c)
    BY <1>8, ResultCommit
  <2>6. \A c \in Waiting' : c \in Waiting /\ Results(c)' = Results(c)
    BY <2>2, <2>5
  <2>7. \A c \in Waiting : intents[c] = "planned" \/ pc = "journal"
    BY DEF BatchInOrder
  <2> QED
    BY <2>1, <2>2, <2>3, <2>4, <2>5, <2>6, <2>7 DEF BatchInOrder, InTurn
<1>9. CASE CloseIntent
  <2>1. /\ pc = "close" /\ pc' = "boundary" /\ UNCHANGED <<batch, ran>>
        /\ intents' = [intents EXCEPT ![batch.next] = IF @ = "absent" THEN @ ELSE "completed"]
    BY <1>9 DEF CloseIntent
  <2>2. Waiting' \subseteq Waiting /\ InHand' = {batch.next} /\ batch.next \notin Waiting'
        /\ InHand' \subseteq Waiting \cup InHand
    BY <1>9, <2>1, BatchShrinks DEF BatchSteps, InHand, InTurn
  <2>3. batch.next \in Calls /\ batch.next <= batch.last
    BY <2>1 DEF BatchInOrder, InTurn
  <2>4. intents \in [Calls -> IntentStatuses] /\ Waiting \subseteq Calls
    BY OpenAreCalls DEF TypeOK, BatchInOrder
  <2>5. \A c \in Waiting' : intents'[c] = intents[c]
    BY <2>1, <2>2, <2>4
  <2>6. Proposed' = Proposed /\ \A c : Results(c)' = Results(c)
    BY <1>9, QuietSteps DEF Journals
  <2> QED
    BY <2>1, <2>2, <2>3, <2>5, <2>6 DEF BatchInOrder, InTurn
<1>10. CASE ResultBoundary
  <2>1. CASE pc' # "batch"
    <3>1. pc' \in {"run_end", "request"}
      BY <1>10, <2>1 DEF ResultBoundary
    <3> QED
      BY <3>1, NoBatch DEF InTurn
  <2>2. CASE pc' = "batch"
    <3>1. /\ pc = "boundary" /\ UNCHANGED <<intents, ran>> /\ SaveCheckpoint
          /\ batch'.next = batch.next + 1 /\ batch'.last = batch.last
          /\ batch.next < batch.last
      BY <1>10, <2>2 DEF ResultBoundary, TypeOK
    <3>2. Waiting' \subseteq Waiting /\ InHand' = {}
      BY <1>10, <2>2, BatchShrinks DEF BatchSteps, InHand, InTurn
    <3>3. batch.next \in Nat /\ batch.last \in Nat
      BY DEF TypeOK
    <3>4. batch'.next \in Waiting
      BY <3>1, <3>3 DEF Waiting, InTurn
    <3>5. batch'.next \in Calls /\ intents[batch'.next] = "planned"
      BY <3>1, <3>4, OpenAreCalls DEF BatchInOrder
    <3>6. batch'.next \in ckpt'.pending
      BY <3>1, <3>5, SavedCheckpoint DEF OpenIntents
    <3>7. Proposed' = Proposed /\ \A c : Results(c)' = Results(c)
      BY <1>10, QuietSteps DEF Boundaries
    <3> QED
      BY <2>2, <3>1, <3>2, <3>3, <3>4, <3>5, <3>6, <3>7 DEF BatchInOrder, InTurn
  <2> QED
    BY <2>1, <2>2
<1> QED
  BY <1>1, <1>2, <1>3, <1>4, <1>5, <1>6, <1>7, <1>8, <1>9, <1>10, AllSteps
     DEF Boundaries, Journals

-----------------------------------------------------------------------------
(* The operator.                                                           *)

\* A call the run is done with, or never had, stays so.
LEMMA ApartStaysApart ==
  ASSUME Consistent, [Next]_vars
  PROVE  Proposed \ (Waiting \cup InHand) \subseteq Proposed' \ (Waiting' \cup InHand')
<1> USE DEF Consistent
<1>1. Proposed \subseteq Proposed'
  BY ProposalsGrow
<1>2. CASE UNCHANGED vars
  BY <1>1, <1>2 DEF vars, process, Waiting, InHand
<1>3. CASE Moves \/ UserBoundary \/ RunEnd \/ CommitTask \/ CommitInjected
           \/ MarkIntent \/ RecordResults \/ RecoveryCheckpoint
  BY <1>1, <1>3, BatchlessSteps, NoBatch
<1>4. CASE CommitAssistant
  <2>1. PICK n \in 0..MaxCalls, last \in Nat :
          Proposed = 1..n /\ batch' = [next |-> n + 1, last |-> last]
    BY <1>4, ResponseCommit
  <2>2. pc' = "journal"
    BY <1>4 DEF CommitAssistant
  <2>3. Waiting' = n + 1..last /\ InHand' = {} /\ n \in Nat
    BY <2>1, <2>2, BoundsAssumption DEF Waiting, InHand, InTurn
  <2> QED
    BY <1>1, <2>1, <2>3
<1>5. CASE BatchSteps
  BY <1>1, <1>5, BatchShrinks
<1> QED
  BY <1>2, <1>3, <1>4, <1>5, AllSteps DEF Boundaries, Journals, BatchSteps

\* Steps of a run leave the operator alone, who has no command in progress.
RunSteps ==
  \/ StartRun \/ ContinueRun \/ RequestRefused \/ StopAtTop \/ TurnFinish \/ ReleaseLock
  \/ Kill \/ Unwind \/ UserBoundary \/ RunEnd \/ CommitTask \/ CommitInjected \/ CommitAssistant
  \/ BatchSteps

LEMMA RunLeavesOperator ==
  ASSUME Consistent, RunSteps
  PROVE  plan' = plan /\ op' = op /\ op = NoOperation
<1> USE DEF Consistent, operator
<1>1. CASE StartRun \/ ContinueRun
  BY <1>1 DEF StartRun, ContinueRun, Enter
<1>2. CASE RequestRefused \/ StopAtTop \/ TurnFinish \/ ReleaseLock \/ Kill \/ Unwind
  BY <1>2 DEF RequestRefused, StopAtTop, TurnFinish, ReleaseLock, Kill, Unwind, OperatorInOrder
<1>3. CASE UserBoundary \/ RunEnd \/ CommitTask \/ CommitInjected \/ CommitAssistant
  BY <1>3 DEF UserBoundary, RunEnd, CommitTask, CommitInjected, CommitAssistant, OperatorInOrder
<1>4. CASE BatchSteps
  BY <1>4, BatchShrinks DEF OperatorInOrder
<1> QED
  BY <1>1, <1>2, <1>3, <1>4 DEF RunSteps

\* Only a step of execution changes the workspace, and only for the call in hand.
LEMMA EffectInHand ==
  ASSUME Consistent, [Next]_vars
  PROVE  \A c \in Calls : c \notin InHand => ran'[c] = ran[c]
<1> USE DEF Consistent, durable, process, operator
<1>1. CASE UNCHANGED vars
  BY <1>1 DEF vars
<1>2. CASE Moves
  BY <1>2 DEF Moves, StartRun, ContinueRun, Enter, RequestRefused, StopAtTop, TurnFinish,
              ReleaseLock, Kill, Unwind, OperatorCrash, Inspect, Resume, Resolve, Command
<1>3. CASE Boundaries \/ Journals
  BY <1>3 DEF Boundaries, Journals, JournalDone, ResultBoundary, UserBoundary, RunEnd,
              RecoveryCheckpoint, RecordIntent, MarkStarted, CloseIntent, MarkIntent
<1>4. CASE CommitTask \/ CommitInjected \/ CommitAssistant \/ CommitResult \/ CommitSkipped
           \/ RecordResults
  BY <1>4 DEF CommitTask, CommitInjected, CommitAssistant, CommitResult, CommitSkipped,
              RecordResults
<1>5. CASE Execute
  <2>1. InHand = {batch.next} /\ ran' = [ran EXCEPT ![batch.next] = @ + 1]
    BY <1>5 DEF Execute, InHand, InTurn
  <2>2. ran \in [Calls -> Nat]
    BY DEF TypeOK
  <2> QED
    BY <2>1, <2>2
<1> QED
  BY <1>1, <1>2, <1>3, <1>4, <1>5, AllSteps

LEMMA OperatorStep ==
  ASSUME Consistent, [Next]_vars
  PROVE  OperatorInOrder'
<1> USE DEF Consistent
<1> DEFINE Apart == Proposed \ (Waiting \cup InHand)
<1>1. Apart \subseteq Apart' /\ Apart \subseteq Calls
  BY ApartStaysApart, OpenAreCalls
<1>2. \A c \in Apart : ran'[c] = ran[c]
  BY <1>1, EffectInHand
<1>3. plan.pending \cup plan.uncertain \cup op.calls \subseteq Apart
  BY DEF OperatorInOrder
<1>4. CASE UNCHANGED vars
  BY <1>4, QuietSteps DEF vars, process, operator, OperatorInOrder, Waiting, InHand
<1>5. CASE RunSteps
  <2>1. plan' = plan /\ op' = NoOperation /\ op'.phase = "none" /\ op'.calls = {}
    BY <1>5, RunLeavesOperator DEF NoOperation
  <2>2. plan'.pending \cup plan'.uncertain \cup op'.calls \subseteq Apart'
    BY <1>1, <1>3, <2>1
  <2>3. \A c \in plan'.pending : ran'[c] = 0
    BY <1>2, <1>3, <2>1 DEF OperatorInOrder
  <2> QED
    BY <2>1, <2>2, <2>3 DEF OperatorInOrder
<1>6. ASSUME pc' = "down" PROVE Apart' = Proposed'
  BY <1>6, NoBatch DEF InTurn
<1>7. CASE Inspect
  <2>1. pc = "down" /\ pc' = "down" /\ op = NoOperation /\ op' = op /\ UNCHANGED <<intents, ran>>
    BY <1>7 DEF Inspect, OperatorAtWork, process, durable
  <2>2. Proposed' = Proposed /\ Apart' = Proposed
    BY <1>6, <1>7, <2>1, QuietSteps DEF Moves
  <2>3. plan'.pending \subseteq OpenIn("planned") /\ plan'.uncertain \subseteq OpenIn("started")
    BY <1>7, InspectedPlan
  <2>4. plan'.pending \cup plan'.uncertain \subseteq Proposed
    BY <2>3, OpenAreCalls
  <2>5. ASSUME NEW c \in plan'.pending PROVE ran'[c] = 0
    <3>1. c \in Calls /\ intents[c] = "planned" /\ Results(c) = {}
      BY <2>3, <2>5, OpenAreCalls DEF OpenIn, OpenCalls
    <3>2. ran[c] \in Nat
      BY <3>1 DEF TypeOK
    <3> QED
      BY <2>1, <3>1, <3>2 DEF EvidenceBeforeEffect
  <2> QED
    BY <2>1, <2>2, <2>4, <2>5 DEF OperatorInOrder, NoOperation
<1>8. ASSUME NEW calls \in SUBSET Apart, NEW s, NEW mark,
             pc = "down", Command(calls, s, mark),
             \/ s = "not_executed" /\ mark = "abandoned"
             \/ s = "executed_unknown" /\ mark = "resolved",
             \A c \in calls : s = "not_executed" <=> ran[c] = 0
      PROVE  OperatorInOrder'
  <2>1. /\ op' = [phase |-> "append", calls |-> calls, status |-> s, mark |-> mark]
        /\ pc' = "down" /\ ran' = ran /\ plan' \in {plan, NoPlan}
    BY <1>8 DEF Command, process
  <2>2. plan'.pending \subseteq plan.pending /\ plan'.uncertain \subseteq plan.uncertain
    BY <2>1 DEF NoPlan
  <2>3. plan'.pending \cup plan'.uncertain \cup op'.calls \subseteq Apart'
    BY <1>1, <1>3, <1>8, <2>1, <2>2
  <2>4. \A c \in plan'.pending : ran'[c] = 0
    BY <2>1, <2>2 DEF OperatorInOrder
  <2> QED
    BY <1>8, <2>1, <2>3, <2>4 DEF OperatorInOrder
<1>9. CASE Resume
  <2>1. pc = "down" /\ Command(plan.pending, "not_executed", "abandoned")
    BY <1>9 DEF Resume, OperatorAtWork
  <2>2. \A c \in plan.pending : ran[c] = 0
    BY DEF OperatorInOrder
  <2>3. PICK calls \in SUBSET Apart : calls = plan.pending
    BY <1>3
  <2> QED
    BY <1>8, <2>1, <2>2, <2>3
<1>10. CASE Resolve
  <2>1. pc = "down" /\ pc' = "down"
    BY <1>10, OperatorSteps
  <2>2. PICK c \in Calls :
          /\ intents[c] = "started"
          /\ IF ran[c] = 0 THEN Command({c}, "not_executed", "abandoned")
                           ELSE Command({c}, "executed_unknown", "resolved")
    BY <1>10 DEF Resolve
  <2>3. c \in Proposed
    BY <2>2 DEF JournalFollowsHistory
  <2>4. c \in Apart
    BY <2>1, <2>3 DEF Waiting, InHand, InTurn
  <2> QED
    BY <1>8, <2>1, <2>2, <2>4
<1>11. CASE OperatorCrash \/ RecoveryCheckpoint
  <2>1. op' = NoOperation /\ plan' = plan /\ op'.calls = {} /\ op'.phase = "none"
    BY <1>11 DEF OperatorCrash, RecoveryCheckpoint, NoOperation
  <2>2. plan'.pending \cup plan'.uncertain \cup op'.calls \subseteq Apart'
    BY <1>1, <1>3, <2>1
  <2>3. \A c \in plan'.pending : ran'[c] = 0
    BY <1>2, <1>3, <2>1 DEF OperatorInOrder
  <2> QED
    BY <2>1, <2>2, <2>3 DEF OperatorInOrder
<1>12. CASE RecordResults
  <2>1. /\ op' = [op EXCEPT !.phase = "mark"] /\ plan' = plan /\ ran' = ran
        /\ op.phase = "append"
    BY <1>12 DEF RecordResults
  <2>2. /\ op'.phase = "mark" /\ op'.calls = op.calls /\ op'.status = op.status
        /\ op'.mark = op.mark
    BY <2>1 DEF TypeOK
  <2>3. pc' = "down"
    BY <1>12, OperatorSteps DEF RecoveryStep
  <2>4. plan'.pending \cup plan'.uncertain \cup op'.calls \subseteq Apart'
    BY <1>1, <1>3, <2>1, <2>2
  <2>5. \A c \in op.calls : Results(c)' # {}
    BY <1>12, RecoveryCommit
  <2> QED
    BY <2>1, <2>2, <2>3, <2>4, <2>5 DEF OperatorInOrder
<1>13. CASE MarkIntent
  <2>1. PICK x : op' = [op EXCEPT !.calls = @ \ {x}]
    BY <1>13 DEF MarkIntent
  <2>2. plan' = plan /\ ran' = ran /\ op.phase = "mark"
    BY <1>13 DEF MarkIntent
  <2>3. /\ op'.phase = "mark" /\ op'.calls \subseteq op.calls /\ op'.status = op.status
        /\ op'.mark = op.mark
    BY <2>1, <2>2 DEF TypeOK
  <2>4. pc' = "down"
    BY <1>13, OperatorSteps DEF RecoveryStep
  <2>5. plan'.pending \cup plan'.uncertain \cup op'.calls \subseteq Apart'
    BY <1>1, <1>3, <2>2, <2>3
  <2>6. \A c : Results(c)' = Results(c)
    BY <1>13, QuietSteps DEF Journals
  <2> QED
    BY <2>2, <2>3, <2>4, <2>5, <2>6 DEF OperatorInOrder
<1> QED
  BY <1>4, <1>5, <1>7, <1>9, <1>10, <1>11, <1>12, <1>13, AllSteps
     DEF Moves, Boundaries, Journals, RunSteps, BatchSteps

-----------------------------------------------------------------------------
(* History, journal, checkpoints and workspace.                            *)

\* No step takes a result back.
LEMMA ResultsGrow ==
  ASSUME Consistent, [Next]_vars
  PROVE  \A c : Results(c) \subseteq Results(c)'
<1> USE DEF Consistent
<1>1. CASE UNCHANGED vars \/ Moves \/ Boundaries \/ Journals \/ Execute
  BY <1>1, QuietSteps
<1>2. CASE CommitTask \/ CommitInjected
  BY <1>2, UserCommits
<1>3. CASE CommitAssistant
  BY <1>3, ResponseCommit
<1>4. CASE CommitResult \/ CommitSkipped
  BY <1>4, ResultCommit
<1>5. CASE RecordResults
  <2>1. ASSUME NEW c PROVE Results(c) \subseteq Results(c)'
    <3>1. CASE c \in op.calls
      BY <1>5, <3>1, RecoveryCommit
    <3>2. CASE c \notin op.calls
      BY <1>5, <3>2, RecoveryCommit
    <3> QED
      BY <3>1, <3>2
  <2> QED
    BY <2>1
<1> QED
  BY <1>1, <1>2, <1>3, <1>4, <1>5, AllSteps

\* Outside an execution the workspace stays as it is.
LEMMA EffectsOfExecution ==
  ASSUME [Next]_vars, ~Execute
  PROVE  ran' = ran
<1> USE DEF durable, process, operator
<1>1. CASE UNCHANGED vars
  BY <1>1 DEF vars
<1>2. CASE Moves
  BY <1>2 DEF Moves, StartRun, ContinueRun, Enter, RequestRefused, StopAtTop, TurnFinish,
              ReleaseLock, Kill, Unwind, OperatorCrash, Inspect, Resume, Resolve, Command
<1>3. CASE Boundaries \/ Journals
  BY <1>3 DEF Boundaries, Journals, JournalDone, ResultBoundary, UserBoundary, RunEnd,
              RecoveryCheckpoint, RecordIntent, MarkStarted, CloseIntent, MarkIntent
<1>4. CASE CommitTask \/ CommitInjected \/ CommitAssistant \/ CommitResult \/ CommitSkipped
           \/ RecordResults
  BY <1>4 DEF CommitTask, CommitInjected, CommitAssistant, CommitResult, CommitSkipped,
              RecordResults
<1> QED
  BY <1>1, <1>2, <1>3, <1>4, AllSteps

\* An execution adds to the call in hand, which the journal and the checkpoint
\* know of and the history does not.
LEMMA ExecutionOf ==
  ASSUME Consistent, Execute
  PROVE  /\ batch.next \in Calls
         /\ ran' = [ran EXCEPT ![batch.next] = ran[batch.next] + 1]
         /\ intents[batch.next] = "started" /\ Results(batch.next) = {}
         /\ batch.next \in ckpt.pending /\ UNCHANGED durable
  BY DEF Execute, Consistent, BatchInOrder, InTurn

\* A position holds a result of its own call.
LEMMA ResultAt ==
  ASSUME NEW p \in 1..Len(history), history[p].type = "result"
  PROVE  p \in Results(history[p].call)
  BY DEF Results

LEMMA TruthStep ==
  ASSUME Consistent, [Next]_vars
  PROVE  HistoryTruthful'
<1> USE DEF Consistent
<1>1. CASE (UNCHANGED vars \/ Moves \/ Boundaries \/ Journals) /\ ~Execute
  BY <1>1, EffectsOfExecution, QuietSteps DEF HistoryTruthful
<1>2. CASE Execute
  <2>1. history' = history
    BY <1>2, QuietSteps
  <2>2. ASSUME NEW p \in 1..Len(history), history[p].type = "result"
        PROVE  ran'[history[p].call] = ran[history[p].call]
    <3>1. history[p].call # batch.next
      BY <1>2, <2>2, ResultAt, ExecutionOf
    <3>2. history[p].call \in Calls /\ ran \in [Calls -> Nat]
      <4>1. history[p] \in Messages
        BY DEF TypeOK
      <4> QED
        BY <2>2, <4>1, MessageFields DEF TypeOK
    <3> QED
      BY <1>2, <3>1, <3>2, ExecutionOf
  <2> QED
    BY <2>1, <2>2 DEF HistoryTruthful
<1>3. ASSUME Len(history') = Len(history) + 1, ran' = ran,
             \A p \in 1..Len(history) : history'[p] = history[p],
             history'[Len(history) + 1].type = "result" =>
               (history'[Len(history) + 1].status = "not_executed"
                  <=> ran[history'[Len(history) + 1].call] = 0)
      PROVE  HistoryTruthful'
  <2>1. Len(history) \in Nat
    BY DEF TypeOK
  <2> SUFFICES ASSUME NEW p \in 1..Len(history'), history'[p].type = "result"
               PROVE  history'[p].status = "not_executed" <=> ran'[history'[p].call] = 0
    BY DEF HistoryTruthful
  <2>2. CASE p = Len(history) + 1
    BY <1>3, <2>2
  <2>3. CASE p \in 1..Len(history)
    BY <1>3, <2>3 DEF HistoryTruthful
  <2> QED
    BY <1>3, <2>1, <2>2, <2>3
<1>4. CASE CommitTask \/ CommitInjected
  <2>1. ran' = ran
    BY <1>4 DEF CommitTask, CommitInjected
  <2> QED
    BY <1>3, <1>4, <2>1, UserCommits
<1>5. CASE CommitAssistant
  <2>1. ran' = ran
    BY <1>5 DEF CommitAssistant
  <2> QED
    BY <1>3, <1>5, <2>1, ResponseCommit
<1>6. CASE CommitResult \/ CommitSkipped
  <2>1. ran' = ran /\ pc \in {"execute", "batch"}
    BY <1>6 DEF CommitResult, CommitSkipped
  <2>2. pc = "execute" => ran[batch.next] > 0
    BY DEF BatchInOrder
  <2>3. pc = "batch" => ran[batch.next] = 0
    <3>1. pc = "batch" => batch.next \in Waiting
      BY DEF BatchInOrder, Waiting, InTurn, TypeOK
    <3> QED
      BY <3>1 DEF BatchInOrder
  <2>4. batch.next \in Calls /\ ran[batch.next] \in Nat
    BY <2>1 DEF BatchInOrder, InTurn, TypeOK
  <2>5. /\ Len(history') = Len(history) + 1
        /\ \A p \in 1..Len(history) : history'[p] = history[p]
        /\ history'[Len(history) + 1].call = batch.next
        /\ history'[Len(history) + 1].status =
              IF pc = "execute" THEN "executed" ELSE "not_executed"
    BY <1>6, ResultCommit
  <2> QED
    BY <1>3, <2>1, <2>2, <2>3, <2>4, <2>5
<1>7. CASE RecordResults
  <2>1. ran' = ran /\ op.phase = "append"
    BY <1>7 DEF RecordResults
  <2>2. \A c \in op.calls : op.status = "not_executed" <=> ran[c] = 0
    BY <2>1 DEF OperatorInOrder
  <2>3. /\ \A p \in 1..Len(history) : history'[p] = history[p]
        /\ \A p \in 1..Len(history') : p > Len(history) =>
             history'[p].call \in op.calls /\ history'[p].status = op.status
    BY <1>7, RecoveryCommit
  <2>4. Len(history) \in Nat
    BY DEF TypeOK
  <2> SUFFICES ASSUME NEW p \in 1..Len(history'), history'[p].type = "result"
               PROVE  history'[p].status = "not_executed" <=> ran'[history'[p].call] = 0
    BY DEF HistoryTruthful
  <2>5. CASE p > Len(history)
    BY <2>1, <2>2, <2>3, <2>5
  <2>6. CASE p \in 1..Len(history)
    BY <2>1, <2>3, <2>6 DEF HistoryTruthful
  <2> QED
    BY <2>4, <2>5, <2>6
<1> QED
  BY <1>1, <1>2, <1>4, <1>5, <1>6, <1>7, AllSteps

\* Among finitely many calls one is the first.
LEMMA LeastCall ==
  ASSUME NEW calls \in SUBSET Calls, calls # {}
  PROVE  \E c \in calls : \A d \in calls : c <= d
<1>1. Cardinality(calls) \in Nat /\ IsFiniteSet(calls)
  BY Ranks
<1>2. 1 \in 1..Cardinality(calls)
  <2>1. Cardinality(calls) # 0
    BY <1>1, FS_EmptySet
  <2> QED
    BY <1>1, <2>1
<1>3. PICK c \in calls : Cardinality({d \in calls : d <= c}) = 1
  BY <1>2, Ranks
<1>4. ASSUME NEW d \in calls, ~(c <= d) PROVE FALSE
  <2>1. c \in Nat /\ d \in Nat
    BY BoundsAssumption DEF Calls
  <2>2. PICK x : {e \in calls : e <= c} = {x}
    <3>1. IsFiniteSet({e \in calls : e <= c})
      BY <1>1, FS_Subset
    <3> QED
      BY <1>3, <3>1, FS_Singleton
  <2>3. c \in {e \in calls : e <= c} /\ d \in {e \in calls : e <= c}
    BY <1>4, <2>1
  <2>4. c = d
    BY <2>2, <2>3
  <2> QED
    BY <1>4, <2>1, <2>4
<1> QED
  BY <1>4

\* What the steps of the journal do to the status of one call.
LEMMA JournalSteps ==
  ASSUME Consistent, [Next]_vars, NEW c \in Calls, intents'[c] # intents[c]
  PROVE  \/ intents[c] = "absent" /\ intents'[c] = "planned" /\ c \in Proposed
         \/ intents[c] = "planned" /\ intents'[c] = "started"
         \/ /\ intents'[c] \in {"completed", "abandoned", "resolved"}
            /\ c \in Proposed /\ Results(c) # {}
<1> USE DEF Consistent, durable, process, operator
<1>1. intents \in [Calls -> IntentStatuses]
  BY DEF TypeOK
<1>2. CASE RecordIntent
  <2>1. PICK d \in Unjournaled : intents' = [intents EXCEPT ![d] = "planned"]
    BY <1>2 DEF RecordIntent
  <2>2. d = c
    BY <1>1, <2>1
  <2>3. pc = "journal" /\ intents[d] = "absent" /\ d \in Proposed
    BY <1>2, <2>1 DEF RecordIntent, Unjournaled, Waiting, BatchInOrder
  <2> QED
    BY <1>1, <2>1, <2>2, <2>3
<1>3. CASE MarkStarted
  BY <1>1, <1>3 DEF MarkStarted
<1>4. CASE CloseIntent
  <2>1. /\ pc = "close"
        /\ intents' = [intents EXCEPT ![batch.next] = IF @ = "absent" THEN @ ELSE "completed"]
    BY <1>4 DEF CloseIntent
  <2>2. batch.next = c /\ intents'[c] = "completed"
    BY <1>1, <2>1
  <2>3. Results(batch.next) # {} /\ batch.next \in Proposed
    BY <2>1 DEF BatchInOrder, InHand, InTurn
  <2> QED
    BY <2>2, <2>3
<1>5. CASE MarkIntent
  <2>1. op.phase = "mark" /\ op.calls # {} /\ op.calls \subseteq Calls
    BY <1>5 DEF MarkIntent, TypeOK
  <2>2. PICK d : d = (CHOOSE x \in op.calls : \A y \in op.calls : x <= y)
    OBVIOUS
  <2>3. d \in op.calls
    <3>1. PICK y \in op.calls : \A z \in op.calls : y <= z
      BY <2>1, LeastCall
    <3> QED
      BY <2>2, <3>1
  <2>4. intents' = [intents EXCEPT ![d] = op.mark]
    BY <1>5, <2>2 DEF MarkIntent
  <2>5. d = c /\ intents'[c] = op.mark
    BY <1>1, <2>4
  <2>6. op.mark \in {"abandoned", "resolved"} /\ Results(d) # {} /\ d \in Proposed
    BY <2>1, <2>3 DEF OperatorInOrder
  <2> QED
    BY <2>5, <2>6
<1>6. CASE UNCHANGED vars \/ Moves
  BY <1>6 DEF vars, Moves, StartRun, ContinueRun, Enter, RequestRefused, StopAtTop, TurnFinish,
              ReleaseLock, Kill, Unwind, OperatorCrash, Inspect, Resume, Resolve, Command
<1>7. CASE Boundaries \/ Execute
  BY <1>7 DEF Boundaries, JournalDone, ResultBoundary, UserBoundary, RunEnd,
              RecoveryCheckpoint, Execute
<1>8. CASE CommitTask \/ CommitInjected \/ CommitAssistant \/ CommitResult \/ CommitSkipped
           \/ RecordResults
  BY <1>8 DEF CommitTask, CommitInjected, CommitAssistant, CommitResult, CommitSkipped,
              RecordResults
<1> QED
  BY <1>2, <1>3, <1>4, <1>5, <1>6, <1>7, <1>8, AllSteps DEF Journals

LEMMA EvidenceStep ==
  ASSUME Consistent, [Next]_vars
  PROVE  EvidenceBeforeEffect'
<1> SUFFICES ASSUME NEW c \in Calls, ran'[c] > 0, Results(c)' = {}
             PROVE  intents'[c] = "started"
  BY DEF EvidenceBeforeEffect
<1>1. Results(c) = {}
  BY ResultsGrow
<1>2. intents[c] = "started"
  <2>1. CASE ran[c] > 0
    BY <1>1, <2>1 DEF Consistent, EvidenceBeforeEffect
  <2>2. CASE ~(ran[c] > 0)
    <3>1. Execute
      BY <2>2, EffectsOfExecution
    <3>2. ran \in [Calls -> Nat]
      BY DEF Consistent, TypeOK
    <3>3. c = batch.next
      BY <2>2, <3>1, <3>2, ExecutionOf
    <3> QED
      BY <3>1, <3>3, ExecutionOf
  <2> QED
    BY <2>1, <2>2
<1> QED
  BY <1>1, <1>2, JournalSteps

LEMMA JournalStep ==
  ASSUME Consistent, [Next]_vars
  PROVE  JournalFollowsHistory'
<1> SUFFICES ASSUME NEW c \in Calls
             PROVE  /\ intents'[c] # "absent" => c \in Proposed'
                    /\ intents'[c] \in {"completed", "abandoned", "resolved"} => Results(c)' # {}
  BY DEF JournalFollowsHistory
<1>1. c \in Proposed => c \in Proposed'
  BY ProposalsGrow
<1>2. Results(c) # {} => Results(c)' # {}
  BY ResultsGrow
<1>3. /\ intents[c] # "absent" => c \in Proposed
      /\ intents[c] \in {"completed", "abandoned", "resolved"} => Results(c) # {}
  BY DEF Consistent, JournalFollowsHistory
<1> QED
  BY <1>1, <1>2, <1>3, JournalSteps

\* Versions grow, and checkpoints are taken of the present.
LEMMA VersionSteps ==
  ASSUME Consistent, [Next]_vars
  PROVE  \/ SaveCheckpoint /\ version' = version /\ intents' = intents /\ ran' = ran
         \/ ckpt' = ckpt /\ version' \in {version, version + 1}
<1> USE DEF Consistent, durable, process, operator
<1>1. CASE UNCHANGED vars \/ Moves
  BY <1>1 DEF vars, Moves, StartRun, ContinueRun, Enter, RequestRefused, StopAtTop, TurnFinish,
              ReleaseLock, Kill, Unwind, OperatorCrash, Inspect, Resume, Resolve, Command
<1>2. CASE Boundaries
  BY <1>2 DEF Boundaries, JournalDone, ResultBoundary, UserBoundary, RunEnd,
              RecoveryCheckpoint
<1>3. CASE Journals \/ Execute
  BY <1>3 DEF Journals, RecordIntent, MarkStarted, CloseIntent, MarkIntent, Execute
<1>4. CASE CommitTask \/ CommitInjected \/ CommitAssistant \/ CommitResult \/ CommitSkipped
           \/ RecordResults
  BY <1>4 DEF CommitTask, CommitInjected, CommitAssistant, CommitResult, CommitSkipped,
              RecordResults, Commit
<1> QED
  BY <1>1, <1>2, <1>3, <1>4, AllSteps

LEMMA CheckpointStep ==
  ASSUME Consistent, [Next]_vars
  PROVE  CheckpointCovers'
<1> USE DEF Consistent
<1>1. version \in Nat /\ ckpt.version <= version /\ ckpt.version \in Nat
  BY DEF TypeOK, CheckpointCovers
<1>2. CASE SaveCheckpoint /\ version' = version /\ intents' = intents /\ ran' = ran
  <2>1. ckpt'.version = version /\ ckpt'.pending = OpenIntents
    BY <1>2, SavedCheckpoint
  <2>2. ASSUME NEW c \in Calls, ran'[c] > 0, Results(c)' = {} PROVE c \in ckpt'.pending
    <3>1. intents'[c] = "started"
      BY <2>2, EvidenceStep DEF EvidenceBeforeEffect
    <3> QED
      BY <1>2, <2>1, <3>1 DEF OpenIntents
  <2> QED
    BY <1>1, <1>2, <2>1, <2>2 DEF CheckpointCovers
<1>3. CASE ckpt' = ckpt /\ version' \in {version, version + 1}
  <2>1. ckpt'.version <= version'
    BY <1>1, <1>3
  <2>2. ASSUME NEW c \in Calls, ran'[c] > 0, Results(c)' = {} PROVE c \in ckpt'.pending
    <3>1. Results(c) = {}
      BY <2>2, ResultsGrow
    <3>2. CASE ran[c] > 0
      BY <1>3, <3>1, <3>2 DEF CheckpointCovers
    <3>3. CASE ~(ran[c] > 0)
      <4>1. Execute
        BY <2>2, <3>3, EffectsOfExecution
      <4>2. ran \in [Calls -> Nat]
        BY DEF TypeOK
      <4>3. c = batch.next
        BY <2>2, <3>3, <4>1, <4>2, ExecutionOf
      <4> QED
        BY <1>3, <4>1, <4>3, ExecutionOf
    <3> QED
      BY <3>2, <3>3
  <2> QED
    BY <2>1, <2>2 DEF CheckpointCovers
<1> QED
  BY <1>2, <1>3, VersionSteps

-----------------------------------------------------------------------------
(* One result per call, for an operator who inspects before each command.  *)

LEMMA StaysOpen ==
  ASSUME Consistent, [Next]_vars, NEW c \in OpenCalls, Results(c)' = Results(c)
  PROVE  c \in OpenCalls'
  BY ProposalsGrow DEF OpenCalls

\* The call a run answers had no result before, and is in no plan.
LEMMA AnswerOfRun ==
  ASSUME Consistent, CommitResult \/ CommitSkipped
  PROVE  /\ Results(batch.next) = {}
         /\ batch.next \notin plan.pending \cup plan.uncertain
         /\ \A c : Results(c)' = IF c = batch.next THEN {Len(history) + 1} ELSE Results(c)
<1> USE DEF Consistent
<1>1. pc = "execute" \/ pc = "batch"
  BY DEF CommitResult, CommitSkipped
<1>2. batch.next \in Waiting \cup InHand
  BY <1>1 DEF BatchInOrder, Waiting, InHand, InTurn, TypeOK
<1>3. Results(batch.next) = {}
  <2>1. CASE pc = "batch"
    <3>1. batch.next \in Waiting
      BY <2>1 DEF BatchInOrder, Waiting, InTurn, TypeOK
    <3> QED
      BY <3>1 DEF BatchInOrder
  <2>2. CASE pc = "execute"
    BY <2>2 DEF BatchInOrder
  <2> QED
    BY <1>1, <2>1, <2>2
<1>4. \A c : Results(c)' = IF c = batch.next THEN Results(c) \cup {Len(history) + 1}
                                             ELSE Results(c)
  BY ResultCommit
<1>5. \A c : c = batch.next => Results(c) = {}
  BY <1>3
<1> QED
  BY <1>2, <1>3, <1>4, <1>5 DEF OperatorInOrder

LEMMA OnceInit ==
  ASSUME Init
  PROVE  AnsweredOnce
  BY DEF Init, AnsweredOnce, Results, NoPlan, NoOperation

LEMMA OnceStep ==
  ASSUME FreshPlans, Consistent, AnsweredOnce, [Next]_vars
  PROVE  AnsweredOnce'
<1> USE DEF Consistent
<1>1. CASE RunSteps \/ UNCHANGED vars
  <2>1. plan' = plan /\ op' = op
    BY <1>1, RunLeavesOperator DEF vars, operator
  <2>2. ASSUME \A c : Results(c)' = Results(c) PROVE AnsweredOnce'
    <3>1. OpenCalls \subseteq OpenCalls'
      BY <2>2, StaysOpen
    <3> QED
      BY <2>1, <2>2, <3>1 DEF AnsweredOnce
  <2>3. CASE CommitResult \/ CommitSkipped
    <3>1. op = NoOperation
      BY <2>3, RunLeavesOperator DEF RunSteps, BatchSteps
    <3>2. \A c : Results(c)' = IF c = batch.next THEN {Len(history) + 1} ELSE Results(c)
      BY <2>3, AnswerOfRun
    <3>3. plan.pending \cup plan.uncertain \subseteq OpenCalls'
      BY <2>3, <3>2, AnswerOfRun, StaysOpen DEF AnsweredOnce
    <3> QED
      BY <2>1, <3>1, <3>2, <3>3 DEF AnsweredOnce, NoOperation
  <2>4. CASE CommitTask \/ CommitInjected
    BY <2>2, <2>4, UserCommits
  <2>5. CASE CommitAssistant
    BY <2>2, <2>5, ResponseCommit
  <2>6. CASE UNCHANGED vars \/ Moves \/ Boundaries \/ Journals \/ Execute
    BY <2>2, <2>6, QuietSteps
  <2> QED
    BY <1>1, <2>3, <2>4, <2>5, <2>6
       DEF RunSteps, BatchSteps, Moves, Boundaries, Journals
<1>2. CASE Inspect
  <2>1. op = NoOperation /\ op' = op
    BY <1>2 DEF Inspect, OperatorAtWork
  <2>2. OpenCalls' = OpenCalls /\ \A c : Results(c)' = Results(c)
    BY <1>2, QuietSteps DEF Moves
  <2>3. plan'.pending \cup plan'.uncertain \subseteq OpenCalls
    BY <1>2, InspectedPlan, OpenAreCalls
  <2> QED
    BY <2>1, <2>2, <2>3 DEF AnsweredOnce, NoOperation
<1>3. CASE Resume \/ Resolve
  <2>1. plan' = NoPlan /\ op'.phase = "append" /\ op'.calls \subseteq OpenCalls
    <3>1. CASE Resume
      BY <3>1 DEF Resume, Command, AnsweredOnce
    <3>2. CASE Resolve
      BY <3>2 DEF Resolve, Command, AnsweredOnce
    <3> QED
      BY <1>3, <3>1, <3>2
  <2>2. OpenCalls' = OpenCalls /\ \A c : Results(c)' = Results(c)
    BY <1>3, QuietSteps DEF Moves
  <2> QED
    BY <2>1, <2>2 DEF AnsweredOnce, NoPlan
<1>4. CASE OperatorCrash \/ RecoveryCheckpoint
  <2>1. op' = NoOperation /\ plan' = plan
    BY <1>4 DEF OperatorCrash, RecoveryCheckpoint
  <2>2. OpenCalls' = OpenCalls /\ \A c : Results(c)' = Results(c)
    BY <1>4, QuietSteps DEF Moves, Boundaries
  <2> QED
    BY <2>1, <2>2 DEF AnsweredOnce, NoOperation
<1>5. CASE MarkIntent
  <2>1. op.phase = "mark" /\ op'.phase = "mark" /\ plan' = plan
    BY <1>5 DEF MarkIntent, TypeOK
  <2>2. op # NoOperation
    BY <2>1 DEF NoOperation
  <2>3. OpenCalls' = OpenCalls /\ \A c : Results(c)' = Results(c)
    BY <1>5, QuietSteps DEF Journals
  <2> QED
    BY <2>1, <2>2, <2>3 DEF AnsweredOnce
<1>6. CASE RecordResults
  <2>1. op.phase = "append" /\ op'.phase = "mark" /\ plan' = plan
    BY <1>6 DEF RecordResults, TypeOK
  <2>2. plan' = NoPlan
    BY <2>1 DEF AnsweredOnce, NoOperation
  <2>3. ASSUME NEW c \in Calls, NEW p \in Results(c)', NEW q \in Results(c)' PROVE p = q
    <3>1. CASE c \in op.calls
      <4>1. Results(c) = {}
        BY <2>1, <3>1 DEF AnsweredOnce, OpenCalls
      <4>2. \E x \in 1..Len(history') : Results(c)' = Results(c) \cup {x}
        BY <1>6, <3>1, RecoveryCommit
      <4> QED
        BY <2>3, <4>1, <4>2
    <3>2. CASE c \notin op.calls
      <4>1. Results(c)' = Results(c)
        BY <1>6, <3>2, RecoveryCommit
      <4> QED
        BY <2>3, <4>1 DEF AnsweredOnce
    <3> QED
      BY <3>1, <3>2
  <2> QED
    BY <2>1, <2>2, <2>3 DEF AnsweredOnce, NoPlan
<1> QED
  BY <1>1, <1>2, <1>3, <1>4, <1>5, <1>6, AllSteps
     DEF Moves, Boundaries, Journals, RunSteps, BatchSteps

\* At most one position is at most one element.
LEMMA OnceMeansHydratable ==
  ASSUME TypeOK, AnsweredOnce
  PROVE  OneResultPerCall
<1> SUFFICES ASSUME NEW c \in Calls PROVE Cardinality(Results(c)) <= 1
  BY DEF OneResultPerCall, Hydratable
<1>1. CASE Results(c) = {}
  BY <1>1, FS_EmptySet
<1>2. CASE Results(c) # {}
  <2>1. PICK p : p \in Results(c)
    BY <1>2
  <2>2. Results(c) = {p}
    BY <2>1 DEF AnsweredOnce
  <2>3. Cardinality(Results(c)) = 1
    BY <2>2, FS_Singleton
  <2> QED
    BY <2>3
<1> QED
  BY <1>1, <1>2

-----------------------------------------------------------------------------
(* The theorems.                                                           *)

LEMMA ConsistentInit ==
  ASSUME Init
  PROVE  Consistent
<1>1. TypeOK
  BY TypeInit
<1>2. Proposed = {} /\ \A c : Results(c) = {}
  BY DEF Init, Proposed, Elements, Results
<1>3. CallsInOrder
  <2>1. 0 \in 0..MaxCalls /\ Proposed = 1..0
    BY <1>2, BoundsAssumption
  <2> QED
    BY <1>2, <2>1 DEF CallsInOrder
<1>4. pc \notin InTurn /\ Waiting = {} /\ InHand = {}
  BY DEF Init, InTurn, Waiting, InHand
<1>5. BatchInOrder
  BY <1>4 DEF Init, BatchInOrder, InTurn
<1>6. OperatorInOrder
  BY <1>4 DEF Init, OperatorInOrder, NoOperation, NoPlan
<1>7. HistoryTruthful /\ EvidenceBeforeEffect /\ JournalFollowsHistory
  BY DEF Init, HistoryTruthful, EvidenceBeforeEffect, JournalFollowsHistory
<1>8. CheckpointCovers
  BY DEF Init, CheckpointCovers
<1> QED
  BY <1>1, <1>3, <1>5, <1>6, <1>7, <1>8 DEF Consistent

LEMMA ConsistentStep ==
  ASSUME Consistent, [Next]_vars
  PROVE  Consistent'
<1>1. TypeOK' /\ CallsInOrder' /\ BatchInOrder' /\ OperatorInOrder'
  BY TypeStep, OrderStep, BatchStep, OperatorStep
<1>2. HistoryTruthful' /\ EvidenceBeforeEffect' /\ JournalFollowsHistory' /\ CheckpointCovers'
  BY TruthStep, EvidenceStep, JournalStep, CheckpointStep
<1> QED
  BY <1>1, <1>2 DEF Consistent

\* The inductive invariant: what the run, the operator and the tables rely on
\* of each other holds at every step and through every crash.
THEOREM Consistency == Spec => []Consistent
<1>1. Init => Consistent
  BY ConsistentInit
<1>2. Consistent /\ [Next]_vars => Consistent'
  BY ConsistentStep
<1> QED
  BY <1>1, <1>2, PTL DEF Spec

\* The tables, the plan and the command keep their types.
THEOREM TypeCorrect == Spec => []TypeOK
<1>1. Consistent => TypeOK
  BY DEF Consistent
<1> QED
  BY <1>1, Consistency, PTL

\* Whatever crashes, and whatever plan the operator acts on, fresh or stale: the
\* history never tells the model that a call was not executed when it was, or
\* the other way round (agent/runtime.py, agent/recovery.py).
THEOREM HistoryIsTruthful == Spec => []HistoryTruthful
<1>1. Consistent => HistoryTruthful
  BY DEF Consistent
<1> QED
  BY <1>1, Consistency, PTL

\* Whatever crashes: an effect the history does not know of has its intent in
\* "started", the evidence that keeps resume from passing over it.
THEOREM EvidencePrecedesEffect == Spec => []EvidenceBeforeEffect
<1>1. Consistent => EvidenceBeforeEffect
  BY DEF Consistent
<1> QED
  BY <1>1, Consistency, PTL

\* Whatever crashes: no intent dangles, and none is closed before its result.
THEOREM JournalIsBehind == Spec => []JournalFollowsHistory
<1>1. Consistent => JournalFollowsHistory
  BY DEF Consistent
<1> QED
  BY <1>1, Consistency, PTL

\* Whatever crashes: the latest checkpoint lists every effect without a result.
THEOREM CheckpointIsSafe == Spec => []CheckpointCovers
<1>1. Consistent => CheckpointCovers
  BY DEF Consistent
<1> QED
  BY <1>1, Consistency, PTL

\* An operator who inspects before each command never gives a call a second
\* result, so that the session can always be loaded again; retried_resolution
\* shows that the assumption is needed.
THEOREM FreshPlansAnswerOnce ==
  ASSUME FreshPlans
  PROVE  Spec => []OneResultPerCall
<1>1. Init => Consistent /\ AnsweredOnce
  BY ConsistentInit, OnceInit
<1>2. Consistent /\ AnsweredOnce /\ [Next]_vars => Consistent' /\ AnsweredOnce'
  BY ConsistentStep, OnceStep
<1>3. Consistent /\ AnsweredOnce => OneResultPerCall
  BY OnceMeansHydratable DEF Consistent
<1> QED
  BY <1>1, <1>2, <1>3, PTL DEF Spec
=============================================================================
