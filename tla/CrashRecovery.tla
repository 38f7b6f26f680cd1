---------------------------- MODULE CrashRecovery ----------------------------
(***************************************************************************)
(* One persisted session over crashes: the statements by which a run makes *)
(* its progress durable (agent/runtime.py, storage/), and the recovery     *)
(* engine (agent/recovery.py) an operator uses afterwards.                 *)
(*                                                                         *)
(* Each action is one SQLite transaction or one effect in the workspace;   *)
(* a crash may fall between any two.  Messages, tool intents, checkpoints  *)
(* and the run lock are durable, the rest dies with the process.  The      *)
(* decisions of the loop are AgentLoop's; here they are left open, and     *)
(* only the order of their durable steps is kept.  The operator works      *)
(* while no run is going on, and each run begins in a fresh process.       *)
(***************************************************************************)
EXTENDS Naturals, Sequences, FiniteSets

CONSTANTS
  MaxCalls,    \* bound: tool calls over the life of the session
  MaxMessages, \* bound: messages of the history when a request is made
  MaxRuns,     \* bound: runs started
  MaxCrashes,  \* bound: crashes of a run or of the operator's command
  FreshPlans   \* the operator inspects anew before each recovery command

ASSUME BoundsAssumption ==
  /\ MaxCalls \in Nat /\ MaxMessages \in Nat /\ MaxRuns \in Nat /\ MaxCrashes \in Nat
  /\ FreshPlans \in BOOLEAN

Calls == 1..MaxCalls

VARIABLES
  history,   \* messages table: the committed messages in order
  version,   \* sessions.version
  intents,   \* tool_intents.status of each call, "absent" without a row
  ckpt,      \* the latest checkpoint: session_version, pending_intent_ids
  lock,      \* run_locks: the run that holds the session, 0 for none
  ran,       \* how often each call's effect took place in the workspace
  pc,        \* where the live run stands, "down" when there is none
  runs,      \* runs started
  batch,     \* the calls of the current response: next one and last one
  skipping,  \* the rest of the batch is being answered without execution
  plan,      \* the last RecoveryPlan the operator obtained
  op,        \* the recovery command in progress
  crashes    \* crashes so far

durable == <<history, version, intents, ckpt, lock>>
process == <<pc, runs, batch, skipping>>
operator == <<plan, op>>
vars == <<durable, ran, process, operator, crashes>>

-----------------------------------------------------------------------------
(* The history.                                                            *)

UserMessage == [type |-> "user"]
AssistantMessage(calls) == [type |-> "assistant", calls |-> calls]
ToolResult(call, status) == [type |-> "result", call |-> call, status |-> status]

Elements(seq) == {seq[i] : i \in 1..Len(seq)}

Results(call) == {p \in 1..Len(history) : history[p].type = "result" /\ history[p].call = call}

Proposed == UNION {m.calls : m \in {x \in Elements(history) : x.type = "assistant"}}

\* _open_call_ids: proposed calls without a result.
OpenCalls == {c \in Proposed : Results(c) = {}}

\* The store's load and the replay into a MessageLog, which refuses a second
\* result for a call.
Hydratable == \A c \in Calls : Cardinality(Results(c)) <= 1

\* AgentRuntime._validate_tail and ContextManager._validate_history.
HistoryValid ==
  /\ history # <<>>
  /\ history[Len(history)].type # "assistant"
  /\ OpenCalls = {}

\* SQLiteSessionStore.append: the rows and the version in one transaction.
Commit(messages) ==
  /\ history' = history \o messages
  /\ version' = version + 1

\* SQLiteCheckpointStore.open_intents.
OpenIntents == {c \in Calls : intents[c] \in {"planned", "started"}}

\* Mutant: only planned intents are listed as pending.
SaveCheckpointPlanned == ckpt' = [version |-> version,
                                  pending |-> {c \in Calls : intents[c] = "planned"}]

SaveCheckpoint == ckpt' = [version |-> version, pending |-> OpenIntents]

-----------------------------------------------------------------------------
(* A run, from the lock to its release.                                    *)

NoOperation == [phase |-> "none", calls |-> {}, status |-> "none", mark |-> "none"]

\* The entry of run and continue_run: the session is loaded and the lock row
\* inserted; an existing row is RunConflictError.
Enter(next) ==
  /\ pc = "down" /\ op = NoOperation
  /\ runs < MaxRuns
  /\ Hydratable
  /\ lock = 0
  /\ lock' = runs + 1 /\ runs' = runs + 1
  /\ pc' = next
  /\ batch' = [next |-> 1, last |-> 0] /\ skipping' = FALSE
  /\ UNCHANGED <<history, version, intents, ckpt, ran, operator, crashes>>

StartRun == Enter("task")

ContinueRun == HistoryValid /\ Enter("request")

\* The user task of run; it is committed whatever the history looks like.
CommitTask ==
  /\ pc = "task"
  /\ Commit(<<UserMessage>>)
  /\ pc' = "request"
  /\ UNCHANGED <<intents, ckpt, lock, ran, runs, batch, skipping, operator, crashes>>

\* The context builder refuses a history with open calls: the run finishes.
RequestRefused ==
  /\ pc = "request" /\ ~HistoryValid
  /\ pc' = "run_end"
  /\ UNCHANGED <<durable, ran, runs, batch, skipping, operator, crashes>>

\* The run ends at the top of the loop: cancelled, out of budget, failed.
StopAtTop ==
  /\ pc = "request"
  /\ pc' = "run_end"
  /\ UNCHANGED <<durable, ran, runs, batch, skipping, operator, crashes>>

\* A complete response, with the calls it proposes.
CommitAssistant ==
  /\ pc = "request" /\ HistoryValid
  /\ Len(history) < MaxMessages
  /\ LET first == Cardinality(Proposed) + 1
     IN  \E last \in (first - 1)..MaxCalls :
           /\ Commit(<<AssistantMessage(first..last)>>)
           /\ batch' = [next |-> first, last |-> last]
  /\ pc' = "journal" /\ skipping' = FALSE
  /\ UNCHANGED <<intents, ckpt, lock, ran, runs, operator, crashes>>

\* _record_intents: a row of its own for each call, after the message.
Unjournaled == {c \in batch.next..batch.last : intents[c] = "absent"}

RecordIntent ==
  /\ pc = "journal" /\ Unjournaled # {}
  /\ \E c \in Unjournaled :
       /\ \A d \in Unjournaled : c <= d
       /\ intents' = [intents EXCEPT ![c] = "planned"]
  /\ UNCHANGED <<history, version, ckpt, lock, ran, process, operator, crashes>>

JournalDone ==
  /\ pc = "journal" /\ Unjournaled = {}
  /\ SaveCheckpoint
  /\ pc' = IF batch.next <= batch.last THEN "batch" ELSE "turn_end"
  /\ UNCHANGED <<history, version, intents, lock, ran, runs, batch, skipping,
                 operator, crashes>>

\* Mutant: the call is handed over before its intent is marked.
MarkStartedLate ==
  /\ pc = "batch" /\ ~skipping
  /\ pc' = "start"
  /\ UNCHANGED <<durable, ran, runs, batch, skipping, operator, crashes>>

\* The tool_start_sink: planned -> started, before anything is executed.
MarkStarted ==
  /\ pc = "batch" /\ ~skipping
  /\ intents' = [intents EXCEPT ![batch.next] = IF @ = "planned" THEN "started" ELSE @]
  /\ pc' = "start"
  /\ UNCHANGED <<history, version, ckpt, lock, ran, runs, batch, skipping,
                 operator, crashes>>

\* Mutant: the intent is completed with the effect, before the result.
ExecuteCompleting ==
  /\ pc = "start"
  /\ ran' = [ran EXCEPT ![batch.next] = @ + 1]
  /\ intents' = [intents EXCEPT ![batch.next] = "completed"]
  /\ pc' = "execute"
  /\ UNCHANGED <<history, version, ckpt, lock, runs, batch, skipping, operator, crashes>>

Execute ==
  /\ pc = "start"
  /\ ran' = [ran EXCEPT ![batch.next] = @ + 1]
  /\ pc' = "execute"
  /\ UNCHANGED <<durable, runs, batch, skipping, operator, crashes>>

CommitResult ==
  /\ pc = "execute"
  /\ Commit(<<ToolResult(batch.next, "executed")>>)
  /\ pc' = "close"
  /\ UNCHANGED <<intents, ckpt, lock, ran, runs, batch, skipping, operator, crashes>>

\* Cancelled or out of tool budget: the rest of the batch is not executed.
CommitSkipped ==
  /\ pc = "batch"
  /\ Commit(<<ToolResult(batch.next, "not_executed")>>)
  /\ pc' = "close" /\ skipping' = TRUE
  /\ UNCHANGED <<intents, ckpt, lock, ran, runs, batch, operator, crashes>>

\* complete_intent, after the result.
CloseIntent ==
  /\ pc = "close"
  /\ intents' = [intents EXCEPT ![batch.next] = IF @ = "absent" THEN @ ELSE "completed"]
  /\ pc' = "boundary"
  /\ UNCHANGED <<history, version, ckpt, lock, ran, runs, batch, skipping,
                 operator, crashes>>

\* The TOOL_RESULT boundary, then the next call, the next request or the end.
ResultBoundary ==
  /\ pc = "boundary"
  /\ SaveCheckpoint
  /\ batch' = [batch EXCEPT !.next = @ + 1]
  /\ pc' = IF batch.next < batch.last THEN "batch"
           ELSE IF skipping THEN "run_end" ELSE "request"
  /\ UNCHANGED <<history, version, intents, lock, ran, runs, skipping, operator, crashes>>

\* Steering is injected before a request, steering or a follow-up after a turn
\* without tool calls; each message is a commit of its own.
CommitInjected ==
  /\ pc = "turn_end" \/ (pc = "request" /\ Len(history) < MaxMessages)
  /\ Commit(<<UserMessage>>)
  /\ pc' = "user_boundary"
  /\ UNCHANGED <<intents, ckpt, lock, ran, runs, batch, skipping, operator, crashes>>

UserBoundary ==
  /\ pc = "user_boundary"
  /\ SaveCheckpoint
  /\ pc' = "request"
  /\ UNCHANGED <<history, version, intents, lock, ran, runs, batch, skipping,
                 operator, crashes>>

TurnFinish ==
  /\ pc = "turn_end"
  /\ pc' = "run_end"
  /\ UNCHANGED <<durable, ran, runs, batch, skipping, operator, crashes>>

RunEnd ==
  /\ pc = "run_end"
  /\ SaveCheckpoint
  /\ pc' = "release"
  /\ UNCHANGED <<history, version, intents, lock, ran, runs, batch, skipping,
                 operator, crashes>>

ReleaseLock ==
  /\ pc = "release"
  /\ lock' = IF lock = runs THEN 0 ELSE lock
  /\ pc' = "down"
  /\ UNCHANGED <<history, version, intents, ckpt, ran, runs, batch, skipping,
                 operator, crashes>>

-----------------------------------------------------------------------------
(* Crashes.                                                                *)

\* The process is killed: nothing runs on the way out.
Kill ==
  /\ pc # "down" /\ crashes < MaxCrashes
  /\ pc' = "down"
  /\ crashes' = crashes + 1
  /\ UNCHANGED <<durable, ran, runs, batch, skipping, operator>>

\* An exception (an interrupt, a cancelled task, a failing statement) unwinds
\* the run: the finally clause releases the lock, and nothing else is written.
Unwind ==
  /\ pc # "down" /\ crashes < MaxCrashes
  /\ lock' = IF lock = runs THEN 0 ELSE lock
  /\ pc' = "down"
  /\ crashes' = crashes + 1
  /\ UNCHANGED <<history, version, intents, ckpt, ran, runs, batch, skipping, operator>>

-----------------------------------------------------------------------------
(* The recovery engine, used while no run is going on.                     *)

NoPlan == [decision |-> "none", pending |-> {}, uncertain |-> {}]

\* RecoveryEngine.inspect, of the committed facts only: the first open call
\* without usable evidence stops it, in the order of the checks.
Decision ==
  CASE \E c \in Calls : intents[c] # "absent" /\ c \notin Proposed -> "STOP"
    [] \E c \in OpenCalls : intents[c] \notin {"planned", "started"} -> "STOP"
    [] \E c \in OpenCalls : intents[c] = "started" -> "RECONCILE"
    [] OTHER -> "RESUME"

\* Mutant: the journal alone says which calls are open.
OpenInJournal(status) == {c \in Calls : intents[c] = status}

OpenIn(status) == {c \in OpenCalls : intents[c] = status}

OperatorAtWork == pc = "down" /\ op = NoOperation

\* Mutant: a started call counts as not executed.
InspectOptimistic ==
  /\ OperatorAtWork
  /\ plan' = IF Decision = "STOP"
             THEN [NoPlan EXCEPT !.decision = "STOP"]
             ELSE [decision |-> "RESUME", pending |-> OpenIn("planned") \cup OpenIn("started"),
                   uncertain |-> {}]
  /\ UNCHANGED <<durable, ran, process, op, crashes>>

Inspect ==
  /\ OperatorAtWork
  /\ plan' = IF Decision = "STOP"
             THEN [NoPlan EXCEPT !.decision = "STOP"]
             ELSE [decision |-> Decision, pending |-> OpenIn("planned"),
                   uncertain |-> OpenIn("started")]
  /\ UNCHANGED <<durable, ran, process, op, crashes>>

\* A recovery command begins: the calls it will answer, the status of their
\* results, and what their intents become.
Command(calls, status, mark) ==
  /\ op' = [phase |-> "append", calls |-> calls, status |-> status, mark |-> mark]
  /\ plan' = IF FreshPlans THEN NoPlan ELSE plan
  /\ UNCHANGED <<durable, ran, process, crashes>>

\* resume: only a RESUME plan, and nothing to do without pending intents.
Resume ==
  /\ OperatorAtWork
  /\ plan.decision = "RESUME" /\ plan.pending # {}
  /\ Command(plan.pending, "not_executed", "abandoned")

\* Mutant: only a call that was not executed can be resolved.
ResolveNotExecuted ==
  /\ OperatorAtWork
  /\ \E c \in Calls :
       /\ intents[c] = "started"
       /\ FreshPlans => c \in plan.uncertain
       /\ ran[c] = 0
       /\ Command({c}, "not_executed", "abandoned")

\* resolve_uncertain looks at the intent alone.  The operator tells the truth
\* about the workspace; a fresh one names a call the plan lists as uncertain.
Resolve ==
  /\ OperatorAtWork
  /\ \E c \in Calls :
       /\ intents[c] = "started"
       /\ FreshPlans => c \in plan.uncertain
       /\ IF ran[c] = 0 THEN Command({c}, "not_executed", "abandoned")
                        ELSE Command({c}, "executed_unknown", "resolved")

\* _record_results: the results in one append, then each intent, then a
\* recovery checkpoint, every step a transaction of its own.
InCallOrder(calls, status) ==
  LET nth(i) == CHOOSE c \in calls : Cardinality({d \in calls : d <= c}) = i
  IN  [i \in 1..Cardinality(calls) |-> ToolResult(nth(i), status)]

RecordResults ==
  /\ op.phase = "append"
  /\ Commit(InCallOrder(op.calls, op.status))
  /\ op' = [op EXCEPT !.phase = "mark"]
  /\ UNCHANGED <<intents, ckpt, lock, ran, process, plan, crashes>>

\* Mutant: the result's status is written to the journal.
MarkIntentSwapped ==
  /\ op.phase = "mark" /\ op.calls # {}
  /\ LET c == CHOOSE x \in op.calls : \A y \in op.calls : x <= y
     IN  /\ intents' = [intents EXCEPT ![c] = op.status]
         /\ op' = [op EXCEPT !.calls = @ \ {c}]
  /\ UNCHANGED <<history, version, ckpt, lock, ran, process, plan, crashes>>

MarkIntent ==
  /\ op.phase = "mark" /\ op.calls # {}
  /\ LET c == CHOOSE x \in op.calls : \A y \in op.calls : x <= y
     IN  /\ intents' = [intents EXCEPT ![c] = op.mark]
         /\ op' = [op EXCEPT !.calls = @ \ {c}]
  /\ UNCHANGED <<history, version, ckpt, lock, ran, process, plan, crashes>>

RecoveryCheckpoint ==
  /\ op.phase = "mark" /\ op.calls = {}
  /\ SaveCheckpoint
  /\ op' = NoOperation
  /\ UNCHANGED <<history, version, intents, lock, ran, process, plan, crashes>>

\* The operator's process dies in the middle of a command.
OperatorCrash ==
  /\ op # NoOperation /\ crashes < MaxCrashes
  /\ op' = NoOperation
  /\ crashes' = crashes + 1
  /\ UNCHANGED <<durable, ran, process, plan>>

-----------------------------------------------------------------------------
Init ==
  /\ history = <<>> /\ version = 0
  /\ intents = [c \in Calls |-> "absent"]
  /\ ckpt = [version |-> 0, pending |-> {}]
  /\ lock = 0
  /\ ran = [c \in Calls |-> 0]
  /\ pc = "down" /\ runs = 0
  /\ batch = [next |-> 1, last |-> 0] /\ skipping = FALSE
  /\ plan = NoPlan /\ op = NoOperation
  /\ crashes = 0

RunStep ==
  \/ CommitTask \/ RequestRefused \/ StopAtTop
  \/ CommitAssistant \/ RecordIntent \/ JournalDone
  \/ MarkStarted \/ Execute \/ CommitResult \/ CommitSkipped
  \/ CloseIntent \/ ResultBoundary
  \/ CommitInjected \/ UserBoundary \/ TurnFinish \/ RunEnd \/ ReleaseLock

RecoveryStep == RecordResults \/ MarkIntent \/ RecoveryCheckpoint

Next ==
  \/ StartRun \/ ContinueRun \/ RunStep
  \/ Kill \/ Unwind \/ OperatorCrash
  \/ Inspect \/ Resume \/ Resolve \/ RecoveryStep

Spec == Init /\ [][Next]_vars

(* An operator who keeps going: commands run to their end, and whoever has a *)
(* plan that allows one inspects or issues it sooner or later.               *)
Diligence ==
  /\ WF_vars(RunStep)
  /\ WF_vars(RecoveryStep)
  /\ SF_vars(Resume) /\ SF_vars(Resolve)
  /\ WF_vars(Inspect)

DiligentSpec == Spec /\ Diligence

-----------------------------------------------------------------------------
(* Properties.                                                             *)

IntentStatuses == {"absent", "planned", "started", "completed", "abandoned", "resolved"}

ResultStatuses == {"executed", "not_executed", "executed_unknown"}

PCs == {"down", "task", "request", "journal", "batch", "start", "execute", "close",
        "boundary", "turn_end", "user_boundary", "run_end", "release"}

Messages == [type : {"user"}]
              \cup [type : {"assistant"}, calls : SUBSET Calls]
              \cup [type : {"result"}, call : Calls, status : ResultStatuses]

\* Every variable keeps its type: the columns of the tables and the fields of
\* the plan and of the command in progress.
TypeOK ==
  /\ history \in Seq(Messages)
  /\ version \in Nat /\ runs \in Nat /\ crashes \in Nat /\ lock \in 0..runs
  /\ intents \in [Calls -> IntentStatuses]
  /\ ckpt \in [version : Nat, pending : SUBSET Calls]
  /\ ran \in [Calls -> Nat]
  /\ pc \in PCs
  /\ batch \in [next : Nat, last : Nat] /\ skipping \in BOOLEAN
  /\ plan \in [decision : {"none", "STOP", "RECONCILE", "RESUME"},
               pending : SUBSET Calls, uncertain : SUBSET Calls]
  /\ op \in [phase : {"none", "append", "mark"}, calls : SUBSET Calls,
             status : ResultStatuses \cup {"none"}, mark : IntentStatuses \cup {"none"}]

\* What the history tells the model is true of the workspace: a result "not
\* executed" is never given to a call whose effect took place, whoever wrote
\* it, the loop or the recovery engine, after whatever crash.
HistoryTruthful ==
  \A p \in 1..Len(history) : history[p].type = "result" =>
    (history[p].status = "not_executed" <=> ran[history[p].call] = 0)

\* The journal never forgets an effect the history does not yet know of: such
\* a call is "started", hence never resumed without a human (recovery.py).
EvidenceBeforeEffect ==
  \A c \in Calls : ran[c] > 0 /\ Results(c) = {} => intents[c] = "started"

\* History and journal disagree in one way only: a call proposed just before a
\* crash may miss its intent.  No intent dangles, and none is closed before
\* the result it stands for is committed.
JournalFollowsHistory ==
  \A c \in Calls :
    /\ intents[c] # "absent" => c \in Proposed
    /\ intents[c] \in {"completed", "abandoned", "resolved"} => Results(c) # {}

\* The history never gets a second result for a call, so that the session can
\* always be loaded again, if the operator inspects before every command.
OneResultPerCall == Hydratable

\* A checkpoint is an index into the past, and what it lists as pending covers
\* every effect the history does not know of: nothing runs behind its back.
CheckpointCovers ==
  /\ ckpt.version <= version
  /\ \A c \in Calls : ran[c] > 0 /\ Results(c) = {} => c \in ckpt.pending

\* A diligent operator gets every session going again: once a run is gone,
\* either each call is answered, or the evidence of one is missing for good.
RecoveryConverges == pc = "down" ~> (OpenCalls = {} \/ Decision = "STOP")

-----------------------------------------------------------------------------
(* What the documents say of a restart and the code does not do.           *)

\* docs 19: a lock table instead of a lock file avoids locks left behind; the
\* session is locked only while a run holds it.
NoStaleLock == pc = "down" => lock = 0
=============================================================================
