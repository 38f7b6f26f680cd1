------------------------------ MODULE ModelTurn ------------------------------
(***************************************************************************)
(* One session over its turns: what the context builder sends (Context),   *)
(* what comes back over the stream (StreamAssembly), and the invocations   *)
(* that follow (ToolPipeline), joined as agent/loop.py joins them.  The    *)
(* process may be killed at any await or transaction; an operator answers  *)
(* what it left open before the session is opened again.                   *)
(*                                                                         *)
(* Limits, time and the control queues are AgentLoop's subject: here a run *)
(* may end wherever one of them would end it.                              *)
(***************************************************************************)
EXTENDS Context, StreamAssembly, ToolPipeline

CONSTANTS
  MessageTokens,  \* size of a user or assistant message
  MaxMessages,    \* bound: messages of the session
  MaxFaults       \* bound: crashes and failing statements

VARIABLES
  pc,         \* where the loop stands
  waiting,    \* calls of the response without a result, in execution order
  cancelled,  \* CancelToken.is_cancelled
  faults      \* faults so far

session == <<log, context>>
loop == <<pc, waiting, cancelled>>
vars == <<session, stream, pipeline, loop, faults>>

ASSUME TurnAssumption ==
  /\ Commands = CallIds
  /\ MessageTokens \in Nat /\ MaxMessages \in Nat /\ MaxFaults \in Nat
  /\ RawTokens \subseteq Nat /\ DisplayTokens \in Nat

Init ==
  /\ log = <<>> /\ stored = <<>> /\ record = NoRecord
  /\ pending = NoRecord /\ request = NoRequest
  /\ sent = {} /\ order = <<>> /\ pieces = [c \in CallIds |-> {}]
  /\ attempt = 0
  /\ stage = "idle" /\ call = {} /\ cleared = {} /\ alive = {}
  /\ failure = "none" /\ outcome = NoOutcome /\ told = {}
  /\ executions = [c \in Commands |-> 0]
  /\ pc = "idle" /\ waiting = <<>> /\ cancelled = FALSE /\ faults = 0

Room(n) == Len(log) + n <= MaxMessages

Say(message) == log' = Append(log, message)

Fault == faults < MaxFaults /\ faults' = faults + 1

Proposed == UNION {log[i].calls : i \in Positions(log)}

-----------------------------------------------------------------------------
(* A run begins, and the top of the loop.                                  *)

\* run: the task is committed whatever the history looks like.
StartRun ==
  /\ pc = "idle" /\ Room(1)
  /\ Say(UserMessage(MessageTokens))
  /\ pc' = "build" /\ cancelled' = FALSE
  /\ UNCHANGED <<context, stream, pipeline, waiting, faults>>

\* continue_run: the history must be one the model can answer.
ContinueRun ==
  /\ pc = "idle" /\ Answerable(log)
  /\ pc' = "build" /\ cancelled' = FALSE
  /\ UNCHANGED <<session, stream, pipeline, waiting, faults>>

Building == pc = "build" /\ pending = NoRecord

\* A steering message is injected before the request is built.
Inject ==
  /\ Building /\ ~cancelled /\ Room(1)
  /\ Say(UserMessage(MessageTokens))
  /\ UNCHANGED <<context, stream, pipeline, loop, faults>>

\* A limit or the cancellation is seen at the top of the loop.
EndRun ==
  /\ Building
  /\ pc' = "idle"
  /\ UNCHANGED <<session, stream, pipeline, waiting, cancelled, faults>>

Build ==
  /\ Building /\ ~cancelled
  /\ \/ (BuildPlain \/ BuildAgain) /\ pc' = "stream" /\ UNCHANGED faults
     \/ PersistSummary /\ UNCHANGED <<pc, faults>>
     \/ BuildRefused /\ pc' = "idle" /\ UNCHANGED faults
     \/ SummaryRefused(FALSE) /\ pc' = "idle" /\ UNCHANGED faults
     \/ SummaryRefused(TRUE) /\ pc' = "idle" /\ Fault
  /\ UNCHANGED <<stream, pipeline, waiting, cancelled>>

FinishBuild ==
  /\ pc = "build"
  /\ \/ CommitRecord /\ pc' = "stream" /\ UNCHANGED faults
     \/ CheckpointFails /\ pc' = "idle" /\ Fault
  /\ UNCHANGED <<stream, pipeline, waiting, cancelled>>

-----------------------------------------------------------------------------
(* The request.                                                            *)

\* The first attempt, and another one after a transient error.
Attempt ==
  /\ pc = "stream" /\ BeginAttempt
  /\ UNCHANGED <<session, pipeline, loop, faults>>

Receive ==
  /\ pc = "stream" /\ attempt > 0
  /\ \E c \in CallIds, k \in Pieces : Deliver(c, k)
  /\ UNCHANGED <<session, pipeline, loop, faults>>

\* The run is cancelled while a tool is awaited.  While the provider is awaited it
\* has the effect of AbandonRequest, or of Respond and SkipBatch.
RequestCancel ==
  /\ ~cancelled /\ stage \in {"start"} \cup Executing
  /\ cancelled' = TRUE
  /\ UNCHANGED <<session, stream, pipeline, pc, waiting, faults>>

\* The context of the request is not kept.
Consumed == request' = NoRequest /\ UNCHANGED <<stored, record, pending>>

\* An error that is not retried, the deadline, a cancellation, or a response
\* that is not whole: nothing of it is committed.
AbandonRequest ==
  /\ pc = "stream" /\ attempt > 0
  /\ EndRequest /\ Consumed /\ pc' = "idle"
  /\ UNCHANGED <<log, pipeline, waiting, cancelled, faults>>

\* Mutant: an identifier that was used before is accepted.
RespondReusing ==
  /\ pc = "stream" /\ attempt > 0 /\ Room(1 + Len(order))
  /\ Whole("tool_calls") \/ Whole("end_turn")
  /\ Say(AssistantMessage(Registered, MessageTokens))
  /\ waiting' = order
  /\ pc' = IF order = <<>> THEN "idle" ELSE "batch"
  /\ EndRequest /\ Consumed
  /\ UNCHANGED <<pipeline, cancelled, faults>>

\* The response is committed, unless a call bears an identifier of the history:
\* MessageLog refuses it and the exception ends the run.
Respond ==
  /\ pc = "stream" /\ attempt > 0 /\ Room(1 + Len(order))
  /\ Whole("tool_calls") \/ Whole("end_turn")
  /\ IF Registered \cap Proposed = {}
     THEN /\ Say(AssistantMessage(Registered, MessageTokens))
          /\ waiting' = order
          /\ pc' = IF order = <<>> THEN "idle" ELSE "batch"
     ELSE pc' = "idle" /\ UNCHANGED <<log, waiting>>
  /\ EndRequest /\ Consumed
  /\ UNCHANGED <<pipeline, cancelled, faults>>

-----------------------------------------------------------------------------
(* The calls.                                                              *)

\* Cancelled between two calls, or the budget of calls is spent.
SkipBatch ==
  /\ pc = "batch"
  /\ log' = log \o [i \in 1..Len(waiting) |-> ToolResult(waiting[i], 1)]
  /\ pc' = "idle" /\ waiting' = <<>>
  /\ UNCHANGED <<context, stream, pipeline, cancelled, faults>>

BeginCall ==
  /\ pc = "batch" /\ ~cancelled
  /\ Invoke(Head(waiting)) /\ pc' = "call"
  /\ UNCHANGED <<session, stream, waiting, cancelled, faults>>

WorkOnCall ==
  /\ pc = "call" /\ PipelineStep(cancelled)
  /\ UNCHANGED <<session, stream, loop, faults>>

CommitResult ==
  /\ pc = "call" /\ stage = "returned"
  /\ Say(ToolResult(Head(waiting), outcome.tokens))
  /\ waiting' = Tail(waiting)
  /\ pc' = IF Len(waiting) = 1 THEN "build" ELSE "batch"
  /\ Forget
  /\ UNCHANGED <<context, stream, executions, cancelled, faults>>

\* The cancellation of the task itself goes through the loop: the call in hand
\* and the ones behind it stay open.
CallRaises ==
  /\ pc = "call" /\ stage = "raised"
  /\ pc' = "idle" /\ waiting' = <<>>
  /\ Forget
  /\ UNCHANGED <<session, stream, executions, cancelled, faults>>

-----------------------------------------------------------------------------
(* The process dies; recovery and restart.                                 *)

Crash ==
  /\ pc # "down" /\ Fault
  /\ pc' = "down" /\ waiting' = <<>> /\ cancelled' = FALSE
  /\ record' = NoRecord /\ pending' = NoRecord /\ request' = NoRequest
  /\ EndRequest /\ Forget
  /\ UNCHANGED <<log, stored, executions>>

\* RecoveryEngine: a result for a call that has none, at the end of the log.
Recover(c) ==
  /\ pc = "down" /\ c \in OpenCalls(log)
  /\ Say(ToolResult(c, 1))
  /\ UNCHANGED <<context, stream, pipeline, loop, faults>>

Restart ==
  /\ pc = "down" /\ RestoreRecord
  /\ pc' = "idle"
  /\ UNCHANGED <<stream, pipeline, waiting, cancelled, faults>>

Next ==
  \/ StartRun \/ ContinueRun \/ Inject \/ EndRun \/ Build \/ FinishBuild
  \/ Attempt \/ Receive \/ RequestCancel \/ AbandonRequest \/ Respond
  \/ SkipBatch \/ BeginCall \/ WorkOnCall \/ CommitResult \/ CallRaises
  \/ Crash \/ (\E c \in CallIds : Recover(c)) \/ Restart

Spec == Init /\ [][Next]_vars

\* The command's own deadline expires, and a process that can be waited for is
\* waited for.
FairSpec ==
  /\ Spec
  /\ WF_vars(pc = "call" /\ Stop("timeout") /\ UNCHANGED <<session, stream, loop, faults>>)
  /\ WF_vars(pc = "call" /\ Reaped /\ UNCHANGED <<session, stream, loop, faults>>)

-----------------------------------------------------------------------------
(* Properties.                                                             *)

TypeOK ==
  /\ \A i \in Positions(log) :
       log[i] \in [kind : {"user", "assistant", "result"}, calls : SUBSET CallIds,
                   call : SUBSET CallIds, tokens : Nat]
  /\ record \in [version : Nat, through : 0..Len(log)]
  /\ pending \in [version : Nat, through : 0..Len(log)]
  /\ stage \in {"idle", "resolve", "start", "process", "after", "returned", "raised"}
                 \cup Checks \cup Executing
  /\ outcome.status \in Statuses \cup {"none"}
  /\ pc \in {"down", "idle", "build", "stream", "batch", "call"}
  /\ stage # "idle" <=> pc = "call"
  /\ attempt > 0 => pc = "stream"
  /\ waiting # <<>> => pc \in {"batch", "call"}
  /\ call # {} => call = {Head(waiting)}

\* What the request stands for is the whole history, once: the summary's sources
\* and the tail behind the boundary.  A call and its result are on one side of
\* the boundary, whatever the history went through; the recent groups are sent
\* as they are; and no request is over the budget (find_cut, _tail_after,
\* TokenManager).
RequestWhole ==
  pc = "stream" =>
    /\ request.sources \cup (request.first..Len(log)) = Positions(log)
    /\ request.sources \cap (request.first..Len(log)) = {}
    /\ \A i, j \in Positions(log) :
         log[j].call # {} /\ log[j].call \subseteq log[i].calls
           => (i < request.first <=> j < request.first)
    /\ request.version > 0 =>
         Cardinality({s \in GroupStarts(log) : s >= request.first}) >= PreserveRecent
    /\ Decide(Estimate(log, request.first)) # "reject"

\* The summaries of a session are numbered without a gap and each covers more
\* than the one before it, over failed checkpoints, crashes and restarts
\* ("相同覆盖边界的重算不递增版本", context/builder.py:287).
SummariesMonotonic ==
  \A i \in 1..Len(stored) :
    /\ stored[i].version = i
    /\ i > 1 => stored[i].through > stored[i - 1].through

\* The summary in force is the last one of the store, or the one before it when
\* the last one's checkpoint failed: never one that a restart would not know
\* ("持久化 sink 先行，失败则不提交内存记录").
RecordFollowsStore ==
  pc # "down" =>
    \/ record = NoRecord /\ Len(stored) <= 1
    \/ \E i \in 1..Len(stored) : i >= Len(stored) - 1 /\ record = stored[i]

\* What is committed of a streamed response comes from the attempt that was
\* completed, and every call in it is one that attempt was sending; an attempt
\* that failed leaves nothing behind (agent/loop.py's call_model).
ResponseFromOneAttempt ==
  [][\A i \in Positions(log') :
       i > Len(log) /\ log'[i].kind = "assistant" =>
         /\ log'[i].calls \subseteq sent
         /\ attempt' = 0 /\ order' = <<>>]_vars

\* The effects of a call happen at most once, and only when the call is in the
\* history: over reused identifiers, retries, crashes and recovery.
OneExecutionPerCall ==
  \A c \in CallIds :
    /\ executions[c] <= 1
    /\ executions[c] = 1 => c \in Proposed
    /\ Cardinality({i \in Positions(log) : c \in log[i].call}) <= 1

\* The outcome the loop commits says what happened: a denied call was not
\* executed, an executed one had passed every check, the after hook was told
\* that outcome and no other, and the model sees no more of its output than may be
\* displayed.  The command's shell is gone, and whatever of the command can still
\* write to its output is there only after a timeout; of processes that write
\* elsewhere nothing is said, they may survive a completed command
\* (tools/bash.py:128-150).
OutcomeMatchesExecution ==
  stage = "returned" =>
    /\ \A c \in call :
         /\ executions[c] = 1 =>
              cleared = Checks /\ told = {outcome} /\ outcome.tokens <= DisplayTokens
         /\ outcome.status = "denied" => executions[c] = 0 /\ told = {outcome}
         /\ outcome.status \in {"completed", "timeout", "cancelled"} => executions[c] = 1
    /\ "shell" \notin alive
    /\ alive \cap Piped # {} => outcome.status = "timeout"

\* A command that is being watched comes back, whatever it started, unless its
\* shell ends first and leaves a process that holds the pipes, or one that holds
\* them left the shell's group before it was killed ("The process tree is
\* terminated on timeout or cancellation", tools/bash.py:62).
CallReturns ==
  (stage = "running" /\ "shell" \in alive)
    ~> \/ stage \notin Executing
       \/ stage = "running" /\ "shell" \notin alive /\ alive \cap Piped # {}
       \/ stage = "reaping" /\ "stray" \in alive
=============================================================================
