------------------------------ MODULE AgentLoop ------------------------------
(***************************************************************************)
(* One session driven by AgentRuntime.run / continue_run through           *)
(* AgentLoop.run (agent/loop.py), with the control channel of              *)
(* agent/control.py: cancel token, steering queue, follow-up queue.        *)
(*                                                                         *)
(* All of it runs on one asyncio event loop.  The loop gives up control    *)
(* only while it awaits the provider, a retry delay or a tool; the other   *)
(* coroutines of the process (submit_steering, abort, submit_follow_up)    *)
(* run there and nowhere else.  Between two awaits the actions below are   *)
(* the segments of the loop body, chained by pc.                           *)
(*                                                                         *)
(* Time is counted in ticks, and passes only while something is awaited.   *)
(* A message keeps its kind, its origin and its pairing, not its text.     *)
(***************************************************************************)
EXTENDS Naturals, Sequences, FiniteSets, Selection, RuntimeState

CONSTANTS
  Task,           \* the text of the task a run is started with
  Steers,         \* steering messages, named by their client_event_id
  FollowUps,      \* follow-up tasks, named by their client_event_id
  MaxRuns,        \* bound: runs started on the session
  MaxBatch,       \* bound: tool calls in one response
  MaxTurns,       \* RunLimits.max_turns
  MaxToolCalls,   \* RunLimits.max_tool_calls
  MaxRetries,     \* RunLimits.max_provider_retries
  Deadline,       \* RunLimits.deadline_seconds
  Backoff,        \* RunLimits.provider_retry_base_delay_seconds
  MaxOverrun,     \* bound: time tools take beyond what they are given, in a run
  QueueLimit      \* DEFAULT_QUEUE_LIMIT of both queues

ASSUME LimitsAssumption ==
  /\ {MaxRuns, MaxBatch, MaxTurns, MaxToolCalls, MaxRetries, Deadline,
      Backoff, MaxOverrun, QueueLimit} \subseteq Nat
  /\ Steers \cap FollowUps = {}
  /\ Task \notin Steers \cup FollowUps

\* The retry delays are whole numbers of ticks, and each is twice the one
\* before (what the proofs use of powers).
ASSUME DelayAssumption ==
  /\ 2 ^ 0 = 1
  /\ \A n \in 0..MaxRetries : Backoff * 2 ^ n \in Nat
  /\ \A n \in 0..MaxRetries : 2 ^ n \in Nat /\ 2 ^ (n + 1) = 2 * 2 ^ n

VARIABLES
  pc,         \* where the loop stands
  rs,         \* the run's RuntimeState snapshot
  log,        \* MessageLog: every committed message of the session
  runs,       \* runs started so far; its value names the current run
  turns,      \* model responses committed in this run
  toolCalls,  \* tool_calls_used
  providerCalls, \* provider_calls: attempts begun in this run
  retries,    \* retries of the current request
  elapsed,    \* time since started_at
  overrun,    \* the part of it tools took beyond the time they were given
  allowance,  \* `remaining`, read once at the top of the turn
  timer,      \* time left to the await in progress
  sent,       \* the provider saw no cancellation when the attempt began
  batch,      \* the response's calls: message position, size, next ordinal
  executed,   \* tool calls handed to the executor: effects in the workspace
  cancel,     \* CancelToken.is_cancelled
  atCancel,   \* history: where the run stood when the cancellation came
  steering,   \* SteeringQueue._pending
  accepted,   \* SteeringQueue._by_client_event, in insertion order
  followUps,  \* FollowUpQueue._pending
  enqueued,   \* FollowUpQueue._by_client_event, in insertion order
  limitHit    \* LoopOutcome.limit_hit

counters == <<turns, toolCalls, providerCalls, retries>>
clock == <<elapsed, overrun, allowance, timer>>
runVars == <<counters, clock, sent, batch, atCancel>>
queueVars == <<steering, accepted, followUps, enqueued>>
vars == <<pc, rs, log, runs, runVars, executed, cancel, queueVars, limitHit>>

-----------------------------------------------------------------------------
(* Messages.  A call is <<position of its assistant message, ordinal>>.     *)

UserMessage(src) == [type |-> "user", src |-> src, run |-> runs]
AssistantMessage(size) == [type |-> "assistant", calls |-> size]
ToolResult(call, ran) == [type |-> "result", call |-> call, ran |-> ran]

CallsAt(history, p) ==
  IF history[p].type = "assistant" THEN {<<p, i>> : i \in 1..history[p].calls} ELSE {}

ResultsFor(history, call) ==
  {p \in 1..Len(history) : history[p].type = "result" /\ history[p].call = call}

Unresolved(history) ==
  {c \in UNION {CallsAt(history, p) : p \in 1..Len(history)} : ResultsFor(history, c) = {}}

\* ContextManager._validate_history and AgentRuntime._validate_tail.
HistoryValid(history) ==
  /\ history # <<>>
  /\ history[Len(history)].type # "assistant"
  /\ Unresolved(history) = {}

\* inject_user_text, once per drained message.
Injected(messages) == [i \in 1..Len(messages) |-> UserMessage(messages[i])]

CurrentCall == <<batch.at, batch.next>>

\* Mutant: the rest of a batch is taken to begin one call later.
SkippedResultsOffByOne ==
  [i \in 1..(batch.size - batch.next) |-> ToolResult(<<batch.at, batch.next + i>>, FALSE)]

\* commit_result for every call of the batch that has not been started.
SkippedResults ==
  [i \in 1..(batch.size - batch.next + 1) |->
     ToolResult(<<batch.at, batch.next + i - 1>>, FALSE)]

-----------------------------------------------------------------------------
(* Control.                                                                *)

RunOver == pc \in {"idle", "done", "raised"}
Awaiting == pc \in {"await_model", "backoff", "await_tool"}

\* Assign the outcome of one or more transitions: go on, or let the
\* StateTransitionError escape from AgentLoop.run.
Move(r, next) ==
  IF r.state = "REJECTED"
  THEN pc' = "raised" /\ UNCHANGED rs
  ELSE pc' = next /\ rs' = r

FinishBudget(limit) ==
  /\ Move(Transition(rs, rs.seq, "FINISH", "BUDGET_EXHAUSTED", NoCall), "done")
  /\ limitHit' = limit

AbortRun == Move(Fire(RequestAbort(rs), "CLEANUP_DONE"), "done")

\* Mutant: STEERING is not left.
StayInSteering(r) == r

LeaveSteering(r) == IF r.state = "STEERING" THEN Fire(r, "STEERING_INJECTED") ELSE r

NotCancelled == [pc |-> "idle", turns |-> 0, attempts |-> 0, executed |-> {}]

NewRun ==
  /\ runs < MaxRuns
  /\ RunOver
  /\ runs' = runs + 1
  /\ rs' = Transition(IdleSnapshot, 0, "START", NoStatus, NoCall)
  /\ pc' = "top"
  /\ turns' = 0 /\ toolCalls' = 0 /\ providerCalls' = 0 /\ retries' = 0
  /\ elapsed' = 0 /\ overrun' = 0 /\ allowance' = 0 /\ timer' = 0 /\ sent' = FALSE
  /\ batch' = [at |-> 0, size |-> 0, next |-> 1]
  /\ cancel' = FALSE /\ atCancel' = NotCancelled
  /\ steering' = <<>> /\ accepted' = <<>>
  /\ limitHit' = "none"
  /\ UNCHANGED <<executed, followUps, enqueued>>

\* AgentRuntime.run: a new user task on the session.
StartRun ==
  /\ NewRun
  /\ log' = Append(log, [type |-> "user", src |-> Task, run |-> runs + 1])

\* AgentRuntime.continue_run: from the committed history, if its tail allows it.
ContinueRun ==
  /\ HistoryValid(log)
  /\ NewRun
  /\ UNCHANGED log

-----------------------------------------------------------------------------
(* The top of `while True`, up to the await of the provider.               *)

TopAbort ==
  /\ pc = "top" /\ cancel
  /\ AbortRun
  /\ UNCHANGED <<log, runs, runVars, executed, cancel, queueVars, limitHit>>

\* Mutant: the deadline is looked at before the cancel token.
TopDeadlineFirst ==
  /\ pc = "top" /\ elapsed >= Deadline
  /\ FinishBudget("deadline")
  /\ UNCHANGED <<log, runs, runVars, executed, cancel, queueVars>>

TopDeadline ==
  /\ pc = "top" /\ ~cancel /\ elapsed >= Deadline
  /\ FinishBudget("deadline")
  /\ UNCHANGED <<log, runs, runVars, executed, cancel, queueVars>>

TopMaxTurns ==
  /\ pc = "top" /\ ~cancel /\ elapsed < Deadline /\ turns >= MaxTurns
  /\ FinishBudget("max_turns")
  /\ UNCHANGED <<log, runs, runVars, executed, cancel, queueVars>>

\* Mutant: the cancel token is looked at before a batch only.
MayBeginTurnCancelled == pc = "top" /\ elapsed < Deadline /\ turns < MaxTurns

\* The turn begins: leave STEERING and commit what the queue holds.
MayBeginTurn == pc = "top" /\ ~cancel /\ elapsed < Deadline /\ turns < MaxTurns

DrainSteering ==
  /\ log' = log \o Injected(steering)
  /\ steering' = <<>>
  /\ UNCHANGED <<accepted, followUps, enqueued>>

\* The request is built; the provider is called with the time that is left.
RequestModel ==
  /\ MayBeginTurn
  /\ DrainSteering
  /\ HistoryValid(log')
  /\ Move(LeaveSteering(rs), "await_model")
  /\ allowance' = Deadline - elapsed
  /\ timer' = Deadline - elapsed
  /\ providerCalls' = providerCalls + 1
  /\ retries' = 0 /\ sent' = TRUE
  /\ UNCHANGED <<runs, turns, toolCalls, elapsed, overrun, batch, executed, cancel, atCancel,
                 limitHit>>

\* ContextError: the history cannot be sent, or does not fit the budget (a
\* choice left open: sizes are not modelled here).
ContextOverflow ==
  /\ MayBeginTurn
  /\ DrainSteering
  /\ LET r == LeaveSteering(rs)
     IN  Move(Transition(r, r.seq, "FINISH", "BUDGET_EXHAUSTED", NoCall), "done")
  /\ limitHit' = "context_overflow"
  /\ UNCHANGED <<runs, runVars, executed, cancel>>

-----------------------------------------------------------------------------
(* The request, its retries and its outcomes.                              *)

\* Mutant: wait_for gives up one tick too late, that is never.
ModelTimeoutLate ==
  /\ pc = "await_model" /\ sent /\ timer = 0 /\ elapsed > Deadline
  /\ FinishBudget("deadline")
  /\ UNCHANGED <<log, runs, runVars, executed, cancel, queueVars>>

\* asyncio.wait_for gives up.
ModelTimeout ==
  /\ pc = "await_model" /\ sent /\ timer = 0
  /\ FinishBudget("deadline")
  /\ UNCHANGED <<log, runs, runVars, executed, cancel, queueVars>>

\* ProviderError(CANCELLED), or any other one once the run is cancelled.  The
\* provider refuses an attempt begun after the cancellation, and may report one
\* during an attempt.
ModelCancelled ==
  /\ pc = "await_model"
  /\ AbortRun
  /\ UNCHANGED <<log, runs, runVars, executed, cancel, queueVars, limitHit>>

\* The next attempt, after the delay if there is one.
RetryAfter(delay) ==
  \/ delay > 0 /\ pc' = "backoff" /\ timer' = delay /\ UNCHANGED providerCalls
  \/ delay = 0 /\ pc' = "await_model" /\ timer' = allowance
       /\ providerCalls' = providerCalls + 1

\* Mutant: retries are not counted.
ModelRetryUncounted ==
  /\ pc = "await_model" /\ sent /\ ~cancel
  /\ retries < MaxRetries
  /\ RetryAfter(Backoff * 2 ^ retries)
  /\ UNCHANGED <<rs, log, runs, turns, toolCalls, retries, elapsed, overrun, allowance, sent,
                 batch, executed, cancel, atCancel, queueVars, limitHit>>

\* rate_limit, timeout or unavailable, with retries left.  The attempt that
\* follows gets `remaining` as it was read at the top of the turn.
ModelRetry ==
  /\ pc = "await_model" /\ sent /\ ~cancel
  /\ retries < MaxRetries
  /\ retries' = retries + 1
  /\ RetryAfter(Backoff * 2 ^ retries)
  /\ UNCHANGED <<rs, log, runs, turns, toolCalls, elapsed, overrun, allowance, sent, batch,
                 executed, cancel, atCancel, queueVars, limitHit>>

\* The delay is slept through; an attempt begun after a cancellation is one the
\* provider refuses.
BackoffOver ==
  /\ pc = "backoff" /\ timer = 0
  /\ pc' = "await_model" /\ timer' = allowance
  /\ providerCalls' = providerCalls + 1
  /\ sent' = ~cancel
  /\ UNCHANGED <<rs, log, runs, turns, toolCalls, retries, elapsed, overrun, allowance, batch,
                 executed, cancel, atCancel, queueVars, limitHit>>

\* A permanent error, or a transient one when the retries are used up.
ModelFails ==
  /\ pc = "await_model" /\ sent /\ ~cancel
  /\ Move(Fire(rs, "FAIL"), "done")
  /\ UNCHANGED <<log, runs, runVars, executed, cancel, queueVars, limitHit>>

\* What every complete response does first.
CommitAssistant(size) ==
  /\ pc = "await_model" /\ sent
  /\ turns' = turns + 1
  /\ log' = Append(log, AssistantMessage(size))
  /\ UNCHANGED <<runs, toolCalls, providerCalls, retries, clock, sent,
                 executed, cancel, atCancel, queueVars, limitHit>>

\* stop_reason provider_error.
ResponseError ==
  /\ CommitAssistant(0)
  /\ Move(Fire(rs, "FAIL"), "done")
  /\ UNCHANGED batch

\* stop_reason cancelled.
ResponseCancelled ==
  /\ CommitAssistant(0)
  /\ AbortRun
  /\ UNCHANGED batch

\* stop_reason end_turn or max_tokens, without tool calls.
ResponseFinal ==
  /\ CommitAssistant(0)
  /\ pc' = "turn_end"
  /\ UNCHANGED <<rs, batch>>

\* Tool calls: the state moves for the first of them before the batch starts.
ResponseTools ==
  \E size \in 1..MaxBatch :
    LET at == Len(log) + 1
    IN  /\ CommitAssistant(size)
        /\ Move(Transition(rs, rs.seq, "TOOL_CALL_COMPLETE", NoStatus, <<at, 1>>), "batch")
        /\ batch' = [at |-> at, size |-> size, next |-> 1]

-----------------------------------------------------------------------------
(* The tool batch, one call after the other.                               *)

InBatch == pc = "batch" /\ batch.next <= batch.size

\* Mutant: a cancelled batch leaves its remaining calls unanswered.
BatchAbortUnanswered ==
  /\ InBatch /\ cancel
  /\ AbortRun
  /\ UNCHANGED <<log, runs, runVars, executed, cancel, queueVars, limitHit>>

\* Cancelled between two executions: every remaining call gets a result.
BatchAbort ==
  /\ InBatch /\ cancel
  /\ log' = log \o SkippedResults
  /\ AbortRun
  /\ UNCHANGED <<runs, runVars, executed, cancel, queueVars, limitHit>>

\* The tool budget is used up: likewise, and the run finishes.
BatchBudget ==
  /\ InBatch /\ ~cancel /\ toolCalls >= MaxToolCalls
  /\ log' = log \o SkippedResults
  /\ FinishBudget("max_tool_calls")
  /\ UNCHANGED <<runs, runVars, executed, cancel, queueVars>>

\* Handing a call over, with a given wait.
HandOver(wait) ==
  /\ Move(IF rs.state = "WAITING_TOOL" THEN rs
          ELSE Transition(rs, rs.seq, "TOOL_CALL_COMPLETE", NoStatus, CurrentCall),
          "await_tool")
  /\ executed' = executed \cup {CurrentCall}
  /\ timer' = wait
  /\ UNCHANGED <<log, runs, counters, elapsed, overrun, allowance, sent, batch,
                 cancel, atCancel, queueVars, limitHit>>

\* Mutants: the time left is not clamped at zero, the budget is compared off by
\* one.
StartToolUnclamped ==
  /\ InBatch /\ ~cancel /\ toolCalls < MaxToolCalls
  /\ HandOver(Deadline - elapsed)

StartToolOneTooMany ==
  /\ InBatch /\ ~cancel /\ toolCalls <= MaxToolCalls
  /\ HandOver(0)

\* The call is handed to the executor, with the time that is left.
StartTool ==
  /\ InBatch /\ ~cancel /\ toolCalls < MaxToolCalls
  /\ HandOver(IF elapsed < Deadline THEN Deadline - elapsed ELSE 0)

\* Mutants: steering is injected between two results; steering cuts the batch
\* short.
ToolReturnsInjecting ==
  /\ pc = "await_tool"
  /\ toolCalls' = toolCalls + 1
  /\ log' = Append(log, ToolResult(CurrentCall, TRUE)) \o Injected(steering)
  /\ steering' = <<>>
  /\ Move(Fire(Fire(rs, "TOOL_RESULT_RESOLVED"), "CONTINUE"), "batch")
  /\ batch' = [batch EXCEPT !.next = @ + 1]
  /\ UNCHANGED <<runs, turns, providerCalls, retries, clock, sent,
                 executed, cancel, atCancel, accepted, followUps, enqueued, limitHit>>

ToolReturnsCutShort ==
  /\ pc = "await_tool"
  /\ toolCalls' = toolCalls + 1
  /\ log' = Append(log, ToolResult(CurrentCall, TRUE))
  /\ Move(Fire(Fire(rs, "TOOL_RESULT_RESOLVED"), "CONTINUE"), "batch")
  /\ batch' = [batch EXCEPT !.next = IF steering = <<>> THEN @ + 1 ELSE batch.size + 1]
  /\ UNCHANGED <<runs, turns, providerCalls, retries, clock, sent,
                 executed, cancel, atCancel, queueVars, limitHit>>

\* The executor returns an outcome, whatever its status; the result is
\* committed, and steering that arrived meanwhile is noted at the batch's end.
ToolReturns ==
  /\ pc = "await_tool"
  /\ toolCalls' = toolCalls + 1
  /\ log' = Append(log, ToolResult(CurrentCall, TRUE))
  /\ LET resolved == Fire(rs, "TOOL_RESULT_RESOLVED")
         isLast   == batch.next = batch.size
     IN  Move(IF isLast /\ steering # <<>>
              THEN Fire(resolved, "STEERING_ARRIVED")
              ELSE Fire(resolved, "CONTINUE"), "batch")
  /\ batch' = [batch EXCEPT !.next = @ + 1]
  /\ UNCHANGED <<runs, turns, providerCalls, retries, clock, sent,
                 executed, cancel, atCancel, queueVars, limitHit>>

BatchOver == pc = "batch" /\ batch.next > batch.size

BatchOverAbort ==
  /\ BatchOver /\ cancel
  /\ AbortRun
  /\ UNCHANGED <<log, runs, runVars, executed, cancel, queueVars, limitHit>>

BatchOverContinue ==
  /\ BatchOver /\ ~cancel
  /\ pc' = "top"
  /\ UNCHANGED <<rs, log, runs, runVars, executed, cancel, queueVars, limitHit>>

-----------------------------------------------------------------------------
(* The end of a turn without tool calls: steering first, then one          *)
(* follow-up, then the run is finished.                                    *)

TurnSteering ==
  /\ pc = "turn_end" /\ steering # <<>>
  /\ Move(LeaveSteering(rs), "top")
  /\ DrainSteering
  /\ UNCHANGED <<runs, runVars, executed, cancel, limitHit>>

\* Mutant: the queue is drained for one follow-up.
TurnFollowUpDraining ==
  /\ pc = "turn_end" /\ steering = <<>> /\ followUps # <<>>
  /\ Move(Fire(Fire(LeaveSteering(rs), "FOLLOW_UP_READY"), "TURN_START"), "top")
  /\ log' = Append(log, UserMessage(Head(followUps)))
  /\ followUps' = <<>>
  /\ UNCHANGED <<runs, runVars, executed, cancel, steering, accepted, enqueued, limitHit>>

TurnFollowUp ==
  /\ pc = "turn_end" /\ steering = <<>> /\ followUps # <<>>
  /\ Move(Fire(Fire(LeaveSteering(rs), "FOLLOW_UP_READY"), "TURN_START"), "top")
  /\ log' = Append(log, UserMessage(Head(followUps)))
  /\ followUps' = Tail(followUps)
  /\ UNCHANGED <<runs, runVars, executed, cancel, steering, accepted, enqueued, limitHit>>

\* Mutant: the run finishes over a pending follow-up.
TurnFinishEarly ==
  /\ pc = "turn_end" /\ steering = <<>>
  /\ Move(Fire(LeaveSteering(rs), "FINISH"), "done")
  /\ UNCHANGED <<log, runs, runVars, executed, cancel, queueVars, limitHit>>

TurnFinish ==
  /\ pc = "turn_end" /\ steering = <<>> /\ followUps = <<>>
  /\ Move(Fire(LeaveSteering(rs), "FINISH"), "done")
  /\ UNCHANGED <<log, runs, runVars, executed, cancel, queueVars, limitHit>>

-----------------------------------------------------------------------------
(* What the rest of the process does while the loop awaits.                *)

Members(seq) == {seq[i] : i \in 1..Len(seq)}

\* submit_steering of a message not seen before; a repeated client_event_id,
\* a full queue and a run that is over leave the queue as it is.
SubmitSteering ==
  /\ Awaiting
  /\ Len(steering) < QueueLimit
  /\ \E m \in Steers \ Members(accepted) :
       /\ steering' = Append(steering, m)
       /\ accepted' = Append(accepted, m)
  /\ UNCHANGED <<pc, rs, log, runs, runVars, executed, cancel, followUps, enqueued, limitHit>>

\* submit_follow_up, which the session accepts at any time.
SubmitFollowUp ==
  /\ Awaiting \/ RunOver
  /\ Len(followUps) < QueueLimit
  /\ \E m \in FollowUps \ Members(enqueued) :
       /\ followUps' = Append(followUps, m)
       /\ enqueued' = Append(enqueued, m)
  /\ UNCHANGED <<pc, rs, log, runs, runVars, executed, cancel, steering, accepted, limitHit>>

\* abort, the first time it is requested.
RequestCancel ==
  /\ Awaiting /\ ~cancel
  /\ cancel' = TRUE
  /\ atCancel' = [pc |-> pc, turns |-> turns, attempts |-> providerCalls,
                  executed |-> executed]
  /\ UNCHANGED <<pc, rs, log, runs, counters, clock, sent, batch, executed, queueVars,
                 limitHit>>

Passes == elapsed' = elapsed + 1
          /\ UNCHANGED <<pc, rs, log, runs, counters, allowance, sent, batch,
                         executed, cancel, atCancel, queueVars, limitHit>>

\* The clock of the event loop.  A refused attempt fails before time passes.
Tick ==
  /\ Awaiting /\ timer > 0
  /\ pc = "await_model" => sent
  /\ timer' = timer - 1 /\ UNCHANGED overrun
  /\ Passes

\* The time a tool was given has passed, and it has not returned: wait_for has
\* cancelled it and waits for what it still does (the bash tool awaits the
\* closing of its pipes, tools/bash.py:147).
ToolOverruns ==
  /\ pc = "await_tool" /\ timer = 0 /\ overrun < MaxOverrun
  /\ overrun' = overrun + 1 /\ UNCHANGED timer
  /\ Passes

-----------------------------------------------------------------------------
Init ==
  /\ pc = "idle" /\ rs = IdleSnapshot /\ log = <<>> /\ runs = 0
  /\ turns = 0 /\ toolCalls = 0 /\ providerCalls = 0 /\ retries = 0
  /\ elapsed = 0 /\ overrun = 0 /\ allowance = 0 /\ timer = 0 /\ sent = FALSE
  /\ batch = [at |-> 0, size |-> 0, next |-> 1]
  /\ executed = {} /\ cancel = FALSE /\ atCancel = NotCancelled
  /\ steering = <<>> /\ accepted = <<>> /\ followUps = <<>> /\ enqueued = <<>>
  /\ limitHit = "none"

\* Segments the event loop runs to their end once it has control.
LoopStep ==
  \/ TopAbort \/ TopDeadline \/ TopMaxTurns \/ RequestModel
  \/ BatchAbort \/ BatchBudget \/ StartTool \/ BatchOverAbort \/ BatchOverContinue
  \/ TurnSteering \/ TurnFollowUp \/ TurnFinish

Response ==
  \/ ResponseError \/ ResponseCancelled \/ ResponseFinal \/ ResponseTools

Next ==
  \/ StartRun \/ ContinueRun
  \/ LoopStep \/ ContextOverflow
  \/ ModelTimeout \/ ModelCancelled \/ ModelRetry \/ BackoffOver
  \/ ModelFails \/ Response
  \/ ToolReturns
  \/ SubmitSteering \/ SubmitFollowUp \/ RequestCancel \/ Tick \/ ToolOverruns

Spec == Init /\ [][Next]_vars

(* The event loop never stops for good: it runs a segment it has control   *)
(* of, its clock advances, and an expired wait_for or sleep returns.  The  *)
(* provider owes no answer, a tool owes no return, and nobody owes a       *)
(* start, a steering message, a follow-up or an abort.                     *)
Fairness ==
  /\ WF_vars(LoopStep \/ ContextOverflow)
  /\ WF_vars(Tick)
  /\ WF_vars(ModelTimeout)
  /\ WF_vars(BackoffOver)
  /\ WF_vars(~sent /\ ModelCancelled)

FairSpec == Spec /\ Fairness

-----------------------------------------------------------------------------
(* Properties.                                                             *)

PCs == {"idle", "top", "await_model", "backoff", "batch", "await_tool", "turn_end",
        "done", "raised"}

Limits == {"none", "deadline", "max_turns", "max_tool_calls", "context_overflow"}

Sources == {Task} \cup Steers \cup FollowUps

Messages == [type : {"user"}, src : Sources, run : Nat]
              \cup [type : {"assistant"}, calls : Nat]
              \cup [type : {"result"}, call : CallIds, ran : BOOLEAN]

\* Every variable keeps its type: what the fields of the loop's locals, of
\* the control objects and of the message log may hold.
TypeOK ==
  /\ pc \in PCs
  /\ rs \in Snapshots
  /\ log \in Seq(Messages)
  /\ runs \in Nat /\ turns \in Nat /\ toolCalls \in Nat
  /\ providerCalls \in Nat /\ retries \in Nat
  /\ elapsed \in Nat /\ overrun \in Nat /\ allowance \in Nat /\ timer \in Nat
  /\ sent \in BOOLEAN /\ cancel \in BOOLEAN
  /\ atCancel \in [pc : PCs, turns : Nat, attempts : Nat, executed : SUBSET CallIds]
  /\ batch \in [at : Nat, size : Nat, next : Nat]
  /\ executed \subseteq CallIds
  /\ steering \in Seq(Steers) /\ accepted \in Seq(Steers)
  /\ followUps \in Seq(FollowUps) /\ enqueued \in Seq(FollowUps)
  /\ limitHit \in Limits

\* The pairing the context builder insists on before every request holds
\* whatever was cancelled, skipped or injected before: a run never dies of
\* a history the loop itself has built (loop.py, builder._validate_history).
HistoryReady == pc \in {"top", "await_model", "backoff"} =>
                  IF pc = "top" THEN HistoryValid(log \o Injected(steering))
                                ELSE HistoryValid(log)

\* However a run ends, by an answer, an abort, a limit or an exception, each
\* proposed call has exactly one result; and at any time a result says that
\* its call ran if and only if the executor has had it.
EveryCallAnswered ==
  /\ RunOver => Unresolved(log) = {}
  /\ \A p \in 1..Len(log) : log[p].type = "result" =>
       /\ ResultsFor(log, log[p].call) = {p}
       /\ log[p].ran <=> log[p].call \in executed

\* The results of a response follow it in ordinal order with nothing in
\* between: steering and follow-ups are injected around a batch, never into it.
ResultsFollowCalls ==
  \A p \in 1..Len(log) : \A i \in 1..(IF log[p].type = "assistant" THEN log[p].calls ELSE 0) :
    p + i <= Len(log) =>
      log[p + i].type = "result" /\ log[p + i].call = <<p, i>>

\* Where the messages of a queue stand in a history, for some of its runs.
Places(history, origins, ofRuns) ==
  {p \in 1..Len(history) : /\ history[p].type = "user"
                           /\ history[p].src \in origins
                           /\ history[p].run \in ofRuns}

\* What was sent is what stands at the places, in order, and then the queue.
Conserved(submitted, history, places, queue) ==
  /\ Len(submitted) = Cardinality(places) + Len(queue)
  /\ \A p \in places : history[p].src = submitted[Rank(places, p)]
  /\ \A i \in 1..Len(queue) : queue[i] = submitted[Cardinality(places) + i]

\* Nothing the control channel accepted is lost, doubled or overtaken: the
\* steering accepted by a run is what it injected followed by what is still
\* queued, and likewise for the follow-ups of the session over all its runs.
ControlConserved ==
  /\ Conserved(accepted, log, Places(log, Steers, {runs}), steering)
  /\ Conserved(enqueued, log, Places(log, FollowUps, Nat), followUps)

\* A run never reports FINISHED over pending work: at that moment neither a
\* steering message nor a follow-up that was accepted is still queued.
FinishedLeavesNothing ==
  [][pc # "done" /\ pc' = "done" /\ rs'.status = "FINISHED"
       => steering' = <<>> /\ followUps' = <<>>]_vars

\* The only refused transition the loop ever attempts is a FINISH for a limit,
\* from the two states in which the table has no such row; no abort, failure,
\* tool or turn transition is ever refused.
RefusedOnlyAtLimit ==
  pc = "raised" =>
    \/ limitHit = "max_tool_calls" /\ rs.state = "WAITING_TOOL"
    \/ limitHit \in {"deadline", "max_turns"} /\ rs.state = "STEERING"

\* Both budgets are kept, the execution under way included, in every
\* interleaving of batches, steering and follow-ups within the run.
BudgetsKept ==
  /\ turns <= MaxTurns
  /\ toolCalls + (IF pc = "await_tool" THEN 1 ELSE 0) <= MaxToolCalls

\* How far a run may outlive its deadline, apart from what tools take beyond the
\* time they are given: each retry of a request begun in time gets the whole
\* allowance of its turn again, after a delay the deadline does not cut; no batch
\* and no later turn adds to that (agent/loop.py:364, 382, 525).
OvershootBounded ==
  elapsed <= (MaxRetries + 1) * Deadline + Backoff * (2 ^ MaxRetries - 1) + overrun

\* What a run still does once it is cancelled, to its end: no tool call reaches
\* the executor; the attempt a retry delay was waiting for is the only one begun,
\* and the provider refuses it; no response is committed but that of the request
\* the cancellation fell in, and what the turn takes up after such a response,
\* steering or a follow-up, is never sent (agent/loop.py:298, 372, 458).
CancelStopsWork ==
  cancel =>
    /\ executed = atCancel.executed
    /\ providerCalls = atCancel.attempts
         \/ (atCancel.pc = "backoff" /\ providerCalls = atCancel.attempts + 1 /\ ~sent)
    /\ turns = atCancel.turns \/ (atCancel.pc = "await_model" /\ turns = atCancel.turns + 1)

\* How a cancelled run ends.  Cancelled over a tool or a retry delay, it is
\* aborted.  Cancelled over a request, it is aborted unless the request itself
\* ends it: by its timeout, by a final answer with nothing queued behind it or by
\* a response that reports an error.  No limit and no refused transition gets in
\* between (agent/loop.py:298, 372, 458, 564).
CancelledRunsAbort ==
  cancel /\ RunOver =>
    \/ rs.status = "ABORTED"
    \/ /\ atCancel.pc = "await_model"
       /\ \/ turns = atCancel.turns /\ limitHit = "deadline"
          \/ turns = atCancel.turns + 1 /\ rs.status \in {"FINISHED", "ERROR"}

\* The loop keeps the promise of CallLedger about tool calls, over all the
\* runs of a session and all the ways they end.
Ledger == INSTANCE CallLedger WITH
  proposed <- UNION {CallsAt(log, p) : p \in 1..Len(log)},
  started  <- executed,
  answered <- {log[p].call : p \in {q \in 1..Len(log) : log[q].type = "result"}},
  open     <- ~RunOver

CallsAccounted == Ledger!Spec

\* Every run ends, though the provider may never answer and a run may be
\* cancelled or not, unless one of its tools never returns: the await of the
\* executor is the only one nothing ends (agent/loop.py:364, 382, 525).
RunsEnd == (pc = "top") ~> (RunOver \/ [](pc = "await_tool"))

-----------------------------------------------------------------------------
(* What the documents and comments say of the loop and the loop does not   *)
(* always do.                                                              *)

\* docs 15: AGENT_END, published where the loop reaches its end, comes exactly
\* once for each run.  A run over without it has let an exception escape.
EndAnnounced == pc # "raised"

\* docs 04: a request never crosses the deadline, wait_for enforces it.
RequestWithinDeadline == pc = "await_model" => elapsed + timer <= Deadline

\* docs 09: the follow-ups of an aborted run are kept and not started.
AbortKeepsFollowUps == [][cancel /\ runs' = runs => Len(followUps') >= Len(followUps)]_vars
=============================================================================
