# Formal models of py-coding-agent

TLA+ models of the agent runtime in `src/src/coding_agent`, the TLC
configurations that check them on small instances, and the theorems about them
that TLAPS proves for every instance. The models are translated from the source;
where a document of the repository and the code disagree, the code is modelled
and the document's sentence is checked as a property of its own ("findings").

Run everything from this directory:

    tlc -config AgentLoop.cfg MCAgentLoop        # one run of the checker
    tlapm AgentLoopProofs.tla                    # the proofs, one module at a time:
                                                 # AgentHistoryProofs, AgentControlProofs,
                                                 # CrashRecoveryProofs, SessionStoreProofs,
                                                 # SelectionProofs, EventStreamProofs, ModelTurnProofs

`PROJECT.json` is the index: the components, the runs, for each modelled definition
the source lines it stands for (`map`), for each property a plausible bug that
breaks it (`mutants`), the hazards, and the theorems.

## 1. Inventory

Paths are below `src/src/coding_agent/`.

| Component | State it keeps | Operations | Talks to |
|---|---|---|---|
| Agent loop, `agent/loop.py` | locals of `run`: state snapshot, turns, tool calls used, retries, clock | `AgentLoop.run`: request, retries, tool batch, turn end, limits, abort | provider and executor (await), control, log (commit), event bus, boundary and tool-start callbacks |
| Runtime state machine, `domain/state.py` | none (immutable snapshot) | `transition`, `request_abort` | called by the loop |
| Control channel, `agent/control.py` | cancel token, steering queue, follow-up queue | `cancel`, `enqueue`, `drain`, `dequeue_after_turn_end` | written by other coroutines, read by the loop |
| Application runtime, `agent/runtime.py`, `bootstrap.py` | logs, store versions and workspaces by session, the registry of busy sessions, controls of active runs | `run`, `continue_run`, `submit_steering`, `submit_follow_up`, `abort`; persistence callbacks | loop, stores, recovery |
| Message log, `domain/messages.py` | messages of a session in order | `append`, `validate`, dictionary form | loop, stores, context |
| Session store, `storage/session_store.py` | SQLite: sessions with version, messages, summaries, run locks | compare-and-append, load, lock, release | runtime, recovery |
| Checkpoint store and intent journal, `storage/checkpoint_store.py` | SQLite: checkpoints, tool intents | record, mark started, complete, resolve, save, latest | runtime, recovery |
| Recovery engine, `agent/recovery.py` | none | `inspect`, `resume`, `resolve_uncertain` | both stores |
| Event bus, `observability/event_bus.py` | audit (bounded), sequence numbers, subscriptions with mailboxes | `emit`, `events`, `subscribe`, `drain`, `unsubscribe` | loop emits, SSE and metrics read |
| SSE server, `server/` | task table; one generator per connection | start, continue, abort, steering, event stream | runtime, event bus |
| Context, `context/builder.py`, `budget.py`, `compaction.py` | summary record with its version | build a request, compact, persist the summary | loop, session store |
| Tool pipeline, `tools/pipeline.py`, `registry.py`, `safety.py`, `recovery.py` | none per call | validate, hooks, policies, execute, process output | loop calls it as its executor |
| Coding tools, `tools/*.py` | the workspace (external) | bash, read, write, edit | pipeline |
| Stream assembly, `observability/stream.py` | fragments of one response | add text, add fragment, finish | providers |
| Providers, `providers/`, `ports/provider.py` | HTTP client (external) | `complete` | loop |
| Metrics, logging, skills, truncation | counters, text | | no feedback into a run |
| Benchmark, `benchmark/` | files and subprocesses | batch drivers | runtime |

### What is hard, and what makes each part correct

**Agent loop and control.** Everything runs on one asyncio event loop, so the
interleavings are at the awaits: the provider's answer, a retry delay, a tool.
In each of them a steering message, a follow-up or an abort may arrive, and the
clock goes on. Correct means: however a run ends, each proposed tool call has
exactly one result (otherwise the next request is refused for good); results
stand next to their response in call order; nothing submitted is lost, doubled or
overtaken; a cancelled run starts nothing more and is aborted; budgets are kept; every
run ends although the provider may never answer, unless a tool never returns; the loop attempts no transition
its table lacks, except where it really does (section 6).

**Persistence and recovery.** A message, its journal entries, the tool's effect,
its result, the closing of the intent and the checkpoint are separate
transactions, and so are the steps of a recovery command; a process may die between any two.
Correct means: what the history tells the model about an effect is true, an effect
without a result always leaves evidence, at most one result per call, checkpoints
cover what they must, and an operator can get a session going again.

**Event bus and SSE.** A generator replays an audit that moves, then forwards a
bounded mailbox that a slow client overflows, and clients reconnect with the id of their last
frame. Correct means: no undroppable event is skipped, the stream ends, mailboxes
stay bounded.

**Session store with several writers.** Processes share a store and keep a copy of the log with the
version they know; an operator's commands take no lock; requests over HTTP check first and run later.
Correct means: one writer of a session at a time, nobody commits to a history it has not
read, every lock is given back or accounted for, and a refused run leaves nothing behind.

**Context and compaction.** Which messages a request stands for is computed anew for each one, from
a history that recovery may have completed out of order. Correct means: no message is missing or sent
twice, a call and its result stay on one side of the cut, and the numbered summaries survive failed
checkpoints and restarts.

**Stream assembly and tool pipeline.** Pieces of calls arrive in any order over several attempts; then each
call goes through hooks, policies and a process that may leave children. Correct means: a response is made of
one attempt only, a call is executed at most once whatever identifiers come back, and the committed
outcome says what happened.

## 2. Plan

Done, in this order, the system's core first:

1. `RuntimeState`, `AgentLoop`, `MCAgentLoop`: the loop with its control channel;
   `CallLedger`, the abstract promise about tool calls, refined by `AgentLoop`.
2. `AgentLoopProofs`: type correctness, four safety properties.
3. `CrashRecovery`: durable steps, crashes, recovery commands.
4. `EventStream`: bus, audit, mailbox, SSE generator, reconnecting client.
5. `CrashRecoveryProofs`: see section 7.

6. `SessionStore`, `MCSessionStore`: several processes and an operator on one store.
7. `SessionStoreProofs`: locks, workspaces, refusals, and who may commit.
8. `Compaction` (operators), `Context`, `StreamAssembly`, `ToolPipeline`: one component each;
   `ModelTurn`, `MCModelTurn`: their composition over the turns of a session.
9. `AgentHistoryProofs`: calls and results, and `CallsAccounted` as a refinement theorem; `Selection`,
   `SelectionProofs`, `AgentControlProofs`: the two queues; `OvershootBounded` in `AgentLoopProofs`.
10. `EventStreamProofs`; `ModelTurnProofs`; the committed history in `SessionStoreProofs`.

Every safety property and every action property that a passing run checks is now a theorem.

Next: the components of `ModelTurn` by themselves (what `Context`, `StreamAssembly` and `ToolPipeline` promise
whoever composes them), and lemmas on `Compaction` in a form other models can cite.

## 3. Modules

### RuntimeState
`domain/state.py` as operators: `Target` is the transition table, `Transition` and
`RequestAbort` the two ways to a new snapshot. A `StateTransitionError` is the value
`Rejected`. Run id, stop reason and abort reason only label results and are left out.

### AgentLoop (instances in MCAgentLoop)
One session on which runs are started (`StartRun`) or continued (`ContinueRun`).
`pc` names the place in `AgentLoop.run`; an action is the segment of the body up to
the next place where the code branches or awaits:

| `pc` | code | actions |
|---|---|---|
| `top` | head of `while True` | `TopAbort`, `TopDeadline`, `TopMaxTurns`, `RequestModel`, `ContextOverflow` |
| `await_model` | `wait_for(provider.complete)` | `ModelTimeout`, `ModelCancelled`, `ModelRetry`, `ModelFails`, the four `Response...` |
| `backoff` | the sleep before a retry | `BackoffOver` |
| `batch` | head of the loop over the calls, and after it | `BatchAbort`, `BatchBudget`, `StartTool`, `BatchOverAbort`, `BatchOverContinue` |
| `await_tool` | `await executor.execute` | `ToolReturns`, `ToolOverruns` |
| `turn_end` | a response without calls | `TurnSteering`, `TurnFollowUp`, `TurnFinish` |
| `done`, `raised` | an outcome was returned, an exception escaped | |

`SubmitSteering`, `SubmitFollowUp`, `RequestCancel` and `Tick` are the rest of the
process. They are enabled only while the loop awaits (a follow-up also between runs), which is what one event
loop means; a repeated `client_event_id` and a full queue change nothing and so
are stuttering steps. Every transition goes through `Move`, which lets
`StateTransitionError` escape (`pc = "raised"`) exactly as the code does.
A tool may go on past the time it was given (`ToolOverruns`: bash, cancelled by the pipeline's `wait_for`, still waits
for its pipes), and it may never return; `overrun` adds up the ticks, of which an instance allows `MaxOverrun`.
`ModelCancelled` is a `ProviderError` that says `CANCELLED`, which the loop believes whether or not the token is set, or any error once it is set.

Abstractions: a message keeps kind, origin and pairing; a call is named by its position;
a response is its number of calls and its stop reason; the status of a tool's outcome
does not matter to the loop; whether the context fits the budget is an open
choice (`ContextOverflow`); time is in ticks and passes only in awaits.
History variables: `executed`, the calls the executor has had, and `atCancel`, where the run stood and what it had
begun when the cancellation came.

### CallLedger
The abstract specification: batches are proposed only when all earlier calls are answered, calls are
started one at a time and at most once, answered before the next starts, and a session
closes only with every call answered. `CallsAccounted` is the refinement:
`proposed`, `started`, `answered` and `open` are computed from `log`, `executed` and `pc`.

### Selection
The code delivers messages through filters and loops with `continue`. `Selected` is what such a filter leaves, defined by counting:
`Place` is the place with a given rank. `AgentLoop` (`ControlConserved`) and `EventStream` (`Retained`) use it.
A recursive filter (`SelectSeq`) would say the same, but no prover at hand can argue about it.

### CrashRecovery
Each action is one SQLite transaction or one effect. `history`, `version`,
`intents`, `ckpt`, `lock` are the tables; `ran` counts effects in the
workspace; `pc`, `batch`, `skipping` die with the process. The run's decisions are
left open (whether a call is skipped, whether there is steering, when the run
stops) because `AgentLoop` models them; the order of the durable steps is the code's.
`Kill` is a process that vanishes, `Unwind` an exception that still runs the `finally`
clause. `Inspect`, `Resume`, `Resolve` are the recovery engine's commands,
`RecordResults`, `MarkIntent`, `RecoveryCheckpoint` the transactions of
`_record_results`, and `OperatorCrash` may fall between them. `FreshPlans` says whether
the operator inspects before every command, which the engine does not enforce.

### EventStream
`kinds` are the events one run has published, `audit` the bounded deque all runs share.
`Connect` is the handler with its 409 check, `Replay`, `Subscribe`, `Drain`, `Yield` the
segments of the generator between its yields and sleeps, `Disconnect` the client going
away. `lastId`, `frames`, `seen` are the client's. In-process handlers
are left out: `emit` swallows what they raise and they change nothing here.

### SessionStore (instance in MCSessionStore)
`bound`, `rows`, `version`, `lock`, `journal` are the tables; `cache`, `active`, `listed` what each process keeps
(the log with the version and workspace it knows, `InMemorySessionRegistry._active`, `_active_runs`); `run` says where each
run stands. A process is one event loop: `Synchronous` names the places between two awaits, and
no other run of that process moves while one is there, whereas other processes move between any two SQL statements.

| Actions | code |
|---|---|
| `CreateSession`, `StartRun`, `AcceptRun`, `BeginAccepted` | `run`, `continue_run`, and `Service.start_run` whose run is a task the loop gets to later |
| `LoadVersion`, `LoadRows` | `load`, two statements without a transaction, and `_get_session_log` |
| `Enter`, `SkillsFail` | tail check, registry, workspace, store lock; then what may still raise with both locks in hand |
| `CommitTask`, `ContinueTask`, `CommitCall`, `OpenIntent`, `CommitResult`, `CloseIntent` | the commits of a run (`AppendMessage`) and the journal |
| `CommitAnswer`, `FinishRun`, `Release` | the final answer or a limit, then the `finally` clauses |
| `JournalFails` | the journal refuses a row, after the commit of the message it is about |
| `Kill`, `Tear` | a process is killed; the last row no longer parses |
| `ChooseCall`, `OperatorLoads`, `OperatorAppends`, `OperatorMarks`, `OperatorStops` | a recovery command, at any time; it may end between its append and its mark |

A command looks at the journal only, as `resolve_uncertain` does (`agent/recovery.py:228`): whether the call has a result is not asked.
Two history variables say what it may have met: `raced`, the calls treated while their own run was live, and `cut`, the calls whose result was
committed by a run or a command that then ended before the journal row was closed.

Abstractions: one call per response, no checkpoints and no stale plans of `resume` (they are `CrashRecovery`'s), one recovery command after
another, an answer without calls ends its run (follow-ups are `AgentLoop`'s), the log is its messages' kind and call. The
third statement of `load`, which counts the rows behind a torn one, is taken with the second. Sessions made over
HTTP without a store live in one process's memory and are `AgentLoop`'s case.

### Compaction, Context
`Compaction` has operators only: the groups of a history (`Gathers`, `GroupStarts`, `GroupEnd`), `FindCut`, and the budget
(`UsableTokens`, `ThresholdTokens`, `Decide`, `Estimate`). A message is named by its position and its text is a
number of tokens. Groups are defined by what gathers a message, not by the code's scan: a message that no assistant
message before it gathers opens a group.

`Context` is `ContextManager.build` with its sink. `stored` is the table of summaries, `record` the summary in force in the process,
`pending` a summary that is committed while its checkpoint is being saved, `request` what the request is made of. Each way out of
`build` is an action: `BuildPlain`, `BuildRefused`, `BuildAgain` (the same boundary, nothing committed),
`PersistSummary` then `CommitRecord` or `CheckpointFails`, `SummaryRefused`.

### StreamAssembly
`sent` is what the provider is sending in this attempt, `order` and `pieces` are `ToolCallAccumulator`'s. `Deliver` takes any piece of any call
in any order, repeats included; a piece may never come. `Assembled` is what `finalize` accepts: a complete object, or a name and
arguments that parse, which needs the first and the last piece and, as the code stands, not the ones between.

### ToolPipeline
`stage` is the place in `invoke`; `cleared` the checks that let the call pass, `told` what the after hook was given, `executions`
how often each call's tool was executed. Hooks and policies are open: they may allow, refuse or raise. (A before hook that answers
`REQUIRE_APPROVAL` lets the call pass, only `DENY` and an exception stop it; a policy must answer `ALLOW`.) The tool is a step that
succeeds or fails, or bash with the processes of its command. Of a process it matters whether it holds the pipes `communicate` reads
(`Piped`) and whether it is in the group `_terminate_tree` kills (`Grouped`): the `shell` is and does both, a `child` too, a `quiet` one has
redirected its output, a `stray` one has left the group with the pipes, a `daemon` has neither. `Spawn` gives a new process what its parent has, or
less. `Communicated` is the end of `communicate`: the pipes are closed, who else goes on is not looked at. `Stop` is what the
watching loop, the pipeline's `wait_for` and a cancellation from outside do, `Terminate` kills the group through its shell and does nothing if the
shell is gone, and `Reaped`, `BudgetEndsWait`, `OutsideEndsWait` are the ways out of the wait for the pipes. Rejections and denials skip the output processor, so only the output of an executed tool is bounded.

### ModelTurn (instance in MCModelTurn)
The loop joins the three: build, request with retries, commit of the response, the calls one by one. A run may end where a limit or
a cancellation would end it; those are `AgentLoop`'s subject. `Crash` is possible everywhere, `Recover` answers open calls
at the end of the log, in any order, and `Restart` restores the record from the store. Identifiers of calls are the provider's, so they may come back.

## 4. Runs

| Run | Distinct states | Shows |
|---|---|---|
| `agent_loop` | 37,975 | one run with a clock and tools that overrun it: type, order of results, refused transitions, budgets, overshoot, what a cancelled run still does and how it ends, that runs end |
| `agent_session` | 1,065,149 | two runs: valid history before every request, one result per call, control messages conserved, `FINISHED` leaves nothing, the refinement of `CallLedger` |
| `crash_recovery` | 119,550 | two crashes, two runs, three calls: history and journal agree with each other and with the workspace; a diligent operator converges |
| `event_stream` | 475,442 | three connections, mailbox of two, audit of five with six events: nothing skipped, mailbox bounded, streams end |
| `session_store` | 206,787 | two processes, two runs, an operator, two faults, with symmetry: one writer, no forked history, second results and locks accounted for, refused runs leave nothing, workspaces kept, stale processes never commit |
| `model_turn` | 377,024 | six messages, two call identifiers, one fault: requests stand for the whole history, summaries are numbered and survive, one attempt per response, one execution per call, outcomes that are true, commands that come back |
| `end_announced`, `request_within_deadline`, `abort_keeps_follow_ups`, `no_stale_lock`, `retried_resolution`, `exact_replay` | | the findings of section 6 (violations expected) |

### Bounds, and why they are enough
* `MaxBatch = 2`: a batch has a call that is first but not last and one that is last but not first; cancellation, budget and
  steering can fall before, between and after them.
* `MaxTurns = 2`, `MaxToolCalls` 2 or 1: a limit is reached within a batch, at its end and across
  turns. `MaxRetries = 1`, `Backoff = 1`, `Deadline = 2`: a retry before and after the
  deadline, with a delay the deadline falls into. `MaxOverrun = 1`: a tool that comes back after the deadline it was given.
* Two steering messages and two follow-ups with `QueueLimit` 1 and 2: order, repetition and
  a full queue. `MaxRuns = 2`: what a run leaves behind for the next one.
* `agent_session` has `Deadline = 1`, so time hardly splits its states; its second run starts after
  each of the ways the first can end.
* `MaxCalls = 3`, `MaxMessages = 5`: batches of two and more, and a second
  batch; `MaxMessages` limits the history only where a new request or injection begins, so no started
  batch is ever cut off by it. `MaxCrashes = 2`: a crash of the run and one of the recovery command, or
  of two runs, or of two commands.
* `AuditLimit = 5` against `MaxEvents + MaxOthers = 6`: the audit forgets one event; `QueueLimit = 2` is
  overflowed by three events published between two drains; three connections: a reconnect
  after a disconnect and after an ended stream.

* `session_store`: one session, since no statement of the store touches two. Two runs: in one process or in two, at the same time
  or the second on what the first has left. One call per run and two faults (a torn row, a refused commit, a failing journal, a killed process, a
  command that ends early): one of the first run and one of whatever treats what it left, so the operator also meets a call that a command
  has answered and not closed. Two workspaces: the right one and another. A third run is too large to check with two faults; all
  properties of this run are theorems for any number of them.
* `model_turn`: six messages with `PreserveRecent = 2` hold a group of a call and its result, a cut behind it, and a second, later cut; the
  threshold (9 of 16 tokens) lies so that requests fit, are compacted, and are rejected. Calls of three pieces, of which at most two arrive
  (`MaxDeltas`), so that a piece is missing at either end or in the middle; two attempts; outputs shorter and
  longer than `DisplayTokens`. One fault: a crash, a refused summary, or a failed checkpoint.

Deadlock is not checked: a session on which no more runs may start really is at rest.

### Fairness
* `AgentLoop.FairSpec`: a segment that has control runs; the event loop's clock advances; an
  expired `wait_for` or `sleep` returns; an attempt begun after the cancellation is refused (providers
  test the signal first). The provider owes no answer, a tool need not return (the time it is given does not bound it, section 6), and nobody
  owes a start, a message or an abort. `RunsEnd` therefore rests on the deadline alone, and excepts a run whose tool never returns.
* `CrashRecovery.DiligentSpec`: steps of the process run, and an operator keeps inspecting
  and issuing the commands the plan allows. This is an assumption about people, not code; strong
  fairness of `Resume` and `Resolve` says that a plan obtained again and again is eventually acted on.
* `ModelTurn.FairSpec`: bash's own deadline, which every command has, is noticed by its polling loop (`Stop("timeout")`), and a
  pipe that is closed is read to its end (`Reaped`). Nothing makes a process end by itself. `SessionStore` claims safety only.
* `EventStream.FairSpec`: the server drives a generator whose client reads.

## 5. Properties in words

* `HistoryReady`, `EveryCallAnswered`, `ResultsFollowCalls`, `CallsAccounted`: the pairing of calls and
  results, in every interleaving and after every ending.
* `ControlConserved`, `FinishedLeavesNothing`: nothing accepted from a user is lost, doubled,
  reordered, or left behind by a run that says it is finished.
* `RefusedOnlyAtLimit`: the loop tests none of its transitions; this says which ones can be refused.
* `BudgetsKept`, `OvershootBounded`, `RunsEnd`: limits in numbers and in time. Past its deadline a run is kept by the retries of one request, and by
  what tools take beyond the time they are given, on which there is no bound.
* `CancelStopsWork`, `CancelledRunsAbort`: what an abort guarantees. After it no tool is begun, no request but the one a retry delay was waiting for, and that
  one the provider refuses; and the run is aborted, unless the request the abort fell in ends it.
* `HistoryTruthful`, `EvidenceBeforeEffect`, `JournalFollowsHistory`, `CheckpointCovers`,
  `OneResultPerCall`, `RecoveryConverges`: crash consistency.
* `MailboxBounded`, `NoFactSkipped`, `StreamEnds`: event delivery. `NoFactSkipped` is conditioned on the audit
  having forgotten nothing, `StreamEnds` on the audit still holding the end of the run
  and on the subscription not having been cut: the code promises no more.
* `OneWriter`, `LocksAccountedFor`, `RefusedLeavesNothing`: what locks guarantee. `LocksAccountedFor` is exact: the listed runs of a process are
  those in their loop and those whose task was refused (the leak of section 6), no other; a lock row is a live run's or that of a killed process.
* `NoForkedHistory`: whoever could commit next has every readable committed message, each at one place of its log and in the
  committed order, though perhaps also messages the store refused, which stay in its memory. `StaleNeverCommits`: a process that missed a commit is out until it is restarted.
* `SecondResultAccountedFor`: a call gets a second result in two ways only: an operator treated it while its run was live, or what committed the
  first result ended before the journal row was closed. Other runs, torn rows, refused commits and versions open no third.
* `WorkspaceKept`: the directory of a session comes from its row.
* `RequestWhole`, `SummariesMonotonic`, `RecordFollowsStore`: what the model sees, and what is left of it after a failure.
* `ResponseFromOneAttempt`, `OneExecutionPerCall`, `OutcomeMatchesExecution`, `CallReturns`: from the pieces of a response to
  the committed outcome. When an outcome is committed the shell is gone, and a process that can still write to the output
  is left only after a timeout; others may be left by any command. `CallReturns` has the exception of section 6.

## 6. Findings

Where a document, comment or test of the repository says more than the code does; each has a run
whose counterexample shows it.

* `end_announced`: a tool budget already used up when the next batch begins, or a limit hit in `STEERING`, ends in a
  `StateTransitionError`, because `FINISH` has a row for `RUNNING` only; the run then publishes no
  `AGENT_END`. `RefusedOnlyAtLimit` (theorem `RefusalsAreLimits`) says these are the only places.
* `request_within_deadline`: a retried request is given the allowance of the first attempt.
  `OvershootBounded` says by how much a run can outlive its deadline as a result.
* `abort_keeps_follow_ups`: an answer that arrives after the abort still takes a follow-up off the queue.
* `no_stale_lock`: a killed process leaves its lock row.
* `retried_resolution`: `resolve_uncertain` repeated after a crash between its append and its journal update
  commits a second result. With a fresh plan before each command this cannot happen (`OneResultPerCall` in
  `crash_recovery`).
* `exact_replay`: a client of a live run receives the replayed events twice.

Met while modelling, stated as exceptions of properties that hold and without a run of their own:

* A refused task leaks an active run. `run` enters `_active_runs` (`agent/runtime.py:247`) before `log.append` (`:252`), and the entry is
  taken out around the loop only (`:253-263`): a version conflict or a failing store leaves it for the life of the process. Every later
  start over HTTP then raises `RunConflictError` (`server/app.py:64`), and steering or an abort for the dead run is accepted.
  `docs/03-implementation/09-runtime-controls.md:39` says "run 结束即从活动表移除" (a run that ends is removed from the active table).
  `LocksAccountedFor` says that exactly these runs stay listed.
* After a version conflict nothing refreshes the version a process knows, although `docs/03-implementation/19-session.md:104` says the
  caller may reload and retry ("调用方可重载后重试"); and the refused message stays in its memory. A restart is the only way to reload.
* When the checkpoint after a summary fails, the row is committed and the record in memory is not (`runtime.py:497-503`): the next new
  boundary asks for the same version and is refused with `SummaryVersionConflictError` until the process is restarted.
  `19-session.md:78` covers the half that is true: the record in memory is not committed. `RecordFollowsStore` says how far the two may be apart.
* `ContextSnapshot.summary_version` and `COMPACTION_END` report the next version even when nothing was committed (`builder.py:287-303`).
* A summary lists every message it covers, so its own size grows with the session and every long session is rejected in the end.
* A result that recovery appends behind a later user message is not gathered into its group; no cut passes that group any more.
* A missing middle fragment goes unnoticed when the rest still parses; `stream.py:95` says everything incomplete is reported
  ("任何不完整/损坏都显式报错").
* A command whose shell has ended while a background child holds its pipe is neither killed nor left: `_terminate_tree` returns at once and
  `finally: await communicate` lasts until the child ends (`bash.py:147-155`), or until the pipeline's own time-out cuts a wait the
  watching loop began. The same wait follows a `wait_for` that expires (`pipeline.py:305`), which then outlasts the time the loop gave it
  (`ToolOverruns`); and a process that left the group before it was killed keeps the pipes open likewise. `bash.py:62` says the process
  tree is terminated on timeout or cancellation.
* A background process with its output redirected is not looked at when a command completes (`bash.py:128-150`): it lives on after `completed`.
* Rejected and denied calls skip the output processor, so a message that quotes large arguments is committed uncut (`pipeline.py:185-227`).

## 7. Proofs

`AgentLoopProofs` assumes `LimitsAssumption` (the limits are naturals, the three kinds of message sources are
disjoint) and `DelayAssumption` (retry delays are whole ticks, each twice the one before; the provers know nothing of
powers, so the three facts about `2 ^ n` they need are stated there), both evaluated by TLC in every run of
`MCAgentLoop`.

* `TypeCorrect`: `TypeOK` is inductive. The lemmas on `Transition`, `Move`,
  `SkippedResults` and the rest give the type of each helper's result once.
* `RefusalsAreLimits`: `RefusedOnlyAtLimit` is not inductive, since it says nothing of places where nothing has been refused yet.
  `StateAtPlace` adds the snapshot's state at each place of the loop (in a batch it depends on
  whether a call was executed and whether one is left, `StateInBatch`); together with `TypeOK` it is inductive.
* `BudgetsAreKept`: `WithinBudgets` adds that a request is under way only below the turn limit.
* `CancellationStopsWork`, `CancellationAborts`: the invariant `Cancelled` relates the place of the loop to what was counted when the cancellation
  came: over a tool (`AfterTool`), a retry delay (`AfterBackoff`) or a request (`AfterRequest`), with the places the run may still come to.
* `FinishedMeansDone`: an action property, by cases over the actions; no transition but `FINISH` at the end of a turn yields the status `FINISHED`.
* `OvershootIsBounded`: `Timed` counts in what is left to the await in progress, and to the attempt after a delay, and the
  overrun of tools on both sides.
  Only a retry adds to it: its delay and one more allowance. `LateBy(n)` is the sum after `n` retries; that the sums
  ascend is an induction, made by taking the least counterexample (`Least`, below).

`AgentHistoryProofs` rests on the same two assumptions. Its invariant is `LoopInv`, which adds to `TypeOK` and `StateAtPlace`:

* `Paired`: before the open batch, every call of the log has its result at its place and every result its call; within the
  batch, the results so far stand behind the response in call order, and the calls that are not answered yet are the rest
  of `batch`. What the executor has had is what the results say was executed, and the call under way. The properties
  themselves say nothing of the batch in hand, so none of them is inductive: a step from `batch` appends a result whose place is
  right only because of the ones before it.
* `TailReady`: where a request is built or under way, the last message is not the model's.

It gives `ResultsInPlace`, `CallsAnswered` and `HistoriesReady`, and `LedgerKept`: initial states of `AgentLoop` are
initial states of `CallLedger`, and each step is one of `Open`, `Propose`, `Start`, `Answer`, `Close` of it, or a stutter. A batch that ends in
an abort or at a budget answers what is left of it at once, and that is a `Close`.

`SelectionProofs` is what counting needs. `Least` (a set of naturals that is not empty has a least element) comes from the library's
well-foundedness of `<` and replaces induction, which needs an operator as parameter. From it: ranks grow with the places, every
rank up to the number of places has exactly one place, a place added behind the others takes the next rank.

`AgentControlProofs` proves `ControlIsConserved`. `Controlled` adds `Numbered` (no message belongs to a run that has not
begun, so a new run begins with no steering delivered). The n-th accepted message is at the n-th place of its kind, or in the
queue; one lemma per shape of a step: nothing of this kind is appended, or the head of the queue is.

`CrashRecoveryProofs` assumes only `BoundsAssumption` (the bounds are naturals, `FreshPlans` is a Boolean). Its
theorems hold for every number of calls, messages, runs and crashes, and all but the last for stale plans as
well as fresh ones. None of the properties is inductive alone; together with what follows they are `Consistent`:

* `CallsInOrder`: the calls proposed so far are numbered `1..n`, and only those are answered. This is the
  translation of "the log refuses an answer to a call nobody made".
* `BatchInOrder`: what the run relies on between two commits. The calls of the batch that still wait have left
  no trace but their planned intents; the call in hand has, at each `pc`, the intent, the
  effect and the result that this place promises; the one about to run is pending in the latest checkpoint.
* `OperatorInOrder`: what recovery relies on. A plan or a command names calls that no run will touch again, the status a
  command commits agrees with the workspace, and it closes intents only once their results are there. A stale
  plan keeps all this, since intents never go back and effects are never undone.

From `Consistency` follow `TypeCorrect`, `HistoryIsTruthful`, `EvidencePrecedesEffect`, `JournalIsBehind` and
`CheckpointIsSafe`. `FreshPlansAnswerOnce` adds `AnsweredOnce` (the plan names open calls only) and needs
`FreshPlans`; run `retried_resolution` is the counterexample without it. It rests on `AnswersInOrder`: the
rows `InCallOrder` builds hold each call of a command exactly once, by the theorems on finite cardinalities.

`SessionStoreProofs` assumes only `StoreAssumption` (the bounds are naturals, `Null` is no process, session or workspace). None of its
invariants is inductive alone; `Consistent` adds to `TypeOK`, `HeldByRuns` and `WorkspaceKept`:

* `RunsPlaced`: a run in progress has its process, session and directory, and runs beyond `runs` have not begun.
* `LocksHeld`: a run past its locks holds the row and the registry entry. With one value per row of `lock`, `OneWriter` follows.
* `SessionsBound`: a session in memory has a row, and the workspace kept with it is the row's. `OneAtATime`: a process is in
  at most one synchronous section, and it loads only what it does not have; without it two loads could interleave and a
  version known could move.
* `NothingSaid`: a run before its locks has left no message, journal row or operation anywhere, from which `RefusedLeavesNothing` follows.
* `ListedWell`: `ListedAreLive`, and what makes it inductive: a process without a session has no log of it, a run about to append its task has
  not done so before, and the task of a run in its loop was not refused.

From `AlwaysConsistent` follow `StoreTypes`, `SingleWriter`, `NoLockLeaks`, `OneWorkspace` and `RefusedRunsAreSilent`, and by cases over
the actions the action property `StaleStaysStale`.

`HistoriesNeverFork` and `SecondResultsAccountedFor` need to know where each message comes from. `History` adds to `Consistent`:

* `Voiced`: what stands in a row or in any log, its run has come to say (`Spoken`, by its place and its number of calls). Runs
  only go on (`Further`), so what a run is about to commit is nowhere yet.
* `RowsBound`, `JournalOpened`, `OperatorVoiced`: a row is in its run's session; the journal has rows only of calls the run has come
  past, so none is opened twice; a row of the operator's is followed by the mark that keeps it from being written again. With `Voiced`
  this gives `RowsOnce`, no message is committed twice.
* `Behind`: nobody knows a version the store has not come to. When a session receives a row, every process but the one that
  commits is therefore out of date, and `NoForkedHistory` asks nothing more of it. The one that commits appends to log and rows a message new to
  both (`MatchGrows`), a refused message is new to the rows (`MatchAhead`), a torn row asks for less (`MatchTorn`), and a log that is loaded
  has the rows that parse (`MatchLoaded`). `load` reads the version before the rows, so a log that read a later row knows an
  older version.
* `ResultsMarked`: a committed result whose call is not in `cut` has its journal row closed, or about to be by whoever committed it. `OperatorWaits`: where
  nothing is noted of a call, the run of a call being treated is over and the call has no result yet. `OneResult` follows step by step: a run answers a
  call nobody has treated, a command one that has no result. `CallsMade` keeps the call in hand a call of its run.

`EventStreamProofs` assumes that the bounds are naturals and the audit and a mailbox hold something (`CapacityAssumption`) and proves `StreamTyped`, `MailboxIsBounded` and `FactsArrive`
(`NoFactSkipped`). `StreamInv` adds `AuditKept` (the audit is in order, and has everything as long as nothing was forgotten) and `NothingMissed`: the
client has every fact up to its cursor and its last id; in outbox and mailbox together no event stands before a fact that
is earlier and was not received; and while subscribed and not cut, every fact was received or is there. The property speaks of what was received
only, and is not inductive: a subscription that starts late, or a replay cut short, is ruled out by the second part.

`ModelTurnProofs` assumes `TurnAssumption`, `BudgetAssumption` and `StreamAssumption` on the bounds. It begins with
`Compaction`: the groups of a log do not overlap and only grow behind, the cut of a log that has grown is not before the
cut it had (`CutGrows`), and in a consistent log a call and its result are on the same side (`CutKeepsCalls`). `Estimate` is a fold, of which nothing is needed but that it does not change with the
state. `TurnInv` has five parts:

* `Typed`: the types, and which components are at work at which place (`Placed`).
* `CallsInv`: the log pairs calls and results; the calls that wait are open, each waits once, and only the first can have been
  executed; no call was executed twice, or before it was proposed.
* `Journey`: what is known of a call at each stage of the pipeline: which checks it passed, whether its tool ran, what the outcome
  says, which processes are alive (the shell is gone when an outcome is there, and processes with the pipes are left only after a timeout).
* `Summaries`: stored summaries are numbered and reach further and further, but not beyond the present cut; the record in force
  is the last of them or the one before, and a pending one is the last.
* `Requested`: the request under way stands for the whole log.

From it follow `TurnTypes`, `RequestsAreWhole`, `RecordsAreStored`, `ExecutedOnce`, `OutcomesAreTrue` and `ResponsesAreUnmixed`, and the action
property `SummariesAscend`.

Only model-checked: the liveness properties `RunsEnd`, `RecoveryConverges`, `StreamEnds` and `CallReturns`. They rest on
fairness, and `ENABLED` is out of the provers' reach. That the recursive definitions behind `Estimate` compute what they should is not
stated: it would be an induction over data. The violations of section 6 are counterexamples and need no proof.

## 8. Not modelled

* Skills (files and text), metrics and logging (counters over events that feed nothing back), benchmark drivers (subprocesses and
  files, no state beyond a call), provider HTTP and parsing, formatting and serialisation: no control flow that the properties
  tell apart. Their failures appear where they reach the runtime (`SkillsFail`, provider errors).
* Partly modelled: of the coding tools, bash; of truncation, the bound on what is displayed; of the server, the start of a run and the
  event stream. `safety.py`'s patterns are an open decision of the policy. Pipeline observers and custom output processors, which no program
  of the repository installs, may let an exception out of `invoke` and are left out.
* The streaming interface is served by the fake provider only; `openai_compat` has `complete` alone.

Known limits of the models: one session at a time (recovery checkpoints of two sessions may collide on
`checkpoint_id`, `recovery.py:299`); one subscription at a time; in `CrashRecovery` the operator works while no run is going on, in `SessionStore` at any
time, with one command after another; a crash does not stop a command's processes, and they are not followed beyond it; a provider's own clean-up,
which could delay an expired `wait_for` as a tool's does, is not modelled.
