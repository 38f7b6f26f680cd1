---------------------------- MODULE SessionStore ----------------------------
(***************************************************************************)
(* One SQLite store shared by several processes: storage/session_store.py, *)
(* the entry and the exit of a run in agent/runtime.py, the log a process  *)
(* keeps of a session (domain/messages.py), the HTTP entry that schedules  *)
(* runs (server/app.py) and an operator's recovery commands, which take no *)
(* run lock (agent/recovery.py).                                           *)
(*                                                                         *)
(* A process is one event loop.  A run of it goes on alone until it awaits *)
(* the provider or a tool; only the other processes act between two of its *)
(* statements.  One action is one SQL transaction with the work in memory  *)
(* around it.  Checkpoints and crashes between a message and its journal   *)
(* row are the subject of CrashRecovery, the loop's decisions AgentLoop's. *)
(***************************************************************************)
EXTENDS Naturals, Sequences, FiniteSets

CONSTANTS
  Runtimes,    \* processes that open the store
  Sessions,    \* session ids
  Workspaces,  \* directories a run may be asked to work in
  Null,        \* no process, session or workspace
  MaxRuns,     \* bound: runs started
  MaxCalls,    \* bound: tool calls of one run
  MaxFaults    \* bound: failing statements, unreadable rows and killed processes

ASSUME StoreAssumption ==
  /\ {MaxRuns, MaxCalls} \subseteq Nat \ {0} /\ MaxFaults \in Nat
  /\ Null \notin Runtimes \cup Sessions \cup Workspaces

RunIds == 1..MaxRuns
Calls == RunIds \X (1..MaxCalls)

VARIABLES
  bound,    \* sessions.workspace, Null without a row
  rows,     \* messages of each session in the order of their ordinals
  version,  \* sessions.version
  lock,     \* run_locks: the run that holds the session, 0 for none
  journal,  \* tool_intents of each call: open while planned or started
  cache,    \* what a process keeps of a session: log, version, workspace
  active,   \* InMemorySessionRegistry._active of each process
  listed,   \* AgentRuntime._active_runs of each process
  run,      \* every run: where it stands, its process, session and workspace
  runs,     \* runs started
  op,       \* the recovery command in progress
  raced,    \* history: calls an operator treated while their own run was live
  cut,      \* history: calls whose result was committed, and then no journal row
  faults    \* faults so far

store == <<bound, rows, version, lock, journal>>
process == <<cache, active, listed, run, runs>>
operator == <<op, raced, cut>>
vars == <<store, process, operator, faults>>

-----------------------------------------------------------------------------
(* Messages and the log.                                                   *)

UserMessage(r) == [kind |-> "user", call |-> <<r, 0>>, by |-> "run"]
AssistantMessage(c) == [kind |-> "call", call |-> c, by |-> "run"]
ToolResult(c, by) == [kind |-> "result", call |-> c, by |-> by]
FinalAnswer(r) == [kind |-> "answer", call |-> <<r, 0>>, by |-> "run"]

Elements(seq) == {seq[i] : i \in 1..Len(seq)}

Row(m) == [message |-> m, whole |-> TRUE]

\* load: only the last row may fail to parse, anything else is corruption.
CorruptedInside(s) == \E i \in 1..(Len(rows[s]) - 1) : ~rows[s][i].whole

\* What load makes of it otherwise: a last row that does not parse is left out.
Loaded(s) ==
  LET n == Len(rows[s])
      torn == n > 0 /\ ~rows[s][n].whole
  IN  [i \in 1..(IF torn THEN n - 1 ELSE n) |-> rows[s][i].message]

\* MessageLog._validate over a replay: a result needs its call before it, and
\* no call has two.
Replays(log) ==
  \A i \in 1..Len(log) : log[i].kind = "result" =>
    /\ AssistantMessage(log[i].call) \in {log[j] : j \in 1..(i - 1)}
    /\ \A j \in 1..(i - 1) : log[j].kind = "result" => log[j].call # log[i].call

Hydratable(s) == ~CorruptedInside(s) /\ Replays(Loaded(s))

OpenCalls(log) ==
  {c \in Calls : /\ AssistantMessage(c) \in Elements(log)
                 /\ \A m \in Elements(log) : m.kind = "result" => m.call # c}

\* _validate_tail and the context builder's check of the history.
Continuable(log) ==
  /\ log # <<>> /\ log[Len(log)].kind # "answer"
  /\ OpenCalls(log) = {}

NotCached == [log |-> <<>>, known |-> 0, space |-> Null, here |-> FALSE]

-----------------------------------------------------------------------------
(* Runs.                                                                   *)

NoRun == [pc |-> "none", proc |-> Null, sess |-> Null, space |-> Null,
          task |-> FALSE, view |-> 0, calls |-> 0]

\* Between two awaits: the process does nothing else.
Synchronous == {"loading", "replaying", "entry", "task", "journal", "close", "release"}

\* The registry entry and the store lock are held.
Owning == {"task", "loop", "journal", "tool", "close", "release"}
InLoop == {"loop", "journal", "tool", "close"}
Settled == {"none", "refused", "done", "killed"}

Busy(p) == \E r \in RunIds : run[r].proc = p /\ run[r].pc \in Synchronous

Goto(r, pc) == run' = [run EXCEPT ![r].pc = pc]

\* What is left of a run that is over.
Over(r, pc) == [NoRun EXCEPT !.pc = pc, !.sess = run[r].sess]

Settle(r, pc) == run' = [run EXCEPT ![r] = Over(r, pc)]

Launch(p, s, w, task, pc) ==
  /\ runs < MaxRuns
  /\ runs' = runs + 1
  /\ run' = [run EXCEPT ![runs + 1] = [NoRun EXCEPT !.pc = pc, !.proc = p, !.sess = s,
                                                    !.space = w, !.task = task]]

\* run without a session id: the row is created, the log starts empty.
CreateSession(p, s, w) ==
  /\ ~Busy(p) /\ bound[s] = Null
  /\ Launch(p, s, w, TRUE, "entry")
  /\ bound' = [bound EXCEPT ![s] = w]
  /\ cache' = [cache EXCEPT ![p][s] = [log |-> <<>>, known |-> 0, space |-> w, here |-> TRUE]]
  /\ UNCHANGED <<rows, version, lock, journal, active, listed, operator, faults>>

\* run (with a task) or continue_run of a session that exists: a log in memory
\* is taken as it is, otherwise the session is loaded.
StartRun(p, s, w, task) ==
  /\ ~Busy(p) /\ bound[s] # Null
  /\ Launch(p, s, w, task, IF cache[p][s].here THEN "entry" ELSE "loading")
  /\ UNCHANGED <<store, cache, active, listed, operator, faults>>

\* POST /sessions/{id}/runs: the session is in memory and no run of it is listed;
\* the run itself is a task the event loop will get to.
AcceptRun(p, s, w) ==
  /\ ~Busy(p) /\ cache[p][s].here
  /\ \A r \in listed[p] : run[r].sess # s
  /\ Launch(p, s, w, TRUE, "accepted")
  /\ UNCHANGED <<store, cache, active, listed, operator, faults>>

BeginAccepted(r) ==
  /\ run[r].pc = "accepted" /\ ~Busy(run[r].proc)
  /\ Goto(r, "entry")
  /\ UNCHANGED <<store, cache, active, listed, runs, operator, faults>>

\* load, first statement: the version.  The second one, the rows, may already
\* see the commit of another process.
LoadVersion(r) ==
  /\ run[r].pc = "loading"
  /\ run' = [run EXCEPT ![r].view = version[run[r].sess], ![r].pc = "replaying"]
  /\ UNCHANGED <<store, cache, active, listed, runs, operator, faults>>

\* The rows are replayed into a log; the version is the one read before.
LoadRows(r) ==
  LET p == run[r].proc
      s == run[r].sess
  IN  /\ run[r].pc = "replaying"
      /\ IF Hydratable(s)
         THEN /\ cache' = [cache EXCEPT ![p][s] = [log |-> Loaded(s), known |-> run[r].view,
                                                   space |-> bound[s], here |-> TRUE]]
              /\ run' = [run EXCEPT ![r].pc = "entry", ![r].view = 0]
         ELSE Settle(r, "refused") /\ UNCHANGED cache
      /\ UNCHANGED <<store, active, listed, runs, operator, faults>>

\* Mutant: a session that comes from the store has no workspace yet.
AdmissibleAnywhere(r) ==
  LET kept == cache[run[r].proc][run[r].sess]
  IN  /\ run[r].task \/ Continuable(kept.log)
      /\ run[r].sess \notin active[run[r].proc]

\* What refuses a run before it holds anything: continue_run validates the
\* tail; the registry has one run per session; a session keeps its workspace.
Admissible(r) ==
  LET kept == cache[run[r].proc][run[r].sess]
  IN  /\ run[r].task \/ Continuable(kept.log)
      /\ run[r].sess \notin active[run[r].proc]
      /\ kept.space = run[r].space

\* Mutant: INSERT OR REPLACE, the row of another run is taken over.
EnterReplacing(r) ==
  /\ run[r].pc = "entry" /\ Admissible(r)
  /\ lock' = [lock EXCEPT ![run[r].sess] = r]
  /\ active' = [active EXCEPT ![run[r].proc] = @ \cup {run[r].sess}]
  /\ Goto(r, "task")
  /\ UNCHANGED <<bound, rows, version, journal, cache, listed, runs, operator, faults>>

\* Mutant: a run the store lock refuses stays in the registry.
EnterLeaking(r) ==
  LET s == run[r].sess
  IN  /\ run[r].pc = "entry" /\ Admissible(r)
      /\ active' = [active EXCEPT ![run[r].proc] = @ \cup {s}]
      /\ IF lock[s] = 0
         THEN lock' = [lock EXCEPT ![s] = r] /\ Goto(r, "task")
         ELSE Settle(r, "refused") /\ UNCHANGED lock
      /\ UNCHANGED <<bound, rows, version, journal, cache, listed, runs, operator, faults>>

\* Mutant: the task is in the log before the lock is known to be free.
EnterTaskFirst(r) ==
  LET p == run[r].proc
      s == run[r].sess
  IN  /\ run[r].pc = "entry" /\ Admissible(r)
      /\ cache' = [cache EXCEPT ![p][s].log = Append(@, UserMessage(r))]
      /\ IF lock[s] = 0
         THEN /\ active' = [active EXCEPT ![p] = @ \cup {s}]
              /\ lock' = [lock EXCEPT ![s] = r]
              /\ Goto(r, "loop")
         ELSE Settle(r, "refused") /\ UNCHANGED <<active, lock>>
      /\ UNCHANGED <<bound, rows, version, journal, listed, runs, operator, faults>>

\* The registry entry, then acquire_run_lock: a row of its own, or the run is
\* refused and leaves the registry again.
Enter(r) ==
  LET s == run[r].sess
  IN  /\ run[r].pc = "entry"
      /\ IF Admissible(r) /\ lock[s] = 0
         THEN /\ active' = [active EXCEPT ![run[r].proc] = @ \cup {s}]
              /\ lock' = [lock EXCEPT ![s] = r]
              /\ Goto(r, "task")
         ELSE Settle(r, "refused") /\ UNCHANGED <<active, lock>>
      /\ UNCHANGED <<bound, rows, version, journal, cache, listed, runs, operator, faults>>

\* The skills cannot be read: the run unwinds with both locks in hand.
SkillsFail(r) ==
  /\ run[r].pc = "task"
  /\ faults < MaxFaults
  /\ Goto(r, "release")
  /\ faults' = faults + 1
  /\ UNCHANGED <<store, cache, active, listed, runs, operator>>

\* Mutant: the version in the store is not compared with the one expected.
AppendUnchecked(r, m, next) ==
  LET p == run[r].proc
      s == run[r].sess
      new == version[s] + 1
  IN  /\ rows' = [rows EXCEPT ![s] = Append(@, Row(m))]
      /\ version' = [version EXCEPT ![s] = new]
      /\ cache' = [cache EXCEPT ![p][s].log = Append(@, m), ![p][s].known = new]
      /\ run' = [run EXCEPT ![r].pc = next,
                            ![r].calls = IF m.kind = "call" THEN @ + 1 ELSE @]
      /\ UNCHANGED faults

\* Mutant: a refused append takes over the version it was refused for.
AppendRefreshing(r, m, next) ==
  LET p == run[r].proc
      s == run[r].sess
      new == version[s] + 1
  IN  /\ UNCHANGED faults
      /\ IF cache[p][s].known = version[s]
         THEN /\ rows' = [rows EXCEPT ![s] = Append(@, Row(m))]
              /\ version' = [version EXCEPT ![s] = new]
              /\ cache' = [cache EXCEPT ![p][s].log = Append(@, m), ![p][s].known = new]
              /\ run' = [run EXCEPT ![r].pc = next,
                                    ![r].calls = IF m.kind = "call" THEN @ + 1 ELSE @]
         ELSE /\ cache' = [cache EXCEPT ![p][s].log = Append(@, m),
                                        ![p][s].known = version[s]]
              /\ Goto(r, "release")
              /\ UNCHANGED <<rows, version>>

\* MessageLog.append: in memory first, then persist.  The store commits row and
\* version together if the version is the one expected; otherwise, or when the
\* statement fails, the exception leaves the message in memory and ends the run.
AppendMessage(r, m, next) ==
  LET p == run[r].proc
      s == run[r].sess
      new == version[s] + 1
  IN  \/ /\ cache[p][s].known = version[s]
         /\ rows' = [rows EXCEPT ![s] = Append(@, Row(m))]
         /\ version' = [version EXCEPT ![s] = new]
         /\ cache' = [cache EXCEPT ![p][s].log = Append(@, m), ![p][s].known = new]
         /\ run' = [run EXCEPT ![r].pc = next,
                               ![r].calls = IF m.kind = "call" THEN @ + 1 ELSE @]
         /\ UNCHANGED faults
      \/ /\ \/ cache[p][s].known # version[s] /\ UNCHANGED faults
            \/ faults < MaxFaults /\ faults' = faults + 1
         /\ cache' = [cache EXCEPT ![p][s].log = Append(@, m)]
         /\ Goto(r, "release")
         /\ UNCHANGED <<rows, version>>

List(r) == listed' = [listed EXCEPT ![run[r].proc] = @ \cup {r}]

\* A run that has come to its loop leaves the list on every way out of it.
Delist(r) ==
  listed' = IF run'[r].pc = "release" THEN [listed EXCEPT ![run[r].proc] = @ \ {r}] ELSE listed

\* run: the run is listed, then its task appended.  What takes it off the list
\* again is around the loop only, so a task that is refused leaves it there.
CommitTask(r) ==
  /\ run[r].pc = "task" /\ run[r].task
  /\ AppendMessage(r, UserMessage(r), "loop")
  /\ List(r)
  /\ UNCHANGED <<bound, lock, journal, active, runs, operator>>

\* continue_run goes into the loop as it is.
ContinueTask(r) ==
  /\ run[r].pc = "task" /\ ~run[r].task
  /\ Goto(r, "loop")
  /\ List(r)
  /\ UNCHANGED <<store, cache, active, runs, operator, faults>>

\* A response with a tool call, to a request the context builder let pass.
CommitCall(r) ==
  /\ run[r].pc = "loop" /\ ~Busy(run[r].proc)
  /\ run[r].calls < MaxCalls
  /\ Continuable(cache[run[r].proc][run[r].sess].log)
  /\ AppendMessage(r, AssistantMessage(<<r, run[r].calls + 1>>), "journal")
  /\ Delist(r)
  /\ UNCHANGED <<bound, lock, journal, active, runs, operator>>

CurrentCall(r) == <<r, run[r].calls>>

\* The journal row is written and marked started before the tool is awaited.
OpenIntent(r) ==
  /\ run[r].pc = "journal"
  /\ journal' = [journal EXCEPT ![CurrentCall(r)] = "open"]
  /\ Goto(r, "tool")
  /\ UNCHANGED <<bound, rows, version, lock, cache, active, listed, runs, operator, faults>>

CommitResult(r) ==
  /\ run[r].pc = "tool" /\ ~Busy(run[r].proc)
  /\ AppendMessage(r, ToolResult(CurrentCall(r), "run"), "close")
  /\ Delist(r)
  /\ UNCHANGED <<bound, lock, journal, active, runs, operator>>

\* Mutant: the row stays open.
CloseIntentForgotten(r) ==
  /\ run[r].pc = "close"
  /\ Goto(r, "loop")
  /\ UNCHANGED <<store, cache, active, listed, runs, operator, faults>>

CloseIntent(r) ==
  /\ run[r].pc = "close"
  /\ journal' = [journal EXCEPT ![CurrentCall(r)] = "closed"]
  /\ Goto(r, "loop")
  /\ UNCHANGED <<bound, rows, version, lock, cache, active, listed, runs, operator, faults>>

\* A write to the journal fails: the exception ends the run.  After a result it
\* leaves the row open.
JournalFails(r) ==
  /\ run[r].pc \in {"journal", "close"}
  /\ faults < MaxFaults /\ faults' = faults + 1
  /\ cut' = IF run[r].pc = "close" THEN cut \cup {CurrentCall(r)} ELSE cut
  /\ Goto(r, "release") /\ Delist(r)
  /\ UNCHANGED <<store, cache, active, runs, op, raced>>

\* A response without tool calls is committed and ends the run.
CommitAnswer(r) ==
  /\ run[r].pc = "loop" /\ ~Busy(run[r].proc)
  /\ Continuable(cache[run[r].proc][run[r].sess].log)
  /\ AppendMessage(r, FinalAnswer(r), "release")
  /\ Delist(r)
  /\ UNCHANGED <<bound, lock, journal, active, runs, operator>>

\* The loop returns without one: a limit, a context that cannot be built.
FinishRun(r) ==
  /\ run[r].pc = "loop" /\ ~Busy(run[r].proc)
  /\ Goto(r, "release") /\ Delist(r)
  /\ UNCHANGED <<store, cache, active, runs, operator, faults>>

\* Mutant: the lock row stays, without an owner.
ReleaseKeepingRow(r) ==
  /\ run[r].pc = "release"
  /\ lock' = [lock EXCEPT ![run[r].sess] = Null]
  /\ active' = [active EXCEPT ![run[r].proc] = @ \ {run[r].sess}]
  /\ Settle(r, "done")
  /\ UNCHANGED <<bound, rows, version, journal, cache, listed, runs, operator, faults>>

\* The finally clauses, after a return and after an exception alike.
Release(r) ==
  LET s == run[r].sess
  IN  /\ run[r].pc = "release"
      /\ lock' = [lock EXCEPT ![s] = IF @ = r THEN 0 ELSE @]
      /\ active' = [active EXCEPT ![run[r].proc] = @ \ {s}]
      /\ Settle(r, "done")
      /\ UNCHANGED <<bound, rows, version, journal, cache, listed, runs, operator, faults>>

RunStep(r) ==
  \/ BeginAccepted(r) \/ LoadVersion(r) \/ LoadRows(r) \/ Enter(r)
  \/ CommitTask(r) \/ ContinueTask(r) \/ CommitCall(r) \/ OpenIntent(r)
  \/ CommitResult(r) \/ CloseIntent(r) \/ CommitAnswer(r) \/ FinishRun(r) \/ Release(r)

-----------------------------------------------------------------------------
(* Faults.                                                                 *)

\* A process is killed: its memory is gone, its lock rows stay.
Kill(p) ==
  /\ faults < MaxFaults /\ faults' = faults + 1
  /\ \E s \in Sessions : cache[p][s].here
  /\ cache' = [cache EXCEPT ![p] = [s \in Sessions |-> NotCached]]
  /\ active' = [active EXCEPT ![p] = {}] /\ listed' = [listed EXCEPT ![p] = {}]
  /\ run' = [r \in RunIds |-> IF run[r].proc = p /\ run[r].pc \notin Settled
                              THEN Over(r, "killed") ELSE run[r]]
  /\ cut' = cut \cup {CurrentCall(r) : r \in {q \in RunIds : run[q].proc = p /\ run[q].pc = "close"}}
  /\ UNCHANGED <<store, runs, op, raced>>

\* The last row of a session no longer parses.
Tear(s) ==
  /\ faults < MaxFaults /\ faults' = faults + 1
  /\ rows[s] # <<>>
  /\ rows' = [rows EXCEPT ![s][Len(rows[s])].whole = FALSE]
  /\ UNCHANGED <<bound, version, lock, journal, process, operator>>

-----------------------------------------------------------------------------
(* A recovery command, issued at any time: nothing makes the operator wait. *)

NoOperation == [pc |-> "idle", sess |-> Null, call |-> <<1, 1>>, view |-> 0]

\* resolve_uncertain: the intent has to be open in the journal.  The history is
\* not looked at.
ChooseCall(s, c) ==
  /\ op.pc = "idle"
  /\ run[c[1]].sess = s /\ journal[c] = "open"
  /\ op' = [NoOperation EXCEPT !.pc = "chosen", !.sess = s, !.call = c]
  /\ raced' = IF run[c[1]].pc \in Owning THEN raced \cup {c} ELSE raced
  /\ UNCHANGED <<store, process, cut, faults>>

\* _record_results: load, append at the version loaded, then the journal.
OperatorLoads ==
  /\ op.pc = "chosen"
  /\ op' = IF CorruptedInside(op.sess) THEN NoOperation
           ELSE [op EXCEPT !.pc = "loaded", !.view = version[op.sess]]
  /\ UNCHANGED <<store, process, raced, cut, faults>>

OperatorAppends ==
  /\ op.pc = "loaded"
  /\ IF op.view = version[op.sess]
     THEN /\ rows' = [rows EXCEPT ![op.sess] = Append(@, Row(ToolResult(op.call, "operator")))]
          /\ version' = [version EXCEPT ![op.sess] = @ + 1]
          /\ op' = [op EXCEPT !.pc = "mark"]
     ELSE UNCHANGED <<rows, version>> /\ op' = NoOperation
  /\ UNCHANGED <<bound, lock, journal, process, raced, cut, faults>>

OperatorMarks ==
  /\ op.pc = "mark"
  /\ journal' = [journal EXCEPT ![op.call] = "closed"]
  /\ op' = NoOperation
  /\ UNCHANGED <<bound, rows, version, lock, process, raced, cut, faults>>

\* The command dies between its two writes, or the second one fails.
OperatorStops ==
  /\ op.pc = "mark"
  /\ faults < MaxFaults /\ faults' = faults + 1
  /\ cut' = cut \cup {op.call}
  /\ op' = NoOperation
  /\ UNCHANGED <<store, process, raced>>

-----------------------------------------------------------------------------
Init ==
  /\ bound = [s \in Sessions |-> Null]
  /\ rows = [s \in Sessions |-> <<>>] /\ version = [s \in Sessions |-> 0]
  /\ lock = [s \in Sessions |-> 0]
  /\ journal = [c \in Calls |-> "absent"]
  /\ cache = [p \in Runtimes |-> [s \in Sessions |-> NotCached]]
  /\ active = [p \in Runtimes |-> {}] /\ listed = [p \in Runtimes |-> {}]
  /\ run = [r \in RunIds |-> NoRun] /\ runs = 0
  /\ op = NoOperation /\ raced = {} /\ cut = {}
  /\ faults = 0

Begin(p, s, w) ==
  \/ CreateSession(p, s, w)
  \/ \E task \in BOOLEAN : StartRun(p, s, w, task)
  \/ AcceptRun(p, s, w)

OperatorStep ==
  \/ \E s \in Sessions, c \in Calls : ChooseCall(s, c)
  \/ OperatorLoads \/ OperatorAppends \/ OperatorMarks \/ OperatorStops

Next ==
  \/ \E p \in Runtimes, s \in Sessions, w \in Workspaces : Begin(p, s, w)
  \/ \E r \in RunIds : RunStep(r) \/ SkillsFail(r) \/ JournalFails(r)
  \/ \E p \in Runtimes : Kill(p)
  \/ \E s \in Sessions : Tear(s)
  \/ OperatorStep

Spec == Init /\ [][Next]_vars

-----------------------------------------------------------------------------
(* Properties.                                                             *)

Messages == [kind : {"user", "call", "result", "answer"}, call : RunIds \X (0..MaxCalls),
             by : {"run", "operator"}]

Rows == [message : Messages, whole : BOOLEAN]

Kept == [log : Seq(Messages), known : Nat, space : Workspaces \cup {Null}, here : BOOLEAN]

Runs == [pc : Synchronous \cup Owning \cup Settled \cup {"accepted"},
         proc : Runtimes \cup {Null}, sess : Sessions \cup {Null},
         space : Workspaces \cup {Null},
         task : BOOLEAN, view : Nat, calls : 0..MaxCalls]

Operations == [pc : {"idle", "chosen", "loaded", "mark"}, sess : Sessions \cup {Null},
               call : Calls, view : Nat]

\* Every variable keeps its type: the columns of the tables, what a process
\* holds of each session, the records of runs and of the command in progress.
TypeOK ==
  /\ bound \in [Sessions -> Workspaces \cup {Null}]
  /\ rows \in [Sessions -> Seq(Rows)]
  /\ version \in [Sessions -> Nat] /\ lock \in [Sessions -> 0..MaxRuns]
  /\ journal \in [Calls -> {"absent", "open", "closed"}]
  /\ cache \in [Runtimes -> [Sessions -> Kept]]
  /\ active \in [Runtimes -> SUBSET Sessions] /\ listed \in [Runtimes -> SUBSET RunIds]
  /\ run \in [RunIds -> Runs]
  /\ runs \in 0..MaxRuns
  /\ op \in Operations
  /\ raced \in SUBSET Calls /\ cut \in SUBSET (RunIds \X (0..MaxCalls))
  /\ faults \in 0..MaxFaults

\* Across processes, restarts and the double start over HTTP, a session never
\* has two live runs past its locks, so never two writers.
OneWriter ==
  \A r, q \in RunIds :
    run[r].pc \in Owning /\ run[q].pc \in Owning /\ run[r].sess = run[q].sess => r = q

\* The places of the rows that parse.
Whole(s) == {i \in 1..Len(rows[s]) : rows[s][i].whole}

\* Whoever could commit next has the whole history: a process whose version is
\* the store's holds every readable committed message, in the committed order and
\* once, though perhaps some more that the store refused.  No history is forked.
NoForkedHistory ==
  \A p \in Runtimes, s \in Sessions :
    cache[p][s].here /\ cache[p][s].known = version[s] =>
      LET log == cache[p][s].log
          places(i) == {a \in 1..Len(log) : log[a] = rows[s][i].message}
      IN  /\ \A i \in Whole(s) : places(i) # {}
          /\ \A i, j \in Whole(s) : \A a \in places(i), b \in places(j) : a < b <=> i < j

\* A call gets a second result in two situations only: an operator treated it
\* while its own run was live, or what wrote the first one, a run or a command,
\* ended before it closed the row of the call in the journal.  Commands look at
\* the journal alone, take no lock and are issued one after another; whatever else
\* goes on in the session, other runs, torn rows, refused commits, the journal and
\* the versions then suffice (agent/recovery.py:228, 291-295).
SecondResultAccountedFor ==
  \A s \in Sessions : \A i, j \in Whole(s) :
    LET m == rows[s][i].message
        n == rows[s][j].message
    IN  m.kind = "result" /\ n.kind = "result" /\ m.call = n.call /\ i # j
          => m.call \in raced \cup cut

HeldByRuns ==
  /\ \A s \in Sessions : lock[s] # 0 =>
       run[lock[s]].sess = s /\ run[lock[s]].pc \in Owning \cup {"killed"}
  /\ \A p \in Runtimes : \A s \in active[p] :
       \E r \in RunIds : run[r].proc = p /\ run[r].sess = s /\ run[r].pc \in Owning

\* A run whose task the store refused: the task is in its process's log and in
\* no row.
TaskRefused(p, r) ==
  /\ \E s \in Sessions : UserMessage(r) \in Elements(cache[p][s].log)
  /\ \A s \in Sessions : \A i \in 1..Len(rows[s]) : rows[s][i].message # UserMessage(r)

ListedAreLive ==
  \A p \in Runtimes : \A r \in RunIds :
    r \in listed[p] <=> (run[r].proc = p /\ run[r].pc \in InLoop) \/ TaskRefused(p, r)

\* Every lock row, registry entry and listed run belongs to a run that goes on,
\* however the others ended, by return, exception or refusal: otherwise the session
\* would be shut to all later runs.  And a run in its loop is listed.  The code
\* keeps to it with two exceptions, no more and no less.  A killed process leaves
\* its lock row; and a run whose task the store refused stays listed, which shuts
\* its session to HTTP until the process is restarted (agent/runtime.py:247).
LocksAccountedFor == HeldByRuns /\ ListedAreLive

\* A run that is refused, at whatever point and wherever the 202 was sent, leaves
\* nothing for others to trip over: no row, no message in any log, no lock.
RefusedLeavesNothing ==
  \A r \in RunIds : run[r].pc = "refused" =>
    /\ lock[run[r].sess] # r
    /\ \A s \in Sessions : \A i \in 1..Len(rows[s]) : rows[s][i].message.call[1] # r
    /\ \A p \in Runtimes, s \in Sessions :
         \A i \in 1..Len(cache[p][s].log) : cache[p][s].log[i].call[1] # r

\* Every run of a session works in the directory the session was created for,
\* whichever process loads it and whatever directory it was asked for.
WorkspaceKept ==
  \A r \in RunIds : run[r].pc \in Owning => run[r].space = bound[run[r].sess]

\* A process that missed a commit never commits to the session again before it
\* is restarted: the version it knows is neither refreshed nor lucky.
StaleNeverCommits ==
  [][\A p \in Runtimes, s \in Sessions :
       cache[p][s].here /\ cache[p][s].known # version[s] =>
         cache[p][s]' = NotCached \/ cache[p][s].known' = cache[p][s].known]_vars
=============================================================================
