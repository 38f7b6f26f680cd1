------------------------- MODULE SessionStoreProofs -------------------------
(***************************************************************************)
(* What is proved of SessionStore for every number of processes, sessions, *)
(* runs, calls and faults.                                                 *)
(***************************************************************************)
EXTENDS SessionStore, SequenceTheorems, TLAPS

-----------------------------------------------------------------------------
(* The invariant.                                                          *)

\* A run in progress has its process, its session and its directory; a command
\* in progress has its session.
RunsPlaced ==
  /\ \A r \in RunIds :
       /\ run[r].pc \notin Settled =>
            run[r].proc \in Runtimes /\ run[r].sess \in Sessions /\ run[r].space \in Workspaces
       /\ r > runs => run[r].pc = "none"
  /\ op.pc # "idle" => op.sess \in Sessions

\* A run past its locks holds both.
LocksHeld ==
  \A r \in RunIds : run[r].pc \in Owning =>
    lock[run[r].sess] = r /\ run[r].sess \in active[run[r].proc]

\* What is in memory comes from a session that exists, and a run that has its
\* session's log keeps it.
SessionsBound ==
  /\ \A p \in Runtimes, s \in Sessions :
       cache[p][s].here => bound[s] # Null /\ cache[p][s].space = bound[s]
  /\ \A r \in RunIds :
       /\ run[r].pc \in {"accepted", "entry"} \cup Owning => cache[run[r].proc][run[r].sess].here
       /\ run[r].pc \in {"loading", "replaying"} => bound[run[r].sess] # Null

\* A process does one thing at a time, and loads what it does not have.
OneAtATime ==
  /\ \A r, q \in RunIds :
       /\ run[r].pc \in Synchronous /\ run[q].pc \in Synchronous
       /\ run[r].proc = run[q].proc
       => r = q
  /\ \A r \in RunIds :
       run[r].pc \in {"loading", "replaying"} => ~cache[run[r].proc][run[r].sess].here

\* A run that has not come past its locks.
Silent == {"none", "accepted", "loading", "replaying", "entry", "refused"}

\* Nothing of such a run is anywhere.
NothingSaid ==
  \A r \in RunIds : run[r].pc \in Silent =>
    /\ \A s \in Sessions : \A i \in 1..Len(rows[s]) : rows[s][i].message.call[1] # r
    /\ \A p \in Runtimes, s \in Sessions :
         \A i \in 1..Len(cache[p][s].log) : cache[p][s].log[i].call[1] # r
    /\ \A c \in Calls : c[1] = r => journal[c] = "absent"
    /\ op.pc # "idle" => op.call[1] # r

\* A refused run was on a session.
RefusedPlaced == \A r \in RunIds : run[r].pc = "refused" => run[r].sess \in Sessions

\* The task of the run is in a log of the process, and it is in a row.
InLog(p, r) == \E s \in Sessions : UserMessage(r) \in Elements(cache[p][s].log)
InRow(r) == \E s \in Sessions : \E i \in 1..Len(rows[s]) : rows[s][i].message = UserMessage(r)

\* A process that does not have a session has no log of it.  A run that is about to
\* append its task has not done so, and that of a run in its loop was not refused.
ListedWell ==
  /\ ListedAreLive
  /\ \A p \in Runtimes, s \in Sessions : ~cache[p][s].here => cache[p][s].log = <<>>
  /\ \A r \in RunIds : run[r].pc = "task" => ~InRow(r) /\ \A p \in Runtimes : ~InLog(p, r)
  /\ \A r \in RunIds : run[r].pc \in InLoop => \A p \in Runtimes : ~TaskRefused(p, r)

Consistent ==
  /\ TypeOK /\ RunsPlaced /\ LocksHeld /\ HeldByRuns
  /\ SessionsBound /\ WorkspaceKept /\ OneAtATime /\ NothingSaid /\ RefusedPlaced /\ ListedWell

-----------------------------------------------------------------------------
(* Types.                                                                  *)

LEMMA MessageTypes ==
  /\ \A r \in RunIds : UserMessage(r) \in Messages
  /\ \A c \in Calls : AssistantMessage(c) \in Messages
  /\ \A c \in Calls : ToolResult(c, "run") \in Messages /\ ToolResult(c, "operator") \in Messages
  /\ \A r \in RunIds : FinalAnswer(r) \in Messages
<1>1. MaxRuns \in Nat /\ MaxCalls \in Nat \ {0}
  BY StoreAssumption
<1> QED
  BY <1>1 DEF Messages, UserMessage, AssistantMessage, ToolResult, FinalAnswer, Calls, RunIds

LEMMA ConstantTypes ==
  /\ MaxRuns \in Nat \ {0} /\ MaxCalls \in Nat \ {0} /\ MaxFaults \in Nat
  /\ 0 \in 0..MaxCalls /\ <<1, 1>> \in Calls
<1>1. MaxRuns \in Nat \ {0} /\ MaxCalls \in Nat \ {0} /\ MaxFaults \in Nat
  BY StoreAssumption
<1> QED
  BY <1>1 DEF Calls, RunIds

LEMMA LoadedType ==
  ASSUME rows \in [Sessions -> Seq(Rows)], NEW s \in Sessions
  PROVE  /\ Loaded(s) \in Seq(Messages)
         /\ \A i \in 1..Len(Loaded(s)) :
              i \in 1..Len(rows[s]) /\ Loaded(s)[i] = rows[s][i].message
<1> DEFINE n == Len(rows[s])
           k == IF n > 0 /\ ~rows[s][n].whole THEN n - 1 ELSE n
<1>1. n \in Nat /\ k \in Nat /\ k <= n
  OBVIOUS
<1>2. \A i \in 1..n : rows[s][i] \in Rows
  OBVIOUS
<1>3. Loaded(s) = [i \in 1..k |-> rows[s][i].message]
  BY DEF Loaded
<1>4. \A i \in 1..k : rows[s][i].message \in Messages
  BY <1>1, <1>2 DEF Rows
<1> QED
  BY <1>1, <1>3, <1>4

LEMMA GotoType ==
  ASSUME run \in [RunIds -> Runs], NEW r \in RunIds,
         NEW pc \in Synchronous \cup Owning \cup Settled \cup {"accepted"}, Goto(r, pc)
  PROVE  run' \in [RunIds -> Runs]
  BY DEF Goto, Runs

LEMMA ViewType ==
  ASSUME NEW x \in Runs, NEW v \in Nat, NEW pc \in Synchronous
  PROVE  [x EXCEPT !.view = v, !.pc = pc] \in Runs /\ [x EXCEPT !.pc = pc, !.view = v] \in Runs
  BY DEF Runs

LEMMA OverType ==
  ASSUME run \in [RunIds -> Runs], NEW r \in RunIds, NEW pc \in Settled
  PROVE  Over(r, pc) \in Runs
  BY ConstantTypes DEF Over, NoRun, Runs

LEMMA SettleType ==
  ASSUME run \in [RunIds -> Runs], NEW r \in RunIds, NEW pc \in Settled, Settle(r, pc)
  PROVE  run' \in [RunIds -> Runs]
  BY OverType DEF Settle

LEMMA LaunchType ==
  ASSUME TypeOK, NEW p \in Runtimes, NEW s \in Sessions, NEW w \in Workspaces,
         NEW task \in BOOLEAN, NEW pc \in {"loading", "entry", "accepted"},
         Launch(p, s, w, task, pc)
  PROVE  runs + 1 \in RunIds /\ runs' \in 0..MaxRuns /\ run' \in [RunIds -> Runs]
<1>1. runs + 1 \in RunIds /\ runs' \in 0..MaxRuns
  BY ConstantTypes DEF Launch, TypeOK, RunIds
<1>2. [NoRun EXCEPT !.pc = pc, !.proc = p, !.sess = s, !.space = w, !.task = task] \in Runs
  BY ConstantTypes DEF NoRun, Runs, Synchronous
<1> QED
  BY <1>1, <1>2 DEF Launch, TypeOK

LEMMA AppendType ==
  ASSUME TypeOK, NEW r \in RunIds, run[r].proc \in Runtimes, run[r].sess \in Sessions,
         NEW m \in Messages, m.kind = "call" => run[r].calls < MaxCalls,
         NEW next \in {"loop", "journal", "close", "release"}, AppendMessage(r, m, next)
  PROVE  /\ rows' \in [Sessions -> Seq(Rows)] /\ version' \in [Sessions -> Nat]
         /\ cache' \in [Runtimes -> [Sessions -> Kept]]
         /\ run' \in [RunIds -> Runs] /\ faults' \in 0..MaxFaults
<1> DEFINE p == run[r].proc
           s == run[r].sess
<1>1. Row(m) \in Rows
  BY DEF Row, Rows
<1>2. cache[p][s] \in Kept /\ rows[s] \in Seq(Rows) /\ version[s] \in Nat
  BY DEF TypeOK
<1>3. Append(cache[p][s].log, m) \in Seq(Messages)
  BY <1>2 DEF Kept
<1>4. Append(rows[s], Row(m)) \in Seq(Rows)
  BY <1>1, <1>2
<1>5. [cache[p][s] EXCEPT !.log = Append(@, m)] \in Kept
  BY <1>2, <1>3 DEF Kept
<1>6. [cache[p][s] EXCEPT !.log = Append(@, m), !.known = version[s] + 1] \in Kept
  <2>1. version[s] + 1 \in Nat
    BY <1>2
  <2>2. \A log \in Seq(Messages), known \in Nat :
          [cache[p][s] EXCEPT !.log = log, !.known = known] \in Kept
    BY <1>2 DEF Kept
  <2> QED
    BY <1>3, <2>1, <2>2
<1>7. CASE /\ cache[p][s].known = version[s]
           /\ rows' = [rows EXCEPT ![s] = Append(@, Row(m))]
           /\ version' = [version EXCEPT ![s] = version[s] + 1]
           /\ cache' = [cache EXCEPT ![p][s].log = Append(@, m), ![p][s].known = version[s] + 1]
           /\ run' = [run EXCEPT ![r].pc = next,
                                 ![r].calls = IF m.kind = "call" THEN @ + 1 ELSE @]
           /\ UNCHANGED faults
  <2>1. [run[r] EXCEPT !.pc = next, !.calls = IF m.kind = "call" THEN @ + 1 ELSE @] \in Runs
    <3>1. run[r] \in Runs
      BY DEF TypeOK
    <3>2. \A k \in 0..MaxCalls : [run[r] EXCEPT !.pc = next, !.calls = k] \in Runs
      BY <3>1 DEF Runs, Owning
    <3>3. (IF m.kind = "call" THEN run[r].calls + 1 ELSE run[r].calls) \in 0..MaxCalls
      BY <3>1, ConstantTypes DEF Runs
    <3> QED
      BY <3>2, <3>3
  <2>2. run' = [run EXCEPT ![r] =
                  [run[r] EXCEPT !.pc = next, !.calls = IF m.kind = "call" THEN @ + 1 ELSE @]]
    BY <1>7 DEF TypeOK, Runs
  <2>3. cache' = [cache EXCEPT ![p] = [cache[p] EXCEPT ![s] =
                    [cache[p][s] EXCEPT !.log = Append(@, m), !.known = version[s] + 1]]]
    BY <1>7 DEF TypeOK, Kept
  <2>4. version[s] + 1 \in Nat
    BY <1>2
  <2>5. rows' \in [Sessions -> Seq(Rows)] /\ version' \in [Sessions -> Nat]
    BY <1>4, <1>7, <2>4 DEF TypeOK
  <2>6. cache' \in [Runtimes -> [Sessions -> Kept]]
    BY <1>6, <2>3 DEF TypeOK
  <2>7. run' \in [RunIds -> Runs]
    BY <2>1, <2>2 DEF TypeOK
  <2> QED
    BY <1>7, <2>5, <2>6, <2>7 DEF TypeOK
<1>8. CASE /\ faults' = faults \/ (faults < MaxFaults /\ faults' = faults + 1)
           /\ cache' = [cache EXCEPT ![p][s].log = Append(@, m)]
           /\ Goto(r, "release")
           /\ UNCHANGED <<rows, version>>
  <2>1. run' \in [RunIds -> Runs]
    BY <1>8, GotoType DEF TypeOK, Owning
  <2>2. cache' = [cache EXCEPT ![p] = [cache[p] EXCEPT ![s] =
                    [cache[p][s] EXCEPT !.log = Append(@, m)]]]
    BY <1>8 DEF TypeOK, Kept
  <2>3. faults' \in 0..MaxFaults
    BY <1>8, ConstantTypes DEF TypeOK
  <2>4. cache' \in [Runtimes -> [Sessions -> Kept]]
    BY <1>5, <2>2 DEF TypeOK
  <2> QED
    BY <1>8, <2>1, <2>3, <2>4 DEF TypeOK
<1> QED
  BY <1>7, <1>8 DEF AppendMessage

LEMMA ListType ==
  ASSUME listed \in [Runtimes -> SUBSET RunIds], NEW r \in RunIds, List(r) \/ Delist(r)
  PROVE  listed' \in [Runtimes -> SUBSET RunIds]
  BY DEF List, Delist

LEMMA TypeStep ==
  ASSUME TypeOK, RunsPlaced, [Next]_vars
  PROVE  TypeOK'
<1> USE DEF store, process, operator
<1>1. ASSUME NEW p \in Runtimes, NEW s \in Sessions, NEW w \in Workspaces, CreateSession(p, s, w)
      PROVE  TypeOK'
  <2>1. runs' \in 0..MaxRuns /\ run' \in [RunIds -> Runs]
    BY <1>1, LaunchType DEF CreateSession
  <2>2. [log |-> <<>>, known |-> 0, space |-> w, here |-> TRUE] \in Kept
    BY DEF Kept
  <2>3. cache' \in [Runtimes -> [Sessions -> Kept]]
    BY <1>1, <2>2 DEF CreateSession, TypeOK
  <2>4. bound' \in [Sessions -> Workspaces \cup {Null}]
    BY <1>1 DEF CreateSession, TypeOK
  <2> QED
    BY <1>1, <2>1, <2>3, <2>4 DEF CreateSession, TypeOK
<1>2. ASSUME NEW p \in Runtimes, NEW s \in Sessions, NEW w \in Workspaces,
             NEW task \in BOOLEAN, StartRun(p, s, w, task)
      PROVE  TypeOK'
  BY <1>2, LaunchType DEF StartRun, TypeOK
<1>3. ASSUME NEW p \in Runtimes, NEW s \in Sessions, NEW w \in Workspaces, AcceptRun(p, s, w)
      PROVE  TypeOK'
  BY <1>3, LaunchType DEF AcceptRun, TypeOK
<1>4. ASSUME NEW r \in RunIds, BeginAccepted(r)
      PROVE  TypeOK'
  BY <1>4, GotoType DEF BeginAccepted, TypeOK, Synchronous
<1>5. ASSUME NEW r \in RunIds, LoadVersion(r)
      PROVE  TypeOK'
  <2>1. run[r].sess \in Sessions
    BY <1>5 DEF LoadVersion, RunsPlaced, Settled
  <2>2. version[run[r].sess] \in Nat
    BY <2>1 DEF TypeOK
  <2>3. run' = [run EXCEPT ![r] =
                  [run[r] EXCEPT !.view = version[run[r].sess], !.pc = "replaying"]]
    BY <1>5 DEF LoadVersion, TypeOK, Runs
  <2>4. [run[r] EXCEPT !.view = version[run[r].sess], !.pc = "replaying"] \in Runs
    BY <2>2, ViewType DEF TypeOK, Synchronous
  <2>5. run' \in [RunIds -> Runs]
    BY <2>3, <2>4 DEF TypeOK
  <2> QED
    BY <1>5, <2>5 DEF LoadVersion, TypeOK
<1>6. ASSUME NEW r \in RunIds, LoadRows(r)
      PROVE  TypeOK'
  <2> DEFINE p == run[r].proc
             s == run[r].sess
  <2>1. p \in Runtimes /\ s \in Sessions /\ run[r] \in Runs
    BY <1>6 DEF LoadRows, RunsPlaced, Settled, TypeOK
  <2>2. Loaded(s) \in Seq(Messages)
    BY <2>1, LoadedType DEF TypeOK
  <2>3. [log |-> Loaded(s), known |-> run[r].view, space |-> bound[s], here |-> TRUE] \in Kept
    BY <2>1, <2>2 DEF Kept, Runs, TypeOK
  <2>4. cache' \in [Runtimes -> [Sessions -> Kept]]
    <3>1. CASE Hydratable(s)
      <4>1. cache' = [cache EXCEPT ![p] = [cache[p] EXCEPT ![s] =
                        [log |-> Loaded(s), known |-> run[r].view, space |-> bound[s],
                         here |-> TRUE]]]
        BY <1>6, <3>1 DEF LoadRows, TypeOK
      <4> QED
        BY <2>1, <2>3, <4>1 DEF TypeOK
    <3>2. CASE ~Hydratable(s)
      BY <1>6, <3>2 DEF LoadRows, TypeOK
    <3> QED
      BY <3>1, <3>2
  <2>5. run' \in [RunIds -> Runs]
    <3>1. CASE Hydratable(s)
      <4>1. run' = [run EXCEPT ![r] = [run[r] EXCEPT !.pc = "entry", !.view = 0]]
        BY <1>6, <3>1 DEF LoadRows, TypeOK, Runs
      <4>2. [run[r] EXCEPT !.pc = "entry", !.view = 0] \in Runs
        BY <2>1, ViewType DEF Synchronous
      <4> QED
        BY <4>1, <4>2 DEF TypeOK
    <3>2. CASE ~Hydratable(s)
      BY <1>6, <3>2, SettleType DEF LoadRows, TypeOK, Settled
    <3> QED
      BY <3>1, <3>2
  <2> QED
    BY <1>6, <2>4, <2>5 DEF LoadRows, TypeOK
<1>7. ASSUME NEW r \in RunIds, Enter(r)
      PROVE  TypeOK'
  <2>1. run[r].proc \in Runtimes /\ run[r].sess \in Sessions
    BY <1>7 DEF Enter, RunsPlaced, Settled
  <2>2. CASE Admissible(r) /\ lock[run[r].sess] = 0
    <3>1. run' \in [RunIds -> Runs]
      BY <1>7, <2>2, GotoType DEF Enter, TypeOK, Owning
    <3>2. lock' \in [Sessions -> 0..MaxRuns]
      <4>1. r \in 0..MaxRuns
        BY ConstantTypes DEF RunIds
      <4>2. lock' = [lock EXCEPT ![run[r].sess] = r]
        BY <1>7, <2>2 DEF Enter
      <4> QED
        BY <4>1, <4>2 DEF TypeOK
    <3>3. active' \in [Runtimes -> SUBSET Sessions]
      <4>1. active' = [active EXCEPT ![run[r].proc] = active[run[r].proc] \cup {run[r].sess}]
        BY <1>7, <2>2 DEF Enter
      <4> QED
        BY <2>1, <4>1 DEF TypeOK
    <3> QED
      BY <1>7, <2>2, <3>1, <3>2, <3>3 DEF Enter, TypeOK
  <2>3. CASE ~(Admissible(r) /\ lock[run[r].sess] = 0)
    BY <1>7, <2>3, SettleType DEF Enter, TypeOK, Settled
  <2> QED
    BY <2>2, <2>3
<1>8. ASSUME NEW r \in RunIds, SkillsFail(r)
      PROVE  TypeOK'
  BY <1>8, GotoType, ConstantTypes DEF SkillsFail, TypeOK, Owning
<1>9. ASSUME NEW r \in RunIds, CommitTask(r)
      PROVE  TypeOK'
  <2>1. run[r].proc \in Runtimes /\ run[r].sess \in Sessions
    BY <1>9 DEF CommitTask, RunsPlaced, Settled
  <2>2. UserMessage(r) \in Messages /\ UserMessage(r).kind # "call"
    BY MessageTypes DEF UserMessage
  <2> QED
    BY <1>9, <2>1, <2>2, AppendType, ListType DEF CommitTask, TypeOK
<1>10. ASSUME NEW r \in RunIds, CommitCall(r)
       PROVE  TypeOK'
  <2>1. run[r].proc \in Runtimes /\ run[r].sess \in Sessions
    BY <1>10 DEF CommitCall, RunsPlaced, Settled
  <2>2. <<r, run[r].calls + 1>> \in Calls
    BY <1>10, ConstantTypes DEF CommitCall, TypeOK, Runs, Calls
  <2>3. AssistantMessage(<<r, run[r].calls + 1>>) \in Messages
    BY <2>2, MessageTypes
  <2> QED
    BY <1>10, <2>1, <2>3, AppendType, ListType DEF CommitCall, TypeOK
<1>11. ASSUME NEW r \in RunIds, OpenIntent(r)
       PROVE  TypeOK'
  BY <1>11, GotoType DEF OpenIntent, TypeOK, Owning
<1>12. ASSUME NEW r \in RunIds, CommitResult(r)
       PROVE  TypeOK'
  <2>1. run[r].proc \in Runtimes /\ run[r].sess \in Sessions
    BY <1>12 DEF CommitResult, RunsPlaced, Settled
  <2>2. ToolResult(CurrentCall(r), "run") \in Messages
    BY ConstantTypes, StoreAssumption
       DEF CurrentCall, ToolResult, Messages, RunIds, TypeOK, Runs
  <2>3. ToolResult(CurrentCall(r), "run").kind # "call"
    BY DEF ToolResult
  <2> QED
    BY <1>12, <2>1, <2>2, <2>3, AppendType, ListType DEF CommitResult, TypeOK
<1>24. ASSUME NEW r \in RunIds, CommitAnswer(r)
       PROVE  TypeOK'
  <2>1. run[r].proc \in Runtimes /\ run[r].sess \in Sessions
    BY <1>24 DEF CommitAnswer, RunsPlaced, Settled
  <2>2. FinalAnswer(r) \in Messages /\ FinalAnswer(r).kind # "call"
    BY MessageTypes DEF FinalAnswer
  <2> QED
    BY <1>24, <2>1, <2>2, AppendType, ListType DEF CommitAnswer, TypeOK
<1>25. ASSUME NEW r \in RunIds, JournalFails(r)
       PROVE  TypeOK'
  <2>1. run' \in [RunIds -> Runs]
    BY <1>25, GotoType DEF JournalFails, TypeOK, Owning
  <2>2. CurrentCall(r) \in RunIds \X (0..MaxCalls)
    BY DEF CurrentCall, TypeOK, Runs
  <2>3. faults' \in 0..MaxFaults /\ listed' \in [Runtimes -> SUBSET RunIds]
    BY <1>25, ListType, ConstantTypes DEF JournalFails, TypeOK
  <2> QED
    BY <1>25, <2>1, <2>2, <2>3 DEF JournalFails, TypeOK
<1>26. CASE OperatorStops
  <2>1. op.call \in RunIds \X (0..MaxCalls)
    BY ConstantTypes DEF TypeOK, Operations, Calls
  <2> QED
    BY <1>26, <2>1, ConstantTypes DEF OperatorStops, NoOperation, Operations, TypeOK
<1>13. ASSUME NEW r \in RunIds, CloseIntent(r)
       PROVE  TypeOK'
  BY <1>13, GotoType DEF CloseIntent, TypeOK, Owning
<1>14. ASSUME NEW r \in RunIds, FinishRun(r)
       PROVE  TypeOK'
  BY <1>14, GotoType, ListType DEF FinishRun, TypeOK, Owning
<1>15. ASSUME NEW r \in RunIds, Release(r)
       PROVE  TypeOK'
  <2>1. run[r].proc \in Runtimes /\ run[r].sess \in Sessions
    BY <1>15 DEF Release, RunsPlaced, Settled
  <2>2. run' \in [RunIds -> Runs]
    BY <1>15, SettleType DEF Release, TypeOK, Settled
  <2>3. lock' \in [Sessions -> 0..MaxRuns] /\ active' \in [Runtimes -> SUBSET Sessions]
    BY <1>15, <2>1, ConstantTypes DEF Release, TypeOK
  <2> QED
    BY <1>15, <2>2, <2>3 DEF Release, TypeOK
<1>16. ASSUME NEW p \in Runtimes, Kill(p)
       PROVE  TypeOK'
  <2>1. NotCached \in Kept
    BY DEF NotCached, Kept
  <2>2. cache' \in [Runtimes -> [Sessions -> Kept]]
    BY <1>16, <2>1 DEF Kill, TypeOK
  <2>3. run' \in [RunIds -> Runs]
    <3>1. \A r \in RunIds : Over(r, "killed") \in Runs
      BY OverType DEF TypeOK, Settled
    <3> QED
      BY <1>16, <3>1 DEF Kill, TypeOK
  <2>4. \A r \in RunIds : CurrentCall(r) \in RunIds \X (0..MaxCalls)
    BY DEF CurrentCall, TypeOK, Runs
  <2>5. cut' \in SUBSET (RunIds \X (0..MaxCalls))
    BY <1>16, <2>4 DEF Kill, TypeOK
  <2> QED
    BY <1>16, <2>2, <2>3, <2>5, ConstantTypes DEF Kill, TypeOK
<1>17. ASSUME NEW s \in Sessions, Tear(s)
       PROVE  TypeOK'
  <2>1. rows[s] \in Seq(Rows) /\ Len(rows[s]) \in 1..Len(rows[s])
    BY <1>17 DEF Tear, TypeOK
  <2> DEFINE n == Len(rows[s])
  <2>2. [rows[s][n] EXCEPT !.whole = FALSE] \in Rows
    <3>1. rows[s][n] \in Rows
      BY <2>1
    <3> QED
      BY <3>1 DEF Rows
  <2>3. [rows[s] EXCEPT ![n] = [rows[s][n] EXCEPT !.whole = FALSE]] \in Seq(Rows)
    BY <2>1, <2>2
  <2>4. rows' = [rows EXCEPT ![s] = [rows[s] EXCEPT ![n] = [rows[s][n] EXCEPT !.whole = FALSE]]]
    BY <1>17 DEF Tear, TypeOK
  <2>5. rows' \in [Sessions -> Seq(Rows)]
    BY <2>3, <2>4 DEF TypeOK
  <2> QED
    BY <1>17, <2>5, ConstantTypes DEF Tear, TypeOK
<1>18. ASSUME NEW s \in Sessions, NEW c \in Calls, ChooseCall(s, c)
       PROVE  TypeOK'
  BY <1>18, ConstantTypes DEF ChooseCall, NoOperation, Operations, TypeOK
<1>19. CASE OperatorLoads
  <2>1. op.pc # "idle"
    BY <1>19 DEF OperatorLoads
  <2>2. op.sess \in Sessions /\ version[op.sess] \in Nat
    BY <2>1 DEF RunsPlaced, TypeOK
  <2>3. NoOperation \in Operations /\ [op EXCEPT !.pc = "loaded", !.view = version[op.sess]] \in Operations
    BY <2>2, ConstantTypes DEF NoOperation, Operations, TypeOK
  <2>4. op' \in Operations
    BY <1>19, <2>3 DEF OperatorLoads
  <2> QED
    BY <1>19, <2>4 DEF OperatorLoads, TypeOK
<1>20. CASE OperatorAppends
  <2>1. Row(ToolResult(op.call, "operator")) \in Rows
    BY MessageTypes DEF TypeOK, Operations, Row, Rows
  <2>2. op.sess \in Sessions /\ version[op.sess] \in Nat /\ rows[op.sess] \in Seq(Rows)
    BY <1>20 DEF OperatorAppends, RunsPlaced, TypeOK
  <2>3. Append(rows[op.sess], Row(ToolResult(op.call, "operator"))) \in Seq(Rows)
    BY <2>1, <2>2
  <2>4. rows' \in [Sessions -> Seq(Rows)] /\ version' \in [Sessions -> Nat]
    <3>1. CASE op.view = version[op.sess]
      <4>1. rows' = [rows EXCEPT ![op.sess] =
                       Append(rows[op.sess], Row(ToolResult(op.call, "operator")))]
        BY <1>20, <3>1 DEF OperatorAppends
      <4>2. version' = [version EXCEPT ![op.sess] = version[op.sess] + 1]
        BY <1>20, <3>1 DEF OperatorAppends
      <4>3. version[op.sess] + 1 \in Nat
        BY <2>2
      <4> QED
        BY <2>3, <4>1, <4>2, <4>3 DEF TypeOK
    <3>2. CASE op.view # version[op.sess]
      BY <1>20, <3>2 DEF OperatorAppends, TypeOK
    <3> QED
      BY <3>1, <3>2
  <2>5. NoOperation \in Operations /\ [op EXCEPT !.pc = "mark"] \in Operations
    BY ConstantTypes DEF NoOperation, Operations, TypeOK
  <2>6. op' \in Operations
    BY <1>20, <2>5 DEF OperatorAppends
  <2> QED
    BY <1>20, <2>4, <2>6 DEF OperatorAppends, TypeOK
<1>21. CASE OperatorMarks
  BY <1>21, ConstantTypes DEF OperatorMarks, NoOperation, Operations, TypeOK
<1>22. CASE UNCHANGED vars
  BY <1>22 DEF vars, TypeOK
<1>23. ASSUME NEW r \in RunIds, ContinueTask(r)
       PROVE  TypeOK'
  BY <1>23, GotoType, ListType DEF ContinueTask, TypeOK, Owning
<1> QED
  BY <1>1, <1>2, <1>3, <1>4, <1>5, <1>6, <1>7, <1>8, <1>9, <1>10, <1>11, <1>12, <1>13,
     <1>14, <1>15, <1>16, <1>17, <1>18, <1>19, <1>20, <1>21, <1>22, <1>23,
     <1>24, <1>25, <1>26 DEF Next, Begin, RunStep, OperatorStep

-----------------------------------------------------------------------------
(* What a step does to the runs.                                           *)

\* Only the run r moves, to one of these places.
Moves(r, places) ==
  /\ run'[r].pc \in places
  /\ run'[r].proc = run[r].proc /\ run'[r].sess = run[r].sess /\ run'[r].space = run[r].space
  /\ \A q \in RunIds \ {r} : run'[q] = run[q]

\* The run r is over, and the others stay where they are.
Leaves(r, place) ==
  /\ run'[r].pc = place /\ run'[r].proc = Null /\ run'[r].sess = run[r].sess
  /\ \A q \in RunIds \ {r} : run'[q] = run[q]

\* A new run stands at this place.
Appears(p, s, w, place) ==
  /\ runs + 1 \in RunIds /\ runs' = runs + 1
  /\ run'[runs + 1].pc = place /\ run'[runs + 1].proc = p
  /\ run'[runs + 1].sess = s /\ run'[runs + 1].space = w
  /\ \A q \in RunIds \ {runs + 1} : run'[q] = run[q]

LEMMA GotoMoves ==
  ASSUME run \in [RunIds -> Runs], NEW r \in RunIds, NEW pc, Goto(r, pc)
  PROVE  Moves(r, {pc})
  BY DEF Goto, Moves, Runs

LEMMA SettleLeaves ==
  ASSUME run \in [RunIds -> Runs], NEW r \in RunIds, NEW pc, Settle(r, pc)
  PROVE  Leaves(r, pc)
  BY DEF Settle, Over, NoRun, Leaves, Runs

LEMMA LaunchAppears ==
  ASSUME TypeOK, NEW p \in Runtimes, NEW s \in Sessions, NEW w \in Workspaces,
         NEW task \in BOOLEAN, NEW pc, Launch(p, s, w, task, pc)
  PROVE  Appears(p, s, w, pc)
<1>1. runs + 1 \in RunIds
  BY ConstantTypes DEF Launch, TypeOK, RunIds
<1> QED
  BY <1>1 DEF Launch, NoRun, Appears, TypeOK

\* A commit, accepted or refused: the message is in memory or nowhere new, in the
\* store or nowhere new; the version a process knows is only moved from the
\* store's own.
LEMMA AppendEffect ==
  ASSUME TypeOK, NEW r \in RunIds, run[r].proc \in Runtimes, run[r].sess \in Sessions,
         NEW m, NEW next, AppendMessage(r, m, next)
  PROVE  /\ Moves(r, {next, "release"})
         /\ \A s \in Sessions : rows'[s] = rows[s] \/ rows'[s] = Append(rows[s], Row(m))
         /\ \A p \in Runtimes, s \in Sessions :
              /\ cache'[p][s].log = cache[p][s].log \/ cache'[p][s].log = Append(cache[p][s].log, m)
              /\ cache'[p][s].here = cache[p][s].here
              /\ cache'[p][s].space = cache[p][s].space
              /\ cache[p][s].known # version[s] => cache'[p][s].known = cache[p][s].known
<1> DEFINE p == run[r].proc
           s == run[r].sess
<1>0. cache[p][s] \in Kept
  BY DEF TypeOK
<1>1. CASE /\ cache[p][s].known = version[s]
           /\ rows' = [rows EXCEPT ![s] = Append(@, Row(m))]
           /\ cache' = [cache EXCEPT ![p][s].log = Append(@, m), ![p][s].known = version[s] + 1]
           /\ run' = [run EXCEPT ![r].pc = next,
                                 ![r].calls = IF m.kind = "call" THEN @ + 1 ELSE @]
  <2> DEFINE calls == IF m.kind = "call" THEN run[r].calls + 1 ELSE run[r].calls
             kept == [cache[p][s] EXCEPT !.log = Append(@, m), !.known = version[s] + 1]
  <2>1. run' = [run EXCEPT ![r] = [run[r] EXCEPT !.pc = next, !.calls = calls]]
    BY <1>1 DEF TypeOK, Runs
  <2>2. Moves(r, {next, "release"})
    BY <2>1 DEF Moves, TypeOK, Runs
  <2>3. cache' = [cache EXCEPT ![p] = [cache[p] EXCEPT ![s] = kept]]
    BY <1>1 DEF TypeOK, Kept
  <2>4. \A q \in Runtimes, t \in Sessions :
          cache'[q][t] = IF q = p /\ t = s THEN kept ELSE cache[q][t]
    BY <2>3 DEF TypeOK
  <2>5. /\ kept.log = Append(cache[p][s].log, m)
        /\ kept.here = cache[p][s].here /\ kept.space = cache[p][s].space
    BY <1>0 DEF Kept
  <2>6. \A t \in Sessions : rows'[t] = rows[t] \/ rows'[t] = Append(rows[t], Row(m))
    BY <1>1 DEF TypeOK
  <2> HIDE DEF kept
  <2>7. \A q \in Runtimes, t \in Sessions :
          /\ cache'[q][t].log \in {cache[q][t].log, Append(cache[q][t].log, m)}
          /\ cache'[q][t].here = cache[q][t].here
          /\ cache'[q][t].space = cache[q][t].space
    BY <2>4, <2>5
  <2>8. \A q \in Runtimes, t \in Sessions :
          cache[q][t].known # version[t] => cache'[q][t].known = cache[q][t].known
    <3>1. ASSUME NEW q \in Runtimes, NEW t \in Sessions, cache[q][t].known # version[t]
          PROVE  cache'[q][t].known = cache[q][t].known
      <4>1. ~(q = p /\ t = s)
        BY <1>1, <3>1
      <4> QED
        BY <2>4, <4>1
    <3> QED
      BY <3>1
  <2> QED
    BY <2>2, <2>6, <2>7, <2>8
<1>2. CASE /\ cache' = [cache EXCEPT ![p][s].log = Append(@, m)]
           /\ Goto(r, "release")
           /\ UNCHANGED rows
  <2>1. Moves(r, {next, "release"})
    BY <1>2, GotoMoves DEF Moves, TypeOK
  <2> DEFINE kept == [cache[p][s] EXCEPT !.log = Append(@, m)]
  <2>3. cache' = [cache EXCEPT ![p] = [cache[p] EXCEPT ![s] = kept]]
    BY <1>2 DEF TypeOK, Kept
  <2>4. \A q \in Runtimes, t \in Sessions :
          cache'[q][t] = IF q = p /\ t = s THEN kept ELSE cache[q][t]
    BY <2>3 DEF TypeOK
  <2>5. /\ kept.log = Append(cache[p][s].log, m) /\ kept.known = cache[p][s].known
        /\ kept.here = cache[p][s].here /\ kept.space = cache[p][s].space
    BY <1>0 DEF Kept
  <2> HIDE DEF kept
  <2>6. \A q \in Runtimes, t \in Sessions :
          /\ cache'[q][t].log \in {cache[q][t].log, Append(cache[q][t].log, m)}
          /\ cache'[q][t].known = cache[q][t].known
          /\ cache'[q][t].here = cache[q][t].here
          /\ cache'[q][t].space = cache[q][t].space
    BY <2>4, <2>5
  <2> QED
    BY <1>2, <2>1, <2>6
<1> QED
  BY <1>1, <1>2 DEF AppendMessage

\* In memory the message is in the log of one session of one process.
LEMMA AppendLogs ==
  ASSUME TypeOK, NEW r \in RunIds, run[r].proc \in Runtimes, run[r].sess \in Sessions,
         NEW m, NEW next, AppendMessage(r, m, next)
  PROVE  LET p == run[r].proc
             s == run[r].sess
         IN  /\ cache'[p][s].log = Append(cache[p][s].log, m)
             /\ \A q \in Runtimes, t \in Sessions : q # p \/ t # s => cache'[q][t] = cache[q][t]
<1> DEFINE p == run[r].proc
           s == run[r].sess
           one == [cache[p][s] EXCEPT !.log = Append(@, m), !.known = version[s] + 1]
           other == [cache[p][s] EXCEPT !.log = Append(@, m)]
<1>1. cache[p][s] \in Kept
  BY DEF TypeOK
<1>2. one.log = Append(cache[p][s].log, m) /\ other.log = Append(cache[p][s].log, m)
  BY <1>1 DEF Kept
<1>3. \/ cache' = [cache EXCEPT ![p] = [cache[p] EXCEPT ![s] = one]]
      \/ cache' = [cache EXCEPT ![p] = [cache[p] EXCEPT ![s] = other]]
  <2>1. CASE cache' = [cache EXCEPT ![p][s].log = Append(@, m), ![p][s].known = version[s] + 1]
    BY <2>1 DEF TypeOK, Kept
  <2>2. CASE cache' = [cache EXCEPT ![p][s].log = Append(@, m)]
    BY <2>2 DEF TypeOK, Kept
  <2> QED
    BY <2>1, <2>2 DEF AppendMessage
<1> HIDE DEF one, other
<1>4. ASSUME NEW kept, kept.log = Append(cache[p][s].log, m),
             cache' = [cache EXCEPT ![p] = [cache[p] EXCEPT ![s] = kept]]
      PROVE  /\ cache'[p][s].log = Append(cache[p][s].log, m)
             /\ \A q \in Runtimes, t \in Sessions : q # p \/ t # s => cache'[q][t] = cache[q][t]
  <2>1. \A q \in Runtimes, t \in Sessions :
          cache'[q][t] = IF q = p /\ t = s THEN kept ELSE cache[q][t]
    BY <1>4 DEF TypeOK
  <2>2. cache'[p][s] = kept
    BY <2>1
  <2>3. cache'[p][s].log = Append(cache[p][s].log, m)
    BY ONLY <1>4, <2>2
  <2>4. \A q \in Runtimes, t \in Sessions : q # p \/ t # s => cache'[q][t] = cache[q][t]
    BY ONLY <2>1
  <2> QED
    BY ONLY <2>3, <2>4
<1> QED
  BY <1>2, <1>3, <1>4

\* A load puts one session in memory and touches no other.
LEMMA LoadRowsEffect ==
  ASSUME TypeOK, NEW r \in RunIds, run[r].proc \in Runtimes, run[r].sess \in Sessions,
         LoadRows(r), Hydratable(run[r].sess)
  PROVE  LET p == run[r].proc
             s == run[r].sess
         IN  /\ cache'[p][s] = [log |-> Loaded(s), known |-> run[r].view, space |-> bound[s],
                               here |-> TRUE]
             /\ cache'[p][s].here /\ cache'[p][s].space = bound[s]
             /\ cache'[p][s].log = Loaded(s)
             /\ \A q \in Runtimes, t \in Sessions : q # p \/ t # s => cache'[q][t] = cache[q][t]
<1> DEFINE p == run[r].proc
           s == run[r].sess
           kept == [log |-> Loaded(s), known |-> run[r].view, space |-> bound[s], here |-> TRUE]
<1>1. cache' = [cache EXCEPT ![p] = [cache[p] EXCEPT ![s] = kept]]
  BY DEF LoadRows, TypeOK
<1>2. kept.here /\ kept.space = bound[s] /\ kept.log = Loaded(s)
  OBVIOUS
<1> HIDE DEF kept
<1>3. \A q \in Runtimes, t \in Sessions :
        cache'[q][t] = IF q = p /\ t = s THEN kept ELSE cache[q][t]
  BY <1>1 DEF TypeOK
<1>4. cache'[p][s] = kept
  BY <1>3
<1> QED
  BY <1>2, <1>3, <1>4 DEF kept

Waiting == {"accepted", "loading", "replaying", "entry"}

\* A run moves along before its locks, or behind them.
LEMMA WalkKeepsLocks ==
  ASSUME TypeOK, RunsPlaced, LocksHeld, HeldByRuns, NEW r \in RunIds,
         UNCHANGED <<lock, active, runs, op>>,
         \/ run[r].pc \in Owning /\ Moves(r, Owning)
         \/ run[r].pc \in Waiting /\ Moves(r, Waiting)
  PROVE  RunsPlaced' /\ LocksHeld' /\ HeldByRuns'
<1>1. \A q \in RunIds :
        /\ run'[q].proc = run[q].proc /\ run'[q].sess = run[q].sess /\ run'[q].space = run[q].space
        /\ run'[q].pc \in Owning <=> run[q].pc \in Owning
        /\ run'[q].pc \in Settled <=> run[q].pc \in Settled
        /\ run[q].pc \in Settled => run'[q].pc = run[q].pc
  BY DEF Moves, Owning, Waiting, Settled
<1>2. RunsPlaced'
  BY <1>1 DEF RunsPlaced, Settled
<1>3. LocksHeld'
  BY <1>1 DEF LocksHeld
<1>4. \A q \in RunIds : run[q].pc \in Owning \cup {"killed"} => run'[q].pc \in Owning \cup {"killed"}
  BY <1>1 DEF Settled, Owning
<1>5. \A s \in Sessions : lock[s] # 0 => lock[s] \in RunIds
  BY ConstantTypes DEF TypeOK, RunIds
<1>6. HeldByRuns'
  BY <1>1, <1>4, <1>5 DEF HeldByRuns
<1> QED
  BY <1>2, <1>3, <1>6

LEMMA LaunchKeepsLocks ==
  ASSUME TypeOK, RunsPlaced, LocksHeld, HeldByRuns, NEW p \in Runtimes,
         NEW s \in Sessions, NEW w \in Workspaces, NEW place \in Waiting,
         Appears(p, s, w, place), UNCHANGED <<lock, active, op>>
  PROVE  RunsPlaced' /\ LocksHeld' /\ HeldByRuns'
<1>1. run[runs + 1].pc = "none" /\ runs + 1 \in RunIds /\ runs \in Nat
  BY ConstantTypes DEF RunsPlaced, Appears, TypeOK, RunIds
<1>2. RunsPlaced'
  BY <1>1 DEF RunsPlaced, Appears, Waiting, Settled, RunIds
<1>3. LocksHeld'
  BY <1>1 DEF LocksHeld, Appears, Waiting, Owning
<1>4. \A t \in Sessions : lock[t] # 0 => lock[t] \in RunIds /\ lock[t] # runs + 1
  <2>1. \A t \in Sessions : lock[t] # 0 => lock[t] \in RunIds
    BY ConstantTypes DEF TypeOK, RunIds
  <2>2. \A t \in Sessions : lock[t] # 0 => run[lock[t]].pc \in Owning \cup {"killed"}
    BY DEF HeldByRuns
  <2>3. "none" \notin Owning \cup {"killed"}
    BY DEF Owning
  <2> QED
    BY <1>1, <2>1, <2>2, <2>3
<1>5. HeldByRuns'
  BY <1>1, <1>4 DEF HeldByRuns, Appears, Owning
<1> QED
  BY <1>2, <1>3, <1>5

LEMMA LocksStep ==
  ASSUME TypeOK, RunsPlaced, LocksHeld, HeldByRuns, [Next]_vars
  PROVE  RunsPlaced' /\ LocksHeld' /\ HeldByRuns'
<1> USE DEF store, process, operator
<1>0. run \in [RunIds -> Runs]
  BY DEF TypeOK
<1>1. ASSUME NEW p \in Runtimes, NEW s \in Sessions, NEW w \in Workspaces, Begin(p, s, w)
      PROVE  RunsPlaced' /\ LocksHeld' /\ HeldByRuns'
  <2>1. \E task \in BOOLEAN, place \in Waiting : Launch(p, s, w, task, place)
    BY <1>1 DEF Begin, CreateSession, StartRun, AcceptRun, Waiting
  <2>2. UNCHANGED <<lock, active, op>>
    BY <1>1 DEF Begin, CreateSession, StartRun, AcceptRun
  <2> QED
    BY <2>1, <2>2, LaunchAppears, LaunchKeepsLocks
<1>2. ASSUME NEW r \in RunIds, BeginAccepted(r) \/ LoadVersion(r) \/ (LoadRows(r) /\ Hydratable(run[r].sess))
      PROVE  RunsPlaced' /\ LocksHeld' /\ HeldByRuns'
  <2>1. run[r].pc \in Waiting
    BY <1>2 DEF BeginAccepted, LoadVersion, LoadRows, Waiting
  <2>2. Moves(r, Waiting)
    BY <1>0, <1>2, GotoMoves DEF BeginAccepted, LoadVersion, LoadRows, Moves, Waiting, Runs
  <2>3. UNCHANGED <<lock, active, runs, op>>
    BY <1>2 DEF BeginAccepted, LoadVersion, LoadRows
  <2> QED
    BY <2>1, <2>2, <2>3, WalkKeepsLocks
<1>3. ASSUME NEW r \in RunIds, run[r].pc \in Waiting, Leaves(r, "refused"),
             UNCHANGED <<lock, active, runs, op>>
      PROVE  RunsPlaced' /\ LocksHeld' /\ HeldByRuns'
  <2>1. run[r].pc \notin Owning \cup {"killed"}
    BY <1>3 DEF Waiting, Owning
  <2>2. \A s \in Sessions : lock[s] # 0 => lock[s] \in RunIds /\ lock[s] # r
    BY <2>1, ConstantTypes DEF HeldByRuns, TypeOK, RunIds
  <2>3. RunsPlaced'
    BY <1>3 DEF RunsPlaced, Leaves, Settled, Waiting
  <2>4. LocksHeld'
    BY <1>3 DEF LocksHeld, Leaves, Owning
  <2>5. HeldByRuns'
    BY <1>3, <2>1, <2>2 DEF HeldByRuns, Leaves
  <2> QED
    BY <2>3, <2>4, <2>5
<1>4. ASSUME NEW r \in RunIds, LoadRows(r), ~Hydratable(run[r].sess)
      PROVE  RunsPlaced' /\ LocksHeld' /\ HeldByRuns'
  BY <1>0, <1>3, <1>4, SettleLeaves DEF LoadRows, Waiting
<1>5. ASSUME NEW r \in RunIds, Enter(r)
      PROVE  RunsPlaced' /\ LocksHeld' /\ HeldByRuns'
  <2>1. CASE Admissible(r) /\ lock[run[r].sess] = 0
    <3> DEFINE t == run[r].sess
               p == run[r].proc
    <3>1. Moves(r, {"task"})
      BY <1>0, <1>5, <2>1, GotoMoves DEF Enter, Moves
    <3>2. /\ lock' = [lock EXCEPT ![t] = r]
          /\ active' = [active EXCEPT ![p] = active[p] \cup {t}]
          /\ UNCHANGED <<runs, op>>
      BY <1>5, <2>1 DEF Enter
    <3>3. run[r].pc = "entry" /\ p \in Runtimes /\ t \in Sessions
      BY <1>5 DEF Enter, RunsPlaced, Settled
    <3>4. \A q \in RunIds : run[q].pc \in Owning => run[q].sess # t /\ q # r
      BY <2>1, <3>3, ConstantTypes DEF LocksHeld, RunIds, Owning
    <3>5. r \in RunIds /\ r # 0
      BY DEF RunIds
    <3>6. RunsPlaced'
      BY <3>1, <3>2, <3>3 DEF RunsPlaced, Moves, Settled
    <3>7. \A q \in RunIds \ {r} : run[q].pc \in Owning =>
            run[q].proc \in Runtimes /\ run[q].sess \in Sessions
      BY DEF RunsPlaced, Owning, Settled
    <3>8. LocksHeld'
      <4>1. ASSUME NEW q \in RunIds \ {r}, run'[q].pc \in Owning
            PROVE  lock'[run'[q].sess] = q /\ run'[q].sess \in active'[run'[q].proc]
        <5>1. run'[q] = run[q]
          BY <3>1 DEF Moves
        <5>2. run[q].sess # t /\ lock[run[q].sess] = q /\ run[q].sess \in active[run[q].proc]
          BY <3>4, <4>1, <5>1 DEF LocksHeld
        <5>3. run[q].proc \in Runtimes /\ run[q].sess \in Sessions
          BY <3>7, <4>1, <5>1
        <5>4. lock'[run[q].sess] = q
          BY <3>2, <5>2, <5>3 DEF TypeOK
        <5>5. run[q].sess \in active'[run[q].proc]
          BY <3>2, <5>2, <5>3 DEF TypeOK
        <5> QED
          BY <5>1, <5>4, <5>5
      <4>2. lock'[t] = r /\ t \in active'[p]
        BY <3>2, <3>3 DEF TypeOK
      <4>3. run'[r].sess = t /\ run'[r].proc = p
        BY <3>1 DEF Moves
      <4> QED
        BY <4>1, <4>2, <4>3 DEF LocksHeld
    <3>9. \A s \in Sessions : lock'[s] # 0 =>
            run'[lock'[s]].sess = s /\ run'[lock'[s]].pc \in Owning \cup {"killed"}
      <4>1. ASSUME NEW s \in Sessions, s # t, lock[s] # 0
            PROVE  run'[lock[s]].sess = s /\ run'[lock[s]].pc \in Owning \cup {"killed"}
        <5>1. lock[s] \in RunIds
          BY <4>1, ConstantTypes DEF TypeOK, RunIds
        <5>2. run[lock[s]].sess = s /\ run[lock[s]].pc \in Owning \cup {"killed"}
          BY <4>1 DEF HeldByRuns
        <5> QED
          BY <3>1, <4>1, <5>1, <5>2 DEF Moves
      <4>2. run'[r].sess = t /\ run'[r].pc \in Owning
        BY <3>1 DEF Moves, Owning
      <4> QED
        BY <3>2, <4>1, <4>2 DEF TypeOK
    <3>10. \A u \in Runtimes : \A s \in active'[u] :
             \E q \in RunIds : run'[q].proc = u /\ run'[q].sess = s /\ run'[q].pc \in Owning
      <4>1. ASSUME NEW u \in Runtimes, NEW s \in active[u]
            PROVE  \E q \in RunIds : run'[q].proc = u /\ run'[q].sess = s /\ run'[q].pc \in Owning
        <5>1. PICK q \in RunIds : run[q].proc = u /\ run[q].sess = s /\ run[q].pc \in Owning
          BY DEF HeldByRuns
        <5> QED
          BY <3>1, <3>4, <5>1 DEF Moves
      <4>2. run'[r].proc = p /\ run'[r].sess = t /\ run'[r].pc \in Owning
        BY <3>1 DEF Moves, Owning
      <4> QED
        BY <3>2, <4>1, <4>2 DEF TypeOK
    <3> QED
      BY <3>6, <3>8, <3>9, <3>10 DEF HeldByRuns
  <2>2. CASE ~(Admissible(r) /\ lock[run[r].sess] = 0)
    BY <1>0, <1>3, <1>5, <2>2, SettleLeaves DEF Enter, Waiting
  <2> QED
    BY <2>1, <2>2
<1>6. ASSUME NEW r \in RunIds,
             \/ SkillsFail(r) \/ CommitTask(r) \/ CommitCall(r) \/ OpenIntent(r)
             \/ CommitResult(r) \/ CloseIntent(r) \/ JournalFails(r) \/ CommitAnswer(r)
             \/ FinishRun(r) \/ ContinueTask(r)
      PROVE  RunsPlaced' /\ LocksHeld' /\ HeldByRuns'
  <2>1. run[r].pc \in Owning
    BY <1>6 DEF SkillsFail, CommitTask, CommitCall, OpenIntent, CommitResult, CloseIntent,
                JournalFails, CommitAnswer, FinishRun, ContinueTask, Owning
  <2>2. run[r].proc \in Runtimes /\ run[r].sess \in Sessions
    BY <2>1 DEF RunsPlaced, Owning, Settled
  <2>3. Moves(r, Owning)
    <3>1. CASE \/ SkillsFail(r) \/ OpenIntent(r) \/ CloseIntent(r) \/ JournalFails(r)
               \/ FinishRun(r) \/ ContinueTask(r)
      BY <1>0, <3>1, GotoMoves
         DEF SkillsFail, OpenIntent, CloseIntent, JournalFails, ContinueTask, FinishRun, Moves, Owning
    <3>2. CASE CommitTask(r) \/ CommitCall(r) \/ CommitResult(r) \/ CommitAnswer(r)
      <4>1. \E m, next : AppendMessage(r, m, next) /\ next \in {"loop", "journal", "close", "release"}
        BY <3>2 DEF CommitTask, CommitCall, CommitResult, CommitAnswer
      <4>2. \E next \in {"loop", "journal", "close", "release"} : Moves(r, {next, "release"})
        BY <2>2, <4>1, AppendEffect
      <4> QED
        BY <4>2 DEF Moves, Owning
    <3> QED
      BY <1>6, <3>1, <3>2
  <2>4. UNCHANGED <<lock, active, runs, op>>
    BY <1>6 DEF SkillsFail, CommitTask, CommitCall, OpenIntent, CommitResult, CloseIntent,
                JournalFails, CommitAnswer, FinishRun, ContinueTask
  <2> QED
    BY <2>1, <2>3, <2>4, WalkKeepsLocks
<1>7. ASSUME NEW r \in RunIds, Release(r)
      PROVE  RunsPlaced' /\ LocksHeld' /\ HeldByRuns'
  <2> DEFINE t == run[r].sess
             p == run[r].proc
  <2>1. Leaves(r, "done")
    BY <1>0, <1>7, SettleLeaves DEF Release
  <2>2. run[r].pc \in Owning /\ p \in Runtimes /\ t \in Sessions
    BY <1>7 DEF Release, RunsPlaced, Settled, Owning
  <2>3. lock[t] = r
    BY <2>2 DEF LocksHeld
  <2>4. /\ lock' = [lock EXCEPT ![t] = 0]
        /\ active' = [active EXCEPT ![p] = active[p] \ {t}]
        /\ UNCHANGED <<runs, op>>
    BY <1>7, <2>3 DEF Release
  <2>5. RunsPlaced'
    BY <2>1, <2>2, <2>4 DEF RunsPlaced, Leaves, Settled, Owning
  <2>6. \A q \in RunIds : run[q].pc \in Owning /\ run[q].sess = t => q = r
    BY <2>3 DEF LocksHeld
  <2>7. LocksHeld'
    <3>1. ASSUME NEW q \in RunIds, run'[q].pc \in Owning
          PROVE  lock'[run'[q].sess] = q /\ run'[q].sess \in active'[run'[q].proc]
      <4>1. q # r /\ run'[q] = run[q]
        BY <2>1, <3>1 DEF Leaves, Owning
      <4>2. run[q].sess # t /\ lock[run[q].sess] = q /\ run[q].sess \in active[run[q].proc]
        BY <2>6, <3>1, <4>1 DEF LocksHeld
      <4>3. run[q].proc \in Runtimes /\ run[q].sess \in Sessions
        BY <3>1, <4>1 DEF RunsPlaced, Owning, Settled
      <4>4. lock'[run[q].sess] = q
        BY <2>4, <4>2, <4>3 DEF TypeOK
      <4>5. run[q].sess \in active'[run[q].proc]
        BY <2>4, <4>2, <4>3 DEF TypeOK
      <4> QED
        BY <4>1, <4>4, <4>5
    <3> QED
      BY <3>1 DEF LocksHeld
  <2>8. \A s \in Sessions : lock'[s] # 0 =>
          run'[lock'[s]].sess = s /\ run'[lock'[s]].pc \in Owning \cup {"killed"}
    <3>1. ASSUME NEW s \in Sessions, s # t, lock[s] # 0
          PROVE  run'[lock[s]].sess = s /\ run'[lock[s]].pc \in Owning \cup {"killed"}
      <4>1. lock[s] \in RunIds
        BY <3>1, ConstantTypes DEF TypeOK, RunIds
      <4>2. run[lock[s]].sess = s /\ run[lock[s]].pc \in Owning \cup {"killed"}
        BY <3>1 DEF HeldByRuns
      <4> QED
        BY <2>1, <3>1, <4>1, <4>2 DEF Leaves
    <3> QED
      BY <2>4, <3>1 DEF TypeOK
  <2>9. \A u \in Runtimes : \A s \in active'[u] :
          \E q \in RunIds : run'[q].proc = u /\ run'[q].sess = s /\ run'[q].pc \in Owning
    <3>1. ASSUME NEW u \in Runtimes, NEW s \in active[u], ~(u = p /\ s = t)
          PROVE  \E q \in RunIds : run'[q].proc = u /\ run'[q].sess = s /\ run'[q].pc \in Owning
      <4>1. PICK q \in RunIds : run[q].proc = u /\ run[q].sess = s /\ run[q].pc \in Owning
        BY DEF HeldByRuns
      <4> QED
        BY <2>1, <3>1, <4>1 DEF Leaves
    <3> QED
      BY <2>4, <3>1 DEF TypeOK
  <2> QED
    BY <2>5, <2>7, <2>8, <2>9 DEF HeldByRuns
<1>8. ASSUME NEW p \in Runtimes, Kill(p)
      PROVE  RunsPlaced' /\ LocksHeld' /\ HeldByRuns'
  <2>1. \A q \in RunIds :
          \/ run'[q] = run[q] /\ (run[q].proc # p \/ run[q].pc \in Settled)
          \/ run'[q].pc = "killed" /\ run'[q].sess = run[q].sess /\ run[q].proc = p
    BY <1>8 DEF Kill, Over, NoRun
  <2>2. /\ active' = [active EXCEPT ![p] = {}]
        /\ UNCHANGED <<lock, runs, op>>
    BY <1>8 DEF Kill
  <2>3. \A q \in RunIds : run[q].pc = "none" => run'[q].pc = "none"
    BY <1>8 DEF Kill, Settled
  <2>4. RunsPlaced'
    BY <2>1, <2>2, <2>3 DEF RunsPlaced, Settled
  <2>5. \A q \in RunIds : run'[q].pc \in Owning => run'[q] = run[q] /\ run[q].proc # p
    BY <2>1 DEF Owning, Settled
  <2>6. LocksHeld'
    BY <2>2, <2>5 DEF LocksHeld, RunsPlaced, TypeOK, Owning, Settled
  <2>7. ASSUME NEW s \in Sessions, lock[s] # 0
        PROVE  run'[lock[s]].sess = s /\ run'[lock[s]].pc \in Owning \cup {"killed"}
    <3>1. lock[s] \in RunIds
      BY <2>7, ConstantTypes DEF TypeOK, RunIds
    <3>2. run[lock[s]].sess = s /\ run[lock[s]].pc \in Owning \cup {"killed"}
      BY <2>7 DEF HeldByRuns
    <3> QED
      BY <2>1, <3>1, <3>2
  <2>8. ASSUME NEW u \in Runtimes, NEW s \in active'[u]
        PROVE  \E q \in RunIds : run'[q].proc = u /\ run'[q].sess = s /\ run'[q].pc \in Owning
    <3>1. u # p /\ s \in active[u]
      BY <2>2, <2>8 DEF TypeOK
    <3>2. PICK q \in RunIds : run[q].proc = u /\ run[q].sess = s /\ run[q].pc \in Owning
      BY <3>1 DEF HeldByRuns
    <3> QED
      BY <2>1, <3>1, <3>2
  <2> QED
    BY <2>2, <2>4, <2>6, <2>7, <2>8 DEF HeldByRuns
<1>9. CASE /\ UNCHANGED <<run, runs, lock, active>>
           /\ op'.pc # "idle" => op'.sess \in Sessions
  BY <1>9 DEF RunsPlaced, LocksHeld, HeldByRuns
<1>10. ASSUME NEW s \in Sessions, Tear(s)
       PROVE  RunsPlaced' /\ LocksHeld' /\ HeldByRuns'
  BY <1>9, <1>10 DEF Tear, RunsPlaced
<1>11. CASE OperatorStep
  <2>1. UNCHANGED <<run, runs, lock, active>>
    BY <1>11 DEF OperatorStep, ChooseCall, OperatorLoads, OperatorAppends, OperatorMarks, OperatorStops
  <2>2. op'.pc # "idle" => op'.sess \in Sessions
    <3>1. op \in Operations /\ (op.pc # "idle" => op.sess \in Sessions)
      BY DEF TypeOK, RunsPlaced
    <3>2. ASSUME NEW s \in Sessions, NEW c \in Calls, ChooseCall(s, c)
          PROVE  op'.sess = s
      BY <3>2 DEF ChooseCall, NoOperation
    <3>3. CASE OperatorLoads
      BY <3>1, <3>3 DEF OperatorLoads, NoOperation, Operations
    <3>4. CASE OperatorAppends
      BY <3>1, <3>4 DEF OperatorAppends, NoOperation, Operations
    <3>5. CASE OperatorMarks \/ OperatorStops
      BY <3>5 DEF OperatorMarks, OperatorStops, NoOperation
    <3> QED
      BY <1>11, <3>2, <3>3, <3>4, <3>5 DEF OperatorStep
  <2> QED
    BY <1>9, <2>1, <2>2
<1>12. CASE UNCHANGED vars
  BY <1>9, <1>12 DEF vars, RunsPlaced
<1> QED
  BY <1>1, <1>2, <1>4, <1>5, <1>6, <1>7, <1>8, <1>10, <1>11, <1>12 DEF Next, RunStep

-----------------------------------------------------------------------------
(* Sessions in memory.                                                     *)

\* What a step on memory keeps: the rows of sessions stay, and a process that has
\* a session had it before.
SameSessions ==
  /\ UNCHANGED bound
  /\ \A p \in Runtimes, s \in Sessions :
       cache'[p][s].here = cache[p][s].here /\ cache'[p][s].space = cache[p][s].space

LEMMA WalkKeepsSessions ==
  ASSUME TypeOK, RunsPlaced, SessionsBound, WorkspaceKept, NEW r \in RunIds, SameSessions,
         \/ run[r].pc \in Owning /\ Moves(r, Owning)
         \/ run[r].pc \in Waiting /\ (Leaves(r, "refused") \/ Leaves(r, "done"))
         \/ run[r].pc \in Owning /\ Leaves(r, "done")
         \/ UNCHANGED run
  PROVE  SessionsBound' /\ WorkspaceKept'
<1>1. ASSUME NEW q \in RunIds
      PROVE  \/ run'[q] = run[q]
             \/ /\ run[q].pc \in Owning /\ run'[q].pc \in Owning
                /\ run'[q].proc = run[q].proc
                /\ run'[q].sess = run[q].sess /\ run'[q].space = run[q].space
             \/ run'[q].pc \in {"refused", "done"}
  BY DEF Moves, Leaves
<1>2. \A q \in RunIds : run[q].pc \notin Settled => run[q].proc \in Runtimes /\ run[q].sess \in Sessions
  BY DEF RunsPlaced
<1>3. SessionsBound'
  BY <1>1, <1>2, SMTT(30) DEF SessionsBound, SameSessions, Owning, Settled
<1>4. WorkspaceKept'
  BY <1>1 DEF WorkspaceKept, SameSessions, Owning
<1> QED
  BY <1>3, <1>4

LEMMA SessionsStep ==
  ASSUME TypeOK, RunsPlaced, SessionsBound, WorkspaceKept, [Next]_vars
  PROVE  SessionsBound' /\ WorkspaceKept'
<1> USE DEF store, process, operator
<1>0. /\ run \in [RunIds -> Runs]
      /\ \A p \in Runtimes, s \in Sessions : cache[p][s] \in Kept
  BY DEF TypeOK
<1>a. \A q \in RunIds : run[q].pc \notin Settled => run[q].proc \in Runtimes /\ run[q].sess \in Sessions
  BY DEF RunsPlaced
<1>1. ASSUME NEW p \in Runtimes, NEW s \in Sessions, NEW w \in Workspaces, CreateSession(p, s, w)
      PROVE  SessionsBound' /\ WorkspaceKept'
  <2>1. Appears(p, s, w, "entry")
    BY <1>1, LaunchAppears DEF CreateSession
  <2>2. /\ bound[s] = Null /\ bound'[s] = w /\ w # Null
        /\ \A t \in Sessions \ {s} : bound'[t] = bound[t]
    BY <1>1, StoreAssumption DEF CreateSession, TypeOK
  <2>3. /\ cache'[p][s].here /\ cache'[p][s].space = w
        /\ \A q \in Runtimes, t \in Sessions :
             q # p \/ t # s => cache'[q][t] = cache[q][t]
    BY <1>1 DEF CreateSession, TypeOK
  <2>4. \A q \in Runtimes : ~cache[q][s].here
    BY <2>2 DEF SessionsBound
  <2>5. SessionsBound'
    <3>1. ASSUME NEW q \in Runtimes, NEW t \in Sessions, cache'[q][t].here
          PROVE  bound'[t] # Null /\ cache'[q][t].space = bound'[t]
      BY <2>2, <2>3, <2>4, <3>1 DEF SessionsBound
    <3>2. ASSUME NEW q \in RunIds
          PROVE  /\ run'[q].pc \in {"accepted", "entry"} \cup Owning =>
                      cache'[run'[q].proc][run'[q].sess].here
                 /\ run'[q].pc \in {"loading", "replaying"} => bound'[run'[q].sess] # Null
      <4>1. CASE q = runs + 1
        BY <2>1, <2>3, <4>1 DEF Appears, Owning
      <4>2. CASE q # runs + 1
        BY <1>a, <2>1, <2>2, <2>3, <4>2 DEF SessionsBound, Appears, Owning, Settled
      <4> QED
        BY <4>1, <4>2
    <3> QED
      BY <3>1, <3>2 DEF SessionsBound
  <2>6. WorkspaceKept'
    <3>1. \A q \in RunIds : run[q].pc \in Owning =>
            run[q].space \in Workspaces /\ run[q].space = bound[run[q].sess] /\ run[q].sess \in Sessions
      BY DEF WorkspaceKept, RunsPlaced, Owning, Settled
    <3> QED
      BY <2>1, <2>2, <3>1, StoreAssumption DEF WorkspaceKept, Appears, Owning
  <2> QED
    BY <2>5, <2>6
<1>2. ASSUME NEW p \in Runtimes, NEW s \in Sessions, NEW w \in Workspaces,
             (\E task \in BOOLEAN : StartRun(p, s, w, task)) \/ AcceptRun(p, s, w)
      PROVE  SessionsBound' /\ WorkspaceKept'
  <2>1. \/ cache[p][s].here /\ (Appears(p, s, w, "entry") \/ Appears(p, s, w, "accepted"))
        \/ bound[s] # Null /\ Appears(p, s, w, "loading")
    BY <1>2, LaunchAppears DEF StartRun, AcceptRun
  <2>2. UNCHANGED <<bound, cache>>
    BY <1>2 DEF StartRun, AcceptRun
  <2>3. SessionsBound'
    BY <2>1, <2>2 DEF SessionsBound, Appears, Owning
  <2>4. WorkspaceKept'
    BY <2>1, <2>2 DEF WorkspaceKept, Appears, Owning
  <2> QED
    BY <2>3, <2>4
<1>3. ASSUME NEW r \in RunIds, BeginAccepted(r) \/ LoadVersion(r)
      PROVE  SessionsBound' /\ WorkspaceKept'
  <2>1. \/ run[r].pc = "accepted" /\ Moves(r, {"entry"})
        \/ run[r].pc = "loading" /\ Moves(r, {"replaying"})
    BY <1>0, <1>3, GotoMoves DEF BeginAccepted, LoadVersion, Moves, Runs
  <2>2. UNCHANGED <<bound, cache>>
    BY <1>3 DEF BeginAccepted, LoadVersion
  <2>3. SessionsBound'
    BY <2>1, <2>2 DEF SessionsBound, Moves, Owning
  <2>4. WorkspaceKept'
    BY <2>1, <2>2 DEF WorkspaceKept, Moves, Owning
  <2> QED
    BY <2>3, <2>4
<1>4. ASSUME NEW r \in RunIds, LoadRows(r)
      PROVE  SessionsBound' /\ WorkspaceKept'
  <2> DEFINE p == run[r].proc
             s == run[r].sess
  <2>1. run[r].pc = "replaying" /\ p \in Runtimes /\ s \in Sessions /\ bound[s] # Null
    BY <1>4 DEF LoadRows, RunsPlaced, SessionsBound, Settled
  <2>2. CASE Hydratable(s)
    <3>1. Moves(r, {"entry"}) /\ UNCHANGED bound
      BY <1>0, <1>4, <2>2 DEF LoadRows, Moves, Runs
    <3>2. /\ cache'[p][s].here /\ cache'[p][s].space = bound[s]
          /\ \A q \in Runtimes, t \in Sessions :
               q # p \/ t # s => cache'[q][t] = cache[q][t]
      BY <1>4, <2>1, <2>2, LoadRowsEffect
    <3>3. SessionsBound'
      <4>1. \A q \in Runtimes, t \in Sessions :
              cache'[q][t].here => bound'[t] # Null /\ cache'[q][t].space = bound'[t]
        BY <2>1, <3>1, <3>2 DEF SessionsBound
      <4>2. \A q \in Runtimes, t \in Sessions : cache[q][t].here => cache'[q][t].here
        BY <3>2
      <4>3. \A q \in RunIds :
              /\ run'[q].pc \in {"accepted", "entry"} \cup Owning =>
                   cache'[run'[q].proc][run'[q].sess].here
              /\ run'[q].pc \in {"loading", "replaying"} => bound'[run'[q].sess] # Null
        <5>1. \A q \in RunIds : run'[q].pc \in {"accepted", "entry"} \cup Owning =>
                cache'[run'[q].proc][run'[q].sess].here
          <6>1. ASSUME NEW q \in RunIds \ {r}, run'[q].pc \in {"accepted", "entry"} \cup Owning
                PROVE  cache'[run'[q].proc][run'[q].sess].here
            <7>1. run'[q] = run[q]
              BY <3>1 DEF Moves
            <7>2. cache[run[q].proc][run[q].sess].here
              BY <6>1, <7>1 DEF SessionsBound
            <7>3. run[q].proc \in Runtimes /\ run[q].sess \in Sessions
              BY <6>1, <7>1, <1>a DEF Owning, Settled
            <7> QED
              BY <4>2, <7>1, <7>2, <7>3
          <6>2. cache'[run'[r].proc][run'[r].sess].here
            BY <3>1, <3>2 DEF Moves
          <6> QED
            BY <6>1, <6>2
        <5>2. \A q \in RunIds : run'[q].pc \in {"loading", "replaying"} =>
                bound'[run'[q].sess] # Null
          BY <1>a, <3>1, SMTT(30) DEF SessionsBound, Moves
        <5> QED
          BY <5>1, <5>2
      <4> QED
        BY <4>1, <4>3 DEF SessionsBound
    <3>4. WorkspaceKept'
      BY <3>1 DEF WorkspaceKept, Moves, Owning
    <3> QED
      BY <3>3, <3>4
  <2>3. CASE ~Hydratable(s)
    <3>1. Leaves(r, "refused")
      BY <1>0, <1>4, <2>3, SettleLeaves DEF LoadRows
    <3>2. SameSessions /\ run[r].pc \in Waiting
      BY <1>4, <2>3 DEF LoadRows, SameSessions, Waiting
    <3> QED
      BY <3>1, <3>2, WalkKeepsSessions
  <2> QED
    BY <2>2, <2>3
<1>5. ASSUME NEW r \in RunIds, Enter(r)
      PROVE  SessionsBound' /\ WorkspaceKept'
  <2>1. CASE Admissible(r) /\ lock[run[r].sess] = 0
    <3>1. Moves(r, {"task"}) /\ UNCHANGED <<bound, cache>>
      BY <1>0, <1>5, <2>1, GotoMoves DEF Enter, Moves
    <3>2. run[r].pc = "entry" /\ run[r].proc \in Runtimes /\ run[r].sess \in Sessions
      BY <1>5, <1>a DEF Enter, Settled
    <3>3. run[r].space = bound[run[r].sess]
      BY <2>1, <3>2 DEF Admissible, SessionsBound
    <3>4. SessionsBound'
      BY <3>1, <3>2 DEF SessionsBound, Moves, Owning
    <3>5. WorkspaceKept'
      BY <3>1, <3>3 DEF WorkspaceKept, Moves
    <3> QED
      BY <3>4, <3>5
  <2>2. CASE ~(Admissible(r) /\ lock[run[r].sess] = 0)
    <3>1. Leaves(r, "refused")
      BY <1>0, <1>5, <2>2, SettleLeaves DEF Enter
    <3>2. SameSessions /\ run[r].pc \in Waiting
      BY <1>5 DEF Enter, SameSessions, Waiting
    <3> QED
      BY <3>1, <3>2, WalkKeepsSessions
  <2> QED
    BY <2>1, <2>2
<1>6. ASSUME NEW r \in RunIds,
             \/ SkillsFail(r) \/ OpenIntent(r) \/ CloseIntent(r) \/ JournalFails(r) \/ FinishRun(r)
             \/ ContinueTask(r)
      PROVE  SessionsBound' /\ WorkspaceKept'
  <2>1. run[r].pc \in Owning /\ Moves(r, Owning)
    BY <1>0, <1>6, GotoMoves DEF SkillsFail, OpenIntent, CloseIntent, JournalFails, ContinueTask, FinishRun, Moves, Owning
  <2>2. SameSessions
    BY <1>6 DEF SkillsFail, OpenIntent, CloseIntent, JournalFails, ContinueTask, FinishRun, SameSessions
  <2> QED
    BY <2>1, <2>2, WalkKeepsSessions
<1>7. ASSUME NEW r \in RunIds, CommitTask(r) \/ CommitCall(r) \/ CommitResult(r) \/ CommitAnswer(r)
      PROVE  SessionsBound' /\ WorkspaceKept'
  <2>1. run[r].pc \in Owning /\ UNCHANGED bound
    BY <1>7 DEF CommitTask, CommitCall, CommitResult, CommitAnswer, Owning
  <2>2. run[r].proc \in Runtimes /\ run[r].sess \in Sessions
    BY <1>a, <2>1 DEF Owning, Settled
  <2>3. \E m, next : AppendMessage(r, m, next) /\ next \in {"loop", "journal", "close", "release"}
    BY <1>7 DEF CommitTask, CommitCall, CommitResult, CommitAnswer
  <2>4. SameSessions /\ \E next \in {"loop", "journal", "close", "release"} : Moves(r, {next, "release"})
    BY <2>1, <2>2, <2>3, AppendEffect DEF SameSessions
  <2>5. Moves(r, Owning)
    BY <2>4 DEF Moves, Owning
  <2> QED
    BY <2>1, <2>4, <2>5, WalkKeepsSessions
<1>8. ASSUME NEW r \in RunIds, Release(r)
      PROVE  SessionsBound' /\ WorkspaceKept'
  <2>1. run[r].pc \in Owning /\ Leaves(r, "done")
    BY <1>0, <1>8, SettleLeaves DEF Release, Owning
  <2>2. SameSessions
    BY <1>8 DEF Release, SameSessions
  <2> QED
    BY <2>1, <2>2, WalkKeepsSessions
<1>9. ASSUME NEW p \in Runtimes, Kill(p)
      PROVE  SessionsBound' /\ WorkspaceKept'
  <2>1. \A q \in RunIds :
          \/ run'[q] = run[q] /\ (run[q].proc # p \/ run[q].pc \in Settled)
          \/ run'[q].pc = "killed"
    BY <1>9 DEF Kill, Over, NoRun
  <2>2. /\ UNCHANGED bound
        /\ \A q \in Runtimes, s \in Sessions :
             IF q = p THEN ~cache'[q][s].here ELSE cache'[q][s] = cache[q][s]
    BY <1>9 DEF Kill, NotCached, TypeOK
  <2>3. SessionsBound'
    BY <1>a, <2>1, <2>2 DEF SessionsBound, Owning, Settled
  <2>4. WorkspaceKept'
    BY <2>1, <2>2 DEF WorkspaceKept, Owning
  <2> QED
    BY <2>3, <2>4
<1>10. CASE UNCHANGED <<run, bound, cache>>
  BY <1>10 DEF SessionsBound, WorkspaceKept
<1> QED
  BY <1>1, <1>2, <1>3, <1>4, <1>5, <1>6, <1>7, <1>8, <1>9, <1>10
     DEF Next, Begin, RunStep, Tear, OperatorStep, ChooseCall, OperatorLoads, OperatorAppends,
         OperatorMarks, OperatorStops, vars

-----------------------------------------------------------------------------
(* One statement at a time, and the version a process knows.               *)

\* A step that moves one run, into a synchronous stretch only if its process is
\* not in one already.
LEMMA OrderKept ==
  ASSUME OneAtATime, RunsPlaced, NEW r \in RunIds,
         \A q \in RunIds \ {r} : run'[q] = run[q],
         run'[r].pc \in Synchronous =>
           \/ ~Busy(run'[r].proc)
           \/ run[r].pc \in Synchronous /\ run'[r].proc = run[r].proc,
         \A p \in Runtimes, s \in Sessions :
           cache'[p][s].here => \/ cache[p][s].here
                                \/ p = run'[r].proc /\ run'[r].pc \in Synchronous,
         run'[r].pc \in {"loading", "replaying"} => ~cache'[run'[r].proc][run'[r].sess].here
  PROVE  OneAtATime'
<1>1. ASSUME NEW q \in RunIds \ {r}, run'[q].pc \in Synchronous, run'[r].pc \in Synchronous
      PROVE  run'[q].proc # run'[r].proc
  <2>1. run[q] = run'[q]
    OBVIOUS
  <2>2. CASE ~Busy(run'[r].proc)
    BY <1>1, <2>1, <2>2 DEF Busy
  <2>3. CASE run[r].pc \in Synchronous /\ run'[r].proc = run[r].proc
    BY <1>1, <2>1, <2>3 DEF OneAtATime
  <2> QED
    BY <1>1, <2>2, <2>3
<1>2. ASSUME NEW q \in RunIds, NEW u \in RunIds,
             run'[q].pc \in Synchronous, run'[u].pc \in Synchronous, run'[q].proc = run'[u].proc
      PROVE  q = u
  BY <1>1, <1>2 DEF OneAtATime
<1>3. ASSUME NEW q \in RunIds, run'[q].pc \in {"loading", "replaying"}
      PROVE  ~cache'[run'[q].proc][run'[q].sess].here
  <2>1. CASE q = r
    BY <1>3, <2>1
  <2>2. CASE q # r
    <3>1. run'[q] = run[q] /\ run'[q].pc \in Synchronous
      BY <1>3, <2>2 DEF Synchronous
    <3>2. run[q].proc \in Runtimes /\ run[q].sess \in Sessions
      BY <1>3, <3>1 DEF RunsPlaced, Settled
    <3>3. ~cache[run[q].proc][run[q].sess].here
      BY <1>3, <3>1 DEF OneAtATime
    <3>4. ~(run[q].proc = run'[r].proc /\ run'[r].pc \in Synchronous)
      BY <1>1, <2>2, <3>1
    <3> QED
      BY <3>1, <3>2, <3>3, <3>4
  <2> QED
    BY <2>1, <2>2
<1> QED
  BY <1>2, <1>3 DEF OneAtATime

LEMMA OrderStep ==
  ASSUME TypeOK, RunsPlaced, OneAtATime, [Next]_vars
  PROVE  OneAtATime'
<1> USE DEF store, process, operator
<1>0. run \in [RunIds -> Runs]
  BY DEF TypeOK
<1>a. \A q \in RunIds : run[q].pc \notin Settled => run[q].proc \in Runtimes /\ run[q].sess \in Sessions
  BY DEF RunsPlaced
<1>1. ASSUME NEW p \in Runtimes, NEW s \in Sessions, NEW w \in Workspaces, CreateSession(p, s, w)
      PROVE  OneAtATime'
  <2>1. Appears(p, s, w, "entry") /\ ~Busy(p)
    BY <1>1, LaunchAppears DEF CreateSession
  <2>2. \A q \in Runtimes, t \in Sessions : q # p \/ t # s => cache'[q][t] = cache[q][t]
    BY <1>1 DEF CreateSession, TypeOK
  <2> QED
    BY <2>1, <2>2, OrderKept DEF Appears, Synchronous
<1>2. ASSUME NEW p \in Runtimes, NEW s \in Sessions, NEW w \in Workspaces, NEW task \in BOOLEAN,
             StartRun(p, s, w, task)
      PROVE  OneAtATime'
  <2>1. /\ Appears(p, s, w, IF cache[p][s].here THEN "entry" ELSE "loading")
        /\ ~Busy(p) /\ UNCHANGED cache
    BY <1>2, LaunchAppears DEF StartRun
  <2> QED
    BY <2>1, OrderKept DEF Appears, Synchronous
<1>3. ASSUME NEW p \in Runtimes, NEW s \in Sessions, NEW w \in Workspaces, AcceptRun(p, s, w)
      PROVE  OneAtATime'
  <2>1. Appears(p, s, w, "accepted") /\ UNCHANGED cache
    BY <1>3, LaunchAppears DEF AcceptRun
  <2> QED
    BY <2>1, OrderKept DEF Appears, Synchronous
<1>4. ASSUME NEW r \in RunIds,
             \/ Moves(r, Synchronous \ {"loading", "replaying"})
             \/ Moves(r, {"loop", "tool"}),
             run[r].pc \in Synchronous \/ ~Busy(run[r].proc),
             \A p \in Runtimes, s \in Sessions : cache'[p][s].here = cache[p][s].here
      PROVE  OneAtATime'
  <2>1. run'[r].proc = run[r].proc /\ run'[r].pc \notin {"loading", "replaying"}
    BY <1>4 DEF Moves
  <2>2. \A q \in RunIds \ {r} : run'[q] = run[q]
    BY <1>4 DEF Moves
  <2> QED
    BY <1>4, <2>1, <2>2, OrderKept
<1>5. ASSUME NEW r \in RunIds, Leaves(r, "refused") \/ Leaves(r, "done"), UNCHANGED cache
      PROVE  OneAtATime'
  <2>1. run'[r].pc \notin Synchronous /\ \A q \in RunIds \ {r} : run'[q] = run[q]
    BY <1>5 DEF Leaves, Synchronous
  <2>2. run'[r].pc \notin {"loading", "replaying"}
    BY <2>1 DEF Synchronous
  <2> QED
    BY <1>5, <2>1, <2>2, OrderKept
<1>6. ASSUME NEW r \in RunIds, BeginAccepted(r)
      PROVE  OneAtATime'
  BY <1>0, <1>4, <1>6, GotoMoves DEF BeginAccepted, Moves, Synchronous
<1>7. ASSUME NEW r \in RunIds, LoadVersion(r)
      PROVE  OneAtATime'
  <2>1. run[r].pc = "loading" /\ Moves(r, {"replaying"}) /\ UNCHANGED cache
    BY <1>0, <1>7 DEF LoadVersion, Moves, Runs
  <2>2. ~cache[run[r].proc][run[r].sess].here
    BY <2>1 DEF OneAtATime
  <2> QED
    BY <2>1, <2>2, OrderKept DEF Moves, Synchronous
<1>8. ASSUME NEW r \in RunIds, LoadRows(r)
      PROVE  OneAtATime'
  <2>1. run[r].pc = "replaying" /\ run[r].proc \in Runtimes /\ run[r].sess \in Sessions
    BY <1>8, <1>a DEF LoadRows, Settled
  <2>2. CASE Hydratable(run[r].sess)
    <3>1. Moves(r, {"entry"})
      BY <1>0, <1>8, <2>2 DEF LoadRows, Moves, Runs
    <3>2. \A p \in Runtimes, s \in Sessions : cache'[p][s].here => cache[p][s].here \/ p = run[r].proc
      BY <1>8, <2>1, <2>2, LoadRowsEffect
    <3> QED
      BY <2>1, <3>1, <3>2, OrderKept DEF Moves, Synchronous
  <2>3. CASE ~Hydratable(run[r].sess)
    BY <1>0, <1>5, <1>8, <2>3, SettleLeaves DEF LoadRows
  <2> QED
    BY <2>2, <2>3
<1>9. ASSUME NEW r \in RunIds, Enter(r)
      PROVE  OneAtATime'
  <2>1. CASE Admissible(r) /\ lock[run[r].sess] = 0
    <3>1. Moves(r, {"task"})
      BY <1>0, <1>9, <2>1, GotoMoves DEF Enter
    <3>2. run[r].pc \in Synchronous /\ UNCHANGED cache
      BY <1>9 DEF Enter, Synchronous
    <3> QED
      BY <1>4, <3>1, <3>2 DEF Moves, Synchronous
  <2>2. CASE ~(Admissible(r) /\ lock[run[r].sess] = 0)
    BY <1>0, <1>5, <1>9, <2>2, SettleLeaves DEF Enter
  <2> QED
    BY <2>1, <2>2
<1>10. ASSUME NEW r \in RunIds,
              \/ SkillsFail(r) \/ OpenIntent(r) \/ CloseIntent(r) \/ JournalFails(r) \/ FinishRun(r)
             \/ ContinueTask(r)
       PROVE  OneAtATime'
  <2>1. UNCHANGED cache /\ (run[r].pc \in Synchronous \/ ~Busy(run[r].proc))
    BY <1>10 DEF SkillsFail, OpenIntent, CloseIntent, JournalFails, ContinueTask, FinishRun, Synchronous
  <2>2. Moves(r, {"release"}) \/ Moves(r, {"loop"}) \/ Moves(r, {"tool"})
    BY <1>0, <1>10, GotoMoves DEF SkillsFail, OpenIntent, CloseIntent, JournalFails, ContinueTask, FinishRun
  <2> QED
    BY <1>4, <2>1, <2>2 DEF Moves, Synchronous
<1>11. ASSUME NEW r \in RunIds, CommitTask(r) \/ CommitCall(r) \/ CommitResult(r) \/ CommitAnswer(r)
       PROVE  OneAtATime'
  <2>1. run[r].pc \in Synchronous \/ ~Busy(run[r].proc)
    BY <1>11 DEF CommitTask, CommitCall, CommitResult, CommitAnswer, Synchronous
  <2>2. run[r].proc \in Runtimes /\ run[r].sess \in Sessions
    BY <1>a, <1>11 DEF CommitTask, CommitCall, CommitResult, CommitAnswer, Settled
  <2>3. \E m, next : AppendMessage(r, m, next) /\ next \in {"loop", "journal", "close", "release"}
    BY <1>11 DEF CommitTask, CommitCall, CommitResult, CommitAnswer
  <2>4. /\ \E next \in {"loop", "journal", "close", "release"} : Moves(r, {next, "release"})
        /\ \A p \in Runtimes, s \in Sessions : cache'[p][s].here = cache[p][s].here
    BY <2>2, <2>3, AppendEffect
  <2> QED
    BY <1>4, <2>1, <2>4 DEF Moves, Synchronous
<1>12. ASSUME NEW r \in RunIds, Release(r)
       PROVE  OneAtATime'
  BY <1>0, <1>5, <1>12, SettleLeaves DEF Release
<1>13. ASSUME NEW p \in Runtimes, Kill(p)
       PROVE  OneAtATime'
  <2>1. \A q \in RunIds : \/ run'[q] = run[q] /\ (run[q].proc # p \/ run[q].pc \in Settled)
                          \/ run'[q].pc = "killed"
    BY <1>13 DEF Kill, Over, NoRun
  <2>2. \A q \in Runtimes : q # p => cache'[q] = cache[q]
    BY <1>13 DEF Kill, TypeOK
  <2> QED
    BY <1>a, <2>1, <2>2 DEF OneAtATime, Synchronous, Settled
<1>14. CASE UNCHANGED <<run, cache>>
  BY <1>14 DEF OneAtATime
<1> QED
  BY <1>1, <1>2, <1>3, <1>6, <1>7, <1>8, <1>9, <1>10, <1>11, <1>12, <1>13, <1>14
     DEF Next, Begin, RunStep, Tear, OperatorStep, ChooseCall, OperatorLoads, OperatorAppends,
         OperatorMarks, OperatorStops, vars

LEMMA StaleStep ==
  ASSUME TypeOK, RunsPlaced, SessionsBound, OneAtATime, [Next]_vars,
         NEW p \in Runtimes, NEW s \in Sessions,
         cache[p][s].here, cache[p][s].known # version[s]
  PROVE  cache'[p][s] = NotCached \/ cache'[p][s].known = cache[p][s].known
<1> USE DEF store, process, operator
<1>1. ASSUME NEW q \in Runtimes, NEW t \in Sessions, NEW w \in Workspaces, CreateSession(q, t, w)
      PROVE  cache'[p][s] = cache[p][s]
  <2>1. bound[t] = Null /\ bound[s] # Null
    BY <1>1 DEF CreateSession, SessionsBound
  <2> QED
    BY <1>1, <2>1 DEF CreateSession, TypeOK
<1>2. ASSUME NEW r \in RunIds, LoadRows(r)
      PROVE  cache'[p][s] = cache[p][s]
  <2>1. run[r].proc \in Runtimes /\ run[r].sess \in Sessions /\ ~cache[run[r].proc][run[r].sess].here
    BY <1>2 DEF LoadRows, RunsPlaced, OneAtATime, Settled
  <2>2. CASE Hydratable(run[r].sess)
    <3>1. \A q \in Runtimes, t \in Sessions :
            q # run[r].proc \/ t # run[r].sess => cache'[q][t] = cache[q][t]
      BY <1>2, <2>1, <2>2, LoadRowsEffect
    <3> QED
      BY <2>1, <3>1
  <2>3. CASE ~Hydratable(run[r].sess)
    BY <1>2, <2>3 DEF LoadRows
  <2> QED
    BY <2>2, <2>3
<1>3. ASSUME NEW r \in RunIds, CommitTask(r) \/ CommitCall(r) \/ CommitResult(r) \/ CommitAnswer(r)
      PROVE  cache'[p][s].known = cache[p][s].known
  <2>1. run[r].proc \in Runtimes /\ run[r].sess \in Sessions
    BY <1>3 DEF CommitTask, CommitCall, CommitResult, CommitAnswer, RunsPlaced, Settled
  <2>2. \E m, next : AppendMessage(r, m, next)
    BY <1>3 DEF CommitTask, CommitCall, CommitResult, CommitAnswer
  <2> QED
    BY <2>1, <2>2, AppendEffect
<1>4. ASSUME NEW q \in Runtimes, Kill(q)
      PROVE  cache'[p][s] = NotCached \/ cache'[p][s] = cache[p][s]
  BY <1>4 DEF Kill, TypeOK
<1>5. CASE UNCHANGED cache
  BY <1>5
<1> QED
  BY <1>1, <1>2, <1>3, <1>4, <1>5
     DEF Next, Begin, StartRun, AcceptRun, RunStep, BeginAccepted, LoadVersion, Enter, OpenIntent,
         CloseIntent, FinishRun, ContinueTask, Release, SkillsFail, JournalFails, Tear, OperatorStep,
         ChooseCall, OperatorLoads, OperatorAppends, OperatorMarks, OperatorStops, vars

-----------------------------------------------------------------------------
(* What a run says before its locks: nothing.                              *)

\* No message of a row or of a log in memory is of a call of run r.
Unheard(r, sequence) == \A i \in 1..Len(sequence) : sequence[i].call[1] # r

LEMMA AppendUnheard ==
  ASSUME NEW S, NEW log \in Seq(S), NEW m \in S, NEW r, Unheard(r, log), m.call[1] # r
  PROVE  Unheard(r, Append(log, m))
<1>1. ASSUME NEW i \in 1..Len(Append(log, m))
      PROVE  Append(log, m)[i] = m \/ (i \in 1..Len(log) /\ Append(log, m)[i] = log[i])
  OBVIOUS
<1> QED
  BY <1>1 DEF Unheard

\* A step that speaks for a run past its locks only, or repeats what is said.
LEMMA SilenceKept ==
  ASSUME TypeOK, NothingSaid,
         \A q \in RunIds : run'[q].pc \in Silent => run[q].pc \in Silent,
         \A q \in RunIds : run[q].pc \in Silent =>
           /\ \A s \in Sessions : \A i \in 1..Len(rows'[s]) : rows'[s][i].message.call[1] # q
           /\ \A p \in Runtimes, s \in Sessions : Unheard(q, cache'[p][s].log)
           /\ \A c \in Calls : c[1] = q => journal'[c] = "absent"
           /\ op'.pc # "idle" => op'.call[1] # q
  PROVE  NothingSaid'
  BY DEF NothingSaid, Unheard

LEMMA RowsSaid ==
  ASSUME TypeOK, NothingSaid, NEW q \in RunIds, run[q].pc \in Silent,
         NEW m \in Messages, m.call[1] # q,
         \A s \in Sessions : rows'[s] = rows[s] \/ rows'[s] = Append(rows[s], Row(m))
  PROVE  \A s \in Sessions : \A i \in 1..Len(rows'[s]) : rows'[s][i].message.call[1] # q
<1>1. ASSUME NEW s \in Sessions, NEW i \in 1..Len(rows'[s])
      PROVE  rows'[s][i].message.call[1] # q
  <2>1. rows[s] \in Seq(Rows) /\ Row(m).message = m
    BY DEF TypeOK, Row
  <2>2. \A j \in 1..Len(rows[s]) : rows[s][j].message.call[1] # q
    BY DEF NothingSaid
  <2>3. rows'[s][i] = Row(m) \/ (i \in 1..Len(rows[s]) /\ rows'[s][i] = rows[s][i])
    <3>1. CASE rows'[s] = rows[s]
      BY <3>1
    <3>2. CASE rows'[s] = Append(rows[s], Row(m))
      BY <2>1, <3>2
    <3> QED
      BY <3>1, <3>2
  <2> QED
    BY <2>1, <2>2, <2>3
<1> QED
  BY <1>1

LEMMA SilenceStep ==
  ASSUME TypeOK, RunsPlaced, NothingSaid, RefusedPlaced, [Next]_vars
  PROVE  NothingSaid' /\ RefusedPlaced'
<1> USE DEF store, process, operator
<1>0. /\ run \in [RunIds -> Runs]
      /\ \A p \in Runtimes, s \in Sessions : cache[p][s] \in Kept /\ cache[p][s].log \in Seq(Messages)
  BY DEF TypeOK, Kept
<1>a. \A q \in RunIds : run[q].pc \notin Settled => run[q].proc \in Runtimes /\ run[q].sess \in Sessions
  BY DEF RunsPlaced
<1>b. \A q \in RunIds : run[q].pc \in Silent =>
        /\ \A s \in Sessions : \A i \in 1..Len(rows[s]) : rows[s][i].message.call[1] # q
        /\ \A p \in Runtimes, s \in Sessions : Unheard(q, cache[p][s].log)
        /\ \A c \in Calls : c[1] = q => journal[c] = "absent"
        /\ op.pc # "idle" => op.call[1] # q
  BY DEF NothingSaid, Unheard
<1>1. ASSUME NEW p \in Runtimes, NEW s \in Sessions, NEW w \in Workspaces, Begin(p, s, w)
      PROVE  NothingSaid' /\ RefusedPlaced'
  <2>1. \E task \in BOOLEAN, place \in Waiting : Launch(p, s, w, task, place)
    BY <1>1 DEF Begin, CreateSession, StartRun, AcceptRun, Waiting
  <2>2. \E place \in Waiting : Appears(p, s, w, place)
    BY <2>1, LaunchAppears
  <2>3. run[runs + 1].pc = "none"
    BY <2>2, ConstantTypes DEF Appears, RunsPlaced, TypeOK
  <2>4. \A q \in RunIds : run'[q].pc \in Silent => run[q].pc \in Silent
    BY <2>2, <2>3 DEF Appears, Silent
  <2>5. UNCHANGED <<rows, journal, op>>
    BY <1>1 DEF Begin, CreateSession, StartRun, AcceptRun
  <2>6. ASSUME NEW q \in RunIds, run[q].pc \in Silent, NEW u \in Runtimes, NEW t \in Sessions
        PROVE  Unheard(q, cache'[u][t].log)
    <3>1. CASE CreateSession(p, s, w)
      <4>1. cache'[u][t] = cache[u][t] \/ cache'[u][t].log = <<>>
        BY <3>1 DEF CreateSession, TypeOK
      <4> QED
        BY <1>b, <2>6, <4>1 DEF Unheard
    <3>2. CASE UNCHANGED cache
      BY <1>b, <2>6, <3>2
    <3> QED
      BY <1>1, <3>1, <3>2 DEF Begin, StartRun, AcceptRun
  <2>7. NothingSaid'
    BY <1>b, <2>4, <2>5, <2>6, SilenceKept
  <2>8. RefusedPlaced'
    BY <2>2 DEF Appears, Waiting, RefusedPlaced
  <2> QED
    BY <2>7, <2>8
<1>2. ASSUME NEW r \in RunIds,
             \/ Moves(r, Waiting) /\ run[r].pc \in Waiting
             \/ Moves(r, Owning)
             \/ Leaves(r, "refused") /\ run[r].pc \in Waiting
             \/ Leaves(r, "done")
      PROVE  /\ \A q \in RunIds : run'[q].pc \in Silent => run[q].pc \in Silent
             /\ RefusedPlaced'
  <2>1. \A q \in RunIds : run'[q].pc \in Silent => run[q].pc \in Silent
    BY <1>2 DEF Moves, Leaves, Waiting, Owning, Silent
  <2>2. RefusedPlaced'
    BY <1>2, <1>a DEF Moves, Leaves, Waiting, Owning, RefusedPlaced, Settled
  <2> QED
    BY <2>1, <2>2
<1>3. ASSUME NEW r \in RunIds,
             \/ BeginAccepted(r) \/ LoadVersion(r) \/ Enter(r) \/ SkillsFail(r) \/ FinishRun(r)
             \/ JournalFails(r) \/ Release(r) \/ ContinueTask(r)
             \/ (LoadRows(r) /\ ~Hydratable(run[r].sess))
      PROVE  NothingSaid' /\ RefusedPlaced'
  <2>1. \/ Moves(r, Waiting) /\ run[r].pc \in Waiting
        \/ Moves(r, Owning)
        \/ Leaves(r, "refused") /\ run[r].pc \in Waiting
        \/ Leaves(r, "done")
    <3>1. CASE BeginAccepted(r) \/ LoadVersion(r)
      BY <1>0, <3>1, GotoMoves DEF BeginAccepted, LoadVersion, Moves, Waiting, Runs
    <3>2. CASE Enter(r)
      BY <1>0, <3>2, GotoMoves, SettleLeaves DEF Enter, Moves, Waiting, Owning
    <3>3. CASE SkillsFail(r) \/ JournalFails(r) \/ FinishRun(r) \/ ContinueTask(r)
      BY <1>0, <3>3, GotoMoves DEF SkillsFail, JournalFails, FinishRun, ContinueTask, Moves, Owning
    <3>4. CASE Release(r)
      BY <1>0, <3>4, SettleLeaves DEF Release
    <3>5. CASE LoadRows(r) /\ ~Hydratable(run[r].sess)
      BY <1>0, <3>5, SettleLeaves DEF LoadRows, Waiting
    <3> QED
      BY <1>3, <3>1, <3>2, <3>3, <3>4, <3>5
  <2>2. UNCHANGED <<rows, cache, journal, op>>
    BY <1>3 DEF BeginAccepted, LoadVersion, Enter, SkillsFail, JournalFails, FinishRun, ContinueTask, Release,
              LoadRows
  <2> QED
    BY <1>2, <1>b, <2>1, <2>2, SilenceKept
<1>4. ASSUME NEW r \in RunIds, LoadRows(r), Hydratable(run[r].sess)
      PROVE  NothingSaid' /\ RefusedPlaced'
  <2>1. run[r].pc \in Waiting /\ run[r].proc \in Runtimes /\ run[r].sess \in Sessions
    BY <1>4, <1>a DEF LoadRows, Waiting, Settled
  <2>2. Moves(r, Waiting) /\ UNCHANGED <<rows, journal, op>>
    BY <1>0, <1>4 DEF LoadRows, Moves, Runs, Waiting
  <2>3. ASSUME NEW q \in RunIds, run[q].pc \in Silent, NEW u \in Runtimes, NEW t \in Sessions
        PROVE  Unheard(q, cache'[u][t].log)
    <3>1. CASE u = run[r].proc /\ t = run[r].sess
      <4>1. cache'[u][t].log = Loaded(t)
        BY <1>4, <2>1, <3>1, LoadRowsEffect
      <4>2. \A i \in 1..Len(Loaded(t)) : i \in 1..Len(rows[t]) /\ Loaded(t)[i] = rows[t][i].message
        BY LoadedType DEF TypeOK
      <4> QED
        BY <1>b, <2>3, <4>1, <4>2 DEF Unheard
    <3>2. CASE ~(u = run[r].proc /\ t = run[r].sess)
      <4>1. cache'[u][t] = cache[u][t]
        BY <1>4, <2>1, <3>2, LoadRowsEffect, ZenonT(30)
      <4>2. Unheard(q, cache[u][t].log)
        BY <1>b, <2>3
      <4> QED
        BY <4>1, <4>2 DEF Unheard
    <3> QED
      BY <3>1, <3>2
  <2> QED
    BY <1>2, <1>b, <2>1, <2>2, <2>3, SilenceKept
<1>5. ASSUME NEW r \in RunIds, CommitTask(r) \/ CommitCall(r) \/ CommitResult(r) \/ CommitAnswer(r)
      PROVE  NothingSaid' /\ RefusedPlaced'
  <2>1. run[r].pc \in Owning /\ run[r].pc \notin Silent /\ UNCHANGED <<journal, op>>
    BY <1>5 DEF CommitTask, CommitCall, CommitResult, CommitAnswer, Owning, Silent
  <2>2. run[r].proc \in Runtimes /\ run[r].sess \in Sessions
    BY <1>a, <2>1 DEF Owning, Settled
  <2>3. PICK m \in Messages, next \in {"loop", "journal", "close", "release"} :
          m.call[1] = r /\ AppendMessage(r, m, next)
    <3>1. CASE CommitTask(r)
      BY <3>1, MessageTypes DEF CommitTask, UserMessage
    <3>2. CASE CommitCall(r)
      <4>1. <<r, run[r].calls + 1>> \in Calls
        BY <3>2, ConstantTypes DEF CommitCall, TypeOK, Runs, Calls
      <4> QED
        BY <3>2, <4>1, MessageTypes DEF CommitCall, AssistantMessage
    <3>3. CASE CommitResult(r)
      <4>1. ToolResult(CurrentCall(r), "run") \in Messages /\ ToolResult(CurrentCall(r), "run").call[1] = r
        BY <1>0 DEF ToolResult, CurrentCall, Messages, Runs
      <4> QED
        BY <3>3, <4>1 DEF CommitResult
    <3>4. CASE CommitAnswer(r)
      BY <3>4, MessageTypes DEF CommitAnswer, FinalAnswer
    <3> QED
      BY <1>5, <3>1, <3>2, <3>3, <3>4
  <2>4. Moves(r, Owning)
    BY <2>2, <2>3, AppendEffect DEF Moves, Owning
  <2>5. ASSUME NEW q \in RunIds, run[q].pc \in Silent
        PROVE  /\ \A s \in Sessions : \A i \in 1..Len(rows'[s]) : rows'[s][i].message.call[1] # q
               /\ \A p \in Runtimes, s \in Sessions : Unheard(q, cache'[p][s].log)
    <3>1. m.call[1] # q
      BY <2>1, <2>3, <2>5
    <3>2. \A s \in Sessions : rows'[s] = rows[s] \/ rows'[s] = Append(rows[s], Row(m))
      BY <2>2, <2>3, AppendEffect
    <3>3. \A s \in Sessions : \A i \in 1..Len(rows'[s]) : rows'[s][i].message.call[1] # q
      BY <2>5, <3>1, <3>2, RowsSaid
    <3>4. ASSUME NEW p \in Runtimes, NEW s \in Sessions
          PROVE  Unheard(q, cache'[p][s].log)
      <4>1. cache'[p][s].log = cache[p][s].log \/ cache'[p][s].log = Append(cache[p][s].log, m)
        BY <2>2, <2>3, AppendEffect, ZenonT(30)
      <4>2. Unheard(q, cache[p][s].log) /\ cache[p][s].log \in Seq(Messages)
        BY <1>0, <1>b, <2>5
      <4>3. Unheard(q, Append(cache[p][s].log, m))
        BY <3>1, <4>2, AppendUnheard
      <4> QED
        BY <4>1, <4>2, <4>3 DEF Unheard
    <3> QED
      BY <3>3, <3>4
  <2> QED
    BY <1>2, <1>b, <2>1, <2>4, <2>5, SilenceKept
<1>6. ASSUME NEW r \in RunIds, OpenIntent(r) \/ CloseIntent(r)
      PROVE  NothingSaid' /\ RefusedPlaced'
  <2>1. run[r].pc \notin Silent /\ UNCHANGED <<rows, cache, op>>
    BY <1>6 DEF OpenIntent, CloseIntent, Silent
  <2>2. Moves(r, Owning)
    BY <1>0, <1>6, GotoMoves DEF OpenIntent, CloseIntent, Moves, Owning
  <2>3. ASSUME NEW q \in RunIds, run[q].pc \in Silent, NEW c \in Calls, c[1] = q
        PROVE  journal'[c] = "absent"
    <3>1. c # CurrentCall(r)
      BY <2>1, <2>3 DEF CurrentCall
    <3> QED
      BY <1>6, <1>b, <2>3, <3>1 DEF OpenIntent, CloseIntent, TypeOK
  <2> QED
    BY <1>2, <1>b, <2>1, <2>2, <2>3, SilenceKept
<1>7. ASSUME NEW p \in Runtimes, Kill(p)
      PROVE  NothingSaid' /\ RefusedPlaced'
  <2>1. \A q \in RunIds : run'[q] = run[q] \/ run'[q].pc = "killed"
    BY <1>7 DEF Kill, Over, NoRun
  <2>2. \A q \in RunIds : run'[q].pc \in Silent => run[q].pc \in Silent
    BY <2>1 DEF Silent
  <2>3. UNCHANGED <<rows, journal, op>>
    BY <1>7 DEF Kill
  <2>4. \A u \in Runtimes, t \in Sessions : cache'[u][t] = cache[u][t] \/ cache'[u][t].log = <<>>
    BY <1>7 DEF Kill, NotCached, TypeOK
  <2>5. \A q \in RunIds : run[q].pc \in Silent =>
          \A u \in Runtimes, t \in Sessions : Unheard(q, cache'[u][t].log)
    BY <1>b, <2>4 DEF Unheard
  <2>6. NothingSaid'
    BY <1>b, <2>2, <2>3, <2>5, SilenceKept
  <2> QED
    BY <2>1, <2>6 DEF RefusedPlaced
<1>8. ASSUME NEW s \in Sessions, Tear(s)
      PROVE  NothingSaid' /\ RefusedPlaced'
  <2>1. UNCHANGED <<run, cache, journal, op>>
    BY <1>8 DEF Tear
  <2> DEFINE n == Len(rows[s])
  <2>2. rows[s] \in Seq(Rows) /\ n \in 1..Len(rows[s])
    BY <1>8, EmptySeq DEF Tear, TypeOK
  <2>3. rows' = [rows EXCEPT ![s] = [rows[s] EXCEPT ![n] = [rows[s][n] EXCEPT !.whole = FALSE]]]
    BY <1>8, <2>2 DEF Tear, TypeOK, Rows
  <2>4. rows[s][n] \in Rows /\ [rows[s][n] EXCEPT !.whole = FALSE].message = rows[s][n].message
    <3>1. rows[s][n] \in Rows
      BY <2>2
    <3> QED
      BY <3>1 DEF Rows
  <2>5. ASSUME NEW t \in Sessions
        PROVE  /\ Len(rows'[t]) = Len(rows[t])
               /\ \A i \in 1..Len(rows[t]) : rows'[t][i].message = rows[t][i].message
    BY <2>2, <2>3, <2>4 DEF TypeOK
  <2>6. \A q \in RunIds : run[q].pc \in Silent =>
          \A t \in Sessions : \A i \in 1..Len(rows'[t]) : rows'[t][i].message.call[1] # q
    BY <1>b, <2>5
  <2> QED
    BY <1>b, <2>1, <2>6, SilenceKept DEF RefusedPlaced
<1>9. CASE OperatorStep
  <2>1. UNCHANGED <<run, cache>>
    BY <1>9 DEF OperatorStep, ChooseCall, OperatorLoads, OperatorAppends, OperatorMarks, OperatorStops
  <2>0. RefusedPlaced'
    BY <2>1 DEF RefusedPlaced
  <2>2. ASSUME NEW s \in Sessions, NEW c \in Calls, ChooseCall(s, c)
        PROVE  NothingSaid'
    <3>1. op'.call = c /\ journal[c] # "absent" /\ UNCHANGED <<rows, journal>>
      BY <2>2 DEF ChooseCall, NoOperation
    <3> QED
      BY <1>b, <2>1, <3>1, SilenceKept
  <2>3. CASE OperatorLoads
    <3>1. UNCHANGED <<rows, journal>> /\ (op'.pc = "idle" \/ (op.pc # "idle" /\ op'.call = op.call))
      BY <2>3 DEF OperatorLoads, NoOperation, TypeOK, Operations
    <3> QED
      BY <1>b, <2>0, <2>1, <3>1, SilenceKept
  <2>4. CASE OperatorAppends
    <3> DEFINE m == ToolResult(op.call, "operator")
    <3>1. UNCHANGED journal /\ op.pc # "idle" /\ (op'.pc = "idle" \/ op'.call = op.call)
      BY <2>4 DEF OperatorAppends, NoOperation, TypeOK, Operations
    <3>2. m \in Messages /\ m.call = op.call
      BY MessageTypes DEF TypeOK, Operations, ToolResult
    <3>3. \A s \in Sessions : rows'[s] = rows[s] \/ rows'[s] = Append(rows[s], Row(m))
      BY <2>4, SMTT(30) DEF OperatorAppends, TypeOK
    <3>4. \A q \in RunIds : run[q].pc \in Silent =>
            \A s \in Sessions : \A i \in 1..Len(rows'[s]) : rows'[s][i].message.call[1] # q
      BY <1>b, <3>1, <3>2, <3>3, RowsSaid
    <3> QED
      BY <1>b, <2>0, <2>1, <3>1, <3>4, SilenceKept
  <2>5. CASE OperatorMarks \/ OperatorStops
    <3>1. UNCHANGED rows /\ op'.pc = "idle" /\ op.pc # "idle"
      BY <2>5 DEF OperatorMarks, OperatorStops, NoOperation
    <3>2. \A q \in RunIds : run[q].pc \in Silent =>
            \A c \in Calls : c[1] = q => journal'[c] = "absent"
      BY <1>b, <2>5, <3>1 DEF OperatorMarks, OperatorStops, TypeOK
    <3> QED
      BY <1>b, <2>0, <2>1, <3>1, <3>2, SilenceKept
  <2> QED
    BY <1>9, <2>0, <2>2, <2>3, <2>4, <2>5 DEF OperatorStep
<1>10. CASE UNCHANGED vars
  BY <1>b, <1>10, SilenceKept DEF vars, RefusedPlaced
<1>11. ASSUME NEW r \in RunIds, RunStep(r) \/ SkillsFail(r) \/ JournalFails(r)
       PROVE  NothingSaid' /\ RefusedPlaced'
  BY <1>3, <1>4, <1>5, <1>6, <1>11 DEF RunStep
<1> QED
  BY <1>1, <1>7, <1>8, <1>9, <1>10, <1>11 DEF Next

-----------------------------------------------------------------------------
(* What is listed.                                                         *)

LEMMA Refused ==
  \A p \in Runtimes, r \in RunIds : TaskRefused(p, r) <=> InLog(p, r) /\ ~InRow(r)
BY DEF TaskRefused, InLog, InRow

\* A run that is not past its locks has its task nowhere.
LEMMA SilentUnsaid ==
  ASSUME TypeOK, NothingSaid, NEW r \in RunIds, run[r].pc \in Silent
  PROVE  ~InRow(r) /\ \A p \in Runtimes : ~InLog(p, r)
<1>1. UserMessage(r).call[1] = r
  BY DEF UserMessage
<1> QED
  BY <1>1 DEF NothingSaid, InRow, InLog, Elements

\* A run whose task is in no log is not listed before it comes to its loop.
LEMMA Unlisted ==
  ASSUME TypeOK, ListedWell, NEW r \in RunIds, run[r].pc = "task"
  PROVE  \A p \in Runtimes : r \notin listed[p]
BY Refused DEF ListedWell, ListedAreLive, InLoop

LEMMA AppendedElements ==
  ASSUME NEW S, NEW seq \in Seq(S), NEW e \in S
  PROVE  Elements(Append(seq, e)) = Elements(seq) \cup {e}
<1>1. /\ Len(Append(seq, e)) = Len(seq) + 1 /\ Append(seq, e)[Len(seq) + 1] = e
      /\ Len(seq) \in Nat
      /\ \A i \in 1..Len(seq) : Append(seq, e)[i] = seq[i]
  OBVIOUS
<1>2. \A i \in 1..(Len(seq) + 1) : i \in 1..Len(seq) \/ i = Len(seq) + 1
  BY <1>1
<1>3. Len(seq) + 1 \in 1..(Len(seq) + 1) /\ \A i \in 1..Len(seq) : i \in 1..(Len(seq) + 1)
  BY <1>1
<1>4. ASSUME NEW x \in Elements(Append(seq, e))
      PROVE  x \in Elements(seq) \cup {e}
  <2>1. PICK i \in 1..(Len(seq) + 1) : x = Append(seq, e)[i]
    BY <1>1 DEF Elements
  <2> QED
    BY <1>1, <1>2, <2>1 DEF Elements
<1>5. ASSUME NEW x \in Elements(seq) \cup {e}
      PROVE  x \in Elements(Append(seq, e))
  BY <1>1, <1>3, <1>5 DEF Elements
<1> QED
  BY <1>4, <1>5

\* A commit puts the message in the rows or leaves them as they are.
LEMMA RowsWith ==
  ASSUME TypeOK, NEW m \in Messages, NEW q \in RunIds,
         \A s \in Sessions : rows'[s] = rows[s] \/ rows'[s] = Append(rows[s], Row(m))
  PROVE  /\ InRow(q) => InRow(q)'
         /\ m # UserMessage(q) => (InRow(q)' => InRow(q))
<1>1. Row(m) \in Rows /\ Row(m).message = m
  BY DEF Row, Rows
<1>2. ASSUME NEW s \in Sessions
      PROVE  /\ \A i \in 1..Len(rows[s]) : i \in 1..Len(rows'[s]) /\ rows'[s][i] = rows[s][i]
             /\ \A i \in 1..Len(rows'[s]) :
                  rows'[s][i] = Row(m) \/ (i \in 1..Len(rows[s]) /\ rows'[s][i] = rows[s][i])
  <2>1. rows[s] \in Seq(Rows)
    BY DEF TypeOK
  <2>2. CASE rows'[s] = rows[s]
    BY <2>2
  <2>3. CASE rows'[s] = Append(rows[s], Row(m))
    BY <1>1, <2>1, <2>3
  <2> QED
    BY <2>2, <2>3
<1>3. InRow(q) => InRow(q)'
  BY <1>2 DEF InRow, UserMessage
<1>4. ASSUME m # UserMessage(q), InRow(q)'
      PROVE  InRow(q)
  <2>0. PICK s \in Sessions : \E i \in 1..Len(rows'[s]) : rows'[s][i].message = UserMessage(q)
    BY <1>4 DEF InRow, UserMessage
  <2>1. PICK i \in 1..Len(rows'[s]) : rows'[s][i].message = UserMessage(q)
    BY <2>0
  <2>2. i \in 1..Len(rows[s]) /\ rows'[s][i] = rows[s][i]
    BY <1>1, <1>2, <1>4, <2>1
  <2> QED
    BY <2>1, <2>2 DEF InRow
<1> QED
  BY <1>3, <1>4

\* A commit puts the message in the log of the process.
LEMMA LogsWith ==
  ASSUME TypeOK, NEW m \in Messages, NEW q \in RunIds, m # UserMessage(q), NEW p \in Runtimes,
         \A s \in Sessions :
           cache'[p][s].log = cache[p][s].log \/ cache'[p][s].log = Append(cache[p][s].log, m)
  PROVE  InLog(p, q)' <=> InLog(p, q)
<1>1. ASSUME NEW s \in Sessions
      PROVE  UserMessage(q) \in Elements(cache'[p][s].log)
               <=> UserMessage(q) \in Elements(cache[p][s].log)
  <2>1. cache[p][s].log \in Seq(Messages)
    BY DEF TypeOK, Kept
  <2>2. Elements(Append(cache[p][s].log, m)) = Elements(cache[p][s].log) \cup {m}
    BY <2>1, AppendedElements
  <2> QED
    BY <2>2
<1>2. InLog(p, q)' <=> \E s \in Sessions : UserMessage(q) \in Elements(cache'[p][s].log)
  BY DEF InLog, UserMessage, Elements
<1> QED
  BY <1>1, <1>2 DEF InLog


\* The task of the run q is where it was, or is read from the rows into a log.
TaskStays(q) ==
  /\ InRow(q)' <=> InRow(q)
  /\ \A p \in Runtimes : (InLog(p, q) => InLog(p, q)') /\ (InLog(p, q)' => InLog(p, q) \/ InRow(q))

\* A process has no log of a session it does not have.
NoneLeft == \A p \in Runtimes, s \in Sessions : ~cache[p][s].here => cache[p][s].log = <<>>

LEMMA TaskKept ==
  ASSUME NEW q \in RunIds, TaskStays(q)
  PROVE  /\ \A p \in Runtimes : TaskRefused(p, q)' <=> TaskRefused(p, q)
         /\ ~InRow(q) /\ (\A p \in Runtimes : ~InLog(p, q)) =>
              ~InRow(q)' /\ \A p \in Runtimes : ~InLog(p, q)'
<1>1. \A p \in Runtimes : TaskRefused(p, q) <=> InLog(p, q) /\ ~InRow(q)
  BY Refused
<1>2. \A p \in Runtimes : TaskRefused(p, q)' <=> InLog(p, q)' /\ ~InRow(q)'
  BY DEF TaskRefused, InLog, InRow, UserMessage, Elements
<1> QED
  BY <1>1, <1>2 DEF TaskStays

\* The parts of ListedWell in the next state.
LEMMA ListedNext ==
  ASSUME NoneLeft',
         \A p \in Runtimes, q \in RunIds :
           q \in listed'[p] <=> (run'[q].proc = p /\ run'[q].pc \in InLoop) \/ TaskRefused(p, q)',
         \A q \in RunIds : run'[q].pc = "task" => ~InRow(q)' /\ \A p \in Runtimes : ~InLog(p, q)',
         \A q \in RunIds : run'[q].pc \in InLoop => \A p \in Runtimes : ~TaskRefused(p, q)'
  PROVE  ListedWell'
BY DEF ListedWell, ListedAreLive, NoneLeft, InRow, InLog, TaskRefused, UserMessage, Elements

\* One run moves and no list changes.
LEMMA ListedKept ==
  ASSUME TypeOK, NothingSaid, ListedWell, NoneLeft', UNCHANGED listed, NEW r \in RunIds,
         \A q \in RunIds : TaskStays(q),
         \A q \in RunIds \ {r} : run'[q] = run[q],
         \/ run[r].pc \in Silent /\ run'[r].pc \notin InLoop
         \/ run[r].pc \in InLoop /\ run'[r].pc \in InLoop /\ run'[r].proc = run[r].proc
         \/ run[r].pc \notin InLoop /\ run'[r].pc \notin InLoop \cup {"task"}
         \/ run'[r] = run[r]
  PROVE  ListedWell'
<1>1. ASSUME NEW q \in RunIds, run'[q].pc = "task"
      PROVE  ~InRow(q)' /\ \A p \in Runtimes : ~InLog(p, q)'
  <2>1. run[q].pc = "task" \/ run[q].pc \in Silent
    BY <1>1 DEF InLoop
  <2>2. ~InRow(q) /\ \A p \in Runtimes : ~InLog(p, q)
    BY <2>1, SilentUnsaid DEF ListedWell
  <2> QED
    BY <2>2, TaskKept
<1>2. \A q \in RunIds : /\ run'[q].pc \in InLoop <=> run[q].pc \in InLoop
                        /\ run[q].pc \in InLoop => run'[q].proc = run[q].proc
  BY DEF InLoop, Silent
<1>3. ASSUME NEW p \in Runtimes, NEW q \in RunIds
      PROVE  /\ q \in listed'[p] <=>
                  (run'[q].proc = p /\ run'[q].pc \in InLoop) \/ TaskRefused(p, q)'
             /\ run'[q].pc \in InLoop => ~TaskRefused(p, q)'
  <2>1. TaskRefused(p, q)' <=> TaskRefused(p, q)
    BY TaskKept
  <2>2. /\ q \in listed[p] <=> (run[q].proc = p /\ run[q].pc \in InLoop) \/ TaskRefused(p, q)
        /\ run[q].pc \in InLoop => ~TaskRefused(p, q)
    BY DEF ListedWell, ListedAreLive
  <2> QED
    BY <1>2, <2>1, <2>2
<1> QED
  BY <1>1, <1>3, ListedNext

\* A run leaves its loop or goes on in it.
LEMMA DelistKeeps ==
  ASSUME TypeOK, ListedWell, NoneLeft', NEW r \in RunIds, run[r].proc \in Runtimes,
         run[r].pc \in InLoop, Moves(r, InLoop \cup {"release"}), Delist(r),
         \A q \in RunIds : TaskStays(q)
  PROVE  ListedWell'
<1>1. ASSUME NEW q \in RunIds, run'[q].pc = "task"
      PROVE  ~InRow(q)' /\ \A p \in Runtimes : ~InLog(p, q)'
  <2>1. run[q].pc = "task"
    BY <1>1 DEF Moves, InLoop
  <2> QED
    BY <2>1, TaskKept DEF ListedWell
<1>2. ASSUME NEW p \in Runtimes, NEW q \in RunIds
      PROVE  /\ q \in listed'[p] <=>
                  (run'[q].proc = p /\ run'[q].pc \in InLoop) \/ TaskRefused(p, q)'
             /\ run'[q].pc \in InLoop => ~TaskRefused(p, q)'
  <2>1. TaskRefused(p, q)' <=> TaskRefused(p, q)
    BY TaskKept
  <2>2. /\ q \in listed[p] <=> (run[q].proc = p /\ run[q].pc \in InLoop) \/ TaskRefused(p, q)
        /\ run[q].pc \in InLoop => ~TaskRefused(p, q)
    BY DEF ListedWell, ListedAreLive
  <2>3. CASE q = r
    <3>1. CASE run'[r].pc = "release"
      <4>1. r \in listed'[p] <=> r \in listed[p] /\ p # run[r].proc
        BY <3>1 DEF Delist, TypeOK
      <4> QED
        BY <2>1, <2>2, <2>3, <3>1, <4>1 DEF InLoop
    <3>2. CASE run'[r].pc \in InLoop
      <4>1. listed' = listed
        BY <3>2 DEF Delist, InLoop
      <4> QED
        BY <2>1, <2>2, <2>3, <3>2, <4>1 DEF Moves
    <3> QED
      BY <3>1, <3>2 DEF Moves
  <2>4. CASE q # r
    <3>1. q \in listed'[p] <=> q \in listed[p]
      BY <2>4 DEF Delist, TypeOK
    <3> QED
      BY <2>1, <2>2, <2>4, <3>1 DEF Moves
  <2> QED
    BY <2>3, <2>4
<1> QED
  BY <1>1, <1>2, ListedNext

\* A run goes into its loop, or its task was refused: it is listed.
LEMMA ListKeeps ==
  ASSUME TypeOK, ListedWell, NoneLeft', NEW r \in RunIds, run[r].proc \in Runtimes,
         run[r].pc = "task", List(r),
         \A q \in RunIds \ {r} : TaskStays(q),
         \A p \in Runtimes : TaskRefused(p, r)' => p = run[r].proc /\ run'[r].pc = "release",
         \/ Moves(r, InLoop)
         \/ Moves(r, {"release"}) /\ \E p \in Runtimes : TaskRefused(p, r)'
  PROVE  ListedWell'
<1>1. ASSUME NEW q \in RunIds, run'[q].pc = "task"
      PROVE  ~InRow(q)' /\ \A p \in Runtimes : ~InLog(p, q)'
  <2>1. q # r /\ run[q].pc = "task"
    BY <1>1 DEF Moves, InLoop
  <2>2. ~InRow(q) /\ \A p \in Runtimes : ~InLog(p, q)
    BY <2>1 DEF ListedWell
  <2> QED
    BY <2>1, <2>2, TaskKept
<1>2. ASSUME NEW p \in Runtimes, NEW q \in RunIds
      PROVE  /\ q \in listed'[p] <=>
                  (run'[q].proc = p /\ run'[q].pc \in InLoop) \/ TaskRefused(p, q)'
             /\ run'[q].pc \in InLoop => ~TaskRefused(p, q)'
  <2>1. CASE q = r
    <3>1. r \in listed'[p] <=> p = run[r].proc
      BY Unlisted DEF List, TypeOK
    <3>2. run'[r].proc = run[r].proc /\ (run'[r].pc \in InLoop \/ run'[r].pc = "release")
      BY DEF Moves
    <3> QED
      BY <2>1, <3>1, <3>2 DEF InLoop, Moves
  <2>2. CASE q # r
    <3>1. q \in listed'[p] <=> q \in listed[p]
      BY <2>2 DEF List, TypeOK
    <3>2. TaskRefused(p, q)' <=> TaskRefused(p, q)
      BY <2>2, TaskKept
    <3>3. /\ q \in listed[p] <=> (run[q].proc = p /\ run[q].pc \in InLoop) \/ TaskRefused(p, q)
          /\ run[q].pc \in InLoop => ~TaskRefused(p, q)
      BY DEF ListedWell, ListedAreLive
    <3> QED
      BY <2>2, <3>1, <3>2, <3>3 DEF Moves
  <2> QED
    BY <2>1, <2>2
<1> QED
  BY <1>1, <1>2, ListedNext

\* The messages of the rows and of the logs stay as they are.
LEMMA SameTasks ==
  ASSUME TypeOK, NEW q \in RunIds,
         \A p \in Runtimes, s \in Sessions : cache'[p][s].log = cache[p][s].log,
         \A s \in Sessions : /\ Len(rows'[s]) = Len(rows[s])
                             /\ \A i \in 1..Len(rows[s]) : rows'[s][i].message = rows[s][i].message
  PROVE  TaskStays(q)
<1>1. InRow(q)' <=> InRow(q)
  BY SMTT(30) DEF InRow, UserMessage
<1>2. \A p \in Runtimes : InLog(p, q)' <=> InLog(p, q)
  BY SMTT(30) DEF InLog, UserMessage, Elements
<1> QED
  BY <1>1, <1>2 DEF TaskStays

LEMMA ListedStep ==
  ASSUME TypeOK, RunsPlaced, SessionsBound, OneAtATime, NothingSaid, ListedWell, [Next]_vars
  PROVE  ListedWell'
<1> USE DEF store, process, operator
<1>0. /\ run \in [RunIds -> Runs] /\ listed \in [Runtimes -> SUBSET RunIds] /\ NoneLeft
      /\ \A p \in Runtimes, s \in Sessions : cache[p][s].log \in Seq(Messages)
  BY DEF TypeOK, ListedWell, NoneLeft, Kept
<1>a. UNCHANGED <<rows, cache>> => NoneLeft' /\ \A q \in RunIds : TaskStays(q)
  BY <1>0, SameTasks DEF NoneLeft
<1>1. ASSUME NEW p \in Runtimes, NEW s \in Sessions, NEW w \in Workspaces, Begin(p, s, w)
      PROVE  ListedWell'
  <2>1. \E task \in BOOLEAN, place \in Waiting : Launch(p, s, w, task, place)
    BY <1>1 DEF Begin, CreateSession, StartRun, AcceptRun, Waiting
  <2>2. PICK place \in Waiting : Appears(p, s, w, place)
    BY <2>1, LaunchAppears
  <2>3. runs + 1 \in RunIds /\ run[runs + 1].pc = "none"
    BY <2>2, ConstantTypes DEF Appears, RunsPlaced, TypeOK
  <2>4. UNCHANGED <<rows, listed>>
    BY <1>1 DEF Begin, CreateSession, StartRun, AcceptRun
  <2>5. NoneLeft' /\ \A q \in RunIds : TaskStays(q)
    <3>1. CASE CreateSession(p, s, w)
      <4>1. ~cache[p][s].here /\ cache[p][s].log = <<>>
        BY <1>0, <3>1 DEF CreateSession, SessionsBound, NoneLeft
      <4>2. /\ cache'[p][s].here /\ cache'[p][s].log = <<>>
            /\ \A u \in Runtimes, t \in Sessions : u # p \/ t # s => cache'[u][t] = cache[u][t]
        BY <3>1 DEF CreateSession, TypeOK
      <4>3. \A u \in Runtimes, t \in Sessions : cache'[u][t].log = cache[u][t].log
        BY <4>1, <4>2
      <4>4. NoneLeft'
        BY <1>0, <4>2 DEF NoneLeft
      <4> QED
        BY <2>4, <4>3, <4>4, SameTasks
    <3>2. CASE UNCHANGED cache
      BY <1>a, <2>4, <3>2
    <3> QED
      BY <1>1, <3>1, <3>2 DEF Begin, StartRun, AcceptRun
  <2>6. run[runs + 1].pc \in Silent /\ run'[runs + 1].pc \notin InLoop
    BY <2>2, <2>3 DEF Appears, Silent, Waiting, InLoop
  <2> QED
    BY <2>2, <2>3, <2>4, <2>5, <2>6, ListedKept DEF Appears
<1>2. ASSUME NEW r \in RunIds,
             \/ BeginAccepted(r) \/ LoadVersion(r) \/ (LoadRows(r) /\ ~Hydratable(run[r].sess))
             \/ Enter(r) \/ SkillsFail(r) \/ OpenIntent(r) \/ CloseIntent(r) \/ Release(r)
      PROVE  ListedWell'
  <2>1. UNCHANGED <<rows, cache, listed>>
    BY <1>2 DEF BeginAccepted, LoadVersion, LoadRows, Enter, SkillsFail, OpenIntent, CloseIntent,
                Release
  <2>2. \A q \in RunIds \ {r} : run'[q] = run[q]
    BY <1>0, <1>2 DEF BeginAccepted, LoadVersion, LoadRows, Enter, SkillsFail, OpenIntent,
                      CloseIntent, Release, Goto, Settle
  <2>3. CASE \/ BeginAccepted(r) \/ LoadVersion(r) \/ Enter(r)
             \/ (LoadRows(r) /\ ~Hydratable(run[r].sess))
    <3>1. run[r].pc \in Silent
      BY <2>3 DEF BeginAccepted, LoadVersion, LoadRows, Enter, Silent
    <3>2. run'[r].pc \in {"entry", "replaying", "refused", "task"}
      BY <1>0, <2>3, GotoMoves, SettleLeaves
         DEF BeginAccepted, LoadVersion, LoadRows, Enter, Moves, Leaves, Runs
    <3>3. run'[r].pc \notin InLoop
      BY <3>2 DEF InLoop
    <3> QED
      BY <1>a, <2>1, <2>2, <3>1, <3>3, ListedKept
  <2>4. CASE SkillsFail(r) \/ Release(r)
    <3>1. run[r].pc \in {"task", "release"} /\ run'[r].pc \in {"release", "done"}
      BY <1>0, <2>4, GotoMoves, SettleLeaves DEF SkillsFail, Release, Moves, Leaves
    <3>2. run[r].pc \notin InLoop /\ run'[r].pc \notin InLoop \cup {"task"}
      BY <3>1 DEF InLoop
    <3> QED
      BY <1>a, <2>1, <2>2, <3>2, ListedKept
  <2>5. CASE OpenIntent(r) \/ CloseIntent(r)
    <3>1. run[r].pc \in InLoop /\ run'[r].pc \in InLoop /\ run'[r].proc = run[r].proc
      BY <1>0, <2>5, GotoMoves DEF OpenIntent, CloseIntent, Moves, InLoop
    <3> QED
      BY <1>a, <2>1, <2>2, <3>1, ListedKept
  <2> QED
    BY <1>2, <2>3, <2>4, <2>5
<1>3. ASSUME NEW r \in RunIds, LoadRows(r), Hydratable(run[r].sess)
      PROVE  ListedWell'
  <2> DEFINE p == run[r].proc
             s == run[r].sess
  <2>1. p \in Runtimes /\ s \in Sessions /\ run[r].pc = "replaying"
    BY <1>3 DEF LoadRows, RunsPlaced, Settled
  <2>2. cache[p][s].log = <<>>
    BY <1>0, <2>1 DEF OneAtATime, NoneLeft
  <2>3. /\ cache'[p][s].here /\ cache'[p][s].log = Loaded(s)
        /\ \A u \in Runtimes, t \in Sessions : u # p \/ t # s => cache'[u][t] = cache[u][t]
    BY <1>3, <2>1, LoadRowsEffect
  <2>4. NoneLeft'
    BY <1>0, <2>3 DEF NoneLeft
  <2>5. UNCHANGED <<rows, listed>>
    BY <1>3 DEF LoadRows
  <2>6. ASSUME NEW q \in RunIds
        PROVE  TaskStays(q)
    <3>1. InRow(q)' <=> InRow(q)
      BY <2>5 DEF InRow, UserMessage
    <3>2. ASSUME NEW u \in Runtimes, NEW t \in Sessions,
                 UserMessage(q) \in Elements(cache[u][t].log)
          PROVE  UserMessage(q) \in Elements(cache'[u][t].log)
      <4>1. ~(u = p /\ t = s)
        BY <2>2, <3>2 DEF Elements
      <4> QED
        BY <2>3, <3>2, <4>1
    <3>3. ASSUME NEW u \in Runtimes, NEW t \in Sessions,
                 UserMessage(q) \in Elements(cache'[u][t].log)
          PROVE  UserMessage(q) \in Elements(cache[u][t].log) \/ InRow(q)
      <4>1. CASE u = p /\ t = s
        <5>1. PICK i \in 1..Len(Loaded(s)) : Loaded(s)[i] = UserMessage(q)
          BY <2>3, <3>3, <4>1 DEF Elements
        <5>2. i \in 1..Len(rows[s]) /\ rows[s][i].message = UserMessage(q)
          BY <2>1, <5>1, LoadedType DEF TypeOK
        <5> QED
          BY <2>1, <5>2 DEF InRow
      <4>2. CASE ~(u = p /\ t = s)
        BY <2>3, <3>3, <4>2
      <4> QED
        BY <4>1, <4>2
    <3>4. \A u \in Runtimes :
            InLog(u, q)' <=> \E t \in Sessions : UserMessage(q) \in Elements(cache'[u][t].log)
      BY DEF InLog, UserMessage, Elements
    <3> QED
      BY <3>1, <3>2, <3>3, <3>4 DEF TaskStays, InLog
  <2>7. run[r].pc \in Silent /\ run'[r].pc \notin InLoop /\ \A q \in RunIds \ {r} : run'[q] = run[q]
    BY <1>0, <1>3 DEF LoadRows, Silent, InLoop, Runs
  <2> QED
    BY <2>4, <2>5, <2>6, <2>7, ListedKept
<1>4. ASSUME NEW r \in RunIds, CommitTask(r)
      PROVE  ListedWell'
  <2> DEFINE m == UserMessage(r)
             p == run[r].proc
             s == run[r].sess
  <2>1. p \in Runtimes /\ s \in Sessions /\ run[r].pc = "task"
    BY <1>4 DEF CommitTask, RunsPlaced, Settled
  <2>2. AppendMessage(r, m, "loop") /\ List(r) /\ m \in Messages
    BY <1>4, MessageTypes DEF CommitTask
  <2>3. /\ Moves(r, {"loop", "release"})
        /\ \A t \in Sessions : rows'[t] = rows[t] \/ rows'[t] = Append(rows[t], Row(m))
        /\ \A u \in Runtimes, t \in Sessions :
             /\ cache'[u][t].log = cache[u][t].log \/ cache'[u][t].log = Append(cache[u][t].log, m)
             /\ cache'[u][t].here = cache[u][t].here
    BY <2>1, <2>2, AppendEffect
  <2>4. /\ \A u \in Runtimes, t \in Sessions : u # p \/ t # s => cache'[u][t] = cache[u][t]
        /\ cache'[p][s].log = Append(cache[p][s].log, m)
    BY <2>1, <2>2, AppendLogs
  <2>12. \/ run'[r].pc = "loop" /\ rows'[s] = Append(rows[s], Row(m))
         \/ run'[r].pc = "release" /\ rows' = rows
    <3>1. CASE /\ rows' = [rows EXCEPT ![s] = Append(@, Row(m))]
               /\ run' = [run EXCEPT ![r].pc = "loop",
                                     ![r].calls = IF m.kind = "call" THEN @ + 1 ELSE @]
      BY <1>0, <2>1, <3>1 DEF TypeOK, Runs
    <3>2. CASE Goto(r, "release") /\ rows' = rows
      BY <1>0, <3>2, GotoMoves DEF Moves
    <3> QED
      BY <2>2, <3>1, <3>2 DEF AppendMessage
  <2> HIDE DEF m
  <2>5. ASSUME NEW q \in RunIds \ {r}
        PROVE  TaskStays(q)
    <3>1. m # UserMessage(q)
      BY DEF UserMessage, m
    <3>2. InRow(q)' <=> InRow(q)
      BY <2>2, <2>3, <3>1, RowsWith
    <3>3. \A u \in Runtimes : InLog(u, q)' <=> InLog(u, q)
      BY <2>2, <2>3, <3>1, LogsWith
    <3> QED
      BY <3>2, <3>3 DEF TaskStays
  <2>6. NoneLeft'
    <3>1. \A u \in Runtimes, t \in Sessions : u # p \/ t # s => cache'[u][t] = cache[u][t]
      BY <2>4
    <3>2. cache[p][s].here
      BY <2>1 DEF SessionsBound, Owning
    <3> QED
      BY <1>0, <2>3, <3>1, <3>2, SMTT(30) DEF NoneLeft
  <2>7. ~InRow(r) /\ \A u \in Runtimes : ~InLog(u, r)
    BY <2>1 DEF ListedWell
  <2>8. \A u \in Runtimes : TaskRefused(u, r)' <=> InLog(u, r)' /\ ~InRow(r)'
    BY DEF TaskRefused, InLog, InRow, UserMessage, Elements
  <2>9. \A u \in Runtimes : InLog(u, r)' <=> u = p
    <3>1. m \in Elements(cache'[p][s].log) /\ m = UserMessage(r)
      <4>1. cache[p][s].log \in Seq(Messages)
        BY <1>0, <2>1
      <4>2. Elements(Append(cache[p][s].log, m)) = Elements(cache[p][s].log) \cup {m}
        BY <2>2, <4>1, AppendedElements
      <4> QED
        BY <2>4, <4>2 DEF m
    <3>2. \A u \in Runtimes, t \in Sessions : u # p => cache'[u][t] = cache[u][t]
      BY <2>4
    <3>3. \A u \in Runtimes :
            InLog(u, r)' <=> \E t \in Sessions : UserMessage(r) \in Elements(cache'[u][t].log)
      BY DEF InLog, UserMessage, Elements
    <3>4. \A u \in Runtimes : u = p => \E t \in Sessions : UserMessage(r) \in Elements(cache'[u][t].log)
      BY <2>1, <3>1
    <3>5. \A u \in Runtimes : u # p => ~\E t \in Sessions : UserMessage(r) \in Elements(cache'[u][t].log)
      BY <2>7, <3>2 DEF InLog
    <3> QED
      BY <3>3, <3>4, <3>5
  <2>10. CASE run'[r].pc = "loop" /\ rows'[s] = Append(rows[s], Row(m))
    <3>1. InRow(r)'
      <4>1. rows[s] \in Seq(Rows) /\ Row(m) \in Rows /\ Row(m).message = m
        BY <2>1, <2>2 DEF TypeOK, Row, Rows
      <4>2. /\ Len(rows[s]) + 1 \in 1..Len(rows'[s])
            /\ rows'[s][Len(rows[s]) + 1].message = m
        BY <2>10, <4>1
      <4> QED
        BY <2>1, <4>2 DEF InRow, UserMessage, m
    <3>2. Moves(r, InLoop)
      BY <2>3, <2>10 DEF Moves, InLoop
    <3> QED
      BY <2>1, <2>2, <2>5, <2>6, <2>8, <3>1, <3>2, ListKeeps
  <2>11. CASE run'[r].pc = "release" /\ rows' = rows
    <3>1. ~InRow(r)'
      BY <2>7, <2>11 DEF InRow, UserMessage
    <3>2. Moves(r, {"release"})
      BY <2>3, <2>11 DEF Moves
    <3>3. \A u \in Runtimes : TaskRefused(u, r)' <=> u = p
      BY <2>8, <2>9, <3>1
    <3> QED
      BY <2>1, <2>2, <2>5, <2>6, <2>11, <3>2, <3>3, ListKeeps
  <2> QED
    BY <2>10, <2>11, <2>12
<1>5. ASSUME NEW r \in RunIds, ContinueTask(r)
      PROVE  ListedWell'
  <2>1. run[r].proc \in Runtimes /\ run[r].pc = "task" /\ List(r) /\ UNCHANGED <<rows, cache>>
    BY <1>5 DEF ContinueTask, RunsPlaced, Settled
  <2>2. Moves(r, InLoop)
    BY <1>0, <1>5, GotoMoves DEF ContinueTask, Moves, InLoop
  <2>3. \A p \in Runtimes : ~TaskRefused(p, r)'
    BY <1>a, <2>1, TaskKept, Refused DEF ListedWell
  <2> QED
    BY <1>a, <2>1, <2>2, <2>3, ListKeeps
<1>6. ASSUME NEW r \in RunIds, CommitCall(r) \/ CommitResult(r) \/ CommitAnswer(r)
      PROVE  ListedWell'
  <2>1. /\ run[r].proc \in Runtimes /\ run[r].sess \in Sessions
        /\ run[r].pc \in {"loop", "tool"} /\ Delist(r)
    BY <1>6 DEF CommitCall, CommitResult, CommitAnswer, RunsPlaced, Settled
  <2>2. PICK m \in Messages, next \in {"journal", "close", "release"} :
          m.kind # "user" /\ AppendMessage(r, m, next)
    <3>1. CASE CommitCall(r)
      <4>1. <<r, run[r].calls + 1>> \in Calls
        BY <3>1, ConstantTypes DEF CommitCall, TypeOK, Runs, Calls
      <4> QED
        BY <3>1, <4>1, MessageTypes DEF CommitCall, AssistantMessage
    <3>2. CASE CommitResult(r)
      <4>1. ToolResult(CurrentCall(r), "run") \in Messages
        BY <1>0 DEF ToolResult, CurrentCall, Messages, Runs
      <4> QED
        BY <3>2, <4>1 DEF CommitResult, ToolResult
    <3>3. CASE CommitAnswer(r)
      BY <3>3, MessageTypes DEF CommitAnswer, FinalAnswer
    <3> QED
      BY <1>6, <3>1, <3>2, <3>3
  <2>3. /\ Moves(r, {next, "release"})
        /\ \A s \in Sessions : rows'[s] = rows[s] \/ rows'[s] = Append(rows[s], Row(m))
        /\ \A p \in Runtimes, s \in Sessions :
             /\ cache'[p][s].log = cache[p][s].log \/ cache'[p][s].log = Append(cache[p][s].log, m)
             /\ cache'[p][s].here = cache[p][s].here
    BY <2>1, <2>2, AppendEffect
  <2>4. ASSUME NEW q \in RunIds
        PROVE  TaskStays(q)
    <3>1. m # UserMessage(q)
      BY <2>2 DEF UserMessage
    <3>2. InRow(q)' <=> InRow(q)
      BY <2>3, <3>1, RowsWith
    <3>3. \A u \in Runtimes : InLog(u, q)' <=> InLog(u, q)
      BY <2>3, <3>1, LogsWith
    <3> QED
      BY <3>2, <3>3 DEF TaskStays
  <2>5. Moves(r, InLoop \cup {"release"}) /\ run[r].pc \in InLoop
    BY <2>1, <2>3 DEF Moves, InLoop
  <2>6. NoneLeft'
    <3>1. \A u \in Runtimes, t \in Sessions :
            u # run[r].proc \/ t # run[r].sess => cache'[u][t] = cache[u][t]
      BY <2>1, <2>2, AppendLogs
    <3>2. cache[run[r].proc][run[r].sess].here
      BY <2>1 DEF SessionsBound, Owning
    <3> QED
      BY <1>0, <2>3, <3>1, <3>2, SMTT(30) DEF NoneLeft
  <2> QED
    BY <2>1, <2>4, <2>5, <2>6, DelistKeeps
<1>7. ASSUME NEW r \in RunIds, FinishRun(r) \/ JournalFails(r)
      PROVE  ListedWell'
  <2>1. /\ run[r].proc \in Runtimes /\ run[r].pc \in InLoop
        /\ Delist(r) /\ UNCHANGED <<rows, cache>>
    BY <1>7 DEF FinishRun, JournalFails, RunsPlaced, Settled, InLoop
  <2>2. Moves(r, InLoop \cup {"release"})
    BY <1>0, <1>7, GotoMoves DEF FinishRun, JournalFails, Moves
  <2> QED
    BY <1>a, <2>1, <2>2, DelistKeeps
<1>8. ASSUME NEW p \in Runtimes, Kill(p)
      PROVE  ListedWell'
  <2>1. \A q \in RunIds :
          \/ run'[q] = run[q] /\ (run[q].proc # p \/ run[q].pc \in Settled)
          \/ run'[q].pc = "killed" /\ run[q].proc = p /\ run[q].pc \notin Settled
    BY <1>8 DEF Kill, Over, NoRun
  <2>2. /\ UNCHANGED rows
        /\ \A u \in Runtimes : listed'[u] = IF u = p THEN {} ELSE listed[u]
        /\ \A u \in Runtimes, t \in Sessions :
             cache'[u][t] = IF u = p THEN NotCached ELSE cache[u][t]
    BY <1>0, <1>8 DEF Kill, TypeOK
  <2>3. NoneLeft'
    BY <1>0, <2>2 DEF NoneLeft, NotCached
  <2>4. ASSUME NEW u \in Runtimes, NEW q \in RunIds
        PROVE  /\ InRow(q)' <=> InRow(q)
               /\ InLog(u, q)' <=> u # p /\ InLog(u, q)
               /\ TaskRefused(u, q)' <=> u # p /\ TaskRefused(u, q)
    <3>1. InRow(q)' <=> InRow(q)
      BY <2>2 DEF InRow, UserMessage
    <3>2. InLog(u, q)' <=> \E t \in Sessions : UserMessage(q) \in Elements(cache'[u][t].log)
      BY DEF InLog, UserMessage, Elements
    <3>3. Elements(NotCached.log) = {}
      BY DEF NotCached, Elements
    <3>4. InLog(u, q)' <=> u # p /\ InLog(u, q)
      BY <2>2, <3>2, <3>3 DEF InLog
    <3>5. TaskRefused(u, q)' <=> InLog(u, q)' /\ ~InRow(q)'
      BY DEF TaskRefused, InLog, InRow, UserMessage, Elements
    <3> QED
      BY <3>1, <3>4, <3>5, Refused
  <2>5. ASSUME NEW u \in Runtimes, NEW q \in RunIds
        PROVE  /\ q \in listed'[u] <=>
                    (run'[q].proc = u /\ run'[q].pc \in InLoop) \/ TaskRefused(u, q)'
               /\ run'[q].pc \in InLoop => ~TaskRefused(u, q)'
    <3>1. /\ q \in listed[u] <=> (run[q].proc = u /\ run[q].pc \in InLoop) \/ TaskRefused(u, q)
          /\ run[q].pc \in InLoop => ~TaskRefused(u, q)
      BY DEF ListedWell, ListedAreLive
    <3>2. CASE u = p
      <4>1. ~(run'[q].proc = p /\ run'[q].pc \in InLoop)
        BY <2>1 DEF InLoop, Settled
      <4> QED
        BY <2>2, <2>4, <3>2, <4>1
    <3>3. CASE u # p
      <4>1. run'[q].proc = u /\ run'[q].pc \in InLoop <=> run[q].proc = u /\ run[q].pc \in InLoop
        BY <2>1, <3>3 DEF InLoop, Settled
      <4>2. run'[q].pc \in InLoop => run[q].pc \in InLoop
        BY <2>1 DEF InLoop
      <4> QED
        BY <2>2, <2>4, <3>1, <3>3, <4>1, <4>2
    <3> QED
      BY <3>2, <3>3
  <2>6. ASSUME NEW q \in RunIds, run'[q].pc = "task"
        PROVE  ~InRow(q)' /\ \A u \in Runtimes : ~InLog(u, q)'
    <3>1. run[q].pc = "task"
      BY <2>1, <2>6
    <3>2. ~InRow(q) /\ \A u \in Runtimes : ~InLog(u, q)
      BY <3>1 DEF ListedWell
    <3> QED
      BY <2>4, <3>2
  <2> QED
    BY <2>3, <2>5, <2>6, ListedNext
<1>9. ASSUME UNCHANGED <<run, listed>>, NoneLeft', \A q \in RunIds : TaskStays(q)
      PROVE  ListedWell'
  <2>1. 1 \in RunIds
    BY ConstantTypes DEF RunIds
  <2> QED
    BY <1>9, <2>1, ListedKept
<1>10. ASSUME NEW s \in Sessions, Tear(s)
       PROVE  ListedWell'
  <2> DEFINE n == Len(rows[s])
  <2>1. UNCHANGED <<run, listed, cache>>
    BY <1>10 DEF Tear
  <2>2. rows[s] \in Seq(Rows) /\ n \in 1..Len(rows[s])
    BY <1>10, EmptySeq DEF Tear, TypeOK
  <2>3. rows' = [rows EXCEPT ![s] = [rows[s] EXCEPT ![n] = [rows[s][n] EXCEPT !.whole = FALSE]]]
    BY <1>10, <2>2 DEF Tear, TypeOK, Rows
  <2>4. [rows[s][n] EXCEPT !.whole = FALSE].message = rows[s][n].message
    <3>1. rows[s][n] \in Rows
      BY <2>2
    <3> QED
      BY <3>1 DEF Rows
  <2>5. ASSUME NEW t \in Sessions
        PROVE  /\ Len(rows'[t]) = Len(rows[t])
               /\ \A i \in 1..Len(rows[t]) : rows'[t][i].message = rows[t][i].message
    BY <2>2, <2>3, <2>4 DEF TypeOK
  <2>6. NoneLeft' /\ \A q \in RunIds : TaskStays(q)
    BY <1>0, <2>1, <2>5, SameTasks DEF NoneLeft
  <2> QED
    BY <1>9, <2>1, <2>6
<1>11. CASE OperatorStep
  <2>1. UNCHANGED <<run, listed, cache>>
    BY <1>11 DEF OperatorStep, ChooseCall, OperatorLoads, OperatorAppends, OperatorMarks,
                 OperatorStops
  <2>2. CASE OperatorAppends
    <3> DEFINE m == ToolResult(op.call, "operator")
    <3>1. m \in Messages /\ \A q \in RunIds : m # UserMessage(q)
      BY MessageTypes DEF TypeOK, Operations, ToolResult, UserMessage
    <3>2. \A s \in Sessions : rows'[s] = rows[s] \/ rows'[s] = Append(rows[s], Row(m))
      BY <2>2, SMTT(30) DEF OperatorAppends, TypeOK
    <3> HIDE DEF m
    <3>3. \A q \in RunIds : InRow(q)' <=> InRow(q)
      BY <3>1, <3>2, RowsWith
    <3>4. \A q \in RunIds, p \in Runtimes : InLog(p, q)' <=> InLog(p, q)
      BY <2>1 DEF InLog, UserMessage, Elements
    <3>5. NoneLeft'
      BY <1>0, <2>1 DEF NoneLeft
    <3> QED
      BY <1>9, <2>1, <3>3, <3>4, <3>5 DEF TaskStays
  <2>3. CASE UNCHANGED rows
    BY <1>a, <1>9, <2>1, <2>3
  <2> QED
    BY <1>11, <2>2, <2>3 DEF OperatorStep, ChooseCall, OperatorLoads, OperatorMarks, OperatorStops
<1>12. CASE UNCHANGED vars
  BY <1>a, <1>9, <1>12 DEF vars
<1> QED
  BY <1>1, <1>2, <1>3, <1>4, <1>5, <1>6, <1>7, <1>8, <1>10, <1>11, <1>12 DEF Next, RunStep

-----------------------------------------------------------------------------
(* The theorems.                                                           *)

LEMMA ConsistentInit == Init => Consistent
<1> SUFFICES ASSUME Init PROVE Consistent
  OBVIOUS
<1>0. NoRun \in Runs /\ NoOperation \in Operations /\ NotCached \in Kept
  BY ConstantTypes DEF NoRun, Runs, NoOperation, Operations, NotCached, Kept, Settled
<1>1. TypeOK
  <2>1. /\ run \in [RunIds -> Runs] /\ op \in Operations
        /\ cache \in [Runtimes -> [Sessions -> Kept]]
    BY <1>0 DEF Init
  <2>2. /\ rows \in [Sessions -> Seq(Rows)] /\ version \in [Sessions -> Nat]
        /\ lock \in [Sessions -> 0..MaxRuns] /\ runs \in 0..MaxRuns /\ faults \in 0..MaxFaults
    BY ConstantTypes DEF Init
  <2> QED
    BY <2>1, <2>2 DEF Init, TypeOK
<1>2. /\ \A r \in RunIds : run[r] = NoRun
      /\ \A p \in Runtimes, s \in Sessions : cache[p][s].log = <<>> /\ ~cache[p][s].here
      /\ op.pc = "idle"
  BY DEF Init, NoOperation, NotCached
<1>3. RunsPlaced /\ LocksHeld /\ WorkspaceKept /\ OneAtATime /\ RefusedPlaced
  BY <1>2 DEF RunsPlaced, LocksHeld, WorkspaceKept, OneAtATime, RefusedPlaced, NoRun, Settled,
              Owning, Synchronous
<1>4. SessionsBound
  BY <1>2 DEF SessionsBound, NoRun, Owning
<1>5. HeldByRuns
  BY DEF Init, HeldByRuns
<1>6. NothingSaid
  BY <1>2 DEF Init, NothingSaid
<1>7. ListedWell
  <2>1. \A p \in Runtimes, r \in RunIds : ~InLog(p, r) /\ r \notin listed[p]
    BY <1>2 DEF Init, InLog, Elements
  <2>2. \A r \in RunIds : run[r].pc = "none"
    BY <1>2 DEF NoRun
  <2> QED
    BY <1>2, <2>1, <2>2, Refused DEF ListedWell, ListedAreLive, InLoop
<1> QED
  BY <1>1, <1>3, <1>4, <1>5, <1>6, <1>7 DEF Consistent

LEMMA ConsistentStep == Consistent /\ [Next]_vars => Consistent'
BY TypeStep, LocksStep, SessionsStep, OrderStep, SilenceStep, ListedStep DEF Consistent

LEMMA AlwaysConsistent == Spec => []Consistent
BY ConsistentInit, ConsistentStep, PTL DEF Spec

\* The tables, the logs in memory and the runs keep their types.
THEOREM StoreTypes == Spec => []TypeOK
<1>1. Consistent => TypeOK
  BY DEF Consistent
<1> QED
  BY <1>1, AlwaysConsistent, PTL

\* A session never has two writers, however many processes share the store and
\* whichever of them is killed: the primary key of run_locks decides (acquire_run_lock).
THEOREM SingleWriter == Spec => []OneWriter
<1>1. Consistent => OneWriter
  BY DEF Consistent, LocksHeld, OneWriter
<1> QED
  BY <1>1, AlwaysConsistent, PTL

\* No lock row and no registry entry outlives its run, but for a killed process:
\* every way out of run and continue_run passes the finally clauses.  A run is
\* listed exactly while it is in its loop, or, and this one leaks, for good if the
\* store refused its task: nothing else shuts a session to HTTP, and that does.
THEOREM NoLockLeaks == Spec => []LocksAccountedFor
<1>1. Consistent => LocksAccountedFor
  BY DEF Consistent, ListedWell, LocksAccountedFor
<1> QED
  BY <1>1, AlwaysConsistent, PTL

\* Every run past its locks works in its session's directory (_bind_workspace).
THEOREM OneWorkspace == Spec => []WorkspaceKept
<1>1. Consistent => WorkspaceKept
  BY DEF Consistent
<1> QED
  BY <1>1, AlwaysConsistent, PTL

\* A refused run left no lock, no row and no message in any process's memory.
THEOREM RefusedRunsAreSilent == Spec => []RefusedLeavesNothing
<1>1. Consistent => RefusedLeavesNothing
  <2>1. ASSUME Consistent, NEW r \in RunIds, run[r].pc = "refused"
        PROVE  lock[run[r].sess] # r
    <3>1. run[r].sess \in Sessions /\ r # 0
      BY <2>1 DEF Consistent, RefusedPlaced, RunIds
    <3>2. run[r].pc \notin Owning \cup {"killed"}
      BY <2>1 DEF Owning
    <3> QED
      BY <2>1, <3>1, <3>2 DEF Consistent, HeldByRuns
  <2>2. Consistent => \A r \in RunIds : run[r].pc = "refused" =>
          /\ \A s \in Sessions : \A i \in 1..Len(rows[s]) : rows[s][i].message.call[1] # r
          /\ \A p \in Runtimes, s \in Sessions :
               \A i \in 1..Len(cache[p][s].log) : cache[p][s].log[i].call[1] # r
    BY DEF Consistent, NothingSaid, Silent
  <2> QED
    BY <2>1, <2>2 DEF RefusedLeavesNothing
<1> QED
  BY <1>1, AlwaysConsistent, PTL

\* A process that missed a commit of another never moves the version it knows
\* again, so every later append of it is refused (append's comparison).
THEOREM StaleStaysStale == Spec => StaleNeverCommits
<1>1. Consistent /\ [Next]_vars =>
        [\A p \in Runtimes, s \in Sessions :
           cache[p][s].here /\ cache[p][s].known # version[s] =>
             cache[p][s]' = NotCached \/ cache[p][s].known' = cache[p][s].known]_vars
  <2> SUFFICES ASSUME Consistent, [Next]_vars, NEW p \in Runtimes, NEW s \in Sessions,
                      cache[p][s].here, cache[p][s].known # version[s]
               PROVE  cache'[p][s] = NotCached \/ cache'[p][s].known = cache[p][s].known
    OBVIOUS
  <2> QED
    BY StaleStep DEF Consistent
<1> QED
  BY <1>1, AlwaysConsistent, PTL DEF Spec, StaleNeverCommits

-----------------------------------------------------------------------------
(* The committed history.                                                  *)

\* Places of a run that has nothing more to say.
Finished == {"done", "killed"}
Past == {"release"} \cup Finished

\* What the run may have said by now.
Spoken(r, m) ==
  \/ run[r].pc \in Past
  \/ /\ run[r].pc \in InLoop
     /\ \/ m.kind = "user"
        \/ m.kind = "call" /\ m.call[2] <= run[r].calls
        \/ m.kind = "result" /\ m.call[2] < run[r].calls
        \/ m.kind = "result" /\ m.call[2] = run[r].calls /\ run[r].pc \in {"close", "loop"}

\* The run has come past the journal row of the call.
Opened(c) ==
  \/ run[c[1]].pc \in Past
  \/ /\ run[c[1]].pc \in InLoop
     /\ c[2] < run[c[1]].calls \/ (c[2] = run[c[1]].calls /\ run[c[1]].pc # "journal")

\* A run goes on to the next call, or comes nearer to the end of this one.
Further(q) ==
  run[q].pc \notin Silent =>
    /\ run'[q].sess = run[q].sess
    /\ run[q].pc \in Finished => run'[q].pc \in Finished
    /\ run[q].pc \in Past => run'[q].pc \in Past
    /\ \/ run[q].pc = "task" /\ run'[q].pc \in {"task", "loop"} \cup Past
       \/ run'[q].pc \in Past
       \/ /\ run[q].pc \in InLoop /\ run'[q].pc \in InLoop
          /\ \/ run'[q].calls > run[q].calls
             \/ /\ run'[q].calls = run[q].calls
                /\ run[q].pc \in {"close", "loop"} => run'[q].pc \in {"close", "loop"}
                /\ run[q].pc # "journal" => run'[q].pc # "journal"

LEMMA MessageParts ==
  ASSUME NEW m \in Messages
  PROVE  /\ m.call[1] \in RunIds /\ m.call[2] \in Nat /\ m.kind \in {"user", "call", "result", "answer"}
         /\ m.by \in {"run", "operator"}
<1>1. \A k \in 0..MaxCalls : k \in Nat
  BY ConstantTypes
<1> QED
  BY <1>1 DEF Messages

LEMMA StoreParts ==
  ASSUME TypeOK
  PROVE  /\ \A r \in RunIds : run[r] \in Runs /\ run[r].calls \in Nat /\ run[r].view \in Nat
         /\ \A s \in Sessions : /\ rows[s] \in Seq(Rows) /\ Len(rows[s]) \in Nat
                                /\ version[s] \in Nat
                                /\ \A i \in 1..Len(rows[s]) :
                                     rows[s][i] \in Rows /\ rows[s][i].message \in Messages
         /\ \A p \in Runtimes, s \in Sessions :
              /\ cache[p][s] \in Kept /\ cache[p][s].log \in Seq(Messages)
              /\ cache[p][s].known \in Nat
              /\ \A i \in 1..Len(cache[p][s].log) : cache[p][s].log[i] \in Messages
<1>1. \A r \in RunIds : run[r] \in Runs /\ run[r].calls \in Nat /\ run[r].view \in Nat
  <2>1. \A k \in 0..MaxCalls : k \in Nat
    BY ConstantTypes
  <2> QED
    BY <2>1 DEF TypeOK, Runs
<1>2. ASSUME NEW s \in Sessions
      PROVE  /\ rows[s] \in Seq(Rows) /\ Len(rows[s]) \in Nat /\ version[s] \in Nat
             /\ \A i \in 1..Len(rows[s]) : rows[s][i] \in Rows /\ rows[s][i].message \in Messages
  <2>1. rows[s] \in Seq(Rows) /\ Len(rows[s]) \in Nat /\ version[s] \in Nat
    BY DEF TypeOK
  <2>2. \A i \in 1..Len(rows[s]) : rows[s][i] \in Rows
    BY <2>1
  <2> QED
    BY <2>1, <2>2 DEF Rows
<1>3. ASSUME NEW p \in Runtimes, NEW s \in Sessions
      PROVE  /\ cache[p][s] \in Kept /\ cache[p][s].log \in Seq(Messages)
             /\ cache[p][s].known \in Nat
             /\ \A i \in 1..Len(cache[p][s].log) : cache[p][s].log[i] \in Messages
  <2>1. cache[p][s] \in Kept
    BY DEF TypeOK
  <2>2. cache[p][s].log \in Seq(Messages) /\ cache[p][s].known \in Nat
    BY <2>1 DEF Kept
  <2> QED
    BY <2>1, <2>2
<1> QED
  BY <1>1, <1>2, <1>3

\* What a run has said, and the journal rows it came past, stay so.
LEMMA SpokenStays ==
  ASSUME NEW m \in Messages, run[m.call[1]].pc \notin Silent, Spoken(m.call[1], m),
         Further(m.call[1]), TypeOK, TypeOK'
  PROVE  Spoken(m.call[1], m)'
<1> DEFINE r == m.call[1]
<1>1. r \in RunIds /\ m.call[2] \in Nat
  BY MessageParts
<1>2. run[r].calls \in Nat /\ run'[r].calls \in Nat
  <2>1. \A k \in 0..MaxCalls : k \in Nat
    BY ConstantTypes
  <2> QED
    BY <1>1, <2>1 DEF TypeOK, Runs
<1> HIDE DEF r
<1>3. run'[r].pc \in Past \/ (run[r].pc \in InLoop /\ run'[r].pc \in InLoop)
  BY DEF Spoken, Further, Past, InLoop, r
<1> QED
  BY <1>1, <1>2, <1>3 DEF Spoken, Further, InLoop, r

LEMMA OpenedStays ==
  ASSUME NEW c \in Calls, run[c[1]].pc \notin Silent, Opened(c), Further(c[1]), TypeOK, TypeOK'
  PROVE  Opened(c)'
<1> DEFINE r == c[1]
<1>1. r \in RunIds /\ c[2] \in Nat
  BY ConstantTypes DEF Calls
<1>2. run[r].calls \in Nat /\ run'[r].calls \in Nat
  <2>1. \A k \in 0..MaxCalls : k \in Nat
    BY ConstantTypes
  <2> QED
    BY <1>1, <2>1 DEF TypeOK, Runs
<1> HIDE DEF r
<1>3. run'[r].pc \in Past \/ (run[r].pc \in InLoop /\ run'[r].pc \in InLoop)
  BY DEF Opened, Further, Past, InLoop, r
<1> QED
  BY <1>1, <1>2, <1>3 DEF Opened, Further, InLoop, r

\* A commit in full: accepted, m is in the log and in the store with a new version;
\* refused, it is in the log only.
Commits(r, m) ==
  LET p == run[r].proc
      s == run[r].sess
  IN  /\ \A q \in Runtimes, t \in Sessions : q # p \/ t # s => cache'[q][t] = cache[q][t]
      /\ cache'[p][s].log = Append(cache[p][s].log, m) /\ cache'[p][s].here = cache[p][s].here
      /\ \/ /\ cache[p][s].known = version[s]
            /\ rows'[s] = Append(rows[s], Row(m))
            /\ version'[s] = version[s] + 1 /\ cache'[p][s].known = version[s] + 1
            /\ \A t \in Sessions \ {s} : rows'[t] = rows[t] /\ version'[t] = version[t]
         \/ UNCHANGED <<rows, version>> /\ cache'[p][s].known = cache[p][s].known

LEMMA CommitEffect ==
  ASSUME TypeOK, NEW r \in RunIds, run[r].proc \in Runtimes, run[r].sess \in Sessions,
         NEW m \in Messages, NEW next \in {"loop", "journal", "close", "release"}, AppendMessage(r, m, next)
  PROVE  /\ Commits(r, m)
         /\ run'[r].sess = run[r].sess /\ \A q \in RunIds \ {r} : run'[q] = run[q]
         /\ \/ /\ run'[r].pc = next
               /\ m.kind = "call" => run'[r].calls = run[r].calls + 1
               /\ m.kind # "call" => run'[r].calls = run[r].calls
            \/ run'[r].pc = "release" /\ (next # "release" => UNCHANGED rows)
<1> DEFINE p == run[r].proc
           s == run[r].sess
<1>0. cache[p][s] \in Kept
  BY DEF TypeOK
<1>1. CASE /\ cache[p][s].known = version[s]
           /\ rows' = [rows EXCEPT ![s] = Append(@, Row(m))]
           /\ version' = [version EXCEPT ![s] = version[s] + 1]
           /\ cache' = [cache EXCEPT ![p][s].log = Append(@, m), ![p][s].known = version[s] + 1]
           /\ run' = [run EXCEPT ![r].pc = next,
                                 ![r].calls = IF m.kind = "call" THEN @ + 1 ELSE @]
  <2> DEFINE calls == IF m.kind = "call" THEN run[r].calls + 1 ELSE run[r].calls
             kept == [cache[p][s] EXCEPT !.log = Append(@, m), !.known = version[s] + 1]
             moved == [run[r] EXCEPT !.pc = next, !.calls = calls]
  <2>1. run' = [run EXCEPT ![r] = moved]
    BY <1>1 DEF TypeOK, Runs
  <2>2. moved.pc = next /\ moved.calls = calls /\ moved.sess = s
    BY DEF TypeOK, Runs
  <2>3. cache' = [cache EXCEPT ![p] = [cache[p] EXCEPT ![s] = kept]]
    BY <1>1 DEF TypeOK, Kept
  <2>4. /\ kept.log = Append(cache[p][s].log, m) /\ kept.known = version[s] + 1
        /\ kept.here = cache[p][s].here
    BY <1>0 DEF Kept
  <2> HIDE DEF kept, moved, calls
  <2>5. \A q \in Runtimes, t \in Sessions :
          cache'[q][t] = IF q = p /\ t = s THEN kept ELSE cache[q][t]
    BY <2>3 DEF TypeOK
  <2>6. run'[r] = moved /\ \A q \in RunIds \ {r} : run'[q] = run[q]
    BY <2>1 DEF TypeOK
  <2>7. /\ rows'[s] = Append(rows[s], Row(m)) /\ version'[s] = version[s] + 1
        /\ \A t \in Sessions \ {s} : rows'[t] = rows[t] /\ version'[t] = version[t]
    BY <1>1 DEF TypeOK
  <2>8. cache'[p][s] = kept
    BY <2>5
  <2>9. \A q \in Runtimes, t \in Sessions : q # p \/ t # s => cache'[q][t] = cache[q][t]
    BY <2>5
  <2> QED
    BY <1>1, <2>2, <2>4, <2>6, <2>7, <2>8, <2>9 DEF calls, Commits
<1>2. CASE /\ cache' = [cache EXCEPT ![p][s].log = Append(@, m)]
           /\ Goto(r, "release")
           /\ UNCHANGED <<rows, version>>
  <2> DEFINE kept == [cache[p][s] EXCEPT !.log = Append(@, m)]
  <2>1. run'[r].pc = "release" /\ run'[r].sess = s /\ \A q \in RunIds \ {r} : run'[q] = run[q]
    BY <1>2, GotoMoves DEF Moves, TypeOK
  <2>2. cache' = [cache EXCEPT ![p] = [cache[p] EXCEPT ![s] = kept]]
    BY <1>2 DEF TypeOK, Kept
  <2>3. /\ kept.log = Append(cache[p][s].log, m) /\ kept.known = cache[p][s].known
        /\ kept.here = cache[p][s].here
    BY <1>0 DEF Kept
  <2> HIDE DEF kept
  <2>4. \A q \in Runtimes, t \in Sessions :
          cache'[q][t] = IF q = p /\ t = s THEN kept ELSE cache[q][t]
    BY <2>2 DEF TypeOK
  <2>5. cache'[p][s] = kept
    BY <2>4
  <2>6. \A q \in Runtimes, t \in Sessions : q # p \/ t # s => cache'[q][t] = cache[q][t]
    BY <2>4
  <2> QED
    BY <1>2, <2>1, <2>3, <2>5, <2>6 DEF Commits
<1> QED
  BY <1>1, <1>2 DEF AppendMessage

LEMMA SameFurther ==
  ASSUME TypeOK, NEW q \in RunIds, run'[q] = run[q]
  PROVE  Further(q)
<1>1. run[q].pc \in Silent \cup {"task"} \cup InLoop \cup Past
  BY DEF TypeOK, Runs, Synchronous, Owning, Settled, Silent, InLoop, Past, Finished
<1> QED
  BY <1>1 DEF Further, Past, Finished

LEMMA GotoCalls ==
  ASSUME TypeOK, NEW r \in RunIds, NEW pc, Goto(r, pc)
  PROVE  /\ run'[r].pc = pc /\ run'[r].sess = run[r].sess /\ run'[r].calls = run[r].calls
         /\ \A q \in RunIds \ {r} : run'[q] = run[q]
<1>1. run[r] \in Runs /\ run' = [run EXCEPT ![r] = [run[r] EXCEPT !.pc = pc]]
  BY DEF TypeOK, Goto
<1> QED
  BY <1>1 DEF TypeOK, Runs

\* What a run commits it has not said before, and has said afterwards, accepted
\* or refused.  A result is that of its current call.
LEMMA CommitSays ==
  ASSUME TypeOK, RunsPlaced, NEW r \in RunIds,
         CommitTask(r) \/ CommitCall(r) \/ CommitResult(r) \/ CommitAnswer(r)
  PROVE  /\ run[r].pc \in {"task", "loop", "tool"}
         /\ run[r].proc \in Runtimes /\ run[r].sess \in Sessions
         /\ UNCHANGED <<bound, journal, op>>
         /\ Further(r)
         /\ \E m \in Messages : \E next \in {"loop", "journal", "close", "release"} :
              /\ AppendMessage(r, m, next) /\ m.by = "run" /\ m.call[1] = r
              /\ ~Spoken(r, m) /\ Spoken(r, m)'
              /\ m.kind = "result" =>
                   run[r].pc = "tool" /\ m.call = CurrentCall(r) /\ next = "close"
<1> USE DEF operator
<1>1. /\ run[r].pc \in {"task", "loop", "tool"} /\ UNCHANGED <<bound, journal, op>>
      /\ run[r] \in Runs /\ run[r].calls \in Nat
  BY StoreParts DEF CommitTask, CommitCall, CommitResult, CommitAnswer
<1>2. run[r].proc \in Runtimes /\ run[r].sess \in Sessions
  BY <1>1 DEF RunsPlaced, Settled
<1>3. CASE CommitTask(r)
  <2> DEFINE m == UserMessage(r)
  <2>1. /\ m \in Messages /\ m.by = "run" /\ m.call = <<r, 0>> /\ m.kind = "user"
        /\ run[r].pc = "task" /\ AppendMessage(r, m, "loop")
    BY <1>3, MessageTypes DEF CommitTask, UserMessage
  <2> HIDE DEF m
  <2>2. run'[r].sess = run[r].sess /\ run'[r].pc \in {"loop", "release"}
    BY <1>2, <2>1, CommitEffect
  <2>3. ~Spoken(r, m) /\ Spoken(r, m)' /\ Further(r)
    BY <2>1, <2>2 DEF Spoken, Further, Past, Finished, InLoop
  <2> QED
    BY <1>1, <1>2, <2>1, <2>3
<1>4. CASE CommitCall(r)
  <2>0. PICK c : c = <<r, run[r].calls + 1>>
    OBVIOUS
  <2> DEFINE m == AssistantMessage(c)
  <2>1. c \in Calls /\ c[1] = r /\ c[2] = run[r].calls + 1
    BY <1>1, <1>4, <2>0, ConstantTypes DEF CommitCall, Runs, Calls
  <2>2. /\ m \in Messages /\ m.by = "run" /\ m.call[1] = r /\ m.call[2] = run[r].calls + 1
        /\ m.kind = "call" /\ run[r].pc = "loop" /\ AppendMessage(r, m, "journal")
    BY <1>4, <2>0, <2>1, MessageTypes DEF CommitCall, AssistantMessage
  <2> HIDE DEF m
  <2>3. /\ run'[r].sess = run[r].sess
        /\ run'[r].pc = "release" \/ (run'[r].pc = "journal" /\ run'[r].calls = run[r].calls + 1)
    BY <1>2, <2>2, CommitEffect
  <2>4. ~Spoken(r, m)
    BY <1>1, <2>2 DEF Spoken, Past, Finished
  <2>5. Spoken(r, m)'
    BY <1>1, <2>2, <2>3 DEF Spoken, Past, InLoop
  <2>6. Further(r)
    BY <1>1, <2>2, <2>3 DEF Further, Past, Finished, InLoop
  <2> QED
    BY <1>1, <1>2, <2>2, <2>4, <2>5, <2>6
<1>5. CASE CommitResult(r)
  <2>0. PICK c : c = CurrentCall(r)
    OBVIOUS
  <2> DEFINE m == ToolResult(c, "run")
  <2>1. /\ m \in Messages /\ m.by = "run" /\ m.call[1] = r /\ m.call[2] = run[r].calls
        /\ m.kind = "result" /\ m.call = CurrentCall(r) /\ run[r].pc = "tool" /\ AppendMessage(r, m, "close")
    BY <1>1, <1>5, <2>0 DEF CommitResult, ToolResult, CurrentCall, Messages, Runs
  <2> HIDE DEF m
  <2>2. /\ run'[r].sess = run[r].sess
        /\ run'[r].pc = "release" \/ (run'[r].pc = "close" /\ run'[r].calls = run[r].calls)
    BY <1>2, <2>1, CommitEffect
  <2>3. ~Spoken(r, m)
    BY <1>1, <2>1 DEF Spoken, Past, Finished
  <2>4. Spoken(r, m)'
    BY <1>1, <2>1, <2>2 DEF Spoken, Past, InLoop
  <2>5. Further(r)
    BY <1>1, <2>1, <2>2 DEF Further, Past, Finished, InLoop
  <2> QED
    BY <1>1, <1>2, <2>1, <2>3, <2>4, <2>5
<1>6. CASE CommitAnswer(r)
  <2> DEFINE m == FinalAnswer(r)
  <2>1. /\ m \in Messages /\ m.by = "run" /\ m.call[1] = r /\ m.kind = "answer"
        /\ run[r].pc = "loop" /\ AppendMessage(r, m, "release")
    BY <1>6, MessageTypes DEF CommitAnswer, FinalAnswer
  <2> HIDE DEF m
  <2>2. run'[r].sess = run[r].sess /\ run'[r].pc = "release"
    BY <1>2, <2>1, CommitEffect
  <2>3. ~Spoken(r, m) /\ Spoken(r, m)' /\ Further(r)
    BY <2>1, <2>2 DEF Spoken, Further, Past, Finished, InLoop
  <2> QED
    BY <1>1, <1>2, <2>1, <2>3
<1> QED
  BY <1>3, <1>4, <1>5, <1>6

LEMMA Advance ==
  ASSUME TypeOK, RunsPlaced, [Next]_vars, NEW q \in RunIds
  PROVE  Further(q)
<1> USE DEF store, process, operator
<1>0. run \in [RunIds -> Runs]
  BY DEF TypeOK
<1>1. ASSUME NEW p \in Runtimes, NEW s \in Sessions, NEW w \in Workspaces, Begin(p, s, w)
      PROVE  Further(q)
  <2>1. \E task \in BOOLEAN, place \in Waiting : Launch(p, s, w, task, place)
    BY <1>1 DEF Begin, CreateSession, StartRun, AcceptRun, Waiting
  <2>2. \E place \in Waiting : Appears(p, s, w, place)
    BY <2>1, LaunchAppears
  <2>3. run[runs + 1].pc = "none"
    BY <2>2, ConstantTypes DEF Appears, RunsPlaced, TypeOK
  <2>4. q = runs + 1 \/ run'[q] = run[q]
    BY <2>2 DEF Appears
  <2> QED
    BY <2>3, <2>4, SameFurther DEF Further, Silent
<1>2. ASSUME NEW r \in RunIds, run[r].pc \in Silent, \A u \in RunIds \ {r} : run'[u] = run[u]
      PROVE  Further(q)
  <2>1. q = r \/ run'[q] = run[q]
    BY <1>2
  <2> QED
    BY <1>2, <2>1, SameFurther DEF Further
<1>3. ASSUME NEW r \in RunIds, BeginAccepted(r) \/ LoadVersion(r) \/ LoadRows(r) \/ Enter(r)
      PROVE  Further(q)
  <2>1. run[r].pc \in Silent
    BY <1>3 DEF BeginAccepted, LoadVersion, LoadRows, Enter, Silent
  <2>2. \A u \in RunIds \ {r} : run'[u] = run[u]
    BY <1>0, <1>3 DEF BeginAccepted, LoadVersion, LoadRows, Enter, Goto, Settle
  <2> QED
    BY <1>2, <2>1, <2>2
<1>4. ASSUME NEW r \in RunIds, CommitTask(r) \/ CommitCall(r) \/ CommitResult(r) \/ CommitAnswer(r)
      PROVE  Further(q)
  <2>1. CASE q = r
    BY <1>4, <2>1, CommitSays
  <2>2. CASE q # r
    <3>1. \E m \in Messages : \E next \in {"loop", "journal", "close", "release"} :
            AppendMessage(r, m, next)
      BY <1>4, CommitSays
    <3>2. run[r].proc \in Runtimes /\ run[r].sess \in Sessions
      BY <1>4, CommitSays
    <3>3. run'[q] = run[q]
      BY <2>2, <3>1, <3>2, CommitEffect
    <3> QED
      BY <3>3, SameFurther
  <2> QED
    BY <2>1, <2>2
<1>5. ASSUME NEW r \in RunIds,
             \/ SkillsFail(r) \/ ContinueTask(r) \/ FinishRun(r) \/ OpenIntent(r) \/ CloseIntent(r)
             \/ JournalFails(r)
      PROVE  Further(q)
  <2>1. /\ run'[r].sess = run[r].sess /\ run'[r].calls = run[r].calls
        /\ \A u \in RunIds \ {r} : run'[u] = run[u]
        /\ \/ run[r].pc \in {"task", "loop", "journal", "close"} /\ run'[r].pc = "release"
           \/ run[r].pc = "task" /\ run'[r].pc = "loop"
           \/ run[r].pc = "journal" /\ run'[r].pc = "tool"
           \/ run[r].pc = "close" /\ run'[r].pc = "loop"
    BY <1>5, GotoCalls
       DEF SkillsFail, ContinueTask, FinishRun, OpenIntent, CloseIntent, JournalFails
  <2>2. Further(r)
    BY <2>1 DEF Further, Past, Finished, InLoop
  <2> QED
    BY <2>1, <2>2, SameFurther
<1>6. ASSUME NEW r \in RunIds, Release(r)
      PROVE  Further(q)
  <2>1. Leaves(r, "done") /\ run[r].pc = "release"
    BY <1>0, <1>6, SettleLeaves DEF Release
  <2>2. Further(r)
    BY <2>1 DEF Further, Leaves, Past, Finished
  <2> QED
    BY <2>1, <2>2, SameFurther DEF Leaves
<1>7. ASSUME NEW p \in Runtimes, Kill(p)
      PROVE  Further(q)
  <2>1. \/ run'[q] = run[q]
        \/ run[q].pc \notin Settled /\ run'[q].pc = "killed" /\ run'[q].sess = run[q].sess
    BY <1>7 DEF Kill, Over, NoRun
  <2>2. CASE run[q].pc \notin Settled /\ run'[q].pc = "killed" /\ run'[q].sess = run[q].sess
    BY <2>2 DEF Further, Past, Finished
  <2> QED
    BY <2>1, <2>2, SameFurther
<1>8. CASE UNCHANGED run
  BY <1>8, SameFurther
<1>9. (\E s \in Sessions : Tear(s)) \/ OperatorStep \/ UNCHANGED vars => UNCHANGED run
  BY DEF Tear, OperatorStep, ChooseCall, OperatorLoads, OperatorAppends, OperatorMarks, OperatorStops, vars
<1> QED
  BY <1>1, <1>3, <1>4, <1>5, <1>6, <1>7, <1>8, <1>9 DEF Next, RunStep

\* Where a run has a call in hand.
InCall == {"journal", "tool", "close"}

\* A run comes to a call by committing it, and leaves it by closing its row in
\* the journal, or it is noted that it did not.
LEMMA CallGoes ==
  ASSUME TypeOK, RunsPlaced, [Next]_vars, NEW q \in RunIds
  PROVE  /\ run'[q].pc \in InCall =>
              \/ run[q].pc \in InCall /\ run'[q].calls = run[q].calls
              \/ run'[q].calls = run[q].calls + 1
         /\ run[q].pc = "close" =>
              \/ run'[q].pc = "close" /\ run'[q].calls = run[q].calls
              \/ journal' = [journal EXCEPT ![CurrentCall(q)] = "closed"]
              \/ CurrentCall(q) \in cut'
<1> USE DEF store, process, operator
<1> DEFINE Goes == /\ run'[q].pc \in InCall =>
                        \/ run[q].pc \in InCall /\ run'[q].calls = run[q].calls
                        \/ run'[q].calls = run[q].calls + 1
                   /\ run[q].pc = "close" =>
                        \/ run'[q].pc = "close" /\ run'[q].calls = run[q].calls
                        \/ journal' = [journal EXCEPT ![CurrentCall(q)] = "closed"]
                        \/ CurrentCall(q) \in cut'
<1>0. run \in [RunIds -> Runs]
  BY DEF TypeOK
<1>1. ASSUME run'[q] = run[q]
      PROVE  Goes
  BY <1>1
<1>2. ASSUME NEW p \in Runtimes, NEW s \in Sessions, NEW w \in Workspaces, Begin(p, s, w)
      PROVE  Goes
  <2>1. \E task \in BOOLEAN, place \in Waiting : Launch(p, s, w, task, place)
    BY <1>2 DEF Begin, CreateSession, StartRun, AcceptRun, Waiting
  <2>2. PICK place \in Waiting : Appears(p, s, w, place)
    BY <2>1, LaunchAppears
  <2>3. run[runs + 1].pc = "none" /\ run'[runs + 1].pc \notin InCall
    BY <2>2, ConstantTypes DEF Appears, RunsPlaced, TypeOK, Waiting, InCall
  <2> QED
    BY <1>1, <2>2, <2>3 DEF Appears
<1>3. ASSUME NEW r \in RunIds, BeginAccepted(r) \/ LoadVersion(r) \/ LoadRows(r) \/ Enter(r) \/ Release(r)
      PROVE  Goes
  <2>1. run'[r].pc \notin InCall /\ run[r].pc # "close"
    BY <1>0, <1>3, SettleLeaves, GotoMoves
       DEF BeginAccepted, LoadVersion, LoadRows, Enter, Release, Leaves, Moves, Runs, InCall
  <2>2. \A u \in RunIds \ {r} : run'[u] = run[u]
    BY <1>0, <1>3 DEF BeginAccepted, LoadVersion, LoadRows, Enter, Release, Goto, Settle
  <2> QED
    BY <1>1, <2>1, <2>2
<1>4. ASSUME NEW r \in RunIds, CommitTask(r) \/ CommitCall(r) \/ CommitResult(r) \/ CommitAnswer(r)
      PROVE  Goes
  <2>1. run[r].pc \in {"task", "loop", "tool"} /\ run[r].proc \in Runtimes /\ run[r].sess \in Sessions
    BY <1>4, CommitSays
  <2>2. PICK m \in Messages, next \in {"loop", "journal", "close", "release"} :
          /\ AppendMessage(r, m, next)
          /\ next \in InCall /\ m.kind # "call" => run[r].pc = "tool"
    <3>1. CASE CommitTask(r)
      BY <3>1, MessageTypes DEF CommitTask, InCall
    <3>2. CASE CommitCall(r)
      <4>1. <<r, run[r].calls + 1>> \in Calls
        BY <3>2, ConstantTypes DEF CommitCall, TypeOK, Runs, Calls
      <4> QED
        BY <3>2, <4>1, MessageTypes DEF CommitCall, AssistantMessage
    <3>3. CASE CommitResult(r)
      <4>1. ToolResult(CurrentCall(r), "run") \in Messages
        BY <1>0 DEF ToolResult, CurrentCall, Messages, Runs
      <4> QED
        BY <3>3, <4>1 DEF CommitResult
    <3>4. CASE CommitAnswer(r)
      BY <3>4, MessageTypes DEF CommitAnswer, InCall
    <3> QED
      BY <1>4, <3>1, <3>2, <3>3, <3>4
  <2>3. /\ \A u \in RunIds \ {r} : run'[u] = run[u]
        /\ \/ /\ run'[r].pc = next
              /\ m.kind = "call" => run'[r].calls = run[r].calls + 1
              /\ m.kind # "call" => run'[r].calls = run[r].calls
           \/ run'[r].pc = "release"
    BY <2>1, <2>2, CommitEffect
  <2> QED
    BY <1>1, <2>1, <2>2, <2>3 DEF InCall
<1>5. ASSUME NEW r \in RunIds,
             \/ SkillsFail(r) \/ ContinueTask(r) \/ FinishRun(r) \/ OpenIntent(r) \/ CloseIntent(r)
             \/ JournalFails(r)
      PROVE  Goes
  <2>1. /\ run'[r].calls = run[r].calls
        /\ \A u \in RunIds \ {r} : run'[u] = run[u]
        /\ \/ run[r].pc # "close" /\ run'[r].pc \in {"release", "loop"}
           \/ run[r].pc = "journal" /\ run'[r].pc = "tool"
           \/ /\ run'[r].pc = "loop"
              /\ journal' = [journal EXCEPT ![CurrentCall(r)] = "closed"]
           \/ run'[r].pc = "release" /\ (run[r].pc = "close" => CurrentCall(r) \in cut')
    BY <1>5, GotoCalls
       DEF SkillsFail, ContinueTask, FinishRun, OpenIntent, CloseIntent, JournalFails
  <2>2. CASE q = r
    BY <2>1, <2>2 DEF InCall
  <2> QED
    BY <1>1, <2>1, <2>2
<1>6. ASSUME NEW p \in Runtimes, Kill(p)
      PROVE  Goes
  <2>1. \/ run'[q] = run[q]
        \/ run[q].proc = p /\ run'[q].pc = "killed"
    BY <1>6 DEF Kill, Over, NoRun
  <2>2. run[q].proc = p /\ run[q].pc = "close" => CurrentCall(q) \in cut'
    BY <1>6 DEF Kill
  <2> QED
    BY <1>1, <2>1, <2>2 DEF InCall
<1>7. (\E s \in Sessions : Tear(s)) \/ OperatorStep \/ UNCHANGED vars => run'[q] = run[q]
  BY DEF Tear, OperatorStep, ChooseCall, OperatorLoads, OperatorAppends, OperatorMarks,
         OperatorStops, vars
<1> HIDE DEF Goes
<1>8. Goes
  BY <1>1, <1>2, <1>3, <1>4, <1>5, <1>6, <1>7 DEF Next, RunStep
<1> QED
  BY <1>8 DEF Goes

\* What is noted of a call stays noted.
LEMMA NotesStay ==
  ASSUME [Next]_vars
  PROVE  raced \subseteq raced' /\ cut \subseteq cut'
<1> USE DEF store, process, operator
<1>1. ASSUME NEW r \in RunIds, RunStep(r) \/ SkillsFail(r) \/ JournalFails(r)
      PROVE  raced \subseteq raced' /\ cut \subseteq cut'
  BY <1>1 DEF RunStep, BeginAccepted, LoadVersion, LoadRows, Enter, CommitTask, ContinueTask,
              CommitCall, OpenIntent, CommitResult, CloseIntent, CommitAnswer, FinishRun, Release,
              SkillsFail, JournalFails
<1>2. ASSUME NEW p \in Runtimes, NEW s \in Sessions, NEW w \in Workspaces, Begin(p, s, w)
      PROVE  raced \subseteq raced' /\ cut \subseteq cut'
  BY <1>2 DEF Begin, CreateSession, StartRun, AcceptRun
<1>3. ASSUME OperatorStep \/ UNCHANGED vars
      PROVE  raced \subseteq raced' /\ cut \subseteq cut'
  BY <1>3 DEF OperatorStep, ChooseCall, OperatorLoads, OperatorAppends, OperatorMarks,
              OperatorStops, vars
<1>4. ASSUME (\E p \in Runtimes : Kill(p)) \/ (\E s \in Sessions : Tear(s))
      PROVE  raced \subseteq raced' /\ cut \subseteq cut'
  BY <1>4 DEF Kill, Tear
<1> QED
  BY <1>1, <1>2, <1>3, <1>4 DEF Next


\* What is in the rows and in the logs, its run has come to say.
Voiced ==
  /\ \A s \in Sessions : \A i \in 1..Len(rows[s]) :
       rows[s][i].message.by = "run" => Spoken(rows[s][i].message.call[1], rows[s][i].message)
  /\ \A p \in Runtimes, s \in Sessions : \A i \in 1..Len(cache[p][s].log) :
       cache[p][s].log[i].by = "run" => Spoken(cache[p][s].log[i].call[1], cache[p][s].log[i])

\* A row is in the session its run works on, and that session exists.
RowsBound ==
  \A s \in Sessions : \A i \in 1..Len(rows[s]) :
    bound[s] # Null /\ run[rows[s][i].message.call[1]].sess = s

\* A call in the journal is one its run came past, on a session that exists.
JournalOpened ==
  \A c \in Calls : journal[c] # "absent" =>
    /\ Opened(c)
    /\ run[c[1]].sess \in Sessions /\ bound[run[c[1]].sess] # Null

CallsMade == \A r \in RunIds : run[r].pc \in InCall => CurrentCall(r) \in Calls

\* What an operator commits is results, of calls of the session.
OperatorVoiced ==
  /\ \A s \in Sessions : \A i \in 1..Len(rows[s]) : rows[s][i].message.by = "operator" =>
       rows[s][i].message.call \in Calls /\ rows[s][i].message.kind = "result"
  /\ op.pc # "idle" =>
       /\ journal[op.call] # "absent" /\ run[op.call[1]].sess = op.sess
       /\ bound[op.sess] # Null

\* No run commits a message twice.
RowsOnce ==
  \A s \in Sessions : \A i, j \in 1..Len(rows[s]) :
    rows[s][i].message.by = "run" /\ rows[s][i].message = rows[s][j].message => i = j

\* Nobody knows a version the store has not come to.
Behind ==
  /\ \A p \in Runtimes, s \in Sessions : cache[p][s].here => cache[p][s].known <= version[s]
  /\ \A r \in RunIds : run[r].pc = "replaying" => run[r].view <= version[run[r].sess]

\* The journal has the call closed, or whoever committed its result is about to.
Marked(c) ==
  \/ journal[c] = "closed"
  \/ run[c[1]].pc = "close" /\ CurrentCall(c[1]) = c
  \/ op.pc = "mark" /\ op.call = c

IsResult(s, i) == rows[s][i].message.kind = "result"

ResultsMarked ==
  \A s \in Sessions : \A i \in 1..Len(rows[s]) : IsResult(s, i) =>
    /\ rows[s][i].message.call \in Calls
    /\ rows[s][i].message.call \notin cut => Marked(rows[s][i].message.call)

\* Where nothing is noted of a call, the run of a call that is being treated, or
\* was, is over; and one that is being treated has no result yet.
OperatorWaits ==
  /\ op.pc \in {"chosen", "loaded"} /\ op.call \notin raced \cup cut =>
       /\ run[op.call[1]].pc \in Finished
       /\ \A s \in Sessions : \A i \in 1..Len(rows[s]) :
            IsResult(s, i) => rows[s][i].message.call # op.call
  /\ \A s \in Sessions : \A i \in 1..Len(rows[s]) :
       rows[s][i].message.by = "operator" /\ rows[s][i].message.call \notin raced \cup cut =>
         run[rows[s][i].message.call[1]].pc \in Finished

OneResult ==
  \A s \in Sessions : \A i, j \in 1..Len(rows[s]) :
    /\ IsResult(s, i) /\ IsResult(s, j)
    /\ rows[s][i].message.call = rows[s][j].message.call
    /\ rows[s][i].message.call \notin raced \cup cut
    => i = j

Said == /\ Voiced /\ RowsBound /\ JournalOpened /\ CallsMade /\ OperatorVoiced
        /\ RowsOnce /\ Behind

History == Consistent /\ Said /\ NoForkedHistory /\ ResultsMarked /\ OperatorWaits /\ OneResult

\* A log has the rows that parse, each at one place and in their order.
Match(log, rws) ==
  /\ \A i \in 1..Len(rws) : rws[i].whole => \E a \in 1..Len(log) : log[a] = rws[i].message
  /\ \A i, j \in 1..Len(rws), a, b \in 1..Len(log) :
       rws[i].whole /\ rws[j].whole /\ log[a] = rws[i].message /\ log[b] = rws[j].message
       => (a < b <=> i < j)

LEMMA MatchMeaning ==
  NoForkedHistory <=>
    \A p \in Runtimes, s \in Sessions :
      cache[p][s].here /\ cache[p][s].known = version[s] => Match(cache[p][s].log, rows[s])
<1>1. ASSUME NEW p \in Runtimes, NEW s \in Sessions
      PROVE  Match(cache[p][s].log, rows[s]) <=>
               LET log == cache[p][s].log
                   places(i) == {a \in 1..Len(log) : log[a] = rows[s][i].message}
               IN  /\ \A i \in Whole(s) : places(i) # {}
                   /\ \A i, j \in Whole(s) : \A a \in places(i), b \in places(j) : a < b <=> i < j
  BY DEF Match, Whole
<1> QED
  BY <1>1, SMTT(30) DEF NoForkedHistory

LEMMA Grown ==
  ASSUME NEW S, NEW seq \in Seq(S), NEW e \in S
  PROVE  /\ Len(Append(seq, e)) = Len(seq) + 1 /\ Append(seq, e)[Len(seq) + 1] = e
         /\ \A i \in 1..Len(seq) : Append(seq, e)[i] = seq[i]
         /\ \A i \in 1..Len(Append(seq, e)) : i \in 1..Len(seq) \/ i = Len(seq) + 1
  OBVIOUS

\* A message that is new to both goes to the end of both.
LEMMA MatchGrows ==
  ASSUME NEW log \in Seq(Messages), NEW rws \in Seq(Rows), NEW m \in Messages, Match(log, rws),
         \A a \in 1..Len(log) : log[a] # m, \A i \in 1..Len(rws) : rws[i].message # m
  PROVE  Match(Append(log, m), Append(rws, Row(m)))
<1> DEFINE log1 == Append(log, m)
           rws1 == Append(rws, Row(m))
           n == Len(log)
           k == Len(rws)
<1>1. Row(m) \in Rows /\ Row(m).message = m
  BY DEF Row, Rows
<1>2. /\ n \in Nat /\ k \in Nat /\ Len(log1) = n + 1 /\ Len(rws1) = k + 1
      /\ log1[n + 1] = m /\ rws1[k + 1].message = m
      /\ \A a \in 1..n : log1[a] = log[a]
      /\ \A i \in 1..k : rws1[i] = rws[i]
  BY <1>1, Grown
<1>3. \A a \in 1..(n + 1) : a \in 1..n \/ a = n + 1
  BY <1>2
<1>4. \A i \in 1..(k + 1) : i \in 1..k \/ i = k + 1
  BY <1>2
<1> HIDE DEF log1, rws1, n, k
<1>5. ASSUME NEW i \in 1..(k + 1), rws1[i].whole
      PROVE  \E a \in 1..(n + 1) : log1[a] = rws1[i].message
  <2>1. CASE i \in 1..k
    <3>1. PICK a \in 1..n : log[a] = rws[i].message
      BY <1>2, <1>5, <2>1 DEF Match, n, k
    <3>2. a \in 1..(n + 1)
      BY <1>2
    <3> QED
      BY <1>2, <2>1, <3>1, <3>2
  <2>2. CASE i = k + 1
    <3>1. n + 1 \in 1..(n + 1)
      BY <1>2
    <3> QED
      BY <1>2, <2>2, <3>1
  <2> QED
    BY <1>4, <2>1, <2>2
<1>6. ASSUME NEW i \in 1..(k + 1), NEW a \in 1..(n + 1), log1[a] = rws1[i].message
      PROVE  (i \in 1..k /\ a \in 1..n) \/ (i = k + 1 /\ a = n + 1)
  BY <1>2, <1>3, <1>4, <1>6 DEF n, k
<1>7. ASSUME NEW i \in 1..(k + 1), NEW j \in 1..(k + 1), NEW a \in 1..(n + 1), NEW b \in 1..(n + 1),
             rws1[i].whole, rws1[j].whole, log1[a] = rws1[i].message, log1[b] = rws1[j].message
      PROVE  a < b <=> i < j
  <2>1. CASE i \in 1..k /\ a \in 1..n /\ j \in 1..k /\ b \in 1..n
    BY <1>2, <1>7, <2>1 DEF Match, n, k
  <2>2. CASE i = k + 1 /\ a = n + 1
    BY <1>2, <2>2
  <2>3. CASE i \in 1..k /\ a \in 1..n /\ j = k + 1 /\ b = n + 1
    BY <1>2, <2>3
  <2>4. /\ (i \in 1..k /\ a \in 1..n) \/ (i = k + 1 /\ a = n + 1)
        /\ (j \in 1..k /\ b \in 1..n) \/ (j = k + 1 /\ b = n + 1)
    BY <1>6, <1>7
  <2> QED
    BY <2>1, <2>2, <2>3, <2>4
<1>8. Match(log1, rws1)
  BY <1>2, <1>5, <1>7 DEF Match
<1> QED
  BY <1>8 DEF log1, rws1

\* A message the store refused is in the log only.
LEMMA MatchAhead ==
  ASSUME NEW log \in Seq(Messages), NEW rws \in Seq(Rows), NEW m \in Messages, Match(log, rws),
         \A i \in 1..Len(rws) : rws[i].message # m
  PROVE  Match(Append(log, m), rws)
<1> DEFINE log1 == Append(log, m)
           n == Len(log)
<1>2. /\ n \in Nat /\ Len(log1) = n + 1 /\ log1[n + 1] = m
      /\ \A a \in 1..n : log1[a] = log[a] /\ a \in 1..(n + 1)
  BY Grown
<1>3. \A a \in 1..(n + 1) : a \in 1..n \/ a = n + 1
  BY <1>2
<1> HIDE DEF log1, n
<1>4. ASSUME NEW i \in 1..Len(rws), NEW a \in 1..(n + 1), log1[a] = rws[i].message
      PROVE  a \in 1..n /\ log[a] = rws[i].message
  BY <1>2, <1>3, <1>4
<1>5. ASSUME NEW i \in 1..Len(rws), rws[i].whole
      PROVE  \E a \in 1..(n + 1) : log1[a] = rws[i].message
  <2>1. PICK a \in 1..n : log[a] = rws[i].message
    BY <1>5 DEF Match, n
  <2> QED
    BY <1>2, <2>1
<1>6. \A i, j \in 1..Len(rws), a, b \in 1..(n + 1) :
        rws[i].whole /\ rws[j].whole /\ log1[a] = rws[i].message /\ log1[b] = rws[j].message
        => (a < b <=> i < j)
  BY <1>4 DEF Match, n
<1>7. Match(log1, rws)
  BY <1>2, <1>5, <1>6 DEF Match
<1> QED
  BY <1>7 DEF log1

\* Rows that no longer parse are not asked for.
LEMMA MatchTorn ==
  ASSUME NEW log, NEW rws, NEW torn, Match(log, rws), Len(torn) = Len(rws),
         \A i \in 1..Len(rws) : /\ torn[i].message = rws[i].message
                                /\ torn[i].whole => rws[i].whole
  PROVE  Match(log, torn)
  BY DEF Match

LEMMA MatchLoaded ==
  ASSUME TypeOK, RowsOnce, OperatorVoiced, NEW s \in Sessions, Hydratable(s)
  PROVE  Match(Loaded(s), rows[s])
<1> DEFINE n == Len(rows[s])
           k == IF n > 0 /\ ~rows[s][n].whole THEN n - 1 ELSE n
<1>1. n \in Nat /\ k \in Nat /\ k <= n
  BY DEF TypeOK
<1>2. Loaded(s) = [i \in 1..k |-> rows[s][i].message]
  BY DEF Loaded
<1>3. Len(Loaded(s)) = k /\ \A i \in 1..k : Loaded(s)[i] = rows[s][i].message /\ i \in 1..n
  BY <1>1, <1>2
<1>4. \A i \in 1..n : rows[s][i].whole => i \in 1..k
  BY <1>1
<1>5. \A i \in 1..n : rows[s][i].message \in Messages
  BY StoreParts
<1> HIDE DEF n, k
<1>6. ASSUME NEW i \in 1..k, NEW a \in 1..k, Loaded(s)[a] = rows[s][i].message
      PROVE  a = i
  <2>1. rows[s][a].message = rows[s][i].message /\ i \in 1..n /\ a \in 1..n
    BY <1>3, <1>6
  <2>2. CASE rows[s][i].message.by = "run"
    BY <2>1, <2>2 DEF RowsOnce, n
  <2>3. CASE rows[s][i].message.kind = "result"
    <3>1. Loaded(s)[i].kind = "result" /\ Loaded(s)[a].kind = "result"
          /\ Loaded(s)[i].call = Loaded(s)[a].call
      BY <1>3, <1>6, <2>3
    <3>2. \A b, c \in 1..k :
            /\ c \in 1..(b - 1)
            /\ Loaded(s)[b].kind = "result" /\ Loaded(s)[c].kind = "result"
            => Loaded(s)[c].call # Loaded(s)[b].call
      BY <1>3 DEF Hydratable, Replays
    <3>3. a \notin 1..(i - 1) /\ i \notin 1..(a - 1)
      BY <3>1, <3>2
    <3> QED
      BY <1>1, <3>3
  <2>4. rows[s][i].message.by = "run" \/ rows[s][i].message.kind = "result"
    BY <1>5, <2>1, MessageParts DEF OperatorVoiced, n
  <2> QED
    BY <2>2, <2>3, <2>4
<1>7. ASSUME NEW i \in 1..n, rows[s][i].whole
      PROVE  \E a \in 1..k : Loaded(s)[a] = rows[s][i].message
  BY <1>3, <1>4, <1>7
<1>8. \A i, j \in 1..n, a, b \in 1..k :
        /\ rows[s][i].whole /\ rows[s][j].whole
        /\ Loaded(s)[a] = rows[s][i].message /\ Loaded(s)[b] = rows[s][j].message
        => (a < b <=> i < j)
  BY <1>4, <1>6
<1> QED
  BY <1>3, <1>7, <1>8 DEF Match, n

\* The run r commits m, which it had not said before.
Says(r, m) ==
  /\ run[r].pc \in {"task", "loop", "tool"}
  /\ run[r].proc \in Runtimes /\ run[r].sess \in Sessions
  /\ UNCHANGED <<bound, journal, op>>
  /\ m.by = "run" /\ m.call[1] = r /\ ~Spoken(r, m) /\ Spoken(r, m)'
  /\ m.kind = "result" =>
       /\ run[r].pc = "tool" /\ m.call = CurrentCall(r)
       /\ UNCHANGED rows \/ (run'[r].pc = "close" /\ run'[r].calls = run[r].calls)
  /\ Commits(r, m)

\* A step that commits nothing; a process may take up a session, or lose it.
TakesUp(p, s) ==
  \/ cache'[p][s] = cache[p][s]
  \/ ~cache'[p][s].here /\ cache'[p][s].log = <<>>
  \/ bound[s] = Null /\ cache'[p][s].log = <<>> /\ cache'[p][s].known = 0
  \/ \E r \in RunIds :
       /\ run[r].pc = "replaying" /\ run[r].sess = s /\ Hydratable(s)
       /\ cache'[p][s].log = Loaded(s) /\ cache'[p][s].known = run[r].view

Quiet ==
  /\ UNCHANGED <<rows, version, journal, op>>
  /\ \A p \in Runtimes, s \in Sessions : TakesUp(p, s)

\* The journal row of the current call is opened or closed.
Records(r) ==
  /\ UNCHANGED <<bound, rows, version, cache, op>>
  /\ run'[r].calls = run[r].calls
  /\ \/ /\ run[r].pc = "journal" /\ run'[r].pc = "tool"
        /\ journal' = [journal EXCEPT ![CurrentCall(r)] = "open"]
     \/ /\ run[r].pc = "close" /\ run'[r].pc = "loop"
        /\ journal' = [journal EXCEPT ![CurrentCall(r)] = "closed"]

LEMMA CommitKind ==
  ASSUME TypeOK, RunsPlaced, NEW r \in RunIds,
         CommitTask(r) \/ CommitCall(r) \/ CommitResult(r) \/ CommitAnswer(r)
  PROVE  \E m \in Messages : Says(r, m)
<1>1. /\ run[r].pc \in {"task", "loop", "tool"}
      /\ run[r].proc \in Runtimes /\ run[r].sess \in Sessions
      /\ UNCHANGED <<bound, journal, op>>
  BY CommitSays
<1>2. PICK m \in Messages : \E next \in {"loop", "journal", "close", "release"} :
        /\ AppendMessage(r, m, next) /\ m.by = "run" /\ m.call[1] = r
        /\ ~Spoken(r, m) /\ Spoken(r, m)'
        /\ m.kind = "result" =>
             run[r].pc = "tool" /\ m.call = CurrentCall(r) /\ next = "close"
  BY CommitSays
<1>3. PICK next \in {"loop", "journal", "close", "release"} :
        /\ AppendMessage(r, m, next)
        /\ m.kind = "result" =>
             run[r].pc = "tool" /\ m.call = CurrentCall(r) /\ next = "close"
  BY <1>2
<1>4. Commits(r, m)
  BY <1>1, <1>3, CommitEffect
<1>6. ASSUME m.kind = "result"
      PROVE  UNCHANGED rows \/ (run'[r].pc = "close" /\ run'[r].calls = run[r].calls)
  <2>1. \/ UNCHANGED rows
        \/ run' = [run EXCEPT ![r].pc = "close", ![r].calls = run[r].calls]
    BY <1>3, <1>6 DEF AppendMessage
  <2> QED
    BY <2>1 DEF TypeOK, Runs
<1>5. Says(r, m)
  BY ONLY <1>1, <1>2, <1>3, <1>4, <1>6 DEF Says
<1> QED
  BY <1>5

LEMMA Kinds ==
  ASSUME TypeOK, RunsPlaced, OneAtATime, [Next]_vars
  PROVE  \/ Quiet
         \/ \E r \in RunIds, m \in Messages : Says(r, m)
         \/ \E r \in RunIds : Records(r)
         \/ \E s \in Sessions : Tear(s)
         \/ OperatorStep
<1> USE DEF store, process, operator
<1>a. UNCHANGED <<rows, version, journal, cache, op>> => Quiet
  BY DEF Quiet, TakesUp
<1>1. ASSUME NEW p \in Runtimes, NEW s \in Sessions, NEW w \in Workspaces, Begin(p, s, w)
      PROVE  Quiet
  <2>1. CASE CreateSession(p, s, w)
    <3>1. UNCHANGED <<rows, version, journal, op>> /\ bound[s] = Null
      BY <2>1 DEF CreateSession
    <3>2. ASSUME NEW q \in Runtimes, NEW t \in Sessions
          PROVE  TakesUp(q, t)
      <4>1. CASE q = p /\ t = s
        <5>1. cache'[q][t] = [log |-> <<>>, known |-> 0, space |-> w, here |-> TRUE]
          BY <2>1, <4>1 DEF CreateSession, TypeOK
        <5> QED
          BY <3>1, <4>1, <5>1 DEF TakesUp
      <4>2. CASE q # p \/ t # s
        BY <2>1, <4>2 DEF CreateSession, TypeOK, TakesUp
      <4> QED
        BY <4>1, <4>2
    <3> QED
      BY <3>1, <3>2 DEF Quiet
  <2> QED
    BY <1>1, <1>a, <2>1 DEF Begin, StartRun, AcceptRun
<1>2. ASSUME NEW r \in RunIds, LoadRows(r)
      PROVE  Quiet
  <2>1. /\ run[r].proc \in Runtimes /\ run[r].sess \in Sessions /\ run[r].pc = "replaying"
        /\ UNCHANGED <<rows, version, journal, op>>
    BY <1>2 DEF LoadRows, RunsPlaced, Settled
  <2>2. CASE Hydratable(run[r].sess)
    <3>1. ASSUME NEW q \in Runtimes, NEW t \in Sessions
          PROVE  TakesUp(q, t)
      <4>1. CASE q = run[r].proc /\ t = run[r].sess
        <5>1. cache'[q][t] = [log |-> Loaded(t), known |-> run[r].view, space |-> bound[t],
                              here |-> TRUE]
          BY <1>2, <2>1, <2>2, <4>1 DEF LoadRows, TypeOK
        <5> QED
          BY <2>1, <2>2, <4>1, <5>1 DEF TakesUp
      <4>2. CASE q # run[r].proc \/ t # run[r].sess
        <5>1. cache'[q][t] = cache[q][t]
          BY <1>2, <2>1, <2>2, <4>2, LoadRowsEffect, ZenonT(30)
        <5> QED
          BY <5>1 DEF TakesUp
      <4> QED
        BY <4>1, <4>2
    <3> QED
      BY <2>1, <3>1 DEF Quiet
  <2>3. CASE ~Hydratable(run[r].sess)
    BY <1>2, <1>a, <2>1, <2>3 DEF LoadRows
  <2> QED
    BY <2>2, <2>3
<1>3. ASSUME NEW p \in Runtimes, Kill(p)
      PROVE  Quiet
  <2>1. \A q \in Runtimes, t \in Sessions : TakesUp(q, t)
    BY <1>3 DEF Kill, TypeOK, TakesUp, NotCached
  <2> QED
    BY <1>3, <2>1 DEF Kill, Quiet
<1>4. ASSUME NEW r \in RunIds, OpenIntent(r) \/ CloseIntent(r)
      PROVE  Records(r)
  BY <1>4, GotoCalls DEF OpenIntent, CloseIntent, Records
<1>5. ASSUME NEW r \in RunIds, \/ BeginAccepted(r) \/ LoadVersion(r) \/ Enter(r) \/ SkillsFail(r)
                               \/ ContinueTask(r) \/ FinishRun(r) \/ Release(r)
                               \/ JournalFails(r)
      PROVE  Quiet
  BY <1>5, <1>a DEF BeginAccepted, LoadVersion, Enter, SkillsFail, ContinueTask, FinishRun, Release,
                    JournalFails
<1>6. CASE UNCHANGED vars
  BY <1>6, <1>a DEF vars
<1> QED
  BY <1>1, <1>2, <1>3, <1>4, <1>5, <1>6, CommitKind DEF Next, RunStep

\* A session that exists goes on to exist.
LEMMA BoundStays ==
  ASSUME TypeOK, [Next]_vars, NEW s \in Sessions, bound[s] # Null
  PROVE  bound'[s] # Null
<1> USE DEF store, process, operator
<1>1. ASSUME NEW p \in Runtimes, NEW t \in Sessions, NEW w \in Workspaces, CreateSession(p, t, w)
      PROVE  bound'[s] # Null
  BY <1>1 DEF CreateSession, TypeOK
<1>2. CASE UNCHANGED bound
  BY <1>2
<1>3. ASSUME NEW r \in RunIds, RunStep(r) \/ SkillsFail(r) \/ JournalFails(r)
      PROVE  UNCHANGED bound
  BY <1>3 DEF RunStep, BeginAccepted, LoadVersion, LoadRows, Enter, CommitTask, CommitCall,
              CommitResult, CommitAnswer, OpenIntent, CloseIntent, FinishRun, ContinueTask,
              Release, SkillsFail, JournalFails
<1>4. ASSUME OperatorStep \/ UNCHANGED vars
      PROVE  UNCHANGED bound
  BY <1>4 DEF OperatorStep, ChooseCall, OperatorLoads, OperatorAppends, OperatorMarks,
              OperatorStops, vars
<1>5. ASSUME (\E p \in Runtimes : Kill(p)) \/ (\E t \in Sessions : Tear(t))
      PROVE  UNCHANGED bound
  BY <1>5 DEF Kill, Tear
<1> QED
  BY <1>1, <1>2, <1>3, <1>4, <1>5 DEF Next, Begin, StartRun, AcceptRun

\* The version a run is about to replay the rows for it read from the store.
LEMMA ViewsRead ==
  ASSUME TypeOK, RunsPlaced, [Next]_vars, NEW q \in RunIds, run'[q].pc = "replaying"
  PROVE  /\ run[q].sess \in Sessions /\ run'[q].sess = run[q].sess
         /\ \/ run[q].pc = "replaying" /\ run'[q].view = run[q].view
            \/ run'[q].view = version[run[q].sess]
<1> USE DEF store, process, operator
<1>0. run \in [RunIds -> Runs]
  BY DEF TypeOK
<1>a. ASSUME run'[q] = run[q]
      PROVE  /\ run[q].sess \in Sessions /\ run'[q].sess = run[q].sess
             /\ run[q].pc = "replaying" /\ run'[q].view = run[q].view
  BY <1>a DEF RunsPlaced, Settled
<1>1. ASSUME NEW p \in Runtimes, NEW s \in Sessions, NEW w \in Workspaces, Begin(p, s, w)
      PROVE  run'[q] = run[q]
  <2>1. \E task \in BOOLEAN, place \in Waiting \ {"replaying"} : Launch(p, s, w, task, place)
    BY <1>1 DEF Begin, CreateSession, StartRun, AcceptRun, Waiting
  <2>2. \E place \in Waiting \ {"replaying"} : Appears(p, s, w, place)
    BY <2>1, LaunchAppears
  <2> QED
    BY <2>2 DEF Appears
<1>2. ASSUME NEW r \in RunIds, LoadVersion(r)
      PROVE  \/ run'[q] = run[q]
             \/ /\ run[q].sess \in Sessions /\ run'[q].sess = run[q].sess
                /\ run'[q].view = version[run[q].sess]
  <2>1. CASE q = r
    <3>1. run'[r] = [run[r] EXCEPT !.view = version[run[r].sess], !.pc = "replaying"]
      BY <1>0, <1>2 DEF LoadVersion, Runs
    <3> QED
      BY <1>0, <1>2, <2>1, <3>1 DEF LoadVersion, RunsPlaced, Settled, Runs
  <2>2. CASE q # r
    BY <1>0, <1>2, <2>2 DEF LoadVersion
  <2> QED
    BY <2>1, <2>2
<1>3. ASSUME NEW r \in RunIds, LoadRows(r) \/ Enter(r) \/ Release(r)
      PROVE  run'[q] = run[q]
  <2>1. /\ run'[r].pc # "replaying"
        /\ \A u \in RunIds \ {r} : run'[u] = run[u]
    BY <1>0, <1>3, SettleLeaves, GotoMoves DEF LoadRows, Enter, Release, Leaves, Moves, Runs
  <2> QED
    BY <2>1
<1>4. ASSUME NEW r \in RunIds, CommitTask(r) \/ CommitCall(r) \/ CommitResult(r) \/ CommitAnswer(r)
      PROVE  run'[q] = run[q]
  <2>1. run[r].proc \in Runtimes /\ run[r].sess \in Sessions
    BY <1>4, CommitSays
  <2>2. PICK m \in Messages : \E next \in {"loop", "journal", "close", "release"} : AppendMessage(r, m, next)
    BY <1>4, CommitSays
  <2>3. /\ run'[r].pc # "replaying"
        /\ \A u \in RunIds \ {r} : run'[u] = run[u]
    BY <2>1, <2>2, CommitEffect
  <2> QED
    BY <2>3
<1>5. ASSUME NEW r \in RunIds, \/ BeginAccepted(r) \/ OpenIntent(r) \/ CloseIntent(r)
                               \/ SkillsFail(r) \/ ContinueTask(r) \/ FinishRun(r)
                               \/ JournalFails(r)
      PROVE  run'[q] = run[q]
  <2>1. /\ run'[r].pc # "replaying"
        /\ \A u \in RunIds \ {r} : run'[u] = run[u]
    BY <1>5, GotoCalls DEF BeginAccepted, OpenIntent, CloseIntent, SkillsFail, ContinueTask, FinishRun,
                           JournalFails
  <2> QED
    BY <2>1
<1>6. ASSUME NEW p \in Runtimes, Kill(p)
      PROVE  run'[q] = run[q]
  BY <1>6 DEF Kill, Over, NoRun
<1>7. CASE UNCHANGED run
  BY <1>7, <1>a
<1> QED
  BY <1>a, <1>1, <1>2, <1>3, <1>4, <1>5, <1>6, <1>7
     DEF Next, RunStep, Tear, OperatorStep, ChooseCall, OperatorLoads, OperatorAppends,
         OperatorMarks, OperatorStops, vars

\* The message a session receives in this step.
Receives(s, m) ==
  \/ \E r \in RunIds : Says(r, m) /\ run[r].sess = s
  \/ OperatorAppends /\ op.pc = "loaded" /\ op.sess = s /\ m = ToolResult(op.call, "operator")

\* The rows of a session stay, at most without being readable, or have one more.
RowsGo(s) ==
  /\ \A i \in 1..Len(rows[s]) :
       /\ i \in 1..Len(rows'[s]) /\ rows'[s][i].message = rows[s][i].message
       /\ rows'[s][i].whole => rows[s][i].whole
  /\ \/ Len(rows'[s]) = Len(rows[s]) /\ version'[s] = version[s]
     \/ \E m \in Messages :
          /\ rows'[s] = Append(rows[s], Row(m)) /\ version'[s] = version[s] + 1
          /\ Receives(s, m)

LEMMA OneRowMore ==
  ASSUME TypeOK, NEW s \in Sessions, NEW m \in Messages, rows'[s] = Append(rows[s], Row(m)),
         version'[s] = version[s] + 1, Receives(s, m)
  PROVE  RowsGo(s)
<1>1. Row(m) \in Rows /\ rows[s] \in Seq(Rows) /\ Len(rows[s]) \in Nat
  <2>1. Row(m) \in Rows
    BY DEF Row, Rows
  <2> QED
    BY <2>1, StoreParts
<1>2. \A i \in 1..Len(rows[s]) : rows'[s][i] = rows[s][i] /\ i \in 1..Len(rows'[s])
  <2>1. Len(rows'[s]) = Len(rows[s]) + 1 /\ \A i \in 1..Len(rows[s]) : rows'[s][i] = rows[s][i]
    BY <1>1, Grown
  <2> QED
    BY <1>1, <2>1
<1> QED
  BY <1>2 DEF RowsGo

LEMMA RowsGrow ==
  ASSUME TypeOK, RunsPlaced, OneAtATime, [Next]_vars, NEW s \in Sessions
  PROVE  RowsGo(s)
<1>1. ASSUME rows'[s] = rows[s], version'[s] = version[s]
      PROVE  RowsGo(s)
  BY <1>1 DEF RowsGo
<1>2. CASE Quiet \/ \E r \in RunIds : Records(r)
  BY <1>1, <1>2 DEF Quiet, Records
<1>3. ASSUME NEW r \in RunIds, NEW m \in Messages, Says(r, m)
      PROVE  RowsGo(s)
  <2>1. CASE rows'[s] = rows[s] /\ version'[s] = version[s]
    BY <1>1, <2>1
  <2>2. CASE s = run[r].sess /\ rows'[s] = Append(rows[s], Row(m)) /\ version'[s] = version[s] + 1
    BY <1>3, <2>2, OneRowMore DEF Receives
  <2> QED
    BY <1>3, <2>1, <2>2 DEF Says, Commits
<1>4. ASSUME NEW t \in Sessions, Tear(t)
      PROVE  RowsGo(s)
  <2> DEFINE n == Len(rows[t])
             torn == [rows[t][n] EXCEPT !.whole = FALSE]
  <2>1. rows[t] \in Seq(Rows) /\ n \in 1..Len(rows[t]) /\ UNCHANGED version
    BY <1>4, EmptySeq DEF Tear, TypeOK
  <2>2. rows' = [rows EXCEPT ![t] = [rows[t] EXCEPT ![n] = torn]]
    BY <1>4, <2>1 DEF Tear, TypeOK, Rows
  <2>3. torn.message = rows[t][n].message /\ torn.whole = FALSE
    <3>1. rows[t][n] \in Rows
      BY <2>1
    <3> QED
      BY <3>1 DEF Rows
  <2> HIDE DEF torn
  <2>4. /\ Len(rows'[s]) = Len(rows[s])
        /\ \A i \in 1..Len(rows[s]) :
             \/ rows'[s][i] = rows[s][i]
             \/ rows'[s][i] = torn /\ s = t /\ i = n
    BY <2>1, <2>2 DEF TypeOK
  <2> HIDE DEF n
  <2> QED
    BY <2>1, <2>3, <2>4 DEF RowsGo
<1>5. CASE OperatorStep
  <2>1. CASE OperatorAppends /\ op.view = version[op.sess] /\ s = op.sess
    <3> DEFINE m == ToolResult(op.call, "operator")
    <3>1. m \in Messages
      BY MessageTypes DEF TypeOK, Operations
    <3>2. /\ rows'[s] = Append(rows[s], Row(m)) /\ version'[s] = version[s] + 1
          /\ op.pc = "loaded"
      BY <2>1 DEF OperatorAppends, TypeOK
    <3>3. Receives(s, m)
      BY <2>1, <3>2 DEF Receives
    <3> HIDE DEF m
    <3> QED
      BY <3>1, <3>2, <3>3, OneRowMore
  <2>2. CASE OperatorAppends /\ ~(op.view = version[op.sess] /\ s = op.sess)
    BY <1>1, <2>2 DEF OperatorAppends, TypeOK
  <2>3. CASE UNCHANGED <<rows, version>>
    BY <1>1, <2>3
  <2> QED
    BY <1>5, <2>1, <2>2, <2>3 DEF OperatorStep, ChooseCall, OperatorLoads, OperatorMarks,
                                  OperatorStops, store
<1> QED
  BY <1>2, <1>3, <1>4, <1>5, Kinds

\* Where a message of the next state comes from.
LEMMA RowOrigin ==
  ASSUME TypeOK, RunsPlaced, OneAtATime, [Next]_vars, NEW s \in Sessions,
         NEW i \in 1..Len(rows'[s])
  PROVE  \/ /\ i \in 1..Len(rows[s]) /\ rows'[s][i].message = rows[s][i].message
            /\ rows'[s][i].whole => rows[s][i].whole
         \/ \E m \in Messages :
              i = Len(rows[s]) + 1 /\ rows'[s][i].message = m /\ Receives(s, m)
<1>1. RowsGo(s) /\ rows[s] \in Seq(Rows) /\ Len(rows[s]) \in Nat
  BY RowsGrow DEF TypeOK
<1>2. CASE Len(rows'[s]) = Len(rows[s])
  BY <1>1, <1>2 DEF RowsGo
<1>3. ASSUME NEW m \in Messages, rows'[s] = Append(rows[s], Row(m)), Receives(s, m)
      PROVE  \/ /\ i \in 1..Len(rows[s]) /\ rows'[s][i].message = rows[s][i].message
                /\ rows'[s][i].whole => rows[s][i].whole
             \/ \E n \in Messages :
                  i = Len(rows[s]) + 1 /\ rows'[s][i].message = n /\ Receives(s, n)
  <2>1. Row(m) \in Rows /\ Row(m).message = m
    BY DEF Row, Rows
  <2>2. /\ rows'[s][Len(rows[s]) + 1].message = m
        /\ i \in 1..Len(rows[s]) \/ i = Len(rows[s]) + 1
    BY <1>1, <1>3, <2>1, Grown
  <2> QED
    BY <1>1, <1>3, <2>2 DEF RowsGo
<1> QED
  BY <1>1, <1>2, <1>3 DEF RowsGo

LEMMA LogOrigin ==
  ASSUME TypeOK, TypeOK', RunsPlaced, OneAtATime, [Next]_vars,
         NEW p \in Runtimes, NEW s \in Sessions, NEW a \in 1..Len(cache'[p][s].log)
  PROVE  \E m \in Messages :
           /\ m = cache'[p][s].log[a]
           /\ \/ \E b \in 1..Len(cache[p][s].log) : cache[p][s].log[b] = m
              \/ \E i \in 1..Len(rows[s]) : rows[s][i].message = m
              \/ \E r \in RunIds : Says(r, m)
<1>0. PICK m \in Messages : m = cache'[p][s].log[a]
  <2>1. cache'[p][s] \in Kept
    BY DEF TypeOK
  <2> QED
    BY <2>1 DEF Kept
<1> DEFINE Known == \/ \E b \in 1..Len(cache[p][s].log) : cache[p][s].log[b] = m
                    \/ \E i \in 1..Len(rows[s]) : rows[s][i].message = m
                    \/ \E r \in RunIds : Says(r, m)
<1> SUFFICES Known
  BY <1>0
<1>1. CASE cache'[p][s] = cache[p][s]
  BY <1>0, <1>1
<1>2. cache'[p][s].log # <<>>
  OBVIOUS
<1>3. CASE Quiet
  <2>1. CASE \E r \in RunIds : cache'[p][s].log = Loaded(s)
    <3>1. rows \in [Sessions -> Seq(Rows)]
      BY DEF TypeOK
    <3> QED
      BY <1>0, <2>1, <3>1, LoadedType
  <2> QED
    BY <1>1, <1>2, <1>3, <2>1 DEF Quiet, TakesUp
<1>4. ASSUME NEW r \in RunIds, NEW n \in Messages, Says(r, n)
      PROVE  Known
  <2>1. CASE p = run[r].proc /\ s = run[r].sess
    <3>1. cache'[p][s].log = Append(cache[p][s].log, n)
      BY <1>4, <2>1 DEF Says, Commits
    <3>2. cache[p][s].log \in Seq(Messages)
      BY StoreParts
    <3>3. \/ a \in 1..Len(cache[p][s].log) /\ m = cache[p][s].log[a]
          \/ m = n
      BY <1>0, <3>1, <3>2, Grown
    <3> QED
      BY <1>4, <3>3
  <2>2. CASE p # run[r].proc \/ s # run[r].sess
    <3>1. cache'[p][s] = cache[p][s]
      BY <1>4, <2>2 DEF Says, Commits
    <3> QED
      BY <1>1, <3>1
  <2> QED
    BY <2>1, <2>2
<1>5. CASE UNCHANGED cache
  BY <1>1, <1>5
<1>6. (\E r \in RunIds : Records(r)) \/ (\E t \in Sessions : Tear(t)) \/ OperatorStep => UNCHANGED cache
  BY DEF Records, Tear, OperatorStep, ChooseCall, OperatorLoads, OperatorAppends, OperatorMarks, OperatorStops,
         process
<1> HIDE DEF Known
<1> QED
  BY <1>3, <1>4, <1>5, <1>6, Kinds

\* A message of a row or a log is of a run that came past its locks.
LEMMA SpeakerHeard ==
  ASSUME TypeOK, NothingSaid
  PROVE  /\ \A s \in Sessions : \A i \in 1..Len(rows[s]) :
              run[rows[s][i].message.call[1]].pc \notin Silent
         /\ \A c \in Calls : journal[c] # "absent" => run[c[1]].pc \notin Silent
         /\ op.pc # "idle" =>
              op.call \in Calls /\ op.call[1] \in RunIds /\ run[op.call[1]].pc \notin Silent
<1>1. ASSUME NEW s \in Sessions, NEW i \in 1..Len(rows[s])
      PROVE  run[rows[s][i].message.call[1]].pc \notin Silent
  <2>1. rows[s][i].message.call[1] \in RunIds
    BY StoreParts, MessageParts
  <2> QED
    BY <2>1 DEF NothingSaid
<1>2. \A c \in Calls : c[1] \in RunIds
  BY DEF Calls
<1>3. op.call \in Calls
  BY DEF TypeOK, Operations
<1> QED
  BY <1>1, <1>2, <1>3 DEF NothingSaid

LEMMA VoicedStep ==
  ASSUME Consistent, TypeOK', Voiced, [Next]_vars
  PROVE  Voiced'
<1>0. TypeOK /\ RunsPlaced /\ OneAtATime
  BY DEF Consistent
<1>1. ASSUME NEW m \in Messages, Spoken(m.call[1], m)
      PROVE  Spoken(m.call[1], m)'
  <2>1. m.call[1] \in RunIds /\ run[m.call[1]].pc \notin Silent
    BY <1>1, MessageParts DEF Spoken, Past, Finished, InLoop, Silent
  <2>2. Further(m.call[1])
    BY <1>0, <2>1, Advance
  <2> QED
    BY <1>0, <1>1, <2>1, <2>2, SpokenStays
<1>2. ASSUME NEW s \in Sessions, NEW i \in 1..Len(rows'[s]), rows'[s][i].message.by = "run"
      PROVE  \E m \in Messages : rows'[s][i].message = m /\ Spoken(m.call[1], m)'
  <2>1. CASE i \in 1..Len(rows[s]) /\ rows'[s][i].message = rows[s][i].message
    <3>1. rows[s][i].message \in Messages /\ Spoken(rows[s][i].message.call[1], rows[s][i].message)
      BY <1>0, <1>2, <2>1, StoreParts DEF Voiced
    <3>2. PICK m \in Messages : m = rows[s][i].message
      BY <3>1
    <3>3. Spoken(m.call[1], m)'
      BY <1>1, <3>1, <3>2
    <3> QED
      BY <2>1, <3>2, <3>3
  <2>2. CASE \E m \in Messages : rows'[s][i].message = m /\ Receives(s, m)
    <3>1. PICK m \in Messages : rows'[s][i].message = m /\ Receives(s, m)
      BY <2>2
    <3>2. \E r \in RunIds : Says(r, m)
      BY <1>2, <3>1 DEF Receives, ToolResult
    <3>3. Spoken(m.call[1], m)'
      BY <3>2 DEF Says
    <3> QED
      BY <3>1, <3>3
  <2> QED
    BY <1>0, <2>1, <2>2, RowOrigin
<1>3. ASSUME NEW p \in Runtimes, NEW s \in Sessions, NEW a \in 1..Len(cache'[p][s].log),
             cache'[p][s].log[a].by = "run"
      PROVE  \E m \in Messages : cache'[p][s].log[a] = m /\ Spoken(m.call[1], m)'
  <2>1. PICK m \in Messages :
          /\ m = cache'[p][s].log[a]
          /\ \/ \E b \in 1..Len(cache[p][s].log) : cache[p][s].log[b] = m
             \/ \E i \in 1..Len(rows[s]) : rows[s][i].message = m
             \/ \E r \in RunIds : Says(r, m)
    BY ONLY <1>0, TypeOK', [Next]_vars, <1>3, LogOrigin, SMTT(30)
  <2>2. CASE \E r \in RunIds : Says(r, m)
    BY <2>1, <2>2 DEF Says
  <2>3. CASE \/ \E b \in 1..Len(cache[p][s].log) : cache[p][s].log[b] = m
             \/ \E i \in 1..Len(rows[s]) : rows[s][i].message = m
    <3>1. Spoken(m.call[1], m)
      BY <1>3, <2>1, <2>3 DEF Voiced
    <3> QED
      BY <1>1, <2>1, <3>1
  <2> QED
    BY <2>1, <2>2, <2>3
<1>4. ASSUME NEW s \in Sessions, NEW i \in 1..Len(rows'[s]), rows'[s][i].message.by = "run"
      PROVE  Spoken(rows[s][i].message.call[1], rows[s][i].message)'
  <2>1. PICK m \in Messages : rows'[s][i].message = m /\ Spoken(m.call[1], m)'
    BY <1>2, <1>4
  <2> QED
    BY ONLY <2>1 DEF Spoken
<1>5. ASSUME NEW p \in Runtimes, NEW s \in Sessions, NEW a \in 1..Len(cache'[p][s].log),
             cache'[p][s].log[a].by = "run"
      PROVE  Spoken(cache[p][s].log[a].call[1], cache[p][s].log[a])'
  <2>1. PICK m \in Messages : cache'[p][s].log[a] = m /\ Spoken(m.call[1], m)'
    BY <1>3, <1>5
  <2> QED
    BY ONLY <2>1 DEF Spoken
<1> QED
  BY <1>4, <1>5 DEF Voiced

LEMMA BoundStep ==
  ASSUME Consistent, RowsBound, OperatorVoiced, [Next]_vars
  PROVE  RowsBound'
<1>0. TypeOK /\ RunsPlaced /\ OneAtATime /\ NothingSaid /\ WorkspaceKept
  BY DEF Consistent
<1>1. ASSUME NEW q \in RunIds, NEW s \in Sessions, run[q].pc \notin Silent, run[q].sess = s,
             bound[s] # Null
      PROVE  bound'[s] # Null /\ run'[q].sess = s
  BY <1>0, <1>1, Advance, BoundStays DEF Further
<1>2. ASSUME NEW s \in Sessions, NEW i \in 1..Len(rows'[s])
      PROVE  bound'[s] # Null /\ run'[rows'[s][i].message.call[1]].sess = s
  <2>1. CASE i \in 1..Len(rows[s]) /\ rows'[s][i].message = rows[s][i].message
    <3> DEFINE q == rows[s][i].message.call[1]
    <3>1. q \in RunIds /\ run[q].pc \notin Silent
      BY <1>0, <2>1, StoreParts, MessageParts, SpeakerHeard
    <3>2. bound[s] # Null /\ run[q].sess = s
      BY <2>1 DEF RowsBound
    <3> HIDE DEF q
    <3>3. bound'[s] # Null /\ run'[q].sess = s
      BY <1>1, <3>1, <3>2
    <3> QED
      BY <2>1, <3>3 DEF q
  <2>2. ASSUME NEW m \in Messages, rows'[s][i].message = m, Receives(s, m)
        PROVE  bound'[s] # Null /\ run'[m.call[1]].sess = s
    <3>1. CASE \E r \in RunIds : Says(r, m) /\ run[r].sess = s
      <4>1. PICK r \in RunIds : Says(r, m) /\ run[r].sess = s
        BY <3>1
      <4>2. /\ m.call[1] = r /\ run[r].pc \in Owning /\ run[r].pc \notin Silent \cup Settled
        BY <4>1 DEF Says, Owning, Silent, Settled
      <4>3. run[r].space \in Workspaces /\ run[r].space = bound[s]
        BY <1>0, <4>1, <4>2 DEF RunsPlaced, WorkspaceKept
      <4>4. bound[s] # Null
        BY <4>3, StoreAssumption
      <4> QED
        BY <1>1, <4>1, <4>2, <4>4
    <3>2. CASE op.pc = "loaded" /\ op.sess = s /\ m = ToolResult(op.call, "operator")
      <4>1. /\ op.call[1] \in RunIds /\ run[op.call[1]].pc \notin Silent
            /\ run[op.call[1]].sess = s /\ bound[s] # Null /\ m.call = op.call
        BY <1>0, <3>2, SpeakerHeard DEF OperatorVoiced, ToolResult
      <4> QED
        BY <1>1, <4>1
    <3> QED
      BY <2>2, <3>1, <3>2 DEF Receives
  <2> QED
    BY <1>0, <2>1, <2>2, RowOrigin
<1> QED
  BY <1>2 DEF RowsBound

\* The journal opens a row the run has come past, and never opens one twice.
LEMMA JournalGoes ==
  ASSUME Consistent, OperatorVoiced, JournalOpened, [Next]_vars, NEW c \in Calls
  PROVE  /\ journal'[c] # "absent" =>
              \/ journal[c] # "absent"
              \/ \E r \in RunIds : Records(r) /\ c = CurrentCall(r)
         /\ journal[c] # "absent" => journal'[c] # "absent"
         /\ journal[c] = "closed" => journal'[c] = "closed"
<1>0. TypeOK /\ RunsPlaced /\ OneAtATime
  BY DEF Consistent
<1>1. CASE UNCHANGED journal
  BY <1>1
<1>2. ASSUME NEW r \in RunIds, Records(r)
      PROVE  /\ c # CurrentCall(r) => journal'[c] = journal[c]
             /\ c = CurrentCall(r) => journal'[c] # "absent"
             /\ journal[c] = "closed" => journal'[c] = "closed"
  <2>1. \A v : journal' = [journal EXCEPT ![CurrentCall(r)] = v] =>
          /\ c # CurrentCall(r) => journal'[c] = journal[c]
          /\ c = CurrentCall(r) => journal'[c] = v
    BY <1>0 DEF TypeOK
  <2>2. CASE run[r].pc = "close" /\ journal' = [journal EXCEPT ![CurrentCall(r)] = "closed"]
    BY <2>1, <2>2
  <2>3. CASE run[r].pc = "journal" /\ journal' = [journal EXCEPT ![CurrentCall(r)] = "open"]
    <3>1. journal[c] = "closed" => c # CurrentCall(r)
      <4>1. SUFFICES ASSUME Opened(c), c = CurrentCall(r)
                     PROVE  FALSE
        BY DEF JournalOpened
      <4>2. c[1] = r /\ c[2] = run[r].calls /\ run[r].calls \in Nat
        BY <1>0, <4>1, StoreParts DEF CurrentCall
      <4> QED
        BY <2>3, <4>1, <4>2 DEF Opened, Past, Finished
    <3> QED
      BY <2>1, <2>3, <3>1
  <2> QED
    BY <1>2, <2>2, <2>3 DEF Records
<1>3. CASE OperatorMarks
  <2>1. /\ op.pc # "idle" /\ op.call \in Calls
        /\ \A d \in Calls : journal'[d] = IF d = op.call THEN "closed" ELSE journal[d]
    BY <1>0, <1>3 DEF OperatorMarks, TypeOK, Operations
  <2>2. journal[op.call] # "absent"
    BY <2>1 DEF OperatorVoiced
  <2> QED
    BY <2>1, <2>2
<1>4. \/ UNCHANGED journal
      \/ \E r \in RunIds : Records(r)
      \/ OperatorMarks
  BY <1>0, Kinds DEF Quiet, Says, Tear, OperatorStep, ChooseCall, OperatorLoads, OperatorAppends,
                     OperatorStops, store
<1> QED
  BY <1>1, <1>2, <1>3, <1>4

LEMMA OpenedStep ==
  ASSUME Consistent, TypeOK', OperatorVoiced, JournalOpened, [Next]_vars
  PROVE  JournalOpened'
<1>0. TypeOK /\ RunsPlaced /\ OneAtATime /\ NothingSaid /\ WorkspaceKept
  BY DEF Consistent
<1>1. ASSUME NEW c \in Calls, journal'[c] # "absent"
      PROVE  /\ Opened(c)'
             /\ run'[c[1]].sess \in Sessions /\ bound'[run'[c[1]].sess] # Null
  <2>1. CASE journal[c] # "absent"
    <3>1. /\ c[1] \in RunIds /\ run[c[1]].pc \notin Silent /\ Opened(c)
          /\ run[c[1]].sess \in Sessions /\ bound[run[c[1]].sess] # Null
      BY <1>0, <2>1, SpeakerHeard DEF Calls, JournalOpened
    <3>2. Further(c[1])
      BY <1>0, <3>1, Advance
    <3>3. Opened(c)'
      BY <1>0, <3>1, <3>2, OpenedStays
    <3>4. run'[c[1]].sess = run[c[1]].sess
      BY <3>1, <3>2 DEF Further
    <3>5. bound'[run[c[1]].sess] # Null
      BY <1>0, <3>1, BoundStays
    <3> QED
      BY <3>1, <3>3, <3>4, <3>5
  <2>2. ASSUME NEW r \in RunIds, Records(r), c = CurrentCall(r)
        PROVE  /\ Opened(c)'
               /\ run'[c[1]].sess \in Sessions /\ bound'[run'[c[1]].sess] # Null
    <3>1. c[1] = r /\ c[2] = run[r].calls
      BY <2>2 DEF CurrentCall
    <3>2. run'[r].calls = run[r].calls /\ run'[r].pc \in {"tool", "loop"} /\ bound' = bound
      BY <2>2 DEF Records
    <3>3. Opened(c)'
      BY <3>1, <3>2 DEF Opened, InLoop
    <3>4. run[r].pc \in {"journal", "close"}
      BY <2>2 DEF Records
    <3>5. /\ run[r].sess \in Sessions /\ run[r].space \in Workspaces
          /\ run[r].space = bound[run[r].sess]
      BY <1>0, <3>4 DEF RunsPlaced, WorkspaceKept, Owning, Settled
    <3>6. run'[r].sess = run[r].sess
      BY <1>0, <3>4, Advance DEF Further, Silent
    <3> QED
      BY <3>1, <3>2, <3>3, <3>5, <3>6, StoreAssumption
  <2> QED
    BY <1>1, <2>1, <2>2, JournalGoes
<1> QED
  BY <1>1 DEF JournalOpened

LEMMA CallsStep ==
  ASSUME Consistent, TypeOK', CallsMade, [Next]_vars
  PROVE  CallsMade'
<1>0. TypeOK /\ RunsPlaced
  BY DEF Consistent
<1>1. ASSUME NEW r \in RunIds, run'[r].pc \in InCall
      PROVE  run'[r].calls \in 1..MaxCalls
  <2>1. run[r].calls \in 0..MaxCalls /\ run'[r].calls \in 0..MaxCalls /\ MaxCalls \in Nat
    BY <1>0, ConstantTypes DEF TypeOK, Runs
  <2>2. CASE run[r].pc \in InCall /\ run'[r].calls = run[r].calls
    BY <2>2 DEF CallsMade, CurrentCall, Calls
  <2>3. CASE run'[r].calls = run[r].calls + 1
    BY <2>1, <2>3
  <2> QED
    BY <1>0, <1>1, <2>2, <2>3, CallGoes
<1> QED
  BY <1>1 DEF CallsMade, CurrentCall, Calls

\* Where the command in progress goes.
LEMMA OperatorGoes ==
  ASSUME TypeOK, RunsPlaced, OneAtATime, [Next]_vars
  PROVE  \/ op' = op
         \/ \E s \in Sessions, c \in Calls : ChooseCall(s, c)
         \/ op.pc = "chosen" /\ op'.pc = "loaded" /\ op'.call = op.call /\ op'.sess = op.sess
         \/ /\ OperatorAppends /\ op.pc = "loaded"
            /\ op'.pc = "mark" /\ op'.call = op.call /\ op'.sess = op.sess
         \/ op'.pc = "idle" /\ op.pc # "mark"
         \/ OperatorMarks /\ op'.pc = "idle"
         \/ OperatorStops /\ op'.pc = "idle"
<1>0. op \in Operations
  BY DEF TypeOK
<1>1. OperatorLoads =>
        \/ op.pc = "chosen" /\ op'.pc = "loaded" /\ op'.call = op.call /\ op'.sess = op.sess
        \/ op'.pc = "idle" /\ op.pc # "mark"
  BY <1>0 DEF OperatorLoads, Operations, NoOperation
<1>2. OperatorAppends =>
        \/ op.pc = "loaded" /\ op'.pc = "mark" /\ op'.call = op.call /\ op'.sess = op.sess
        \/ op'.pc = "idle" /\ op.pc # "mark"
  BY <1>0 DEF OperatorAppends, Operations, NoOperation
<1>3. OperatorMarks \/ OperatorStops => op'.pc = "idle"
  BY DEF OperatorMarks, OperatorStops, NoOperation
<1>4. op' = op \/ OperatorStep
  BY Kinds DEF Quiet, Says, Records, Tear, operator
<1> QED
  BY <1>1, <1>2, <1>3, <1>4 DEF OperatorStep

LEMMA Chosen ==
  ASSUME TypeOK, JournalOpened, NEW s \in Sessions, NEW c \in Calls, ChooseCall(s, c)
  PROVE  /\ op.pc = "idle" /\ op'.pc = "chosen" /\ op'.call = c /\ op'.sess = s
         /\ journal[c] = "open" /\ UNCHANGED <<bound, rows, run, journal>>
         /\ bound[s] # Null /\ run[c[1]].sess = s
         /\ run[c[1]].pc \in Owning => c \in raced'
<1>1. /\ op' = [NoOperation EXCEPT !.pc = "chosen", !.sess = s, !.call = c]
      /\ op.pc = "idle" /\ journal[c] = "open" /\ UNCHANGED <<rows, bound, run, journal>>
      /\ run[c[1]].sess = s /\ (run[c[1]].pc \in Owning => c \in raced')
  BY DEF ChooseCall, store, process
<1>2. op'.pc = "chosen" /\ op'.call = c /\ op'.sess = s
  BY <1>1 DEF NoOperation
<1> QED
  BY <1>1, <1>2 DEF JournalOpened

\* The message a command commits.
LEMMA OperatorCommits ==
  ASSUME TypeOK, RowsBound, OperatorVoiced, NEW s \in Sessions, NEW m \in Messages, Receives(s, m),
         m.by = "operator"
  PROVE  /\ OperatorAppends /\ op.pc = "loaded" /\ op.sess = s
         /\ m.call = op.call /\ m.kind = "result" /\ m.call \in Calls
<1>1. OperatorAppends /\ op.pc = "loaded" /\ op.sess = s /\ m = ToolResult(op.call, "operator")
  BY DEF Receives, Says
<1> QED
  BY <1>1 DEF ToolResult, TypeOK, Operations

LEMMA OperatorStays ==
  ASSUME Consistent, JournalOpened, OperatorVoiced, RowsBound, [Next]_vars
  PROVE  OperatorVoiced'
<1>0. TypeOK /\ RunsPlaced /\ OneAtATime /\ NothingSaid /\ op.call \in Calls
  BY DEF Consistent, TypeOK, Operations
<1>1. ASSUME NEW s \in Sessions, NEW i \in 1..Len(rows'[s]), rows'[s][i].message.by = "operator"
      PROVE  rows'[s][i].message.call \in Calls /\ rows'[s][i].message.kind = "result"
  <2>1. CASE i \in 1..Len(rows[s]) /\ rows'[s][i].message = rows[s][i].message
    BY <1>1, <2>1 DEF OperatorVoiced
  <2>2. ASSUME NEW m \in Messages, rows'[s][i].message = m, Receives(s, m)
        PROVE  m.call \in Calls /\ m.kind = "result"
    BY <1>0, <1>1, <2>2, OperatorCommits
  <2> QED
    BY <1>0, <2>1, <2>2, RowOrigin
<1>2. ASSUME op'.pc # "idle"
      PROVE  /\ journal'[op'.call] # "absent" /\ run'[op'.call[1]].sess = op'.sess
             /\ bound'[op'.sess] # Null
  <2>1. CASE op.pc # "idle" /\ op'.call = op.call /\ op'.sess = op.sess
    <3>1. /\ journal[op.call] # "absent" /\ run[op.call[1]].sess = op.sess /\ bound[op.sess] # Null
          /\ op.sess \in Sessions /\ op.call[1] \in RunIds /\ run[op.call[1]].pc \notin Silent
      BY <1>0, <2>1, SpeakerHeard DEF OperatorVoiced, RunsPlaced
    <3>2. Further(op.call[1])
      BY <1>0, <3>1, Advance
    <3> QED
      BY <1>0, <2>1, <3>1, <3>2, JournalGoes, BoundStays DEF Further
  <2>2. CASE \E s \in Sessions, c \in Calls : ChooseCall(s, c)
    BY <1>0, <2>2, Chosen
  <2> QED
    BY <1>0, <1>2, <2>1, <2>2, OperatorGoes
<1> QED
  BY <1>1, <1>2 DEF OperatorVoiced

\* What a run commits is not there yet.
LEMMA SaidIsNew ==
  ASSUME Voiced, NEW r \in RunIds, NEW m \in Messages, Says(r, m)
  PROVE  \A t \in Sessions : \A i \in 1..Len(rows[t]) : rows[t][i].message # m
BY DEF Says, Voiced

LEMMA OnceStep ==
  ASSUME Consistent, Voiced, OperatorVoiced, RowsBound, RowsOnce, [Next]_vars
  PROVE  RowsOnce'
<1>0. TypeOK /\ RunsPlaced /\ OneAtATime
  BY DEF Consistent
<1>a. ASSUME NEW s \in Sessions, NEW m \in Messages, Receives(s, m), m.by = "run"
      PROVE  \A t \in Sessions : \A i \in 1..Len(rows[t]) : rows[t][i].message # m
  BY <1>a, SaidIsNew DEF Receives, ToolResult
<1>1. ASSUME NEW s \in Sessions, NEW i \in 1..Len(rows'[s]), NEW j \in 1..Len(rows'[s]),
             rows'[s][i].message.by = "run", rows'[s][i].message = rows'[s][j].message
      PROVE  i = j
  <2>1. \/ i \in 1..Len(rows[s]) /\ rows'[s][i].message = rows[s][i].message
        \/ i = Len(rows[s]) + 1 /\ \E m \in Messages : rows'[s][i].message = m /\ Receives(s, m)
    BY <1>0, RowOrigin
  <2>2. \/ j \in 1..Len(rows[s]) /\ rows'[s][j].message = rows[s][j].message
        \/ j = Len(rows[s]) + 1 /\ \E m \in Messages : rows'[s][j].message = m /\ Receives(s, m)
    BY <1>0, RowOrigin
  <2> QED
    BY <1>1, <1>a, <2>1, <2>2 DEF RowsOnce
<1> QED
  BY <1>1 DEF RowsOnce

LEMMA BehindStep ==
  ASSUME Consistent, RowsBound, Behind, [Next]_vars
  PROVE  Behind'
<1>0. TypeOK /\ RunsPlaced /\ OneAtATime
  BY DEF Consistent
<1>1. ASSUME NEW s \in Sessions
      PROVE  version[s] \in Nat /\ version'[s] \in Nat /\ version[s] <= version'[s]
  BY <1>0, RowsGrow, StoreParts DEF RowsGo
<1>2. ASSUME NEW p \in Runtimes, NEW s \in Sessions, cache'[p][s].here
      PROVE  cache'[p][s].known <= version'[s]
  <2>0. cache[p][s].known \in Nat
    BY <1>0, StoreParts
  <2>1. CASE cache'[p][s] = cache[p][s]
    BY <1>1, <1>2, <2>0, <2>1 DEF Behind
  <2>2. CASE Quiet
    <3>1. CASE cache'[p][s].known = 0
      BY <1>1, <3>1
    <3>2. ASSUME NEW r \in RunIds, run[r].pc = "replaying", run[r].sess = s,
                 cache'[p][s].known = run[r].view
          PROVE  cache'[p][s].known <= version'[s]
      <4>1. run[r].view <= version[s] /\ run[r].view \in Nat
        BY <1>0, <3>2, StoreParts DEF Behind
      <4> QED
        BY <1>1, <3>2, <4>1
    <3> QED
      BY <1>2, <2>1, <2>2, <3>1, <3>2 DEF Quiet, TakesUp
  <2>3. ASSUME NEW r \in RunIds, NEW m \in Messages, Says(r, m)
        PROVE  cache'[p][s].known <= version'[s]
    <3>1. CASE p = run[r].proc /\ s = run[r].sess
      <4>1. \/ cache'[p][s].known = version[s] + 1 /\ version'[s] = version[s] + 1
            \/ cache'[p][s].known = cache[p][s].known /\ cache'[p][s].here = cache[p][s].here
        BY <2>3, <3>1 DEF Says, Commits
      <4>2. CASE cache'[p][s].known = version[s] + 1 /\ version'[s] = version[s] + 1
        BY <1>1, <4>2
      <4>3. CASE cache'[p][s].known = cache[p][s].known /\ cache'[p][s].here = cache[p][s].here
        <5>1. cache[p][s].known <= version[s]
          BY <1>2, <4>3 DEF Behind
        <5> QED
          BY <1>1, <2>0, <4>3, <5>1
      <4> QED
        BY <4>1, <4>2, <4>3
    <3>2. CASE p # run[r].proc \/ s # run[r].sess
      BY <2>1, <2>3, <3>2 DEF Says, Commits
    <3> QED
      BY <3>1, <3>2
  <2>4. (\E r \in RunIds : Records(r)) \/ (\E t \in Sessions : Tear(t)) \/ OperatorStep
        => UNCHANGED cache
    BY DEF Records, Tear, OperatorStep, ChooseCall, OperatorLoads, OperatorAppends, OperatorMarks, OperatorStops,
           process
  <2> QED
    BY <1>0, <2>1, <2>2, <2>3, <2>4, Kinds
<1>3. ASSUME NEW r \in RunIds, run'[r].pc = "replaying"
      PROVE  run'[r].view <= version'[run'[r].sess]
  <2>1. /\ run[r].sess \in Sessions /\ run'[r].sess = run[r].sess
        /\ \/ run[r].pc = "replaying" /\ run'[r].view = run[r].view
           \/ run'[r].view = version[run[r].sess]
    BY <1>0, <1>3, ViewsRead
  <2>2. run[r].view \in Nat
    BY <1>0, StoreParts
  <2> QED
    BY <1>1, <2>1, <2>2 DEF Behind
<1> QED
  BY <1>2, <1>3 DEF Behind

\* Whoever knows the version of the store has the readable rows of the session.
LEMMA MatchStep ==
  ASSUME Consistent, Voiced, RowsBound, OperatorVoiced, RowsOnce, Behind, NoForkedHistory,
         [Next]_vars, NEW p \in Runtimes, NEW s \in Sessions,
         cache'[p][s].here, cache'[p][s].known = version'[s]
  PROVE  Match(cache'[p][s].log, rows'[s])
<1>0. TypeOK /\ RunsPlaced /\ OneAtATime
  BY DEF Consistent
<1>a. /\ rows[s] \in Seq(Rows) /\ version[s] \in Nat
      /\ cache[p][s].log \in Seq(Messages) /\ cache[p][s].known \in Nat
  BY <1>0, StoreParts
<1>1. cache[p][s].here /\ cache[p][s].known = version[s] => Match(cache[p][s].log, rows[s])
  BY MatchMeaning
<1>2. CASE Quiet
  <2>1. rows'[s] = rows[s] /\ version'[s] = version[s]
    BY <1>2 DEF Quiet
  <2>2. CASE cache'[p][s] = cache[p][s]
    BY <1>1, <2>1, <2>2
  <2>3. CASE bound[s] = Null /\ cache'[p][s].log = <<>>
    <3>1. Len(rows[s]) = 0
      BY <1>a, <2>3 DEF RowsBound
    <3> QED
      BY <1>a, <2>1, <2>3, <3>1 DEF Match
  <2>4. CASE Hydratable(s) /\ cache'[p][s].log = Loaded(s)
    BY <1>0, <2>1, <2>4, MatchLoaded
  <2> QED
    BY <1>2, <2>2, <2>3, <2>4 DEF Quiet, TakesUp
<1>3. ASSUME NEW r \in RunIds, NEW m \in Messages, Says(r, m)
      PROVE  Match(cache'[p][s].log, rows'[s])
  <2>1. /\ \A t \in Sessions : \A i \in 1..Len(rows[t]) : rows[t][i].message # m
        /\ \A a \in 1..Len(cache[p][s].log) : cache[p][s].log[a] # m
    BY <1>3 DEF Says, Voiced
  <2>2. CASE p = run[r].proc /\ s = run[r].sess
    <3>1. /\ cache'[p][s].log = Append(cache[p][s].log, m)
          /\ cache'[p][s].here = cache[p][s].here
      BY <1>3, <2>2 DEF Says, Commits
    <3>2. CASE cache[p][s].known = version[s] /\ rows'[s] = Append(rows[s], Row(m))
      <4>1. Match(cache[p][s].log, rows[s])
        BY <1>1, <3>1, <3>2
      <4> QED
        BY <1>a, <2>1, <3>1, <3>2, <4>1, MatchGrows
    <3>3. CASE rows' = rows /\ version' = version /\ cache'[p][s].known = cache[p][s].known
      <4>1. Match(cache[p][s].log, rows[s])
        BY <1>1, <3>1, <3>3
      <4> QED
        BY <1>a, <2>1, <3>1, <3>3, <4>1, MatchAhead
    <3> QED
      BY <1>3, <2>2, <3>2, <3>3 DEF Says, Commits
  <2>3. CASE p # run[r].proc \/ s # run[r].sess
    <3>1. cache'[p][s] = cache[p][s]
      BY <1>3, <2>3 DEF Says, Commits
    <3>2. CASE rows'[s] = rows[s] /\ version'[s] = version[s]
      BY <1>1, <3>1, <3>2
    <3>3. CASE version'[s] = version[s] + 1
      <4>1. cache[p][s].known <= version[s]
        BY <3>1 DEF Behind
      <4> QED
        BY <1>a, <3>1, <3>3, <4>1
    <3> QED
      BY <1>3, <3>2, <3>3 DEF Says, Commits
  <2> QED
    BY <2>2, <2>3
<1>4. CASE UNCHANGED cache
  <2>1. cache'[p][s] = cache[p][s] /\ RowsGo(s)
    BY <1>0, <1>4, RowsGrow
  <2>2. CASE Len(rows'[s]) = Len(rows[s]) /\ version'[s] = version[s]
    <3>1. Match(cache[p][s].log, rows[s])
      BY <1>1, <2>1, <2>2
    <3>2. \A i \in 1..Len(rows[s]) : /\ rows'[s][i].message = rows[s][i].message
                                     /\ rows'[s][i].whole => rows[s][i].whole
      BY <2>1 DEF RowsGo
    <3> QED
      BY <2>1, <2>2, <3>1, <3>2, MatchTorn
  <2>3. CASE version'[s] = version[s] + 1
    <3>1. cache[p][s].known <= version[s]
      BY <2>1 DEF Behind
    <3> QED
      BY <1>a, <2>1, <2>3, <3>1
  <2> QED
    BY <2>1, <2>2, <2>3 DEF RowsGo
<1>5. (\E r \in RunIds : Records(r)) \/ (\E t \in Sessions : Tear(t)) \/ OperatorStep
      => UNCHANGED cache
  BY DEF Records, Tear, OperatorStep, ChooseCall, OperatorLoads, OperatorAppends, OperatorMarks, OperatorStops,
         process
<1> QED
  BY <1>0, <1>2, <1>3, <1>4, <1>5, Kinds

LEMMA UnforkedStep ==
  ASSUME Consistent, Voiced, RowsBound, OperatorVoiced, RowsOnce, Behind, NoForkedHistory,
         [Next]_vars
  PROVE  NoForkedHistory'
<1>1. \A p \in Runtimes, s \in Sessions :
        cache'[p][s].here /\ cache'[p][s].known = version'[s] => Match(cache'[p][s].log, rows'[s])
  BY MatchStep
<1>2. ASSUME NEW p \in Runtimes, NEW s \in Sessions, Match(cache'[p][s].log, rows'[s])
      PROVE  LET log == cache'[p][s].log
                 places(i) == {a \in 1..Len(log) : log[a] = rows'[s][i].message}
             IN  /\ \A i \in Whole(s)' : places(i) # {}
                 /\ \A i, j \in Whole(s)' : \A a \in places(i), b \in places(j) : a < b <=> i < j
  BY <1>2 DEF Match, Whole
<1> QED
  BY <1>1, <1>2 DEF NoForkedHistory, Whole

\* A call whose result was committed stays marked, or it is noted that it is not.
LEMMA MarkedStays ==
  ASSUME Consistent, TypeOK', JournalOpened, OperatorVoiced, [Next]_vars, NEW c \in Calls,
         Marked(c), c \notin cut'
  PROVE  Marked(c)'
<1>0. TypeOK /\ RunsPlaced /\ OneAtATime /\ c[1] \in RunIds
  BY DEF Consistent, Calls
<1>1. CASE journal[c] = "closed"
  <2>1. journal'[c] = "closed"
    BY <1>1, JournalGoes
  <2> QED
    BY <2>1 DEF Marked
<1>2. CASE run[c[1]].pc = "close" /\ CurrentCall(c[1]) = c
  <2>1. PICK q \in RunIds : q = c[1]
    BY <1>0
  <2>2. \/ run'[q].pc = "close" /\ run'[q].calls = run[q].calls
        \/ journal' = [journal EXCEPT ![c] = "closed"]
    BY <1>0, <1>2, <2>1, CallGoes
  <2>3. CASE run'[q].pc = "close" /\ run'[q].calls = run[q].calls
    BY <1>2, <2>1, <2>3 DEF Marked, CurrentCall
  <2>4. CASE journal' = [journal EXCEPT ![c] = "closed"]
    BY <1>0, <2>4 DEF Marked, TypeOK
  <2> QED
    BY <2>2, <2>3, <2>4
<1>3. CASE op.pc = "mark" /\ op.call = c
  <2>1. op' = op \/ OperatorMarks \/ OperatorStops
    BY <1>0, <1>3, OperatorGoes DEF ChooseCall
  <2>2. CASE op' = op
    BY <1>3, <2>2 DEF Marked
  <2>3. CASE OperatorMarks
    <3>1. journal'[c] = "closed"
      BY <1>0, <1>3, <2>3 DEF OperatorMarks, TypeOK
    <3> QED
      BY <3>1 DEF Marked
  <2>4. CASE OperatorStops
    BY <1>3, <2>4 DEF OperatorStops
  <2> QED
    BY <2>1, <2>2, <2>3, <2>4
<1> QED
  BY <1>1, <1>2, <1>3 DEF Marked

LEMMA MarksStep ==
  ASSUME Consistent, TypeOK', JournalOpened, CallsMade, OperatorVoiced, RowsBound, ResultsMarked,
         [Next]_vars
  PROVE  ResultsMarked'
<1>0. TypeOK /\ RunsPlaced /\ OneAtATime
  BY DEF Consistent
<1>1. ASSUME NEW s \in Sessions, NEW i \in 1..Len(rows'[s]), NEW c, c = rows'[s][i].message.call,
             rows'[s][i].message.kind = "result"
      PROVE  c \in Calls /\ (c \notin cut' => Marked(c)')
  <2>1. CASE i \in 1..Len(rows[s]) /\ rows'[s][i].message = rows[s][i].message
    <3>1. c \in Calls /\ (c \notin cut => Marked(c))
      BY <1>1, <2>1 DEF ResultsMarked, IsResult
    <3> QED
      BY <3>1, NotesStay, MarkedStays
  <2>2. ASSUME NEW m \in Messages, i = Len(rows[s]) + 1, rows'[s][i].message = m, Receives(s, m)
        PROVE  c \in Calls /\ (c \notin cut' => Marked(c)')
    <3>0. rows'[s] # rows[s]
      BY <1>0, <2>2, StoreParts
    <3>1. CASE \E r \in RunIds : Says(r, m)
      <4>1. PICK r \in RunIds : Says(r, m)
        BY <3>1
      <4>2. /\ run[r].pc = "tool" /\ c = CurrentCall(r)
            /\ run'[r].pc = "close" /\ run'[r].calls = run[r].calls
        BY <1>1, <2>2, <3>0, <4>1 DEF Says
      <4>3. c \in Calls /\ c = <<r, run[r].calls>>
        BY <4>2 DEF CallsMade, InCall, CurrentCall
      <4>4. c[1] = r
        BY <4>3
      <4> QED
        BY <4>2, <4>3, <4>4 DEF Marked, CurrentCall
    <3>2. CASE OperatorAppends /\ op.pc = "loaded" /\ m = ToolResult(op.call, "operator")
      <4>1. c = op.call /\ c \in Calls
        BY <1>0, <1>1, <2>2, <3>2 DEF ToolResult, TypeOK, Operations
      <4>2. op' = [op EXCEPT !.pc = "mark"]
        BY <3>0, <3>2 DEF OperatorAppends
      <4>3. op'.pc = "mark" /\ op'.call = c
        BY <1>0, <4>1, <4>2 DEF TypeOK, Operations
      <4> QED
        BY <4>1, <4>3 DEF Marked
    <3> QED
      BY <2>2, <3>1, <3>2 DEF Receives
  <2> QED
    BY <1>0, <2>1, <2>2, RowOrigin
<1> QED
  BY <1>1 DEF ResultsMarked, IsResult, Marked, CurrentCall

LEMMA WaitsStep ==
  ASSUME Consistent, JournalOpened, RowsBound, OperatorVoiced, ResultsMarked, OperatorWaits,
         [Next]_vars
  PROVE  OperatorWaits'
<1>0. TypeOK /\ RunsPlaced /\ OneAtATime /\ NothingSaid /\ op.call \in Calls
  BY DEF Consistent, TypeOK, Operations
<1>a. ASSUME NEW q \in RunIds, run[q].pc \in Finished
      PROVE  run'[q].pc \in Finished
  BY <1>0, <1>a, Advance DEF Further, Finished, Silent
<1>b. \A c : c \notin raced' \cup cut' => c \notin raced \cup cut
  BY NotesStay
<1>1. ASSUME op'.pc \in {"chosen", "loaded"}, NEW d \in Calls, d = op'.call, d \notin raced' \cup cut'
      PROVE  /\ run'[d[1]].pc \in Finished
             /\ \A s \in Sessions : \A i \in 1..Len(rows'[s]) :
                  rows'[s][i].message.kind = "result" => rows'[s][i].message.call # d
  <2>1. ASSUME NEW s \in Sessions, NEW c \in Calls, ChooseCall(s, c)
        PROVE  /\ run'[c[1]].pc \in Finished /\ op'.call = c
               /\ \A t \in Sessions : \A i \in 1..Len(rows'[t]) :
                    rows'[t][i].message.kind = "result" => rows'[t][i].message.call # c
    <3>1. /\ op.pc = "idle" /\ op'.call = c /\ journal[c] = "open" /\ UNCHANGED <<rows, run>>
          /\ run[c[1]].pc \in Owning => c \in raced'
      BY <1>0, <2>1, Chosen
    <3>2. run[c[1]].pc \in Finished
      <4>1. c[1] \in RunIds /\ run[c[1]].pc \notin Silent
        BY <1>0, <3>1, SpeakerHeard DEF Calls
      <4>2. run[c[1]].pc \notin Owning
        BY <1>1, <3>1
      <4>3. run[c[1]].pc \in Synchronous \cup Owning \cup Settled \cup {"accepted"}
        BY <1>0, <4>1 DEF TypeOK, Runs
      <4> QED
        BY <4>1, <4>2, <4>3 DEF Synchronous, Owning, Settled, Silent, Finished
    <3>3. ~Marked(c)
      BY <3>1, <3>2 DEF Marked, Finished
    <3>4. c \notin cut
      BY <1>1, <1>b, <3>1
    <3>5. \A t \in Sessions : \A i \in 1..Len(rows[t]) :
            rows[t][i].message.kind = "result" => rows[t][i].message.call # c
      BY <3>3, <3>4 DEF ResultsMarked, IsResult
    <3> QED
      BY <3>1, <3>2, <3>5
  <2>2. CASE op.pc \in {"chosen", "loaded"} /\ op'.call = op.call
    <3>1. /\ d[1] \in RunIds /\ run[d[1]].pc \in Finished
          /\ \A s \in Sessions : \A i \in 1..Len(rows[s]) :
               rows[s][i].message.kind = "result" => rows[s][i].message.call # d
      BY <1>1, <1>b, <2>2 DEF OperatorWaits, IsResult, Calls
    <3>2. ASSUME NEW s \in Sessions, NEW m \in Messages, Receives(s, m), m.call = d
          PROVE  FALSE
      <4>1. ~\E r \in RunIds : Says(r, m)
        BY <3>1, <3>2 DEF Says, Finished
      <4>2. OperatorAppends
        BY <3>2, <4>1 DEF Receives
      <4>3. op'.pc \in {"mark", "idle"}
        BY <1>0, <4>2 DEF OperatorAppends, TypeOK, Operations, NoOperation
      <4> QED
        BY <1>1, <4>3
    <3>3. \A s \in Sessions : \A i \in 1..Len(rows'[s]) :
            rows'[s][i].message.kind = "result" => rows'[s][i].message.call # d
      BY <1>0, <3>1, <3>2, RowOrigin
    <3> QED
      BY <1>a, <3>1, <3>3
  <2> QED
    BY <1>0, <1>1, <2>1, <2>2, OperatorGoes
<1>2. ASSUME NEW s \in Sessions, NEW i \in 1..Len(rows'[s]), rows'[s][i].message.by = "operator",
             rows'[s][i].message.call \notin raced' \cup cut'
      PROVE  run'[rows'[s][i].message.call[1]].pc \in Finished
  <2>1. CASE i \in 1..Len(rows[s]) /\ rows'[s][i].message = rows[s][i].message
    <3>1. rows[s][i].message.call[1] \in RunIds
      BY <1>0, <2>1, StoreParts, MessageParts
    <3> QED
      BY <1>2, <1>a, <1>b, <2>1, <3>1 DEF OperatorWaits
  <2>2. ASSUME NEW m \in Messages, rows'[s][i].message = m, Receives(s, m)
        PROVE  run'[m.call[1]].pc \in Finished
    <3>1. op.pc = "loaded" /\ m.call = op.call
      BY <1>0, <1>2, <2>2, OperatorCommits
    <3>2. m.call[1] \in RunIds
      BY MessageParts
    <3> QED
      BY <1>2, <1>a, <1>b, <2>2, <3>1, <3>2 DEF OperatorWaits
  <2> QED
    BY <1>0, <2>1, <2>2, RowOrigin
<1>3. op'.call \in Calls
  <2>1. TypeOK'
    BY ConsistentStep DEF Consistent
  <2> QED
    BY <2>1 DEF TypeOK, Operations
<1> QED
  BY <1>1, <1>2, <1>3 DEF OperatorWaits, IsResult

LEMMA SameResult ==
  ASSUME NEW m \in Messages, NEW n \in Messages, m.kind = n.kind, m.call = n.call, m.by = n.by
  PROVE  m = n
  BY DEF Messages

\* A result that comes to a session is the first of its call, if nothing is noted of it.
LEMMA FirstResult ==
  ASSUME Consistent, Voiced, OperatorVoiced, OperatorWaits, NEW s \in Sessions,
         NEW m \in Messages, Receives(s, m), m.kind = "result", m.call \notin raced \cup cut,
         NEW i \in 1..Len(rows[s]), IsResult(s, i), rows[s][i].message.call = m.call
  PROVE  FALSE
<1> DEFINE n == rows[s][i].message
<1>0. n \in Messages /\ n.by \in {"run", "operator"} /\ n.kind = "result"
  BY StoreParts, MessageParts DEF Consistent, IsResult
<1>1. CASE \E r \in RunIds : Says(r, m)
  <2>1. PICK r \in RunIds : Says(r, m)
    BY <1>1
  <2>2. m.by = "run" /\ m.call[1] = r /\ run[r].pc \notin Finished /\ n # m
    BY <2>1, SaidIsNew DEF Says, Finished
  <2>3. n.by = "operator"
    BY <1>0, <2>2, SameResult
  <2> QED
    BY <2>2, <2>3 DEF OperatorWaits
<1>2. CASE op.pc = "loaded" /\ m = ToolResult(op.call, "operator")
  <2>1. m.call = op.call
    BY <1>2 DEF ToolResult
  <2> QED
    BY <1>2, <2>1 DEF OperatorWaits
<1> QED
  BY <1>1, <1>2 DEF Receives

LEMMA SecondStep ==
  ASSUME Consistent, Voiced, OperatorVoiced, OperatorWaits, OneResult, [Next]_vars
  PROVE  OneResult'
<1>0. TypeOK /\ RunsPlaced /\ OneAtATime
  BY DEF Consistent
<1>1. ASSUME NEW s \in Sessions, NEW i \in 1..Len(rows'[s]), NEW j \in 1..Len(rows'[s]),
             rows'[s][i].message.kind = "result", rows'[s][j].message.kind = "result",
             rows'[s][i].message.call = rows'[s][j].message.call,
             rows'[s][i].message.call \notin raced' \cup cut'
      PROVE  i = j
  <2>1. rows'[s][i].message.call \notin raced \cup cut
    BY <1>1, NotesStay
  <2>2. /\ \/ i \in 1..Len(rows[s]) /\ rows'[s][i].message = rows[s][i].message
           \/ i = Len(rows[s]) + 1 /\ \E m \in Messages : rows'[s][i].message = m /\ Receives(s, m)
        /\ \/ j \in 1..Len(rows[s]) /\ rows'[s][j].message = rows[s][j].message
           \/ j = Len(rows[s]) + 1 /\ \E m \in Messages : rows'[s][j].message = m /\ Receives(s, m)
    BY <1>0, RowOrigin
  <2>3. CASE /\ i \in 1..Len(rows[s]) /\ rows'[s][i].message = rows[s][i].message
             /\ j \in 1..Len(rows[s]) /\ rows'[s][j].message = rows[s][j].message
    BY <1>1, <2>1, <2>3 DEF OneResult, IsResult
  <2>4. ASSUME NEW m \in Messages, Receives(s, m), m.kind = "result", m.call \notin raced \cup cut,
               NEW k \in 1..Len(rows[s]), rows[s][k].message.kind = "result",
               rows[s][k].message.call = m.call
        PROVE  FALSE
    BY <2>4, FirstResult DEF IsResult
  <2> QED
    BY <1>1, <2>1, <2>2, <2>3, <2>4
<1> QED
  BY <1>1 DEF OneResult, IsResult

LEMMA HistoryInit == Init => History
<1> SUFFICES ASSUME Init PROVE History
  OBVIOUS
<1>1. Consistent
  BY ConsistentInit
<1>2. /\ \A s \in Sessions : rows[s] = <<>> /\ version[s] = 0
      /\ \A p \in Runtimes, s \in Sessions : cache[p][s].log = <<>> /\ ~cache[p][s].here
      /\ \A r \in RunIds : run[r].pc = "none"
      /\ \A c \in Calls : journal[c] = "absent"
      /\ op.pc = "idle"
  BY DEF Init, NoOperation, NotCached, NoRun
<1>3. \A s \in Sessions : ~(\E i \in 1..Len(rows[s]) : TRUE)
  BY <1>2
<1>4. /\ Voiced /\ RowsBound /\ JournalOpened /\ CallsMade /\ OperatorVoiced /\ RowsOnce /\ Behind
  BY <1>2, <1>3 DEF Voiced, RowsBound, JournalOpened, CallsMade, InCall, OperatorVoiced, RowsOnce,
                    Behind
<1>5. NoForkedHistory
  BY <1>2 DEF NoForkedHistory
<1>6. ResultsMarked /\ OperatorWaits /\ OneResult
  BY <1>2, <1>3 DEF ResultsMarked, OperatorWaits, OneResult
<1> QED
  BY <1>1, <1>4, <1>5, <1>6 DEF History, Said

LEMMA HistoryStep == History /\ [Next]_vars => History'
<1> SUFFICES ASSUME History, [Next]_vars PROVE History'
  OBVIOUS
<1>1. /\ Consistent /\ Voiced /\ RowsBound /\ JournalOpened /\ CallsMade /\ OperatorVoiced
      /\ RowsOnce /\ Behind /\ NoForkedHistory /\ ResultsMarked /\ OperatorWaits /\ OneResult
  BY DEF History, Said
<1>2. Consistent' /\ TypeOK'
  BY <1>1, ConsistentStep DEF Consistent
<1>3. Voiced' /\ RowsBound' /\ JournalOpened' /\ CallsMade'
  BY <1>1, <1>2, VoicedStep, BoundStep, OpenedStep, CallsStep
<1>4. OperatorVoiced' /\ RowsOnce' /\ Behind'
  BY <1>1, OperatorStays, OnceStep, BehindStep
<1>5. NoForkedHistory'
  BY <1>1, UnforkedStep
<1>6. ResultsMarked' /\ OperatorWaits' /\ OneResult'
  BY <1>1, <1>2, MarksStep, WaitsStep, SecondStep
<1> QED
  BY <1>2, <1>3, <1>4, <1>5, <1>6 DEF History, Said

LEMMA AlwaysHistory == Spec => []History
BY HistoryInit, HistoryStep, PTL DEF Spec

\* Whoever could commit next to a session has its whole history in the committed
\* order, whatever the other processes, the operator and torn rows did
\* (append's comparison of versions, load's order of statements).
THEOREM HistoriesNeverFork == Spec => []NoForkedHistory
<1>1. History => NoForkedHistory
  BY DEF History
<1> QED
  BY <1>1, AlwaysHistory, PTL

\* A call has a second readable result only where an operator treated it while its
\* run was live, or where a run or a command ended between its result and the row
\* of the call in the journal (resolve_uncertain looks at that row alone).
THEOREM SecondResultsAccountedFor == Spec => []SecondResultAccountedFor
<1>1. History => SecondResultAccountedFor
  BY DEF History, OneResult, IsResult, SecondResultAccountedFor, Whole
<1> QED
  BY <1>1, AlwaysHistory, PTL
=============================================================================
