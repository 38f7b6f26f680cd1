--------------------------- MODULE AgentLoopProofs ---------------------------
(***************************************************************************)
(* What is proved of AgentLoop for every value of its constants.           *)
(***************************************************************************)
EXTENDS AgentLoop, SelectionProofs

-----------------------------------------------------------------------------
(* Transitions.  An outcome is a snapshot or the refusal.                  *)

Outcomes == Snapshots \cup {Rejected}

Statuses == RunStatuses \cup {NoStatus}

LEMMA RejectedState == Rejected.state = "REJECTED"
  BY DEF Rejected, IdleSnapshot

LEMMA TargetType ==
  ASSUME NEW s, NEW trigger
  PROVE  Target(s, trigger) \in AgentStates \cup {"REJECTED"}
  BY DEF Target, AgentStates, ActiveStates, TerminalStates

\* A transition yields a snapshot or is refused, whatever it is asked.
LEMMA TransitionType ==
  ASSUME NEW r \in Outcomes, NEW expected, NEW trigger,
         NEW explicit \in Statuses, NEW call \in CallIds
  PROVE  Transition(r, expected, trigger, explicit, call) \in Outcomes
<1> DEFINE to == Target(r.state, trigger)
<1>1. CASE expected # r.seq \/ to = "REJECTED"
  BY <1>1 DEF Transition, Outcomes
<1>2. CASE ~(expected # r.seq \/ to = "REJECTED")
  <2>1. to \in AgentStates
    BY <1>2, TargetType
  <2>2. r \in [state : AgentStates \cup {"REJECTED"}, seq : Nat, turn : Nat, call : CallIds,
               status : Statuses, cancellation : CancellationStates]
    BY DEF Outcomes, Snapshots, Statuses, Rejected, IdleSnapshot, NoCall, CallIds,
           CancellationStates, RunStatuses, NoStatus
  <2>3. DefaultStatus(trigger) \in Statuses
    BY DEF DefaultStatus, Statuses, RunStatuses, NoStatus
  <2>4. NoCall \in CallIds
    BY DEF NoCall, CallIds
  <2> DEFINE status == IF explicit # NoStatus THEN explicit
                       ELSE IF DefaultStatus(trigger) # NoStatus THEN DefaultStatus(trigger)
                       ELSE r.status
             turn == CASE trigger = "START" -> 1
                       [] trigger = "TURN_START" -> r.turn + 1
                       [] OTHER -> r.turn
             to_call == CASE trigger = "TOOL_CALL_COMPLETE" -> call
                          [] trigger = "TOOL_RESULT_RESOLVED" -> r.call
                          [] OTHER -> NoCall
             cancellation == CASE trigger = "ABORT_REQUESTED" -> "REQUESTED"
                               [] trigger = "CLEANUP_DONE" -> "COMPLETED"
                               [] OTHER -> r.cancellation
  <2>5. status \in Statuses
    BY <2>2, <2>3
  <2>6. turn \in Nat
    BY <2>2
  <2>7. to_call \in CallIds
    BY <2>2, <2>4
  <2>8. cancellation \in CancellationStates
    BY <2>2 DEF CancellationStates
  <2>9. r.seq + 1 \in Nat
    BY <2>2
  <2>10. Transition(r, expected, trigger, explicit, call)
           = [state |-> to, seq |-> r.seq + 1, turn |-> turn, call |-> to_call,
              status |-> status, cancellation |-> cancellation]
    BY <1>2 DEF Transition
  <2> HIDE DEF to, status, turn, to_call, cancellation
  <2> QED
    BY <2>1, <2>5, <2>6, <2>7, <2>8, <2>9, <2>10 DEF Outcomes, Snapshots, Statuses
<1> QED
  BY <1>1, <1>2

LEMMA FireType ==
  ASSUME NEW r \in Outcomes, NEW trigger
  PROVE  Fire(r, trigger) \in Outcomes
  BY TransitionType DEF Fire, Statuses, NoCall, CallIds

LEMMA RequestAbortType ==
  ASSUME NEW r \in Outcomes
  PROVE  RequestAbort(r) \in Outcomes
  BY FireType DEF RequestAbort

LEMMA LeaveSteeringType ==
  ASSUME NEW r \in Outcomes
  PROVE  LeaveSteering(r) \in Outcomes
  BY FireType DEF LeaveSteering

\* Whatever comes of a move, the run keeps a snapshot.
LEMMA MoveType ==
  ASSUME rs \in Snapshots, NEW r \in Outcomes, NEW next \in PCs, Move(r, next)
  PROVE  rs' \in Snapshots /\ pc' \in PCs
  BY RejectedState DEF Move, Outcomes, PCs

-----------------------------------------------------------------------------
(* Type correctness.                                                       *)

LEMMA LimitTypes ==
  /\ MaxBatch \in Nat /\ MaxTurns \in Nat /\ MaxToolCalls \in Nat /\ MaxRetries \in Nat
  /\ Deadline \in Nat /\ Backoff \in Nat
  BY LimitsAssumption

LEMMA InjectedType ==
  ASSUME NEW messages \in Seq(Steers), runs \in Nat
  PROVE  Injected(messages) \in Seq(Messages)
<1>1. \A m \in Steers : UserMessage(m) \in Messages
  BY DEF UserMessage, Messages, Sources
<1> QED
  BY <1>1 DEF Injected

LEMMA SkippedResultsType ==
  ASSUME TypeOK, InBatch
  PROVE  SkippedResults \in Seq(Messages)
<1> DEFINE n == batch.size - batch.next + 1
           result(i) == ToolResult(<<batch.at, batch.next + i - 1>>, FALSE)
<1>1. batch.at \in Nat /\ batch.size \in Nat /\ batch.next \in Nat /\ n \in Nat
  BY DEF TypeOK, InBatch
<1>2. ASSUME NEW i \in 1..n
      PROVE  result(i) \in Messages
  <2>1. batch.next + i - 1 \in Nat
    BY <1>1
  <2>2. <<batch.at, batch.next + i - 1>> \in CallIds
    BY <1>1, <2>1 DEF CallIds
  <2> QED
    BY <2>2 DEF ToolResult, Messages
<1>3. SkippedResults = [i \in 1..n |-> result(i)]
  BY DEF SkippedResults
<1> HIDE DEF n, result
<1>4. SkippedResults \in [1..n -> Messages]
  BY <1>2, <1>3
<1> QED
  BY <1>1, <1>4

LEMMA BudgetMoveType ==
  ASSUME TypeOK, NEW limit \in Limits, FinishBudget(limit)
  PROVE  rs' \in Snapshots /\ pc' \in PCs /\ limitHit' \in Limits
<1>1. Transition(rs, rs.seq, "FINISH", "BUDGET_EXHAUSTED", NoCall) \in Outcomes
  BY TransitionType DEF TypeOK, Outcomes, Statuses, RunStatuses, NoCall, CallIds
<1> QED
  BY <1>1, MoveType DEF FinishBudget, TypeOK, PCs

LEMMA AbortMoveType ==
  ASSUME TypeOK, AbortRun
  PROVE  rs' \in Snapshots /\ pc' \in PCs
<1>1. Fire(RequestAbort(rs), "CLEANUP_DONE") \in Outcomes
  BY FireType, RequestAbortType DEF TypeOK, Outcomes
<1> QED
  BY <1>1, MoveType DEF AbortRun, TypeOK, PCs

LEMMA NewRunType ==
  ASSUME TypeOK, NewRun, log' \in Seq(Messages)
  PROVE  TypeOK'
<1>1. IdleSnapshot \in Snapshots
  BY DEF IdleSnapshot, Snapshots, AgentStates, NoCall, CallIds, NoStatus, CancellationStates
<1>2. Transition(IdleSnapshot, 0, "START", NoStatus, NoCall) \in Snapshots
  <2>1. Target("IDLE", "START") = "RUNNING"
    BY DEF Target
  <2>2. Transition(IdleSnapshot, 0, "START", NoStatus, NoCall).state = "RUNNING"
    BY <2>1 DEF Transition, IdleSnapshot
  <2>3. Transition(IdleSnapshot, 0, "START", NoStatus, NoCall) \in Outcomes
    BY <1>1, TransitionType DEF Outcomes, Statuses, NoCall, CallIds
  <2> QED
    BY <2>2, <2>3, RejectedState DEF Outcomes
<1>3. <<>> \in Seq(Steers)
  OBVIOUS
<1>4. batch' \in [at : Nat, size : Nat, next : Nat]
  BY DEF NewRun
<1>5. runs' \in Nat
  BY DEF NewRun, TypeOK
<1>6. executed' \subseteq CallIds /\ followUps' \in Seq(FollowUps) /\ enqueued' \in Seq(FollowUps)
  BY DEF NewRun, TypeOK
<1> QED
  BY <1>2, <1>3, <1>4, <1>5, <1>6 DEF NewRun, TypeOK, PCs, Limits, NotCancelled

LEMMA DrainType ==
  ASSUME TypeOK, DrainSteering
  PROVE  log' \in Seq(Messages) /\ steering' \in Seq(Steers)
<1>1. Injected(steering) \in Seq(Messages)
  BY InjectedType DEF TypeOK
<1> QED
  BY <1>1 DEF DrainSteering, TypeOK

LEMMA CommitType ==
  ASSUME TypeOK, NEW size \in Nat, CommitAssistant(size),
         pc' \in PCs, rs' \in Snapshots, batch' \in [at : Nat, size : Nat, next : Nat]
  PROVE  TypeOK'
<1>1. AssistantMessage(size) \in Messages
  BY DEF AssistantMessage, Messages
<1>2. log' \in Seq(Messages)
  BY <1>1, AppendProperties DEF CommitAssistant, TypeOK
<1>3. turns' \in Nat
  BY DEF CommitAssistant, TypeOK
<1>4. UNCHANGED <<runs, toolCalls, providerCalls, retries, elapsed, overrun, allowance,
                  timer, sent, executed, cancel, atCancel, steering, accepted, followUps,
                  enqueued, limitHit>>
  BY DEF CommitAssistant, clock, queueVars
<1> QED
  BY <1>2, <1>3, <1>4 DEF TypeOK

LEMMA CurrentCallType ==
  ASSUME TypeOK
  PROVE  CurrentCall \in CallIds
  BY DEF TypeOK, CurrentCall, CallIds

\* Every step keeps every variable in its type.
LEMMA TypeStep ==
  ASSUME TypeOK, [Next]_vars
  PROVE  TypeOK'
<1> USE DEF runVars, counters, clock, queueVars
<1>1. CASE UNCHANGED vars
  BY <1>1 DEF TypeOK, vars
<1>2. CASE StartRun
  <2>1. [type |-> "user", src |-> Task, run |-> runs + 1] \in Messages
    BY DEF TypeOK, Messages, Sources
  <2>2. log' \in Seq(Messages)
    BY <1>2, <2>1 DEF StartRun, TypeOK
  <2> QED
    BY <1>2, <2>2, NewRunType DEF StartRun
<1>3. CASE ContinueRun
  BY <1>3, NewRunType DEF ContinueRun, TypeOK
<1>4. CASE TopAbort
  BY <1>4, AbortMoveType DEF TopAbort, TypeOK
<1>5. CASE TopDeadline
  BY <1>5, BudgetMoveType DEF TopDeadline, TypeOK, Limits
<1>6. CASE TopMaxTurns
  BY <1>6, BudgetMoveType DEF TopMaxTurns, TypeOK, Limits
<1>7. CASE RequestModel
  <2>1. rs' \in Snapshots /\ pc' \in PCs
    BY <1>7, MoveType, LeaveSteeringType DEF RequestModel, TypeOK, Outcomes, PCs
  <2>2. Deadline - elapsed \in Nat
    BY <1>7, LimitTypes DEF RequestModel, MayBeginTurn, TypeOK
  <2> QED
    BY <1>7, <2>1, <2>2, DrainType DEF RequestModel, TypeOK, DrainSteering
<1>8. CASE ContextOverflow
  <2> DEFINE r == LeaveSteering(rs)
  <2>1. Transition(r, r.seq, "FINISH", "BUDGET_EXHAUSTED", NoCall) \in Outcomes
    BY LeaveSteeringType, TransitionType
       DEF TypeOK, Outcomes, Statuses, RunStatuses, NoCall, CallIds
  <2>2. rs' \in Snapshots /\ pc' \in PCs
    BY <1>8, <2>1, MoveType DEF ContextOverflow, TypeOK, PCs
  <2> QED
    BY <1>8, <2>2, DrainType DEF ContextOverflow, TypeOK, DrainSteering, Limits
<1>9. CASE ModelTimeout
  BY <1>9, BudgetMoveType DEF ModelTimeout, TypeOK, Limits
<1>10. CASE ModelCancelled
  BY <1>10, AbortMoveType DEF ModelCancelled, TypeOK
<1>11. CASE ToolOverruns
  BY <1>11 DEF ToolOverruns, Passes, TypeOK
<1>12. CASE ModelRetry
  <2>1. Backoff * 2 ^ retries \in Nat
    <3>1. retries \in 0..MaxRetries
      BY <1>12, LimitTypes DEF ModelRetry, TypeOK
    <3> QED
      BY <3>1, DelayAssumption
  <2> QED
    BY <1>12, <2>1, SMTT(30) DEF ModelRetry, RetryAfter, TypeOK, PCs
<1>13. CASE BackoffOver
  BY <1>13 DEF BackoffOver, TypeOK, PCs
<1>14. CASE ModelFails
  BY <1>14, MoveType, FireType DEF ModelFails, TypeOK, PCs, Outcomes
<1>15. CASE ResponseError
  <2>1. rs' \in Snapshots /\ pc' \in PCs
    BY <1>15, MoveType, FireType DEF ResponseError, TypeOK, PCs, Outcomes
  <2> QED
    BY <1>15, <2>1, CommitType DEF ResponseError, TypeOK
<1>16. CASE ResponseCancelled
  BY <1>16, AbortMoveType, CommitType DEF ResponseCancelled, TypeOK
<1>17. CASE ResponseFinal
  BY <1>17, CommitType DEF ResponseFinal, TypeOK, PCs
<1>18. CASE ResponseTools
  <2> DEFINE at == Len(log) + 1
  <2>1. PICK size \in 1..MaxBatch :
          /\ CommitAssistant(size)
          /\ Move(Transition(rs, rs.seq, "TOOL_CALL_COMPLETE", NoStatus, <<at, 1>>), "batch")
          /\ batch' = [at |-> at, size |-> size, next |-> 1]
    BY <1>18 DEF ResponseTools
  <2>2. at \in Nat /\ size \in Nat
    BY LimitTypes DEF TypeOK
  <2>3. Transition(rs, rs.seq, "TOOL_CALL_COMPLETE", NoStatus, <<at, 1>>) \in Outcomes
    BY <2>2, TransitionType DEF TypeOK, Outcomes, Statuses, CallIds
  <2>4. rs' \in Snapshots /\ pc' \in PCs
    BY <2>1, <2>3, MoveType DEF TypeOK, PCs
  <2> QED
    BY <2>1, <2>2, <2>4, CommitType
<1>19. CASE BatchAbort
  <2>1. log' \in Seq(Messages)
    BY <1>19, SkippedResultsType DEF BatchAbort, TypeOK
  <2> QED
    BY <1>19, <2>1, AbortMoveType DEF BatchAbort, TypeOK
<1>20. CASE BatchBudget
  <2>1. log' \in Seq(Messages)
    BY <1>20, SkippedResultsType DEF BatchBudget, TypeOK
  <2> QED
    BY <1>20, <2>1, BudgetMoveType DEF BatchBudget, TypeOK, Limits
<1>21. CASE StartTool
  <2>1. Transition(rs, rs.seq, "TOOL_CALL_COMPLETE", NoStatus, CurrentCall) \in Outcomes
    BY CurrentCallType, TransitionType DEF TypeOK, Outcomes, Statuses
  <2>2. rs' \in Snapshots /\ pc' \in PCs
    BY <1>21, <2>1, MoveType DEF StartTool, HandOver, TypeOK, PCs, Outcomes
  <2> DEFINE wait == IF elapsed < Deadline THEN Deadline - elapsed ELSE 0
  <2>3. wait \in Nat
    BY LimitTypes DEF TypeOK
  <2>4. HandOver(wait)
    BY <1>21 DEF StartTool
  <2> HIDE DEF wait
  <2> QED
    BY <2>2, <2>3, <2>4, CurrentCallType DEF HandOver, TypeOK
<1>22. CASE ToolReturns
  <2>1. ToolResult(CurrentCall, TRUE) \in Messages
    BY CurrentCallType DEF ToolResult, Messages
  <2>2. log' \in Seq(Messages)
    BY <1>22, <2>1, AppendProperties DEF ToolReturns, TypeOK
  <2> DEFINE resolved == Fire(rs, "TOOL_RESULT_RESOLVED")
             r == IF batch.next = batch.size /\ steering # <<>>
                  THEN Fire(resolved, "STEERING_ARRIVED")
                  ELSE Fire(resolved, "CONTINUE")
  <2>3. r \in Outcomes
    BY FireType DEF TypeOK, Outcomes
  <2>4. Move(r, "batch")
    BY <1>22 DEF ToolReturns
  <2> HIDE DEF r
  <2>5. rs' \in Snapshots /\ pc' \in PCs
    BY <2>3, <2>4, MoveType DEF TypeOK, PCs
  <2>6. batch' \in [at : Nat, size : Nat, next : Nat]
    <3>1. batch \in [at : Nat, size : Nat, next : Nat]
      BY DEF TypeOK
    <3>2. batch' = [batch EXCEPT !.next = batch.next + 1]
      BY <1>22 DEF ToolReturns
    <3> QED
      BY <3>1, <3>2
  <2>7. toolCalls' \in Nat
    <3>1. toolCalls' = toolCalls + 1
      BY <1>22 DEF ToolReturns
    <3>2. toolCalls \in Nat
      BY DEF TypeOK
    <3> QED
      BY <3>1, <3>2
  <2> QED
    BY <1>22, <2>2, <2>5, <2>6, <2>7 DEF ToolReturns, TypeOK
<1>23. CASE BatchOverAbort
  BY <1>23, AbortMoveType DEF BatchOverAbort, TypeOK
<1>24. CASE BatchOverContinue
  BY <1>24 DEF BatchOverContinue, TypeOK, PCs
<1>25. CASE TurnSteering
  <2>1. rs' \in Snapshots /\ pc' \in PCs
    BY <1>25, MoveType, LeaveSteeringType DEF TurnSteering, TypeOK, Outcomes, PCs
  <2> QED
    BY <1>25, <2>1, DrainType DEF TurnSteering, DrainSteering, TypeOK
<1>26. CASE TurnFollowUp
  <2>1. rs' \in Snapshots /\ pc' \in PCs
    BY <1>26, MoveType, FireType, LeaveSteeringType DEF TurnFollowUp, TypeOK, Outcomes, PCs
  <2>2. UserMessage(Head(followUps)) \in Messages /\ Tail(followUps) \in Seq(FollowUps)
    BY <1>26, HeadTailProperties DEF TurnFollowUp, TypeOK, UserMessage, Messages, Sources
  <2>3. log' \in Seq(Messages)
    BY <1>26, <2>2 DEF TurnFollowUp, TypeOK
  <2> QED
    BY <1>26, <2>1, <2>2, <2>3 DEF TurnFollowUp, TypeOK
<1>27. CASE TurnFinish
  BY <1>27, MoveType, FireType, LeaveSteeringType DEF TurnFinish, TypeOK, Outcomes, PCs
<1>28. CASE SubmitSteering
  BY <1>28 DEF SubmitSteering, TypeOK
<1>29. CASE SubmitFollowUp
  BY <1>29 DEF SubmitFollowUp, TypeOK
<1>30. CASE RequestCancel
  BY <1>30 DEF RequestCancel, TypeOK
<1>31. CASE Tick
  BY <1>31 DEF Tick, Passes, TypeOK
<1> QED
  BY <1>1, <1>2, <1>3, <1>4, <1>5, <1>6, <1>7, <1>8, <1>9, <1>10, <1>11, <1>12, <1>13,
     <1>14, <1>15, <1>16, <1>17, <1>18, <1>19, <1>20, <1>21, <1>22, <1>23, <1>24, <1>25,
     <1>26, <1>27, <1>28, <1>29, <1>30, <1>31
     DEF Next, LoopStep, Response

LEMMA TypeInit ==
  ASSUME Init
  PROVE  TypeOK
<1>1. IdleSnapshot \in Snapshots
  BY DEF IdleSnapshot, Snapshots, AgentStates, NoCall, CallIds, NoStatus, CancellationStates
<1>2. \A S : <<>> \in Seq(S)
  BY EmptySeq
<1>3. batch \in [at : Nat, size : Nat, next : Nat]
  BY DEF Init
<1> QED
  BY <1>1, <1>2, <1>3 DEF Init, TypeOK, PCs, Limits, NotCancelled

\* Whatever the provider answers and whenever the user interferes, the loop,
\* its queues and the history hold what their types say (loop.py, control.py).
THEOREM TypeCorrect == Spec => []TypeOK
<1>1. Init => TypeOK
  BY TypeInit
<1>2. TypeOK /\ [Next]_vars => TypeOK'
  BY TypeStep
<1> QED
  BY <1>1, <1>2, PTL DEF Spec

-----------------------------------------------------------------------------
(* Where the snapshot stands.  The loop checks none of its transitions: that *)
(* the table has a row for them rests on the state the snapshot is in at     *)
(* each place of the loop.                                                   *)

\* The state of the snapshot at each place; in a batch it depends on whether a
\* call was executed already and whether one is left.
StateInBatch ==
  /\ batch.next = 1 => rs.state = "WAITING_TOOL"
  /\ batch.next > 1 /\ batch.next <= batch.size => rs.state = "RUNNING"
  /\ batch.next > batch.size => rs.state \in {"RUNNING", "STEERING"}

StateAtPlace ==
  /\ pc = "top" => rs.state \in {"RUNNING", "STEERING"}
  /\ pc \in {"await_model", "backoff", "turn_end"} => rs.state = "RUNNING"
  /\ pc = "batch" => batch.size >= 1 /\ batch.next >= 1 /\ StateInBatch
  /\ pc = "await_tool" => /\ rs.state = "WAITING_TOOL"
                         /\ batch.next >= 1 /\ batch.next <= batch.size
  /\ RefusedOnlyAtLimit

\* A transition leads to the state the table names, or to the refusal.
LEMMA TransitionState ==
  ASSUME NEW r, NEW trigger, NEW explicit, NEW call
  PROVE  Transition(r, r.seq, trigger, explicit, call).state = Target(r.state, trigger)
  BY RejectedState DEF Transition

LEMMA FireState ==
  ASSUME NEW r, NEW trigger
  PROVE  Fire(r, trigger).state = Target(r.state, trigger)
  BY TransitionState DEF Fire

\* The rows of the table the loop relies on.
LEMMA Rows ==
  /\ Target("IDLE", "START") = "RUNNING"
  /\ Target("RUNNING", "TOOL_CALL_COMPLETE") = "WAITING_TOOL"
  /\ Target("WAITING_TOOL", "TOOL_RESULT_RESOLVED") = "PROCESSING_TOOL_RESULT"
  /\ Target("PROCESSING_TOOL_RESULT", "CONTINUE") = "RUNNING"
  /\ Target("PROCESSING_TOOL_RESULT", "STEERING_ARRIVED") = "STEERING"
  /\ Target("STEERING", "STEERING_INJECTED") = "RUNNING"
  /\ Target("RUNNING", "FOLLOW_UP_READY") = "FOLLOW_UP"
  /\ Target("FOLLOW_UP", "TURN_START") = "RUNNING"
  /\ Target("RUNNING", "FINISH") = "FINISHED"
  /\ Target("RUNNING", "FAIL") = "ERROR"
  /\ \A s \in ActiveStates : Target(s, "ABORT_REQUESTED") = "ABORTING"
  /\ Target("ABORTING", "CLEANUP_DONE") = "ABORTED"
<1>1. \A s \in ActiveStates : Target(s, "ABORT_REQUESTED") = "ABORTING"
  BY DEF Target, ActiveStates
<1> QED
  BY <1>1 DEF Target

\* An abort goes through from every state a run is active in.
LEMMA AbortState ==
  ASSUME NEW r, r.state \in ActiveStates
  PROVE  Fire(RequestAbort(r), "CLEANUP_DONE").state = "ABORTED"
<1>1. RequestAbort(r) = Fire(r, "ABORT_REQUESTED")
  BY DEF RequestAbort, ActiveStates, TerminalStates
<1>2. Fire(r, "ABORT_REQUESTED").state = "ABORTING"
  BY FireState, Rows
<1> QED
  BY <1>1, <1>2, FireState, Rows

LEMMA LeaveSteeringState ==
  ASSUME NEW r, r.state \in {"RUNNING", "STEERING"}
  PROVE  LeaveSteering(r).state = "RUNNING"
  BY FireState, Rows DEF LeaveSteering

LEMMA AcceptedMove ==
  ASSUME NEW r, NEW next, Move(r, next), r.state # "REJECTED"
  PROVE  pc' = next /\ rs' = r
  BY DEF Move

\* An abort in an active state ends the run.
LEMMA AbortEnds ==
  ASSUME rs.state \in ActiveStates, AbortRun
  PROVE  pc' = "done"
  BY AbortState, AcceptedMove DEF AbortRun

\* A limit ends the run where FINISH has a row and raises where it has none.
LEMMA BudgetEnds ==
  ASSUME NEW limit, FinishBudget(limit)
  PROVE  /\ limitHit' = limit
         /\ rs.state = "RUNNING" => pc' = "done"
         /\ pc' # "done" => pc' = "raised" /\ rs' = rs
<1> DEFINE r == Transition(rs, rs.seq, "FINISH", "BUDGET_EXHAUSTED", NoCall)
<1>1. r.state = Target(rs.state, "FINISH")
  BY TransitionState
<1>2. Move(r, "done") /\ limitHit' = limit
  BY DEF FinishBudget
<1> HIDE DEF r
<1>3. rs.state = "RUNNING" => r.state # "REJECTED"
  BY <1>1, Rows
<1> QED
  BY <1>2, <1>3 DEF Move

LEMMA NewRunState ==
  ASSUME NewRun
  PROVE  pc' = "top" /\ rs'.state = "RUNNING"
<1>1. IdleSnapshot.seq = 0 /\ IdleSnapshot.state = "IDLE"
  BY DEF IdleSnapshot
<1>2. Fire(IdleSnapshot, "START").state = "RUNNING"
  BY <1>1, FireState, Rows
<1> QED
  BY <1>1, <1>2 DEF NewRun, Fire

LEMMA StateInit ==
  ASSUME Init
  PROVE  StateAtPlace
  BY DEF Init, StateAtPlace, RefusedOnlyAtLimit

\* Every step keeps the snapshot where the loop expects it.
LEMMA StateStep ==
  ASSUME TypeOK, StateAtPlace, [Next]_vars
  PROVE  StateAtPlace'
<1> USE DEF runVars, counters, clock, queueVars
<1>a. batch \in [at : Nat, size : Nat, next : Nat]
  BY DEF TypeOK
<1>1. CASE UNCHANGED vars
  BY <1>1 DEF StateAtPlace, StateInBatch, RefusedOnlyAtLimit, vars
<1>2. CASE StartRun \/ ContinueRun
  BY <1>2, NewRunState DEF StartRun, ContinueRun, StateAtPlace, RefusedOnlyAtLimit
<1>3. CASE TopAbort
  <2>1. pc' = "done"
    BY <1>3, AbortEnds DEF TopAbort, StateAtPlace, ActiveStates
  <2> QED
    BY <2>1 DEF StateAtPlace, RefusedOnlyAtLimit
<1>4. CASE TopDeadline
  <2>1. pc' = "done" \/ (pc' = "raised" /\ rs' = rs /\ rs.state = "STEERING")
    BY <1>4, BudgetEnds DEF TopDeadline, StateAtPlace
  <2> QED
    BY <1>4, <2>1, BudgetEnds DEF TopDeadline, StateAtPlace, RefusedOnlyAtLimit
<1>5. CASE TopMaxTurns
  <2>1. pc' = "done" \/ (pc' = "raised" /\ rs' = rs /\ rs.state = "STEERING")
    BY <1>5, BudgetEnds DEF TopMaxTurns, StateAtPlace
  <2> QED
    BY <1>5, <2>1, BudgetEnds DEF TopMaxTurns, StateAtPlace, RefusedOnlyAtLimit
<1>6. CASE RequestModel
  <2>1. LeaveSteering(rs).state = "RUNNING"
    BY <1>6, LeaveSteeringState DEF RequestModel, MayBeginTurn, StateAtPlace
  <2>2. pc' = "await_model" /\ rs' = LeaveSteering(rs)
    BY <1>6, <2>1, AcceptedMove DEF RequestModel
  <2> QED
    BY <2>1, <2>2 DEF StateAtPlace, RefusedOnlyAtLimit
<1>7. CASE ContextOverflow
  <2> DEFINE r == LeaveSteering(rs)
             over == Transition(r, r.seq, "FINISH", "BUDGET_EXHAUSTED", NoCall)
  <2>1. r.state = "RUNNING"
    BY <1>7, LeaveSteeringState DEF ContextOverflow, MayBeginTurn, StateAtPlace
  <2>2. over.state = "FINISHED"
    <3>1. over.state = Target(r.state, "FINISH")
      BY TransitionState
    <3> QED
      BY <2>1, <3>1, Rows
  <2>3. pc' = "done"
    BY <1>7, <2>2, AcceptedMove DEF ContextOverflow
  <2> QED
    BY <2>3 DEF StateAtPlace, RefusedOnlyAtLimit
<1>8. CASE ModelTimeout
  <2>1. pc' = "done"
    BY <1>8, BudgetEnds DEF ModelTimeout, StateAtPlace
  <2> QED
    BY <2>1 DEF StateAtPlace, RefusedOnlyAtLimit
<1>9. CASE ModelCancelled
  <2>1. pc' = "done"
    BY <1>9, AbortEnds DEF ModelCancelled, StateAtPlace, ActiveStates
  <2> QED
    BY <2>1 DEF StateAtPlace, RefusedOnlyAtLimit
<1>10. CASE ModelRetry
  BY <1>10 DEF ModelRetry, RetryAfter, StateAtPlace, RefusedOnlyAtLimit
<1>11. CASE BackoffOver
  BY <1>11 DEF BackoffOver, StateAtPlace, RefusedOnlyAtLimit
<1>12. CASE ModelFails \/ ResponseError
  <2>1. rs.state = "RUNNING" /\ Move(Fire(rs, "FAIL"), "done")
    BY <1>12 DEF ModelFails, ResponseError, CommitAssistant, StateAtPlace
  <2>2. pc' = "done"
    BY <2>1, FireState, Rows, AcceptedMove
  <2> QED
    BY <2>2 DEF StateAtPlace, RefusedOnlyAtLimit
<1>13. CASE ResponseCancelled
  <2>1. pc' = "done"
    BY <1>13, AbortEnds DEF ResponseCancelled, CommitAssistant, StateAtPlace, ActiveStates
  <2> QED
    BY <2>1 DEF StateAtPlace, RefusedOnlyAtLimit
<1>14. CASE ResponseFinal
  BY <1>14 DEF ResponseFinal, CommitAssistant, StateAtPlace, RefusedOnlyAtLimit
<1>15. CASE ResponseTools
  <2> DEFINE r == Transition(rs, rs.seq, "TOOL_CALL_COMPLETE", NoStatus, <<Len(log) + 1, 1>>)
  <2>1. PICK size \in 1..MaxBatch :
          /\ pc = "await_model" /\ Move(r, "batch")
          /\ batch' = [at |-> Len(log) + 1, size |-> size, next |-> 1]
    BY <1>15 DEF ResponseTools, CommitAssistant
  <2>2. r.state = "WAITING_TOOL"
    <3>1. r.state = Target(rs.state, "TOOL_CALL_COMPLETE")
      BY TransitionState
    <3> QED
      BY <2>1, <3>1, Rows DEF StateAtPlace
  <2>3. pc' = "batch" /\ rs'.state = "WAITING_TOOL"
    BY <2>1, <2>2, AcceptedMove
  <2>4. batch'.next = 1 /\ batch'.size \in Nat /\ batch'.size >= 1
    BY <2>1, LimitTypes
  <2> QED
    BY <2>3, <2>4 DEF StateAtPlace, StateInBatch, RefusedOnlyAtLimit
<1>16. CASE BatchAbort
  <2>1. rs.state \in ActiveStates
    BY <1>16, <1>a DEF BatchAbort, InBatch, StateAtPlace, StateInBatch, ActiveStates
  <2>2. pc' = "done"
    BY <1>16, <2>1, AbortEnds DEF BatchAbort
  <2> QED
    BY <2>2 DEF StateAtPlace, RefusedOnlyAtLimit
<1>17. CASE BatchBudget
  <2>1. rs.state = "RUNNING" \/ rs.state = "WAITING_TOOL"
    BY <1>17, <1>a DEF BatchBudget, InBatch, StateAtPlace, StateInBatch
  <2>2. FinishBudget("max_tool_calls")
    BY <1>17 DEF BatchBudget
  <2>3. pc' = "done" \/ (pc' = "raised" /\ rs' = rs /\ rs.state = "WAITING_TOOL")
    BY <2>1, <2>2, BudgetEnds
  <2>4. limitHit' = "max_tool_calls"
    BY <2>2, BudgetEnds
  <2> QED
    BY <2>3, <2>4 DEF StateAtPlace, RefusedOnlyAtLimit
<1>18. CASE StartTool
  <2> DEFINE r == IF rs.state = "WAITING_TOOL" THEN rs
                  ELSE Transition(rs, rs.seq, "TOOL_CALL_COMPLETE", NoStatus, CurrentCall)
  <2>1. rs.state = "RUNNING" \/ rs.state = "WAITING_TOOL"
    BY <1>18, <1>a DEF StartTool, InBatch, StateAtPlace, StateInBatch
  <2>2. r.state = "WAITING_TOOL"
    <3>1. Transition(rs, rs.seq, "TOOL_CALL_COMPLETE", NoStatus, CurrentCall).state
            = Target(rs.state, "TOOL_CALL_COMPLETE")
      BY TransitionState
    <3> QED
      BY <2>1, <3>1, Rows
  <2>3. Move(r, "await_tool") /\ UNCHANGED batch
    BY <1>18 DEF StartTool, HandOver
  <2> HIDE DEF r
  <2>4. pc' = "await_tool" /\ rs'.state = "WAITING_TOOL"
    BY <2>2, <2>3, AcceptedMove
  <2> QED
    BY <1>18, <2>3, <2>4 DEF StartTool, InBatch, StateAtPlace, RefusedOnlyAtLimit
<1>19. CASE ToolReturns
  <2> DEFINE resolved == Fire(rs, "TOOL_RESULT_RESOLVED")
             isLast == batch.next = batch.size
             r == IF isLast /\ steering # <<>> THEN Fire(resolved, "STEERING_ARRIVED")
                                               ELSE Fire(resolved, "CONTINUE")
  <2>1. rs.state = "WAITING_TOOL" /\ batch.next >= 1 /\ batch.next <= batch.size
    BY <1>19 DEF ToolReturns, StateAtPlace
  <2>2. resolved.state = "PROCESSING_TOOL_RESULT"
    BY <2>1, FireState, Rows
  <2>3. r.state \in {"RUNNING", "STEERING"} /\ (~isLast => r.state = "RUNNING")
    BY <2>2, FireState, Rows
  <2>4. Move(r, "batch") /\ batch' = [batch EXCEPT !.next = batch.next + 1]
    BY <1>19 DEF ToolReturns
  <2> HIDE DEF r
  <2>5. pc' = "batch" /\ rs' = r
    BY <2>3, <2>4, AcceptedMove
  <2>6. batch'.next = batch.next + 1 /\ batch'.size = batch.size
    BY <1>a, <2>4
  <2>7. isLast <=> batch'.next > batch'.size
    BY <1>a, <2>1, <2>6
  <2> QED
    BY <1>a, <2>1, <2>3, <2>5, <2>6, <2>7 DEF StateAtPlace, StateInBatch, RefusedOnlyAtLimit
<1>20. CASE BatchOverAbort
  <2>1. pc' = "done"
    BY <1>20, AbortEnds
       DEF BatchOverAbort, BatchOver, StateAtPlace, StateInBatch, ActiveStates
  <2> QED
    BY <2>1 DEF StateAtPlace, RefusedOnlyAtLimit
<1>21. CASE BatchOverContinue
  BY <1>21 DEF BatchOverContinue, BatchOver, StateAtPlace, StateInBatch, RefusedOnlyAtLimit
<1>22. CASE TurnSteering
  <2>1. LeaveSteering(rs).state = "RUNNING"
    BY <1>22, LeaveSteeringState DEF TurnSteering, StateAtPlace
  <2>2. pc' = "top" /\ rs' = LeaveSteering(rs)
    BY <1>22, <2>1, AcceptedMove DEF TurnSteering
  <2> QED
    BY <2>1, <2>2 DEF StateAtPlace, RefusedOnlyAtLimit
<1>23. CASE TurnFollowUp
  <2> DEFINE r == Fire(Fire(LeaveSteering(rs), "FOLLOW_UP_READY"), "TURN_START")
  <2>1. LeaveSteering(rs).state = "RUNNING"
    BY <1>23, LeaveSteeringState DEF TurnFollowUp, StateAtPlace
  <2>2. r.state = "RUNNING"
    BY <2>1, FireState, Rows
  <2>3. pc' = "top" /\ rs' = r
    BY <1>23, <2>2, AcceptedMove DEF TurnFollowUp
  <2> QED
    BY <2>2, <2>3 DEF StateAtPlace, RefusedOnlyAtLimit
<1>24. CASE TurnFinish
  <2>1. LeaveSteering(rs).state = "RUNNING"
    BY <1>24, LeaveSteeringState DEF TurnFinish, StateAtPlace
  <2>2. Fire(LeaveSteering(rs), "FINISH").state = "FINISHED"
    BY <2>1, FireState, Rows
  <2>3. pc' = "done"
    BY <1>24, <2>2, AcceptedMove DEF TurnFinish
  <2> QED
    BY <2>3 DEF StateAtPlace, RefusedOnlyAtLimit
<1>25. CASE SubmitSteering \/ SubmitFollowUp \/ RequestCancel \/ Tick \/ ToolOverruns
  <2>1. UNCHANGED <<pc, rs, batch, limitHit>>
    BY <1>25 DEF SubmitSteering, SubmitFollowUp, RequestCancel, Tick, ToolOverruns, Passes
  <2> QED
    BY <2>1 DEF StateAtPlace, StateInBatch, RefusedOnlyAtLimit
<1> QED
  BY <1>1, <1>2, <1>3, <1>4, <1>5, <1>6, <1>7, <1>8, <1>9, <1>10, <1>11, <1>12, <1>13,
     <1>14, <1>15, <1>16, <1>17, <1>18, <1>19, <1>20, <1>21, <1>22, <1>23, <1>24, <1>25
     DEF Next, LoopStep, Response

\* A run raises in two situations only, a limit met where the table has no row
\* for FINISH: the tool budget used up before the first call of a response, and
\* the deadline or the turn limit met right after steering ended a batch.  Every
\* other transition of the loop has its row (loop.py, state.py).
THEOREM RefusalsAreLimits == Spec => []RefusedOnlyAtLimit
<1>1. Init => TypeOK /\ StateAtPlace
  BY TypeInit, StateInit
<1>2. TypeOK /\ StateAtPlace /\ [Next]_vars => TypeOK' /\ StateAtPlace'
  BY TypeStep, StateStep
<1>3. StateAtPlace => RefusedOnlyAtLimit
  BY DEF StateAtPlace
<1> QED
  BY <1>1, <1>2, <1>3, PTL DEF Spec

-----------------------------------------------------------------------------
(* The budgets.                                                            *)

\* A response is committed only for a request begun below the turn limit, and
\* a call is counted only after it was started below the tool limit.
WithinBudgets ==
  /\ BudgetsKept
  /\ pc \in {"await_model", "backoff"} => turns < MaxTurns

\* Where a move ends: at its goal, or raised.
LEMMA MoveGoal ==
  ASSUME NEW r, NEW next, Move(r, next)
  PROVE  pc' = next \/ pc' = "raised"
  BY DEF Move

LEMMA BudgetStep ==
  ASSUME TypeOK, WithinBudgets, [Next]_vars
  PROVE  WithinBudgets'
<1> USE MoveGoal, LimitTypes DEF runVars, counters, clock, TypeOK, WithinBudgets, BudgetsKept
<1>1. CASE UNCHANGED vars
  BY <1>1 DEF vars
<1>2. CASE StartRun \/ ContinueRun
  BY <1>2 DEF StartRun, ContinueRun, NewRun
<1>3. CASE TopAbort \/ TopDeadline \/ TopMaxTurns
  BY <1>3 DEF TopAbort, TopDeadline, TopMaxTurns, AbortRun, FinishBudget
<1>4. CASE RequestModel \/ ContextOverflow
  BY <1>4 DEF RequestModel, ContextOverflow, MayBeginTurn
<1>5. CASE ModelTimeout \/ ModelCancelled \/ ModelFails
  BY <1>5 DEF ModelTimeout, ModelCancelled, ModelFails, AbortRun,
              FinishBudget
<1>6. CASE ModelRetry \/ BackoffOver
  BY <1>6 DEF ModelRetry, RetryAfter, BackoffOver
<1>7. CASE Response
  <2>1. /\ pc = "await_model" /\ turns' = turns + 1 /\ toolCalls' = toolCalls
        /\ pc' \in {"done", "raised", "turn_end", "batch"}
    BY <1>7 DEF Response, ResponseError, ResponseCancelled, ResponseFinal, ResponseTools,
                CommitAssistant, AbortRun
  <2> QED
    BY <2>1
<1>8. CASE BatchAbort \/ BatchBudget \/ BatchOverAbort \/ BatchOverContinue
  BY <1>8 DEF BatchAbort, BatchBudget, BatchOverAbort, BatchOverContinue, InBatch, BatchOver,
              AbortRun, FinishBudget
<1>9. CASE StartTool
  BY <1>9 DEF StartTool, HandOver, InBatch
<1>10. CASE ToolReturns
  <2>1. /\ pc = "await_tool" /\ toolCalls' = toolCalls + 1 /\ turns' = turns
        /\ pc' \in {"batch", "raised"}
    BY <1>10 DEF ToolReturns
  <2> QED
    BY <2>1
<1>11. CASE TurnSteering \/ TurnFollowUp \/ TurnFinish
  BY <1>11 DEF TurnSteering, TurnFollowUp, TurnFinish
<1>12. CASE SubmitSteering \/ SubmitFollowUp \/ RequestCancel \/ Tick \/ ToolOverruns
  BY <1>12 DEF SubmitSteering, SubmitFollowUp, RequestCancel, Tick, ToolOverruns, Passes
<1> QED
  BY <1>1, <1>2, <1>3, <1>4, <1>5, <1>6, <1>7, <1>8, <1>9, <1>10, <1>11, <1>12
     DEF Next, LoopStep

\* No interleaving of batches, steering and follow-ups makes a run exceed its
\* turns or its tool calls, whatever the limits and the batches (loop.py).
THEOREM BudgetsAreKept == Spec => []BudgetsKept
<1>1. Init => TypeOK /\ WithinBudgets
  <2>1. Init => 0 <= MaxTurns /\ 0 <= MaxToolCalls
                /\ turns = 0 /\ toolCalls = 0 /\ pc = "idle"
    BY LimitTypes DEF Init
  <2> QED
    BY <2>1, TypeInit DEF WithinBudgets, BudgetsKept
<1>2. TypeOK /\ WithinBudgets /\ [Next]_vars => TypeOK' /\ WithinBudgets'
  BY TypeStep, BudgetStep
<1>3. WithinBudgets => BudgetsKept
  BY DEF WithinBudgets
<1> QED
  BY <1>1, <1>2, <1>3, PTL DEF Spec

-----------------------------------------------------------------------------
(* The time a run takes.                                                   *)

\* How long a run may have lasted by the end of retry k of a request.
LateBy(k) == (k + 1) * Deadline + Backoff * (2 ^ k - 1)

LEMMA LateGrows ==
  ASSUME NEW k \in 0..MaxRetries
  PROVE  /\ LateBy(k) \in Int
         /\ LateBy(k + 1) = LateBy(k) + Deadline + Backoff * 2 ^ k
         /\ Backoff * 2 ^ k \in Nat
<1> DEFINE d == 2 ^ k
           e == 2 ^ (k + 1)
<1>1. d \in Nat /\ e = 2 * d /\ Backoff * d \in Nat
  BY DelayAssumption
<1>2. k \in Nat /\ Deadline \in Nat /\ Backoff \in Nat
  BY LimitTypes
<1> HIDE DEF d, e
<1>3. Backoff * (e - 1) = Backoff * (d - 1) + Backoff * d
  BY <1>1, <1>2
<1>4. (k + 1 + 1) * Deadline = (k + 1) * Deadline + Deadline
  BY <1>2
<1>5. LateBy(k + 1) = LateBy(k) + Deadline + Backoff * d
  BY <1>1, <1>2, <1>3, <1>4 DEF LateBy, d, e
<1>6. LateBy(k) \in Int
  BY <1>1, <1>2 DEF LateBy, d
<1> QED
  BY <1>1, <1>5, <1>6 DEF d

LEMMA LateStarts == LateBy(0) = Deadline
<1>1. Deadline \in Nat /\ Backoff \in Nat
  BY LimitTypes
<1> QED
  BY <1>1, DelayAssumption DEF LateBy

\* Each retry takes its time: of the retries before which a run may have lasted
\* longer there is no first.
LEMMA LateOrdered ==
  ASSUME NEW i \in 0..MaxRetries, NEW j \in 0..MaxRetries, i <= j
  PROVE  LateBy(i) <= LateBy(j)
<1> DEFINE T == {k \in 0..MaxRetries : i <= k /\ ~(LateBy(i) <= LateBy(k))}
<1>1. ASSUME T # {}
      PROVE  FALSE
  <2>1. T \subseteq Nat
    BY LimitTypes
  <2>2. PICK k \in T : \A m \in T : k <= m
    BY <1>1, <2>1, Least
  <2>3. k \in 0..MaxRetries /\ i <= k /\ ~(LateBy(i) <= LateBy(k)) /\ LateBy(i) \in Int
    BY <2>2, LateGrows
  <2>4. k # i
    BY <2>3
  <2>5. k - 1 \in 0..MaxRetries /\ i <= k - 1 /\ k = (k - 1) + 1
    BY <2>3, <2>4, LimitTypes
  <2>6. k - 1 \notin T
    BY <2>1, <2>2, <2>5
  <2>7. LateBy(i) <= LateBy(k - 1)
    BY <2>5, <2>6
  <2>8. /\ LateBy(k - 1) \in Int /\ Backoff * 2 ^ (k - 1) \in Nat
        /\ LateBy(k) = LateBy(k - 1) + Deadline + Backoff * 2 ^ (k - 1)
    <3> DEFINE m == k - 1
    <3>1. m \in 0..MaxRetries /\ k = m + 1
      BY <2>5
    <3> HIDE DEF m
    <3>2. LateBy(m) \in Int /\ Backoff * 2 ^ m \in Nat
          /\ LateBy(m + 1) = LateBy(m) + Deadline + Backoff * 2 ^ m
      BY <3>1, LateGrows
    <3>3. LateBy(k) = LateBy(m) + Deadline + Backoff * 2 ^ m
      BY <3>1, <3>2
    <3> QED
      BY <3>2, <3>3 DEF m
  <2>9. Deadline \in Nat
    BY LimitTypes
  <2> DEFINE late == LateBy(k - 1)
             delay == Backoff * 2 ^ (k - 1)
             first == LateBy(i)
             last == LateBy(k)
  <2>10. /\ late \in Int /\ delay \in Nat /\ first \in Int /\ last = late + Deadline + delay
         /\ first <= late /\ ~(first <= last)
    BY <2>3, <2>7, <2>8
  <2> HIDE DEF late, delay, first, last
  <2> QED
    BY <2>9, <2>10
<1> QED
  BY <1>1

\* What is left to the await in progress, and to the attempt after a delay, is
\* counted in; nothing but a retry adds to it.
Timed ==
  /\ retries <= MaxRetries /\ allowance <= Deadline
  /\ elapsed <= LateBy(retries) + overrun
  /\ pc \in {"await_model", "await_tool"} => elapsed + timer <= LateBy(retries) + overrun
  /\ pc = "backoff" => elapsed + timer + allowance <= LateBy(retries) + overrun

LEMMA TimedStep ==
  ASSUME TypeOK, Timed, [Next]_vars
  PROVE  Timed'
<1> USE MoveGoal DEF runVars, counters, clock
<1>a. /\ retries \in 0..MaxRetries /\ elapsed \in Nat /\ overrun \in Nat /\ timer \in Nat /\ allowance \in Nat
      /\ Deadline \in Nat /\ MaxRetries \in Nat
  BY LimitTypes DEF TypeOK, Timed
<1>b. LateBy(0) = Deadline /\ LateBy(retries) \in Int /\ Deadline <= LateBy(retries)
  BY <1>a, LateStarts, LateGrows, LateOrdered
<1>1. CASE UNCHANGED <<retries, allowance, elapsed, overrun, timer>>
           /\ (pc' = pc \/ pc' \notin {"await_model", "await_tool", "backoff"})
  BY <1>1 DEF Timed
<1>2. CASE StartRun \/ ContinueRun
  <2>1. /\ retries' = 0 /\ elapsed' = 0 /\ overrun' = 0 /\ allowance' <= Deadline
        /\ pc' = "top"
    BY <1>2, <1>a DEF StartRun, ContinueRun, NewRun, Timed
  <2> QED
    BY <1>a, <1>b, <2>1 DEF Timed
<1>3. CASE RequestModel
  <2>1. /\ elapsed < Deadline /\ retries' = 0 /\ elapsed' = elapsed /\ overrun' = overrun
        /\ allowance' = Deadline - elapsed /\ timer' = Deadline - elapsed
        /\ pc' = "await_model" \/ pc' = "raised"
    BY <1>3 DEF RequestModel, MayBeginTurn
  <2> QED
    BY <1>a, <1>b, <2>1 DEF Timed
<1>4. CASE ModelRetry
  <2> DEFINE delay == Backoff * 2 ^ retries
             late == LateBy(retries)
             later == LateBy(retries + 1)
  <2>1. /\ pc = "await_model" /\ retries < MaxRetries /\ retries' = retries + 1
        /\ allowance' = allowance /\ elapsed' = elapsed /\ overrun' = overrun
        /\ \/ delay > 0 /\ pc' = "backoff" /\ timer' = delay
           \/ ~(delay > 0) /\ pc' = "await_model" /\ timer' = allowance
    BY <1>4 DEF ModelRetry, RetryAfter
  <2>2. later = late + Deadline + delay /\ delay \in Nat /\ late \in Int
    BY <1>a, LateGrows
  <2>3. elapsed + timer <= late + overrun /\ allowance <= Deadline
    BY <2>1 DEF Timed
  <2>4. retries' <= MaxRetries /\ allowance' <= Deadline /\ LateBy(retries') = later
    BY <1>a, <2>1, <2>3
  <2> HIDE DEF delay, late, later
  <2>5. elapsed' <= later + overrun' /\ elapsed' + timer' <= later + overrun'
        /\ (pc' = "backoff" => elapsed' + timer' + allowance' <= later + overrun')
    BY <1>a, <2>1, <2>2, <2>3
  <2> QED
    BY <2>1, <2>4, <2>5 DEF Timed
<1>5. CASE BackoffOver
  BY <1>5, <1>a, <1>b DEF BackoffOver, Timed
<1>6. CASE StartTool
  <2>1. /\ UNCHANGED <<retries, allowance, elapsed, overrun>>
        /\ pc' = "await_tool" \/ pc' = "raised"
        /\ timer' = IF elapsed < Deadline THEN Deadline - elapsed ELSE 0
    BY <1>6 DEF StartTool, HandOver
  <2> QED
    BY <1>a, <1>b, <2>1 DEF Timed
<1>7. CASE Tick
  BY <1>7, <1>a, <1>b DEF Tick, Passes, Awaiting, Timed
<1>15. CASE ToolOverruns
  <2>1. /\ pc = "await_tool" /\ UNCHANGED <<pc, retries, allowance, timer>>
        /\ timer = 0 /\ elapsed' = elapsed + 1 /\ overrun' = overrun + 1
    BY <1>15 DEF ToolOverruns, Passes
  <2> QED
    BY <1>a, <1>b, <2>1 DEF Timed
<1>8. CASE TopAbort \/ TopDeadline \/ TopMaxTurns \/ ContextOverflow
  <2>1. UNCHANGED <<retries, allowance, elapsed, overrun, timer>> /\ pc' \in {"done", "raised"}
    BY <1>8 DEF TopAbort, TopDeadline, TopMaxTurns, AbortRun, FinishBudget, ContextOverflow
  <2> QED
    BY <1>1, <2>1
<1>9. CASE ModelTimeout \/ ModelCancelled \/ ModelFails
  <2>1. UNCHANGED <<retries, allowance, elapsed, overrun, timer>> /\ pc' \in {"done", "raised"}
    BY <1>9 DEF ModelTimeout, ModelCancelled, ModelFails, AbortRun,
                FinishBudget
  <2> QED
    BY <1>1, <2>1
<1>10. CASE Response
  <2>1. /\ UNCHANGED <<retries, allowance, elapsed, overrun, timer>>
        /\ pc' \in {"done", "raised", "turn_end", "batch"}
    BY <1>10 DEF Response, ResponseError, ResponseCancelled, ResponseFinal, ResponseTools,
                 CommitAssistant, AbortRun
  <2> QED
    BY <1>1, <2>1
<1>11. CASE BatchAbort \/ BatchBudget \/ BatchOverAbort \/ BatchOverContinue
  <2>1. /\ UNCHANGED <<retries, allowance, elapsed, overrun, timer>>
        /\ pc' \in {"done", "raised", "top"}
    BY <1>11 DEF BatchAbort, BatchBudget, BatchOverAbort, BatchOverContinue, AbortRun,
                 FinishBudget
  <2> QED
    BY <1>1, <2>1
<1>12. CASE ToolReturns
  <2>1. UNCHANGED <<retries, allowance, elapsed, overrun, timer>> /\ pc' \in {"batch", "raised"}
    BY <1>12 DEF ToolReturns
  <2> QED
    BY <1>1, <2>1
<1>13. CASE TurnSteering \/ TurnFollowUp \/ TurnFinish
  <2>1. UNCHANGED <<retries, allowance, elapsed, overrun, timer>> /\ pc' \in {"done", "raised", "top"}
    BY <1>13 DEF TurnSteering, TurnFollowUp, TurnFinish
  <2> QED
    BY <1>1, <2>1
<1>14. CASE SubmitSteering \/ SubmitFollowUp \/ RequestCancel \/ UNCHANGED vars
  <2>1. UNCHANGED <<retries, allowance, elapsed, overrun, timer, pc>>
    BY <1>14 DEF SubmitSteering, SubmitFollowUp, RequestCancel, vars
  <2> QED
    BY <1>1, <2>1
<1> QED
  BY <1>2, <1>3, <1>4, <1>5, <1>6, <1>7, <1>8, <1>9, <1>10, <1>11, <1>12, <1>13, <1>14,
     <1>15
     DEF Next, LoopStep

\* However many turns, batches and retries a run has, it outlives its deadline
\* by no more than the retries of a single request and the time its tools take
\* beyond what they are given (loop.py, call_model and the wait for a tool).
THEOREM OvershootIsBounded == Spec => []OvershootBounded
<1>1. Init => TypeOK /\ Timed
  <2>1. Init => /\ retries = 0 /\ elapsed = 0 /\ overrun = 0 /\ allowance = 0 /\ pc = "idle"
                /\ Deadline \in Nat /\ MaxRetries \in Nat
    BY LimitTypes DEF Init
  <2> QED
    BY <2>1, TypeInit, LateStarts DEF Timed
<1>2. TypeOK /\ Timed /\ [Next]_vars => TypeOK' /\ Timed'
  BY TypeStep, TimedStep
<1>3. TypeOK /\ Timed => OvershootBounded
  <2> SUFFICES ASSUME TypeOK, Timed PROVE OvershootBounded
    OBVIOUS
  <2>1. retries \in 0..MaxRetries /\ MaxRetries \in 0..MaxRetries /\ elapsed \in Nat
        /\ overrun \in Nat
    BY LimitTypes DEF TypeOK, Timed
  <2>2. elapsed <= LateBy(retries) + overrun /\ LateBy(retries) <= LateBy(MaxRetries)
    BY <2>1, LateOrdered DEF Timed
  <2>3. LateBy(retries) \in Int /\ LateBy(MaxRetries) \in Int
    BY <2>1, LateGrows
  <2>4. elapsed <= LateBy(MaxRetries) + overrun
    BY <2>1, <2>2, <2>3
  <2> QED
    BY <2>4 DEF OvershootBounded, LateBy
<1> QED
  BY <1>1, <1>2, <1>3, PTL DEF Spec

-----------------------------------------------------------------------------
(* Cancellation and the end of a run.                                      *)

\* The status a transition reports, unless it is refused.
LEMMA TransitionStatus ==
  ASSUME NEW r, NEW trigger, NEW explicit, NEW call,
         Transition(r, r.seq, trigger, explicit, call).state # "REJECTED"
  PROVE  /\ explicit # NoStatus
              => Transition(r, r.seq, trigger, explicit, call).status = explicit
         /\ explicit = NoStatus /\ DefaultStatus(trigger) # NoStatus
              => Transition(r, r.seq, trigger, explicit, call).status = DefaultStatus(trigger)
  BY RejectedState DEF Transition

LEMMA FireStatus ==
  ASSUME NEW r, NEW trigger, Fire(r, trigger).state # "REJECTED",
         DefaultStatus(trigger) # NoStatus
  PROVE  Fire(r, trigger).status = DefaultStatus(trigger)
  BY RejectedState DEF Fire, Transition

LEMMA AbortStatus ==
  ASSUME AbortRun, pc' = "done"
  PROVE  rs'.status = "ABORTED"
<1> DEFINE r == Fire(RequestAbort(rs), "CLEANUP_DONE")
<1>1. r.state # "REJECTED" /\ rs' = r
  BY DEF AbortRun, Move
<1>2. DefaultStatus("CLEANUP_DONE") = "ABORTED"
  BY DEF DefaultStatus
<1>3. r.status = "ABORTED"
  BY <1>1, <1>2, FireStatus DEF NoStatus
<1> QED
  BY <1>1, <1>3

LEMMA BudgetStatus ==
  ASSUME NEW r, pc' = "done",
         Move(Transition(r, r.seq, "FINISH", "BUDGET_EXHAUSTED", NoCall), "done")
  PROVE  rs'.status = "BUDGET_EXHAUSTED"
<1> DEFINE over == Transition(r, r.seq, "FINISH", "BUDGET_EXHAUSTED", NoCall)
<1>1. over.state # "REJECTED" /\ rs' = over
  BY DEF Move
<1>2. over.status = "BUDGET_EXHAUSTED"
  BY <1>1, TransitionStatus DEF NoStatus
<1> QED
  BY <1>1, <1>2

LEMMA FailureStatus ==
  ASSUME Move(Fire(rs, "FAIL"), "done"), pc' = "done"
  PROVE  rs'.status = "ERROR"
<1> DEFINE r == Fire(rs, "FAIL")
<1>1. r.state # "REJECTED" /\ rs' = r
  BY DEF Move
<1>2. DefaultStatus("FAIL") = "ERROR"
  BY DEF DefaultStatus
<1>3. r.status = "ERROR"
  BY <1>1, <1>2, FireStatus DEF NoStatus
<1> QED
  BY <1>1, <1>3

LEMMA FinishStatus ==
  ASSUME NEW r, Move(Fire(r, "FINISH"), "done"), pc' = "done"
  PROVE  rs'.status = "FINISHED"
<1> DEFINE over == Fire(r, "FINISH")
<1>1. over.state # "REJECTED" /\ rs' = over
  BY DEF Move
<1>2. DefaultStatus("FINISH") = "FINISHED"
  BY DEF DefaultStatus
<1>3. over.status = "FINISHED"
  BY <1>1, <1>2, FireStatus DEF NoStatus
<1> QED
  BY <1>1, <1>3

\* While a run goes on no limit was met: with StateAtPlace, no move that sets
\* no limit is refused.
LimitOpen == ~RunOver => limitHit = "none"

LEMMA LimitStep ==
  ASSUME LimitOpen, [Next]_vars
  PROVE  LimitOpen'
<1> USE MoveGoal DEF runVars, counters, clock, LimitOpen, RunOver
<1>1. CASE UNCHANGED vars
  BY <1>1 DEF vars
<1>2. CASE StartRun \/ ContinueRun
  BY <1>2 DEF StartRun, ContinueRun, NewRun
<1>3. CASE TopAbort \/ TopDeadline \/ TopMaxTurns \/ ContextOverflow
  BY <1>3 DEF TopAbort, TopDeadline, TopMaxTurns, ContextOverflow, AbortRun, FinishBudget
<1>4. CASE RequestModel \/ ModelRetry \/ BackoffOver
  BY <1>4 DEF RequestModel, MayBeginTurn, ModelRetry, RetryAfter, BackoffOver
<1>5. CASE ModelTimeout \/ ModelCancelled \/ ModelFails
  BY <1>5 DEF ModelTimeout, ModelCancelled, ModelFails, AbortRun, FinishBudget
<1>6. CASE Response
  <2>1. pc = "await_model" /\ limitHit' = limitHit
    BY <1>6 DEF Response, ResponseError, ResponseCancelled, ResponseFinal, ResponseTools,
                CommitAssistant
  <2> QED
    BY <2>1
<1>7. CASE BatchAbort \/ BatchBudget \/ BatchOverAbort \/ BatchOverContinue
  BY <1>7 DEF BatchAbort, BatchBudget, BatchOverAbort, BatchOverContinue, InBatch, BatchOver,
              AbortRun, FinishBudget
<1>8. CASE StartTool
  BY <1>8 DEF StartTool, HandOver, InBatch
<1>9. CASE ToolReturns
  <2>1. pc = "await_tool" /\ limitHit' = limitHit
    BY <1>9 DEF ToolReturns
  <2> QED
    BY <2>1
<1>10. CASE TurnSteering \/ TurnFollowUp \/ TurnFinish
  BY <1>10 DEF TurnSteering, TurnFollowUp, TurnFinish
<1>11. CASE SubmitSteering \/ SubmitFollowUp \/ RequestCancel \/ Tick \/ ToolOverruns
  BY <1>11 DEF SubmitSteering, SubmitFollowUp, RequestCancel, Tick, ToolOverruns, Passes
<1> QED
  BY <1>1, <1>2, <1>3, <1>4, <1>5, <1>6, <1>7, <1>8, <1>9, <1>10, <1>11
     DEF Next, LoopStep

\* How far a cancelled run gets: from a tool through the rest of its batch, from
\* a retry delay through one refused attempt, from a request through the response
\* to the next look at the token.
AfterTool == /\ atCancel.pc = "await_tool"
             /\ turns = atCancel.turns /\ providerCalls = atCancel.attempts
             /\ pc \in {"await_tool", "batch", "done"}

AfterBackoff == /\ atCancel.pc = "backoff"
                /\ turns = atCancel.turns
                /\ \/ pc = "backoff" /\ providerCalls = atCancel.attempts
                   \/ /\ pc \in {"await_model", "done"}
                      /\ providerCalls = atCancel.attempts + 1 /\ ~sent

AfterRequest == /\ atCancel.pc = "await_model"
                /\ providerCalls = atCancel.attempts
                /\ \/ turns = atCancel.turns /\ pc \in {"await_model", "done"}
                   \/ turns = atCancel.turns + 1 /\ pc \in {"turn_end", "top", "batch", "done"}

CancelPlace ==
  cancel => /\ executed = atCancel.executed
            /\ AfterTool \/ AfterBackoff \/ AfterRequest

Cancelled == CancelPlace /\ CancelledRunsAbort

\* The actions that look at the token first.
LEMMA TokenHeeded ==
  ASSUME cancel
  PROVE  ~(\/ TopDeadline \/ TopMaxTurns \/ RequestModel \/ ContextOverflow \/ ModelRetry
           \/ ModelFails \/ BatchBudget \/ StartTool \/ BatchOverContinue)
  BY DEF TopDeadline, TopMaxTurns, RequestModel, ContextOverflow, MayBeginTurn, ModelRetry,
         ModelFails, BatchBudget, StartTool, BatchOverContinue

\* The token is set by abort() and cleared by the next run.
LEMMA TokenKept ==
  ASSUME [Next]_vars, ~StartRun, ~ContinueRun, ~RequestCancel
  PROVE  UNCHANGED <<cancel, atCancel>>
<1> USE DEF runVars, counters, clock
<1>1. CASE UNCHANGED vars
  BY <1>1 DEF vars
<1>2. CASE TopAbort \/ TopDeadline \/ TopMaxTurns \/ ContextOverflow \/ RequestModel
  BY <1>2 DEF TopAbort, TopDeadline, TopMaxTurns, ContextOverflow, RequestModel
<1>3. CASE ModelTimeout \/ ModelCancelled \/ ModelFails \/ ModelRetry \/ BackoffOver
  BY <1>3 DEF ModelTimeout, ModelCancelled, ModelFails, ModelRetry, BackoffOver
<1>4. CASE Response
  BY <1>4 DEF Response, ResponseError, ResponseCancelled, ResponseFinal, ResponseTools,
              CommitAssistant
<1>5. CASE BatchAbort \/ BatchBudget \/ BatchOverAbort \/ BatchOverContinue
  BY <1>5 DEF BatchAbort, BatchBudget, BatchOverAbort, BatchOverContinue
<1>6. CASE StartTool \/ ToolReturns \/ TurnSteering \/ TurnFollowUp \/ TurnFinish
  BY <1>6 DEF StartTool, HandOver, ToolReturns, TurnSteering, TurnFollowUp, TurnFinish
<1>7. CASE SubmitSteering \/ SubmitFollowUp \/ Tick \/ ToolOverruns
  BY <1>7 DEF SubmitSteering, SubmitFollowUp, Tick, ToolOverruns, Passes
<1> QED
  BY <1>1, <1>2, <1>3, <1>4, <1>5, <1>6, <1>7 DEF Next, LoopStep

\* A cancelled run goes on to the next look at the token and ends there.
LEMMA CancelStep ==
  ASSUME TypeOK, StateAtPlace, StateAtPlace', LimitOpen, LimitOpen', Cancelled, [Next]_vars
  PROVE  Cancelled'
<1> USE DEF runVars, counters, clock, RunOver
<1> DEFINE Ended == /\ atCancel.pc = "await_model"
                    /\ \/ turns = atCancel.turns /\ limitHit = "deadline"
                       \/ turns = atCancel.turns + 1 /\ rs.status \in {"FINISHED", "ERROR"}
<1>a. cancel => ~(pc = "raised" \/ pc = "idle")
  BY DEF Cancelled, CancelPlace, AfterTool, AfterBackoff, AfterRequest
<1>b. limitHit = "none" /\ limitHit' = limitHit => pc' # "raised"
  BY DEF StateAtPlace, RefusedOnlyAtLimit
<1>c. turns \in Nat /\ providerCalls \in Nat
  BY DEF TypeOK
<1>1. CASE StartRun \/ ContinueRun
  <2>1. cancel' = FALSE
    BY <1>1 DEF StartRun, ContinueRun, NewRun
  <2> QED
    BY <2>1 DEF Cancelled, CancelPlace, CancelledRunsAbort
<1>2. CASE RequestCancel
  <2>1. /\ pc' = pc /\ UNCHANGED <<turns, providerCalls, executed>>
        /\ atCancel' = [pc |-> pc, turns |-> turns, attempts |-> providerCalls,
                        executed |-> executed]
        /\ pc \in {"await_model", "backoff", "await_tool"}
    BY <1>2 DEF RequestCancel, Awaiting
  <2> QED
    BY <1>c, <2>1
       DEF Cancelled, CancelPlace, CancelledRunsAbort, AfterTool, AfterBackoff, AfterRequest
<1>3. CASE ~cancel /\ ~(StartRun \/ ContinueRun \/ RequestCancel)
  <2>1. cancel' = FALSE
    BY <1>3, TokenKept DEF TypeOK
  <2> QED
    BY <2>1 DEF Cancelled, CancelPlace, CancelledRunsAbort
<1>4. CASE cancel /\ ~(StartRun \/ ContinueRun \/ RequestCancel)
  <2>a. UNCHANGED <<cancel, atCancel>>
    BY <1>4, TokenKept
  <2>b. executed = atCancel.executed /\ (AfterTool \/ AfterBackoff \/ AfterRequest)
    BY <1>4 DEF Cancelled, CancelPlace
  <2> SUFFICES /\ executed' = executed
               /\ (AfterTool \/ AfterBackoff \/ AfterRequest)'
               /\ pc' = "done" => rs'.status = "ABORTED" \/ Ended'
    BY <2>a, <2>b
       DEF Cancelled, CancelPlace, CancelledRunsAbort, AfterTool, AfterBackoff, AfterRequest
  <2> USE DEF AfterTool, AfterBackoff, AfterRequest
  <2>1. CASE UNCHANGED vars
    BY <1>4, <1>a, <2>b, <2>1 DEF vars, Cancelled, CancelledRunsAbort
  <2>2. CASE TopAbort \/ ModelCancelled \/ BatchAbort \/ BatchOverAbort
    <3>1. /\ UNCHANGED <<turns, providerCalls, sent, executed, limitHit>>
          /\ pc \in {"top", "await_model", "batch"} /\ AbortRun
      BY <2>2 DEF TopAbort, ModelCancelled, BatchAbort, BatchOverAbort, InBatch, BatchOver
    <3>2. pc' = "done"
      BY <1>b, <3>1 DEF LimitOpen, AbortRun, Move
    <3> QED
      BY <2>a, <2>b, <3>1, <3>2, AbortStatus
  <2>3. CASE ModelTimeout
    <3>1. /\ UNCHANGED <<turns, providerCalls, sent, executed>>
          /\ pc = "await_model" /\ sent /\ FinishBudget("deadline")
      BY <2>3 DEF ModelTimeout
    <3>2. pc' = "done" /\ limitHit' = "deadline"
      BY <3>1, BudgetEnds DEF StateAtPlace
    <3> QED
      BY <2>a, <2>b, <3>1, <3>2
  <2>4. CASE BackoffOver
    <3>1. /\ pc = "backoff" /\ pc' = "await_model" /\ sent' = ~cancel
          /\ providerCalls' = providerCalls + 1 /\ UNCHANGED <<turns, executed>>
      BY <2>4 DEF BackoffOver
    <3> QED
      BY <1>4, <1>c, <2>a, <2>b, <3>1
  <2>5. CASE Response
    <3>1. /\ pc = "await_model" /\ sent /\ turns' = turns + 1
          /\ UNCHANGED <<providerCalls, executed, limitHit>>
          /\ pc' \in {"done", "raised", "turn_end", "batch"}
      BY <2>5, MoveGoal
         DEF Response, ResponseError, ResponseCancelled, ResponseFinal, ResponseTools,
             CommitAssistant, AbortRun
    <3>2. pc' # "raised"
      BY <1>b, <3>1 DEF LimitOpen
    <3>3. pc' = "done" => rs'.status \in {"ERROR", "ABORTED"}
      BY <2>5, MoveGoal, FailureStatus, AbortStatus
         DEF Response, ResponseError, ResponseCancelled, ResponseFinal, ResponseTools
    <3>4. atCancel.pc = "await_model" /\ providerCalls = atCancel.attempts
          /\ turns = atCancel.turns
      BY <2>b, <3>1
    <3> QED
      BY <1>c, <2>a, <3>1, <3>2, <3>3, <3>4
  <2>6. CASE ToolReturns
    <3>1. /\ pc = "await_tool" /\ UNCHANGED <<turns, providerCalls, executed, limitHit>>
          /\ pc' \in {"batch", "raised"}
      BY <2>6, MoveGoal DEF ToolReturns
    <3>2. pc' # "raised"
      BY <1>b, <3>1 DEF LimitOpen
    <3> QED
      BY <2>a, <2>b, <3>1, <3>2
  <2>7. CASE TurnSteering \/ TurnFollowUp
    <3>1. /\ pc = "turn_end" /\ UNCHANGED <<turns, providerCalls, executed, limitHit>>
          /\ pc' \in {"top", "raised"}
      BY <2>7, MoveGoal DEF TurnSteering, TurnFollowUp
    <3>2. pc' # "raised"
      BY <1>b, <3>1 DEF LimitOpen
    <3> QED
      BY <2>a, <2>b, <3>1, <3>2
  <2>8. CASE TurnFinish
    <3>1. /\ pc = "turn_end" /\ UNCHANGED <<turns, providerCalls, executed, limitHit>>
          /\ Move(Fire(LeaveSteering(rs), "FINISH"), "done")
      BY <2>8 DEF TurnFinish
    <3>2. pc' = "done"
      BY <1>b, <3>1, MoveGoal DEF LimitOpen
    <3>3. rs'.status = "FINISHED"
      BY <3>1, <3>2, FinishStatus
    <3> QED
      BY <2>a, <2>b, <3>1, <3>2, <3>3
  <2>9. CASE SubmitSteering \/ SubmitFollowUp \/ Tick \/ ToolOverruns
    <3>1. UNCHANGED <<pc, rs, turns, providerCalls, sent, executed, limitHit>>
      BY <2>9 DEF SubmitSteering, SubmitFollowUp, Tick, ToolOverruns, Passes
    <3> QED
      BY <1>4, <2>a, <2>b, <3>1 DEF Cancelled, CancelledRunsAbort
  <2> QED
    BY <1>4, <2>1, <2>2, <2>3, <2>4, <2>5, <2>6, <2>7, <2>8, <2>9, TokenHeeded
       DEF Next, LoopStep
<1> QED
  BY <1>1, <1>2, <1>3, <1>4

LEMMA CancelInvariant == Spec => [](TypeOK /\ Cancelled)
<1>1. Init => TypeOK /\ StateAtPlace /\ LimitOpen /\ Cancelled
  <2>1. Init => ~cancel /\ limitHit = "none"
    BY DEF Init
  <2> QED
    BY <2>1, TypeInit, StateInit DEF LimitOpen, Cancelled, CancelPlace, CancelledRunsAbort
<1>2. TypeOK /\ StateAtPlace /\ LimitOpen /\ Cancelled /\ [Next]_vars
        => (TypeOK /\ StateAtPlace /\ LimitOpen /\ Cancelled)'
  BY TypeStep, StateStep, LimitStep, CancelStep
<1> QED
  BY <1>1, <1>2, PTL DEF Spec

\* Wherever an abort falls, the run hands no further call to the executor, begins
\* no attempt but the refused one a retry delay was waiting for, and commits no
\* response but that of the request under way (loop.py).
THEOREM CancellationStopsWork == Spec => []CancelStopsWork
<1>1. TypeOK /\ Cancelled => CancelStopsWork
  BY DEF Cancelled, CancelPlace, AfterTool, AfterBackoff, AfterRequest, CancelStopsWork
<1> QED
  BY <1>1, CancelInvariant, PTL

\* A cancelled run is aborted, unless the request it was cancelled over ends it
\* first; no limit and no refused transition takes the place of the abort (loop.py).
THEOREM CancellationAborts == Spec => []CancelledRunsAbort
<1>1. Cancelled => CancelledRunsAbort
  BY DEF Cancelled
<1> QED
  BY <1>1, CancelInvariant, PTL

\* Of the actions that end a run only TurnFinish reports FINISHED.
LEMMA FinishStep ==
  ASSUME [Next]_vars, pc # "done", pc' = "done", rs'.status = "FINISHED"
  PROVE  steering' = <<>> /\ followUps' = <<>>
<1>1. CASE UNCHANGED vars
  BY <1>1 DEF vars
<1>2. CASE StartRun \/ ContinueRun
  BY <1>2 DEF StartRun, ContinueRun, NewRun
<1>3. CASE \/ TopAbort \/ ModelCancelled \/ ResponseCancelled
           \/ BatchAbort \/ BatchOverAbort
  BY <1>3, AbortStatus
     DEF TopAbort, ModelCancelled, ResponseCancelled, BatchAbort,
         BatchOverAbort
<1>4. CASE \/ TopDeadline \/ TopMaxTurns \/ ModelTimeout \/ BatchBudget \/ ContextOverflow
  BY <1>4, BudgetStatus
     DEF TopDeadline, TopMaxTurns, ModelTimeout, BatchBudget, ContextOverflow, FinishBudget
<1>5. CASE ModelFails \/ ResponseError
  BY <1>5, FailureStatus DEF ModelFails, ResponseError
<1>6. CASE TurnFinish
  BY <1>6 DEF TurnFinish, queueVars
<1>7. CASE \/ RequestModel \/ StartTool \/ BatchOverContinue \/ TurnSteering \/ TurnFollowUp
           \/ ModelRetry \/ BackoffOver \/ ResponseFinal \/ ResponseTools \/ ToolReturns
  BY <1>7, MoveGoal
     DEF RequestModel, StartTool, HandOver, BatchOverContinue, TurnSteering, TurnFollowUp,
         ModelRetry, RetryAfter, BackoffOver, ResponseFinal, ResponseTools, ToolReturns
<1>8. CASE SubmitSteering \/ SubmitFollowUp \/ RequestCancel \/ Tick \/ ToolOverruns
  BY <1>8 DEF SubmitSteering, SubmitFollowUp, RequestCancel, Tick, ToolOverruns, Passes
<1> QED
  BY <1>1, <1>2, <1>3, <1>4, <1>5, <1>6, <1>7, <1>8 DEF Next, LoopStep, Response

\* A run that reports FINISHED leaves no accepted steering message and no
\* follow-up behind (loop.py, the end of a turn).
THEOREM FinishedMeansDone == Spec => FinishedLeavesNothing
<1>1. [Next]_vars => [pc # "done" /\ pc' = "done" /\ rs'.status = "FINISHED"
                        => steering' = <<>> /\ followUps' = <<>>]_vars
  BY FinishStep
<1> QED
  BY <1>1, PTL DEF Spec, FinishedLeavesNothing
=============================================================================
