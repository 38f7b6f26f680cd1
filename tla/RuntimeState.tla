---------------------------- MODULE RuntimeState ----------------------------
(***************************************************************************)
(* The immutable snapshot of a run's control position (domain/state.py)    *)
(* and the only two ways to obtain the next one: transition() and          *)
(* request_abort().  Everything here is a pure operator over a snapshot; a *)
(* refused transition (StateTransitionError) is the value Rejected.        *)
(*                                                                         *)
(* Left out of the snapshot: run_id, the last stop reason and the abort    *)
(* reason, which only label a result and never steer the control flow.     *)
(***************************************************************************)
EXTENDS Naturals

ActiveStates == {"RUNNING", "WAITING_TOOL", "PROCESSING_TOOL_RESULT",
                 "STEERING", "COMPACTING", "FOLLOW_UP"}

TerminalStates == {"ABORTED", "FINISHED", "ERROR"}

AgentStates == ActiveStates \cup TerminalStates \cup {"IDLE", "ABORTING"}

RunStatuses == {"FINISHED", "ABORTED", "ERROR", "BUDGET_EXHAUSTED"}

NoStatus == "none"

CancellationStates == {"NONE", "REQUESTED", "COMPLETED"}

\* Tool calls are named <<position of the assistant message, ordinal>>.
NoCall == <<0, 0>>

CallIds == (Nat \X Nat)

Snapshots == [state : AgentStates, seq : Nat, turn : Nat, call : CallIds,
              status : RunStatuses \cup {NoStatus},
              cancellation : CancellationStates]

IdleSnapshot == [state |-> "IDLE", seq |-> 0, turn |-> 0, call |-> NoCall,
                 status |-> NoStatus, cancellation |-> "NONE"]

\* What a refused transition yields: the exception, as a value.
Rejected == [IdleSnapshot EXCEPT !.state = "REJECTED"]

\* The transition table; "REJECTED" where it has no row.
Target(s, trigger) ==
  CASE trigger = "START" /\ s = "IDLE" -> "RUNNING"
    [] trigger = "TOOL_CALL_COMPLETE" /\ s = "RUNNING" -> "WAITING_TOOL"
    [] trigger = "COMPACTION_REQUIRED" /\ s = "RUNNING" -> "COMPACTING"
    [] trigger = "FOLLOW_UP_READY" /\ s = "RUNNING" -> "FOLLOW_UP"
    [] trigger = "FINISH" /\ s = "RUNNING" -> "FINISHED"
    [] trigger = "FAIL" /\ s = "RUNNING" -> "ERROR"
    [] trigger = "TOOL_RESULT_RESOLVED" /\ s = "WAITING_TOOL" -> "PROCESSING_TOOL_RESULT"
    [] trigger = "STEERING_ARRIVED" /\ s = "PROCESSING_TOOL_RESULT" -> "STEERING"
    [] trigger = "CONTINUE" /\ s = "PROCESSING_TOOL_RESULT" -> "RUNNING"
    [] trigger = "STEERING_INJECTED" /\ s = "STEERING" -> "RUNNING"
    [] trigger = "COMPACTION_SUCCEEDED" /\ s = "COMPACTING" -> "RUNNING"
    [] trigger = "COMPACTION_FAILED" /\ s = "COMPACTING" -> "ERROR"
    [] trigger = "TURN_START" /\ s = "FOLLOW_UP" -> "RUNNING"
    [] trigger = "ABORT_REQUESTED" /\ s \in ActiveStates -> "ABORTING"
    [] trigger = "CLEANUP_DONE" /\ s = "ABORTING" -> "ABORTED"
    [] OTHER -> "REJECTED"

DefaultStatus(trigger) ==
  CASE trigger = "FINISH" -> "FINISHED"
    [] trigger \in {"FAIL", "COMPACTION_FAILED"} -> "ERROR"
    [] trigger = "CLEANUP_DONE" -> "ABORTED"
    [] OTHER -> NoStatus

\* RuntimeState.transition(expected, trigger, status=explicit, tool_call_id=call).
\* NoStatus and NoCall stand for the arguments left at None.
Transition(r, expected, trigger, explicit, call) ==
  IF expected # r.seq \/ Target(r.state, trigger) = "REJECTED"
  THEN Rejected
  ELSE [state  |-> Target(r.state, trigger),
        seq    |-> r.seq + 1,
        turn   |-> CASE trigger = "START" -> 1
                     [] trigger = "TURN_START" -> r.turn + 1
                     [] OTHER -> r.turn,
        call   |-> CASE trigger = "TOOL_CALL_COMPLETE" -> call
                     [] trigger = "TOOL_RESULT_RESOLVED" -> r.call
                     [] OTHER -> NoCall,
        status |-> IF explicit # NoStatus THEN explicit
                   ELSE IF DefaultStatus(trigger) # NoStatus THEN DefaultStatus(trigger)
                   ELSE r.status,
        cancellation |-> CASE trigger = "ABORT_REQUESTED" -> "REQUESTED"
                           [] trigger = "CLEANUP_DONE" -> "COMPLETED"
                           [] OTHER -> r.cancellation]

\* The call sites all pass the snapshot's own sequence number.
Fire(r, trigger) == Transition(r, r.seq, trigger, NoStatus, NoCall)

\* RuntimeState.request_abort: a no-op before the start, while aborting and
\* after the end.
RequestAbort(r) ==
  IF r.state \in {"IDLE", "ABORTING"} \cup TerminalStates
  THEN r
  ELSE Fire(r, "ABORT_REQUESTED")
=============================================================================
