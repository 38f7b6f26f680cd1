---------------------------- MODULE ToolPipeline ----------------------------
(***************************************************************************)
(* One invocation of ToolPipeline.invoke (tools/pipeline.py) after the     *)
(* other, with the bash tool's processes (tools/bash.py) as the execution  *)
(* that can go wrong.                                                      *)
(*                                                                         *)
(* Hooks and policies are open: they may allow, refuse or raise.  Pipeline *)
(* observers are not modelled; no program of the repository installs one.  *)
(***************************************************************************)
EXTENDS Naturals, FiniteSets

CONSTANTS
  Commands,      \* identifiers of tool calls
  RawTokens,     \* sizes of the output a tool may produce
  DisplayTokens  \* TruncationPolicy.max_chars, as tokens

VARIABLES
  stage,       \* where the invocation stands
  call,        \* the call in hand, as a set of at most one
  cleared,     \* checks that let the invocation pass
  alive,       \* kinds of processes of the command that go on
  failure,     \* why the command is being stopped
  outcome,     \* status and size of the ToolOutcome
  told,        \* outcomes the after hook has been given
  executions   \* times the tool of each call was executed, ever

invocation == <<stage, call, cleared, alive, failure, outcome, told>>
pipeline == <<invocation, executions>>

Checks == {"before", "permission", "safety"}
Executing == {"running", "reaping"}
Statuses == {"completed", "error", "denied", "timeout", "cancelled"}

\* What a command's processes are told apart by: who holds its output pipes, and
\* who is in the shell's group.  A quiet one has its output redirected, a stray
\* has left the group, a daemon has done both.
Processes == {"shell", "child", "quiet", "stray", "daemon"}
Piped == {"shell", "child", "stray"}
Grouped == {"shell", "child", "quiet"}

NoOutcome == [status |-> "none", tokens |-> 0]
Outcome(status, tokens) == [status |-> status, tokens |-> tokens]

Reach(next) == stage' = next

\* ToolOutputTruncator: what the model sees is bounded, whatever the tool said.
Truncate(tokens) == IF tokens <= DisplayTokens THEN tokens ELSE DisplayTokens

Invoke(c) ==
  /\ stage = "idle"
  /\ call' = {c} /\ Reach("resolve")
  /\ UNCHANGED <<cleared, alive, failure, outcome, told, executions>>

\* The name is in the snapshot and the arguments match the schema, or the call
\* is rejected; without an invocation no hook is called.  The message quotes the
\* arguments, and no rejection or denial is cut to what may be displayed.
Resolve ==
  /\ stage = "resolve"
  /\ \/ Reach("before") /\ UNCHANGED outcome
     \/ Reach("returned") /\ \E n \in RawTokens : outcome' = Outcome("error", n)
  /\ UNCHANGED <<call, cleared, alive, failure, told, executions>>

After(check) == CASE check = "before" -> "permission"
                  [] check = "permission" -> "safety"
                  [] check = "safety" -> "start"

\* Mutant: a policy that raises lets the call pass.
CheckFailingOpen(check) ==
  /\ stage = check
  /\ \/ /\ cleared' = cleared \cup {check}
        /\ Reach(After(check)) /\ UNCHANGED outcome
     \/ /\ \E n \in RawTokens : outcome' = Outcome("denied", n)
        /\ Reach("after") /\ UNCHANGED cleared
     \/ Reach(After(check)) /\ UNCHANGED <<cleared, outcome>>
  /\ UNCHANGED <<call, alive, failure, told, executions>>

\* _call_before, _authorize: a policy lets pass with ALLOW only, a hook unless it
\* denies; an exception of either is a denial.
Check(check) ==
  /\ stage = check
  /\ \/ /\ cleared' = cleared \cup {check}
        /\ Reach(After(check)) /\ UNCHANGED outcome
     \/ /\ \E n \in RawTokens : outcome' = Outcome("denied", n)
        /\ Reach("after") /\ UNCHANGED cleared
  /\ UNCHANGED <<call, alive, failure, told, executions>>

\* record.tool.execute: a file tool ends at once, a command is spawned unless
\* that fails or the run was cancelled before.
Execute(cancelled) ==
  /\ stage = "start"
  /\ executions' = [c \in Commands |-> executions[c] + IF c \in call THEN 1 ELSE 0]
  /\ \/ /\ \E status \in {"completed", "error"}, n \in RawTokens : outcome' = Outcome(status, n)
        /\ Reach("process") /\ UNCHANGED alive
     \/ /\ cancelled
        /\ outcome' = Outcome("cancelled", 1)
        /\ Reach("process") /\ UNCHANGED alive
     \/ /\ ~cancelled
        /\ alive' = {"shell"}
        /\ Reach("running") /\ UNCHANGED outcome
  /\ UNCHANGED <<call, cleared, failure, told>>

\* A process starts another, which has what it had of pipes and group, or less.
Spawn ==
  /\ stage \in Executing
  /\ \E q \in alive, p \in Processes \ {"shell"} :
       /\ p \in Piped => q \in Piped
       /\ p \in Grouped => q \in Grouped
       /\ alive' = alive \cup {p}
  /\ UNCHANGED <<stage, call, cleared, failure, outcome, told, executions>>

ProcessEnds(p) ==
  /\ stage \in Executing /\ p \in alive
  /\ alive' = alive \ {p}
  /\ UNCHANGED <<stage, call, cleared, failure, outcome, told, executions>>

\* communicate is done when the shell is gone and nobody holds the pipes; who
\* else goes on is not looked at.
Communicated ==
  /\ stage = "running" /\ alive \cap Piped = {}
  /\ \E status \in {"completed", "error"}, n \in RawTokens : outcome' = Outcome(status, n)
  /\ Reach("process")
  /\ UNCHANGED <<call, cleared, alive, failure, told, executions>>

\* Mutant: the shell alone is killed.
TerminateShell == alive' = alive \ {"shell"}

\* _terminate_tree: the process group is killed through its shell; without the
\* shell nothing is done.
Terminate == alive' = IF "shell" \in alive THEN alive \ Grouped ELSE alive

\* The watching loop of the tool sees the cancellation or its own deadline, or
\* it is cancelled itself: by the wait_for of the pipeline or from outside.
Stop(why) ==
  /\ stage = "running"
  /\ Terminate
  /\ failure' = why /\ Reach("reaping")
  /\ UNCHANGED <<call, cleared, outcome, told, executions>>

Failed(status) ==
  /\ \E n \in RawTokens : outcome' = Outcome(status, n)
  /\ failure' = "none" /\ Reach("process")
  /\ UNCHANGED <<call, cleared, alive, told, executions>>

\* The pipes are closed: the tool raises what it was stopped for; a cancellation
\* from outside goes through the pipeline, everything else becomes an outcome.
Reaped ==
  /\ stage = "reaping" /\ alive \cap Piped = {}
  /\ \/ failure = "cancelled" /\ Failed("cancelled")
     \/ failure \in {"timeout", "budget"} /\ Failed("timeout")
     \/ /\ failure = "outside" /\ failure' = "none"
        /\ Reach("raised")
        /\ UNCHANGED <<call, cleared, alive, outcome, told, executions>>

\* wait_for expires while the tool still waits for the pipes: it waits no longer,
\* and what holds them lives on.
BudgetEndsWait ==
  /\ stage = "reaping" /\ failure \in {"timeout", "cancelled"}
  /\ Failed("timeout")

\* So does a cancellation of the task itself, however the wait began.
OutsideEndsWait ==
  /\ stage = "reaping"
  /\ failure' = "none" /\ Reach("raised")
  /\ UNCHANGED <<call, cleared, alive, outcome, told, executions>>

\* The output is cut to what may be shown.
Process ==
  /\ stage = "process"
  /\ outcome' = [outcome EXCEPT !.tokens = Truncate(@)]
  /\ Reach("after")
  /\ UNCHANGED <<call, cleared, alive, failure, told, executions>>

\* _call_after: what the hook does or raises changes nothing.
CallAfter ==
  /\ stage = "after"
  /\ told' = told \cup {outcome}
  /\ Reach("returned")
  /\ UNCHANGED <<call, cleared, alive, failure, outcome, executions>>

\* The next invocation is a new one; what this one left alive is not
\* followed any further.
Forget ==
  /\ stage' = "idle" /\ call' = {} /\ cleared' = {} /\ alive' = {}
  /\ failure' = "none" /\ outcome' = NoOutcome /\ told' = {}

PipelineStep(cancelled) ==
  \/ Resolve \/ Execute(cancelled) \/ Spawn \/ Communicated
  \/ \E check \in Checks : Check(check)
  \/ \E p \in Processes : ProcessEnds(p)
  \/ \E why \in {"timeout", "budget", "outside"} : Stop(why)
  \/ (cancelled /\ Stop("cancelled"))
  \/ Reaped \/ BudgetEndsWait \/ OutsideEndsWait \/ Process \/ CallAfter
=============================================================================
