----------------------------- MODULE Compaction -----------------------------
(***************************************************************************)
(* What a request to the model holds of the history: the budget's verdict  *)
(* (context/budget.py), the groups that may not be taken apart, the cut    *)
(* and the summary (context/compaction.py).  Operators only.               *)
(*                                                                         *)
(* A log is a sequence of messages and a message is named by its position: *)
(* logs only grow, so positions and message ids determine each other.  The *)
(* text of a message is its number of tokens.                              *)
(***************************************************************************)
EXTENDS Naturals, Sequences, FiniteSets, Folds

CONSTANTS
  ContextLimit,    \* TokenBudget.context_limit
  OutputReserve,   \* TokenBudget.output_reserve_ratio, in percent
  SafetyMargin,    \* TokenBudget.safety_margin_ratio, in percent
  ThresholdRatio,  \* TokenBudget.compaction_threshold_ratio, in percent
  FixedTokens,     \* the system prompt, the skills and the tool declarations
  IdTokens,        \* one source id in a rendered summary
  PreserveRecent   \* Compactor(preserve_recent = ...)

ASSUME BudgetAssumption ==
  /\ {ContextLimit, PreserveRecent} \subseteq Nat \ {0}
  /\ {OutputReserve, SafetyMargin, ThresholdRatio} \subseteq 0..99
  /\ {FixedTokens, IdTokens} \subseteq Nat

-----------------------------------------------------------------------------
(* Messages.                                                               *)

UserMessage(tokens) == [kind |-> "user", calls |-> {}, call |-> {}, tokens |-> tokens]

AssistantMessage(calls, tokens) ==
  [kind |-> "assistant", calls |-> calls, call |-> {}, tokens |-> tokens]

ToolResult(c, tokens) == [kind |-> "result", calls |-> {}, call |-> {c}, tokens |-> tokens]

Positions(log) == 1..Len(log)

OpenCalls(log) ==
  (UNION {log[i].calls : i \in Positions(log)}) \ (UNION {log[i].call : i \in Positions(log)})

\* ContextManager._validate_history.
Answerable(log) ==
  log # <<>> /\ log[Len(log)].kind # "assistant" /\ OpenCalls(log) = {}

-----------------------------------------------------------------------------
(* Groups and the cut.                                                     *)

\* The run of results right behind the assistant message at a, as far as i,
\* answers calls of that message.
Gathers(log, a, i) ==
  /\ log[a].kind = "assistant"
  /\ \A j \in (a + 1)..i : log[j].kind = "result" /\ log[j].call \subseteq log[a].calls

\* A message that no assistant message before it gathers opens a group.
GroupStarts(log) == {i \in Positions(log) : ~\E a \in 1..(i - 1) : Gathers(log, a, i)}

GroupEnd(log, s) ==
  CHOOSE e \in s..Len(log) :
    /\ e = s \/ Gathers(log, s, e)
    /\ e = Len(log) \/ ~Gathers(log, s, e + 1)

Incomplete(log, s) == GroupEnd(log, s) - s < Cardinality(log[s].calls)

\* Mutant: an incomplete group does not stop the cut.
CoverablePastIncomplete(log) ==
  {s \in GroupStarts(log) : Cardinality({k \in GroupStarts(log) : k > s}) >= PreserveRecent}

\* The groups before the first incomplete one, the most recent ones kept.
Coverable(log) ==
  {s \in GroupStarts(log) :
     /\ \A b \in GroupStarts(log) : b <= s => ~Incomplete(log, b)
     /\ Cardinality({k \in GroupStarts(log) : k > s}) >= PreserveRecent}

\* find_cut: the position of the last message a summary may cover, 0 for none.
FindCut(log) ==
  LET coverable == Coverable(log)
  IN  IF coverable = {} THEN 0
      ELSE GroupEnd(log, CHOOSE s \in coverable : \A t \in coverable : t <= s)

-----------------------------------------------------------------------------
(* The budget.                                                             *)

UsableTokens == (ContextLimit * (100 - OutputReserve) * (100 - SafetyMargin)) \div 10000

ThresholdTokens == (UsableTokens * ThresholdRatio) \div 100

\* TokenManager.decide_total.
Decide(tokens) ==
  IF tokens <= ThresholdTokens THEN "fit"
  ELSE IF tokens <= UsableTokens THEN "compact"
  ELSE "reject"

\* render_summary names every message it covers; the rest of it is part of the
\* fixed cost.
SummaryTokens(through) == through * IdTokens

\* TokenManager.estimate of a request that sends the log from a position on.
Estimate(log, first) ==
  FixedTokens + SummaryTokens(first - 1)
  + MapThenFoldSet(+, 0, LAMBDA i : log[i].tokens, LAMBDA S : CHOOSE i \in S : TRUE,
                   first..Len(log))
=============================================================================
