--------------------------- MODULE StreamAssembly ---------------------------
(***************************************************************************)
(* One streamed request: what the provider sends, attempt after attempt,   *)
(* and what the aggregator (observability/stream.py) makes of it.          *)
(*                                                                         *)
(* A tool call is sent as one complete object or as LastFragment pieces of *)
(* its JSON arguments, the first with the name of the tool.  The pieces of *)
(* a response arrive in any order, may be repeated and may be lost.  Text  *)
(* and usage change nothing here.                                          *)
(***************************************************************************)
EXTENDS Naturals, Sequences, FiniteSets

CONSTANTS
  CallIds,       \* identifiers providers give to tool calls
  MaxCalls,      \* bound: calls of one response
  LastFragment,  \* fragments of one call
  MaxDeltas,     \* bound: pieces of one response that arrive
  MaxAttempts    \* 1 + RunLimits.max_provider_retries

VARIABLES
  sent,     \* calls the provider is sending in this attempt
  order,    \* ToolCallAccumulator._order
  pieces,   \* _FragmentBuffer: the fragments of each call, 0 the complete object
  attempt   \* requests made for this turn, 0 between requests

stream == <<sent, order, pieces, attempt>>

ASSUME StreamAssumption ==
  /\ {MaxCalls, MaxAttempts} \subseteq Nat \ {0}
  /\ LastFragment \in Nat \ {0} /\ MaxDeltas \in Nat

Pieces == 0..LastFragment
Proposals == {S \in SUBSET CallIds : Cardinality(S) <= MaxCalls}

Registered == {order[i] : i \in 1..Len(order)}
Arrived == {p \in Registered \X Pieces : p[2] \in pieces[p[1]]}

NoStream ==
  /\ order' = <<>>
  /\ pieces' = [c \in CallIds |-> {}]

\* Mutant: one aggregator for all attempts of a turn.
BeginAttemptOnOldBuffers ==
  /\ attempt < MaxAttempts
  /\ attempt' = attempt + 1
  /\ sent' \in Proposals
  /\ IF attempt = 0 THEN NoStream ELSE UNCHANGED <<order, pieces>>

\* call_model: every attempt has an aggregator of its own.
BeginAttempt ==
  /\ attempt < MaxAttempts
  /\ attempt' = attempt + 1
  /\ sent' \in Proposals
  /\ NoStream

\* add_fragment, add_complete: a call is registered when its first piece
\* arrives; once it is complete, fragments are ignored; repeats change nothing.
Deliver(c, k) ==
  /\ c \in sent
  /\ <<c, k>> \in Arrived \/ Cardinality(Arrived) < MaxDeltas
  /\ order' = IF c \in Registered THEN order ELSE Append(order, c)
  /\ pieces' = [pieces EXCEPT ![c] = IF 0 \in @ THEN @ ELSE @ \cup {k}]
  /\ UNCHANGED <<sent, attempt>>

\* ToolCallAccumulator.finalize: a complete object; or a name and arguments that
\* parse, which a missing fragment in the middle does not prevent.
Assembled(c) == 0 \in pieces[c] \/ {1, LastFragment} \subseteq pieces[c]

\* finalize_response and validate_model_response, for a stream that named this
\* reason to stop, wherever it stood between the pieces: every registered call is
\* assembled, and calls come with TOOL_CALLS only.
Whole(reason) ==
  /\ \A c \in Registered : Assembled(c)
  /\ reason = "tool_calls" <=> order # <<>>

\* Mutant: the retries of a turn count for the next one.
EndRequestCounting ==
  /\ sent' = {} /\ attempt' = attempt
  /\ NoStream

EndRequest ==
  /\ sent' = {} /\ attempt' = 0
  /\ NoStream
=============================================================================
