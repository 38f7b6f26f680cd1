----------------------------- MODULE CallLedger -----------------------------
(***************************************************************************)
(* What the agent loop promises about tool calls, without saying how: the  *)
(* model proposes calls in batches; while the session is open they are     *)
(* started one at a time, each at most once; a started call is answered    *)
(* before the next one starts and before a new batch is proposed; and the  *)
(* session closes only with every call answered, those never started       *)
(* included.                                                               *)
(***************************************************************************)
VARIABLES
  proposed,  \* calls the model has asked for
  started,   \* calls handed to the executor
  answered,  \* calls with a result in the history
  open       \* a run is going on

ledger == <<proposed, started, answered, open>>

Idle == started \subseteq answered

Init == proposed = {} /\ started = {} /\ answered = {} /\ open = FALSE

Open ==
  /\ ~open /\ open' = TRUE
  /\ UNCHANGED <<proposed, started, answered>>

Propose ==
  /\ open /\ answered = proposed
  /\ proposed \subseteq proposed' /\ proposed' # proposed
  /\ UNCHANGED <<started, answered, open>>

Start ==
  /\ open /\ Idle
  /\ \E c \in proposed \ answered : started' = started \cup {c}
  /\ UNCHANGED <<proposed, answered, open>>

Answer ==
  /\ open
  /\ \E c \in started \ answered : answered' = answered \cup {c}
  /\ UNCHANGED <<proposed, started, open>>

Close ==
  /\ open /\ Idle
  /\ open' = FALSE
  /\ answered' = proposed
  /\ UNCHANGED <<proposed, started>>

Next == Open \/ Propose \/ Start \/ Answer \/ Close

Spec == Init /\ [][Next]_ledger
=============================================================================
