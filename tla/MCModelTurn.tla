----------------------------- MODULE MCModelTurn -----------------------------
(* A small instance of ModelTurn for TLC.                                   *)
EXTENDS ModelTurn

CONSTANTS c1, c2

BothCalls == {c1, c2}

\* A short output, and one longer than may be displayed.
Sizes == {1, 9}
=============================================================================
