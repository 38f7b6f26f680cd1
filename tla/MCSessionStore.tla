--------------------------- MODULE MCSessionStore ---------------------------
(***************************************************************************)
(* SessionStore for model checking: processes and workspaces are           *)
(* interchangeable, and only safety is checked.                            *)
(***************************************************************************)
EXTENDS SessionStore, TLC

Interchangeable == Permutations(Runtimes) \cup Permutations(Workspaces)
=============================================================================
