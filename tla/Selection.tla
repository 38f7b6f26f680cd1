------------------------------ MODULE Selection ------------------------------
(***************************************************************************)
(* The elements of a sequence that stand at some of its places, and the    *)
(* place a rank belongs to.  The code does this with a filter (a list      *)
(* comprehension, a loop with `continue`); counting says the same without  *)
(* recursion over the sequence.                                            *)
(***************************************************************************)
EXTENDS Naturals, Sequences, FiniteSets

\* How many of the places come up to p.
Rank(places, p) == Cardinality({q \in places : q <= p})

\* The n-th of the places.
Place(places, n) == CHOOSE p \in places : Rank(places, p) = n

\* What seq holds at the places, in its order.
Selected(seq, places) == [n \in 1..Cardinality(places) |-> seq[Place(places, n)]]
=============================================================================
