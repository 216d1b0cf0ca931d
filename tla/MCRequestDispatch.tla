------------------------- MODULE MCRequestDispatch -------------------------
(* Instances of RequestDispatch for TLC. *)
EXTENDS RequestDispatch, TLC

CONSTANTS r1, r2, f1, f2, w1, w2, a1, i1

OneAuthor == [r \in Request |-> a1]
OneInstance == [r \in Request |-> i1]
Symmetry == Permutations(Worker) \union Permutations(Format) \union Permutations(Request)
=============================================================================
