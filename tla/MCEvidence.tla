----------------------------- MODULE MCEvidence -----------------------------
(* A small instance of Evidence: three uploads of the same bytes or not. *)
EXTENDS Evidence, TLC

Symmetry == Permutations(Session) \cup Permutations(Sha) \cup Permutations(Upload)
              \cup Permutations(Request)

=============================================================================
