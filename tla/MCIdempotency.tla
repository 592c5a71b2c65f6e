--------------------------- MODULE MCIdempotency ---------------------------
(* Small instances of Idempotency. *)
EXTENDS Idempotency, TLC

Symmetry == Permutations(Slot) \cup Permutations(Body)

=============================================================================
