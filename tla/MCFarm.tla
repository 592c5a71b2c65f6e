------------------------------- MODULE MCFarm -------------------------------
(* Small instances of Farm. *)
EXTENDS Farm, TLC

Symmetry == Permutations(Loop) \cup Permutations(Device) \cup Permutations(Holder)

=============================================================================
