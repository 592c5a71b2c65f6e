------------------------------- MODULE MCHub -------------------------------
(* The hub with two creations and two quits on one session. *)
EXTENDS Hub, TLC

Symmetry == Permutations(Request) \cup Permutations(Quit)
=============================================================================
