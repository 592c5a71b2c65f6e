--------------------------- MODULE MCAllocatorTx ---------------------------
(* One organisation with a cap of one: its two sessions meet at the cap, and *)
(* two ticks of the reaper at its queue.                                      *)
EXTENDS AllocatorTx, TLC

CONSTANTS o1

MCOrgOf == [s \in Session |-> o1]
MCCap1 == [o \in Org |-> 1]
Symmetry == Permutations(Session) \cup Permutations(Device) \cup Permutations(Tick)

=============================================================================
