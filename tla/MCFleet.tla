------------------------------ MODULE MCFleet ------------------------------
(* Small instances of Fleet: every device on the first host, every request  *)
(* fits every device, every session but the last of the first org.          *)
EXTENDS Fleet, TLC

CONSTANTS h1, o1, o2, last

MCHostOf == [d \in Device |-> h1]
MCOrgOf == [s \in Session |-> IF s = last THEN o2 ELSE o1]
MCFits == [s \in Session |-> Device]
MCCap1 == [o \in Org |-> 1]
MCCap2 == [o \in Org |-> 2]
Symmetry == Permutations(Session \ {last}) \cup Permutations(Device)
MCLeases == {"recover"}
MCLive == {"recover", "away", "forget", "renew"}
MCOutage == {"stop", "retire", "away", "drop", "unfit", "recover"}

=============================================================================
