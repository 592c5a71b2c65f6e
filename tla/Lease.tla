------------------------------- MODULE Lease -------------------------------
(***************************************************************************)
(* What the farm promises of a device, whatever routes, workers, operators *)
(* and sweeps do to the rows behind it: one tenant at a time, each at a    *)
(* fence of its own, and a reset or a recovery between two of them.        *)
(*                                                                         *)
(* A device is free, leased to one holder, dirty (a reset is due),         *)
(* preparing (a recovery runs), either of the two but held (its host went  *)
(* out of service before the confirmation), judged unfit, or out of the    *)
(* pool.                                                                   *)
(***************************************************************************)
EXTENDS Naturals

CONSTANTS
  Device,     \* the devices
  Holder,     \* whoever may hold one: the sessions
  Nobody,     \* the holder of a device that is not leased
  MaxFence    \* bound on the fences

ASSUME LeaseAssumption == MaxFence \in Nat /\ Nobody \notin Holder

VARIABLE lease

Owing == {"dirty", "preparing", "held dirty", "held preparing"}

State == {"free", "leased", "judged", "out"} \cup Owing

Row == [state: State, fence: 0..MaxFence, holder: Holder \cup {Nobody}]

Becomes(r, state) == [state |-> state, fence |-> r.fence, holder |-> Nobody]

(* A free device is given to a holder, at a new fence. *)
Granted(r, s) == [state |-> "leased", fence |-> r.fence + 1, holder |-> s]

(* A recovery is authorised, at a new fence: what was told to clean up after *)
(* an earlier holder can no longer answer for the device.                    *)
Authorised(r) == [state |-> "preparing", fence |-> r.fence + 1, holder |-> Nobody]

(* What a device may do in one step of the farm, by what it is doing.  A     *)
(* sweep may end a lease and collapse its host in one transaction, and a     *)
(* registration may collapse a host and withdraw a device in one: the        *)
(* composites are moves of their own.  Leased and judged devices have one    *)
(* way on: nothing gives a leased device to anyone before it was dirty, and  *)
(* nothing but an authorised recovery lifts a judgement.                     *)
Moves(r) ==
  CASE r.state = "free" ->
         {Granted(r, s) : s \in Holder}
           \cup {Becomes(r, t) : t \in {"out", "judged"}}
    [] r.state = "leased" ->
         {Becomes(r, t) : t \in {"dirty", "held dirty", "judged"}}
    [] r.state = "dirty" ->
         {Becomes(r, t) : t \in {"free", "held dirty", "judged", "out"}}
    [] r.state = "preparing" ->
         {Becomes(r, t) : t \in {"free", "held preparing", "judged", "out"}}
    [] r.state = "held dirty" ->
         {Becomes(r, t) : t \in {"dirty", "out"}} \cup {Authorised(r)}
    [] r.state = "held preparing" ->
         {Becomes(r, t) : t \in {"preparing", "out"}} \cup {Authorised(r)}
    [] r.state = "judged" -> {Authorised(r)}
    [] r.state = "out" ->
         {Becomes(r, t) : t \in {"free", "judged"}} \cup {Authorised(r)}

Init ==
  lease \in [Device -> {[state |-> t, fence |-> 0, holder |-> Nobody] :
                          t \in {"free", "out"}}]

(* One step of the farm moves each device at most once, and gives no holder  *)
(* a second device.                                                          *)
Next ==
  /\ \A d \in Device : lease'[d] = lease[d] \/ lease'[d] \in Moves(lease[d])
  /\ \A d, e \in Device :
       lease'[d].holder = lease'[e].holder => d = e \/ lease'[d].holder = Nobody

Spec == Init /\ [][Next]_lease

=============================================================================
