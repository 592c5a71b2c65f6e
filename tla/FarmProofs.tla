----------------------------- MODULE FarmProofs -----------------------------
(* Theorems about Farm, for any number of devices, tenants and reset loops. *)
EXTENDS Farm, FiniteSetTheorems, TLAPS

(* The fence of a lease of d that is over. *)
Over(d, f) == f <= lease[d].fence /\ (lease[d].state = "leased" => f < lease[d].fence)

(* What a tenant has on a device, or may have at any time. *)
Traces(d) == taint[d] \cup under[d]

(* How far the marks of a device go: the agent's high water is at most one    *)
(* above the fence, and not above it under a holder; grants that are late,    *)
(* clients and their traces have fences that were given.                      *)
Fenced(d) ==
  /\ lease[d].state \in Owing \cup {"leased"} => lease[d].fence >= 1
  /\ high[d] <= lease[d].fence + 1
  /\ lease[d].state = "leased" => high[d] <= lease[d].fence
  /\ \A f \in late[d] : Over(d, f)
  /\ \A f \in conns[d] \cup Traces(d) : f <= lease[d].fence

(* What the agent was offered and what it reports is about leases that are    *)
(* over.                                                                      *)
Offers(l) == \A i \in 1..Len(loops[l].todo) :
               Over(loops[l].todo[i].device, loops[l].todo[i].fence)

Offered == \A l \in Loop : Offers(l)

Reported == \A r \in pending \cup net : Over(r.device, r.fence)

(* No late grant is good for d any more, and nobody is attached but the       *)
(* holder; save for the fences that nothing cuts off.                         *)
Sealed(d) ==
  /\ \A f \in late[d] : f \in uncut[d] \/ f < high[d]
  /\ \A f \in conns[d] : f \in uncut[d] \/ (lease[d].state = "leased" /\ f = lease[d].fence)

Emptied(d) == taint[d] \subseteq uncut[d] \cup under[d]

(* A device is sealed in the pool, under its holder and outside; and from the *)
(* moment a loop takes its reset up, to the end of that lease's fence.        *)
InPool(d) ==
  /\ lease[d].state \in {"free", "leased", "out"} => Sealed(d)
  /\ lease[d].state \in {"free", "out"} => Emptied(d)

TakenUp(l) ==
  loops[l].at # "next" =>
    LET o == Head(loops[l].todo) IN o.fence = lease[o.device].fence => Sealed(o.device)

Answered(r) ==
  r.fence = lease[r.device].fence =>
    Sealed(r.device) /\ (r.kind # "failed" => Emptied(r.device))

Inv ==
  /\ TypeOK
  /\ \A d \in Device : Fenced(d) /\ InPool(d)
  /\ Offered /\ Reported
  /\ \A l \in Loop : TakenUp(l)
  /\ \A r \in pending \cup net : Answered(r)

-----------------------------------------------------------------------------
(* The moves of a lease, and the offers of a beat. *)

(* What a move makes of a row: a fence is given with a lease or a recovery    *)
(* and with nothing else, a lease comes out of the pool, and ends before      *)
(* anything else happens.                                                     *)
LEMMA MoveShape ==
  ASSUME NEW r \in Row, NEW q \in Moves(r)
  PROVE  /\ q.state \in State /\ q.holder \in Holder \cup {Nobody}
         /\ q = [state |-> q.state, fence |-> q.fence, holder |-> q.holder]
         /\ \/ q.fence = r.fence /\ q.state # "leased"
            \/ q.fence = r.fence + 1 /\ q.state = "leased" /\ r.state = "free"
            \/ q.fence = r.fence + 1 /\ q.state = "preparing" /\ r.state # "leased"
         /\ q.state \in Owing /\ q.fence = r.fence => r.state \in Owing \cup {"leased"}
         /\ q.state = "free" => r.state \in {"dirty", "preparing", "out"}
         /\ q.state = "out" => r.state \in Owing \cup {"free"}
<1>1. /\ r.state \in State /\ r.fence \in Nat /\ r.holder \in Holder \cup {Nobody}
      /\ r = [state |-> r.state, fence |-> r.fence, holder |-> r.holder]
  BY LeaseAssumption DEF Row
<1>2. ASSUME NEW t \in State \ {"leased"}, q = Becomes(r, t)
      PROVE  /\ q.state = t /\ q.fence = r.fence /\ q.holder = Nobody
             /\ q = [state |-> q.state, fence |-> q.fence, holder |-> q.holder]
  BY <1>1, <1>2 DEF Becomes
<1>3. ASSUME q = Authorised(r)
      PROVE  /\ q.state = "preparing" /\ q.fence = r.fence + 1 /\ q.fence # r.fence
             /\ q.holder = Nobody
             /\ q = [state |-> q.state, fence |-> q.fence, holder |-> q.holder]
  <2>1. q = [state |-> "preparing", fence |-> r.fence + 1, holder |-> Nobody]
    BY <1>1, <1>3 DEF Authorised, Becomes
  <2>2. r.fence + 1 # r.fence
    BY <1>1
  <2> QED
    BY <2>1, <2>2
<1>4. CASE r.state = "free"
  <2>1. \/ \E s \in Holder : q = Granted(r, s)
        \/ \E t \in {"out", "judged"} : q = Becomes(r, t)
    BY <1>4 DEF Moves
  <2>2. ASSUME NEW s \in Holder, q = Granted(r, s)
        PROVE  /\ q.state = "leased" /\ q.fence = r.fence + 1 /\ q.holder = s
               /\ q = [state |-> q.state, fence |-> q.fence, holder |-> q.holder]
    BY <2>2 DEF Granted
  <2> QED
    BY <1>1, <1>2, <1>4, <2>1, <2>2 DEF State, Owing
<1>5. CASE r.state = "leased"
  <2>1. \E t \in {"dirty", "held dirty", "judged"} : q = Becomes(r, t)
    BY <1>5 DEF Moves
  <2> QED
    BY <1>1, <1>2, <1>5, <2>1 DEF State, Owing
<1>6. CASE r.state = "dirty"
  <2>1. \E t \in {"free", "held dirty", "judged", "out"} : q = Becomes(r, t)
    BY <1>6 DEF Moves
  <2> QED
    BY <1>1, <1>2, <1>6, <2>1 DEF State, Owing
<1>7. CASE r.state = "preparing"
  <2>1. \E t \in {"free", "held preparing", "judged", "out"} : q = Becomes(r, t)
    BY <1>7 DEF Moves
  <2> QED
    BY <1>1, <1>2, <1>7, <2>1 DEF State, Owing
<1>8. CASE r.state \in {"held dirty", "held preparing"}
  <2>1. q = Authorised(r) \/ \E t \in {"dirty", "preparing", "out"} : q = Becomes(r, t)
    BY <1>8 DEF Moves
  <2> QED
    BY <1>1, <1>2, <1>3, <1>8, <2>1 DEF State, Owing
<1>9. CASE r.state = "judged"
  <2>1. q = Authorised(r)
    BY <1>9 DEF Moves
  <2> QED
    BY <1>1, <1>3, <1>9, <2>1 DEF State, Owing
<1>10. CASE r.state = "out"
  <2>1. q = Authorised(r) \/ \E t \in {"free", "judged"} : q = Becomes(r, t)
    BY <1>10 DEF Moves
  <2> QED
    BY <1>1, <1>2, <1>3, <1>10, <2>1 DEF State, Owing
<1> QED
  BY <1>1, <1>4, <1>5, <1>6, <1>7, <1>8, <1>9, <1>10 DEF State, Owing

(* The answer of a beat offers what is due, each device at its fence. *)
LEMMA OrderOfDue ==
  ASSUME NEW S \in SUBSET Device, NEW order \in SetToSeqs(S)
  PROVE  order \in Seq(S)
<1>1. Cardinality(S) \in Nat
  BY FarmAssumption, FS_Subset, FS_CardinalityType
<1>2. order \in [1..Cardinality(S) -> S]
  BY DEF SetToSeqs
<1> QED
  BY <1>1, <1>2


(* Arithmetic on the fences a row may have. *)
LEMMA RowFence ==
  ASSUME TypeOK, NEW d \in Device
  PROVE  /\ lease[d] \in Row /\ lease[d].fence \in Nat /\ lease[d].fence <= MaxFence
         /\ high[d] \in Nat /\ MaxFence \in Nat
         /\ lease[d].state \in State
BY LeaseAssumption DEF TypeOK, Row

-----------------------------------------------------------------------------
(* Types. *)

LEMMA ControlPlaneTypes ==
  ASSUME TypeOK, NEW d \in Device, Fenced(d), ControlPlane(d)
  PROVE  TypeOK'
<1>1. PICK q \in Unaided(lease[d]) :
        /\ lease' = [lease EXCEPT ![d] = q]
        /\ late' = IF lease[d].state = "leased"
                   THEN [late EXCEPT ![d] = @ \cup {lease[d].fence}] ELSE late
        /\ uncut' = IF q.state = "out" /\ lease[d].state \in Owing
                    THEN [uncut EXCEPT ![d] = @ \cup 1..lease[d].fence] ELSE uncut
        /\ escalated' \subseteq escalated
        /\ UNCHANGED <<agent, net, phone>>
  BY DEF ControlPlane
<1>2. lease[d] \in Row /\ lease[d].fence \in Nat /\ lease[d].fence <= MaxFence /\ MaxFence \in Nat
  BY RowFence
<1>3. q \in Moves(lease[d]) /\ q.fence <= MaxFence
  BY DEF Unaided
<1>4. q.fence \in Nat
  BY <1>2, <1>3, MoveShape
<1>5. q \in Row
  BY <1>2, <1>3, <1>4, MoveShape DEF Row
<1>6. late' \in [Device -> SUBSET Fence]
  <2>1. lease[d].state = "leased" => lease[d].fence \in Fence
    BY <1>2 DEF Fenced, Fence
  <2> QED
    BY <1>1, <2>1 DEF TypeOK
<1>7. uncut' \in [Device -> SUBSET Fence]
  <2>1. 1..lease[d].fence \subseteq Fence
    BY <1>2 DEF Fence
  <2> QED
    BY <1>1, <2>1 DEF TypeOK
<1>8. lease' \in [Device -> Row]
  BY <1>1, <1>5 DEF TypeOK
<1> QED
  BY <1>1, <1>6, <1>7, <1>8 DEF TypeOK, agent, phone

LEMMA ClientTypes ==
  ASSUME TypeOK, NEW d \in Device, NEW f \in Fence, Client(d, f)
  PROVE  TypeOK'
<1>1. f \in 0..MaxFence + 1
  BY LeaseAssumption DEF Fence
<1>2. CASE Hello(d, f)
  BY <1>1, <1>2 DEF Hello, TypeOK, phone
<1>3. CASE Input(d, f)
  BY <1>3 DEF Input, TypeOK, agent
<1>4. CASE Command(d, f)
  BY <1>1, <1>4 DEF Command, TypeOK
<1>5. CASE GoOn(d, f)
  BY <1>5 DEF GoOn, TypeOK, agent
<1>6. CASE Leave(d, f)
  BY <1>6 DEF Leave, TypeOK, phone
<1>7. CASE Expire(d, f)
  BY <1>7 DEF Expire, TypeOK, agent, phone
<1> QED
  BY <1>2, <1>3, <1>4, <1>5, <1>6, <1>7 DEF Client

(* The first offer of a loop, and the rest of them. *)
LEMMA FirstOffer ==
  ASSUME TypeOK, NEW l \in Loop, loops[l].todo # <<>>
  PROVE  /\ Head(loops[l].todo) \in Offer
         /\ Head(loops[l].todo).device \in Device
         /\ Head(loops[l].todo).fence \in Fence
         /\ Head(loops[l].todo) = loops[l].todo[1] /\ 1 \in 1..Len(loops[l].todo)
         /\ Tail(loops[l].todo) \in Seq(Offer)
         /\ \A i \in 1..Len(Tail(loops[l].todo)) :
              i + 1 \in 1..Len(loops[l].todo) /\ Tail(loops[l].todo)[i] = loops[l].todo[i + 1]
<1>1. loops[l].todo \in Seq(Offer)
  BY DEF TypeOK
<1>2. Head(loops[l].todo) \in Offer /\ Head(loops[l].todo) = loops[l].todo[1]
      /\ Len(loops[l].todo) \in Nat /\ Len(loops[l].todo) >= 1
  BY <1>1
<1>3. Tail(loops[l].todo) \in Seq(Offer) /\ Len(Tail(loops[l].todo)) = Len(loops[l].todo) - 1
  BY <1>1
<1>4. \A i \in 1..Len(Tail(loops[l].todo)) :
        i + 1 \in 1..Len(loops[l].todo) /\ Tail(loops[l].todo)[i] = loops[l].todo[i + 1]
  BY <1>1, <1>2, <1>3
<1> QED
  BY <1>2, <1>3, <1>4 DEF Offer

(* What a beat makes of a loop. *)
LEMMA BeatLoop ==
  ASSUME TypeOK, \A d \in Device : Fenced(d), NEW l \in Loop, Heartbeat(l)
  PROVE  /\ loops'[l].at = "next" /\ loops'[l].todo \in Seq(Offer)
         /\ \A m \in Loop : m # l => loops'[m] = loops[m]
         /\ loops' \in [Loop -> [todo: Seq(Offer), at: {"next", "wiping", "flushing"}]]
         /\ \A i \in 1..Len(loops'[l].todo) : \E d \in Due : loops'[l].todo[i] = OfferOf(d)
<1>1. PICK order \in SetToSeqs(Due) :
        loops' = [loops EXCEPT ![l].todo = [i \in DOMAIN order |-> OfferOf(order[i])]]
  BY DEF Heartbeat
<1> DEFINE todo == [i \in DOMAIN order |-> OfferOf(order[i])]
<1>2. order \in Seq(Due)
  BY OrderOfDue DEF Due
<1>3. ASSUME NEW d \in Due PROVE OfferOf(d) \in Offer
  <2>1. d \in Device /\ lease[d].fence \in Nat /\ lease[d].fence <= MaxFence /\ MaxFence \in Nat
    BY RowFence DEF Due
  <2>2. lease[d].fence >= 1
    BY <2>1 DEF Due, Fenced, Owing
  <2>3. (lease[d].state = "preparing") \in BOOLEAN
    OBVIOUS
  <2> QED
    BY <2>1, <2>2, <2>3 DEF OfferOf, Offer, Fence
<1>4. todo \in Seq(Offer) /\ \A i \in 1..Len(todo) : \E d \in Due : todo[i] = OfferOf(d)
  BY <1>2, <1>3
<1>5. loops'[l].todo = todo /\ loops'[l].at = loops[l].at
      /\ \A m \in Loop : m # l => loops'[m] = loops[m]
  BY <1>1 DEF TypeOK
<1>6. loops[l].at = "next"
  BY DEF Heartbeat, Idle
<1>7. loops' \in [Loop -> [todo: Seq(Offer), at: {"next", "wiping", "flushing"}]]
  BY <1>1, <1>4 DEF TypeOK
<1> QED
  BY <1>4, <1>5, <1>6, <1>7

(* The other steps of a loop: it goes on with its first offer, or past it. *)
LEMMA LoopStep ==
  ASSUME TypeOK, NEW l \in Loop, loops[l].todo # <<>>,
         NEW at \in {"wiping", "flushing"},
         \/ loops' = [loops EXCEPT ![l].at = at]
         \/ loops' = [loops EXCEPT ![l] = Onward(l)]
  PROVE  /\ loops' \in [Loop -> [todo: Seq(Offer), at: {"next", "wiping", "flushing"}]]
         /\ \A m \in Loop : loops'[m].at # "next" => loops'[m].todo # <<>>
         /\ \A m \in Loop : m # l => loops'[m] = loops[m]
         /\ \/ loops'[l].todo = loops[l].todo /\ loops'[l].at = at
            \/ loops'[l].todo = Tail(loops[l].todo) /\ loops'[l].at = "next"
<1>1. CASE loops' = [loops EXCEPT ![l].at = at]
  <2>1. loops'[l].todo = loops[l].todo /\ loops'[l].at = at
        /\ \A m \in Loop : m # l => loops'[m] = loops[m]
    BY <1>1 DEF TypeOK
  <2>2. loops' \in [Loop -> [todo: Seq(Offer), at: {"next", "wiping", "flushing"}]]
    BY <1>1 DEF TypeOK
  <2> QED
    BY <2>1, <2>2 DEF TypeOK
<1>2. CASE loops' = [loops EXCEPT ![l] = Onward(l)]
  <2>1. Onward(l) \in [todo: Seq(Offer), at: {"next", "wiping", "flushing"}]
        /\ Onward(l).todo = Tail(loops[l].todo) /\ Onward(l).at = "next"
    BY FirstOffer DEF Onward
  <2>2. loops'[l] = Onward(l) /\ \A m \in Loop : m # l => loops'[m] = loops[m]
    BY <1>2 DEF TypeOK
  <2>3. loops' \in [Loop -> [todo: Seq(Offer), at: {"next", "wiping", "flushing"}]]
    BY <1>2, <2>1 DEF TypeOK
  <2> QED
    BY <2>1, <2>2, <2>3 DEF TypeOK
<1> QED
  BY <1>1, <1>2

LEMMA TakeUpShape ==
  ASSUME TypeOK, NEW l \in Loop, TakeUp(l)
  PROVE  /\ loops[l].todo # <<>>
         /\ \/ loops' = [loops EXCEPT ![l].at = "wiping"]
            \/ loops' = [loops EXCEPT ![l] = Onward(l)]
<1>1. [loops EXCEPT ![l] = [@ EXCEPT !.at = "wiping"]] = [loops EXCEPT ![l].at = "wiping"]
  BY DEF TypeOK
<1> QED
  BY <1>1 DEF TakeUp

LEMMA WipeShape ==
  ASSUME TypeOK, NEW l \in Loop, Wipe(l) \/ WipeFails(l)
  PROVE  /\ loops[l].at = "wiping" /\ loops[l].todo # <<>>
         /\ \/ loops' = [loops EXCEPT ![l].at = "flushing"]
            \/ loops' = [loops EXCEPT ![l] = Onward(l)]
         /\ \E kind \in {"reset", "recovered", "failed"} :
              LET o == Head(loops[l].todo)
                  report == [device |-> o.device, fence |-> o.fence, kind |-> kind] IN
              /\ report \in Report
              /\ pending' \subseteq pending \cup {report}
              /\ kind # "failed" /\ pending' # pending => Wipe(l)
<1>1. loops[l].at = "wiping" /\ loops[l].todo # <<>>
  BY DEF Wipe, WipeFails, TypeOK
<1> DEFINE o == Head(loops[l].todo)
           report(kind) == [device |-> o.device, fence |-> o.fence, kind |-> kind]
<1>2. \A kind \in {"reset", "recovered", "failed"} : report(kind) \in Report
  BY <1>1, FirstOffer DEF Report
<1>3. CASE Wipe(l)
  <2>1. PICK kind \in {"reset", "recovered", "failed"} : pending' = pending \cup {report(kind)}
    BY <1>3 DEF Wipe
  <2> QED
    BY <1>1, <1>2, <1>3, <2>1 DEF Wipe
<1>4. CASE WipeFails(l)
  <2>1. pending' \subseteq pending \cup {report("failed")}
    BY <1>4 DEF WipeFails
  <2> QED
    BY <1>1, <1>2, <1>4, <2>1 DEF WipeFails
<1> QED
  BY <1>3, <1>4

LEMMA WorkingTypes ==
  ASSUME TypeOK, \A d \in Device : Fenced(d), NEW l \in Loop, Working(l)
  PROVE  TypeOK'
<1>1. CASE Heartbeat(l)
  <2>1. \A m \in Loop : loops'[m].at # "next" => loops'[m].todo # <<>>
    BY <1>1, BeatLoop DEF TypeOK
  <2> QED
    BY <1>1, <2>1, BeatLoop DEF Heartbeat, TypeOK, phone
<1>2. CASE TakeUp(l)
  <2>1. /\ loops' \in [Loop -> [todo: Seq(Offer), at: {"next", "wiping", "flushing"}]]
        /\ \A m \in Loop : loops'[m].at # "next" => loops'[m].todo # <<>>
    BY <1>2, TakeUpShape, LoopStep
  <2>2. Head(loops[l].todo).device \in Device /\ Head(loops[l].todo).fence \in Fence
    BY <1>2, TakeUpShape, FirstOffer
  <2>3. Retired(Head(loops[l].todo).device, Head(loops[l].todo).fence) \in 0..MaxFence + 1
    BY <2>2, LeaseAssumption DEF Retired, Fence, TypeOK
  <2>4. high' \in [Device -> 0..MaxFence + 1] /\ conns' \in [Device -> SUBSET Fence]
    BY <1>2, <2>2, <2>3 DEF TakeUp, TypeOK
  <2> QED
    BY <1>2, <2>1, <2>4 DEF TakeUp, TypeOK, phone
<1>3. CASE Wipe(l) \/ WipeFails(l)
  <2>1. /\ loops' \in [Loop -> [todo: Seq(Offer), at: {"next", "wiping", "flushing"}]]
        /\ \A m \in Loop : loops'[m].at # "next" => loops'[m].todo # <<>>
    BY <1>3, WipeShape, LoopStep
  <2>2. pending' \subseteq Report
    BY <1>3, WipeShape DEF TypeOK
  <2>3. taint' \in [Device -> SUBSET Fence]
    BY <1>3 DEF Wipe, WipeFails, TypeOK, phone
  <2>4. under' \in [Device -> SUBSET Fence]
    <3>1. Head(loops[l].todo).device \in Device
      BY <1>3, WipeShape, FirstOffer
    <3>2. (taint[Head(loops[l].todo).device] \cup under[Head(loops[l].todo).device])
            \ uncut[Head(loops[l].todo).device] \subseteq Fence
      BY <3>1 DEF TypeOK
    <3> QED
      BY <1>3, <3>1, <3>2 DEF Wipe, WipeFails, TypeOK, phone
  <2> QED
    BY <1>3, <2>1, <2>2, <2>3, <2>4 DEF Wipe, WipeFails, TypeOK
<1>4. CASE FlushOver(l)
  <2>1. loops[l].todo # <<>>
    BY <1>4 DEF FlushOver, TypeOK
  <2>2. /\ loops' \in [Loop -> [todo: Seq(Offer), at: {"next", "wiping", "flushing"}]]
        /\ \A m \in Loop : loops'[m].at # "next" => loops'[m].todo # <<>>
    BY <1>4, <2>1, LoopStep DEF FlushOver
  <2> QED
    BY <1>4, <2>2 DEF FlushOver, TypeOK, phone
<1> QED
  BY <1>1, <1>2, <1>3, <1>4 DEF Working

(* A verdict keeps a row's fence, and frees or judges a device only at it. *)
LEMMA VerdictShape ==
  ASSUME NEW r \in Row, NEW report \in Report
  PROVE  /\ Verdict(r, report) \in Row
         /\ Verdict(r, report).fence = r.fence
         /\ \/ Verdict(r, report) = r
            \/ /\ r.fence = report.fence /\ r.state \in {"dirty", "preparing"}
               /\ \/ Verdict(r, report).state = "free" /\ report.kind # "failed"
                  \/ Verdict(r, report).state = "judged"
<1>1. ASSUME NEW t \in {"free", "judged"}
      PROVE  Becomes(r, t) \in Row /\ Becomes(r, t).fence = r.fence /\ Becomes(r, t).state = t
  BY DEF Becomes, Row, State
<1>2. CASE r.fence = report.fence /\ r.state = "dirty" /\ report.kind = "reset"
  <2>1. Verdict(r, report) = Becomes(r, "free")
    BY <1>2 DEF Verdict
  <2> QED
    BY <1>1, <1>2, <2>1
<1>3. CASE r.fence = report.fence /\ r.state = "preparing"
  <2>1. Verdict(r, report) = Becomes(r, IF report.kind = "recovered" THEN "free" ELSE "judged")
    BY <1>3 DEF Verdict
  <2> QED
    BY <1>1, <1>3, <2>1
<1>4. CASE /\ ~(r.fence = report.fence /\ r.state = "dirty" /\ report.kind = "reset")
           /\ ~(r.fence = report.fence /\ r.state = "preparing")
  <2>1. Verdict(r, report) = r
    BY <1>4 DEF Verdict
  <2> QED
    BY <2>1
<1> QED
  BY <1>2, <1>3, <1>4

LEMMA Types ==
  ASSUME TypeOK, \A d \in Device : Fenced(d), [FarmNext]_vars
  PROVE  TypeOK'
<1>1. CASE Flush
  BY <1>1 DEF Flush, TypeOK, agent, phone
<1>2. CASE Restart
  <2>1. loops' \in [Loop -> [todo: Seq(Offer), at: {"next", "wiping", "flushing"}]]
        /\ \A m \in Loop : loops'[m].at = "next"
    BY <1>2 DEF Restart, Idle
  <2>2. high' \in [Device -> 0..MaxFence + 1]
    BY <1>2, LeaseAssumption DEF Restart
  <2> QED
    BY <1>2, <2>1, <2>2 DEF Restart, TypeOK, phone
<1>3. ASSUME NEW r \in net, Events(r) PROVE TypeOK'
  <2>1. r \in Report /\ r.device \in Device
    BY DEF TypeOK, Report
  <2>2. lease' \in [Device -> Row]
    BY <1>3, <2>1, VerdictShape DEF Events, TypeOK
  <2> QED
    BY <1>3, <2>1, <2>2 DEF Events, TypeOK, phone
<1>4. ASSUME NEW r \in net, LoseReport(r) PROVE TypeOK'
  BY <1>4 DEF LoseReport, TypeOK, agent, phone
<1>5. CASE UNCHANGED vars
  BY <1>5 DEF vars, TypeOK, agent, phone
<1>6. ASSUME NEW d \in Device, Escalate(d) \/ ClearEscalation(d) PROVE TypeOK'
  BY <1>6 DEF Escalate, ClearEscalation, TypeOK, agent, phone
<1> QED
  BY <1>1, <1>2, <1>3, <1>4, <1>5, <1>6, ControlPlaneTypes, ClientTypes, WorkingTypes
     DEF FarmNext, Rows

-----------------------------------------------------------------------------
(* The steps that leave the leases alone. *)

(* Such a step keeps a device sealed, and empty while nobody holds it. *)
Steady(d) ==
  /\ uncut[d] \subseteq uncut'[d]
  /\ \A f \in late'[d] : f \in late[d] /\ (f \in uncut'[d] \/ high[d] <= high'[d])
  /\ \A f \in conns'[d] :
       f \in conns[d] \/ (f \in late[d] /\ f >= high[d])
         \/ (lease[d].state = "leased" /\ f = lease[d].fence)
  /\ \A f \in Traces(d)' :
       f \in Traces(d) \/ f \in conns[d] \/ (f \in late[d] /\ f >= high[d])
         \/ (lease[d].state = "leased" /\ f = lease[d].fence)
  /\ under[d] \subseteq under'[d] \/ Emptied(d)'
  /\ \/ high'[d] <= high[d]
     \/ Over(d, high'[d] - 1)
     \/ high'[d] \in late[d] \/ (lease[d].state = "leased" /\ high'[d] = lease[d].fence)

LEMMA SteadySeal ==
  ASSUME TypeOK, TypeOK', NEW d \in Device, lease' = lease, Steady(d), Sealed(d)
  PROVE  /\ Sealed(d)'
         /\ lease[d].state # "leased" /\ Emptied(d) => Emptied(d)'
<1>1. high[d] \in Nat /\ high'[d] \in Nat
  BY RowFence, LeaseAssumption DEF TypeOK
<1>2. ASSUME NEW f \in late[d] PROVE f \in Nat
  BY LeaseAssumption DEF TypeOK, Fence
<1>3. ASSUME NEW f \in late'[d] PROVE f \in uncut'[d] \/ f < high'[d]
  <2>1. f \in late[d] /\ f \in Nat
    BY <1>2 DEF Steady
  <2> QED
    BY <1>1, <2>1 DEF Steady, Sealed
<1>4. ASSUME NEW f \in late[d], f >= high[d] PROVE f \in uncut[d]
  BY <1>1, <1>2, <1>4 DEF Sealed
<1>5. ASSUME NEW f \in conns'[d]
      PROVE  f \in uncut'[d] \/ (lease[d].state = "leased" /\ f = lease[d].fence)
  BY <1>4 DEF Steady, Sealed
<1>6. ASSUME lease[d].state # "leased", Emptied(d), under[d] \subseteq under'[d],
             NEW f \in taint'[d]
      PROVE  f \in uncut'[d] \cup under'[d]
  <2>1. f \in Traces(d)'
    BY <1>6 DEF Traces
  <2>2. f \in Traces(d) => f \in uncut[d] \cup under[d]
    BY <1>6 DEF Traces, Emptied
  <2>3. uncut[d] \subseteq uncut'[d]
    BY DEF Steady
  <2>4. CASE f \in Traces(d)
    BY <1>6, <2>2, <2>3, <2>4
  <2>5. CASE f \in conns[d]
    BY <1>6, <2>3, <2>5 DEF Sealed
  <2>6. CASE f \in late[d] /\ f >= high[d]
    BY <1>4, <2>3, <2>6
  <2> QED
    BY <1>6, <2>1, <2>4, <2>5, <2>6 DEF Steady
<1>7. lease[d].state # "leased" /\ Emptied(d) => Emptied(d)'
  <2>1. CASE under[d] \subseteq under'[d]
    BY <1>6, <2>1 DEF Emptied
  <2>2. CASE Emptied(d)'
    BY <2>2
  <2> QED
    BY <2>1, <2>2 DEF Steady
<1> QED
  BY <1>3, <1>5, <1>7 DEF Sealed

LEMMA SteadyFence ==
  ASSUME TypeOK, TypeOK', NEW d \in Device, lease' = lease, Steady(d), Fenced(d)
  PROVE  Fenced(d)'
<1>1. high[d] \in Nat /\ high'[d] \in Nat /\ lease[d].fence \in Nat
  BY RowFence, LeaseAssumption DEF TypeOK
<1>2. ASSUME NEW f \in late[d] PROVE f \in Nat /\ f <= lease[d].fence
  BY LeaseAssumption DEF TypeOK, Fence, Fenced, Over
<1>3. \A f \in late'[d] : Over(d, f)
  BY DEF Fenced, Steady
<1>4. \A f \in conns'[d] \cup Traces(d)' : f <= lease[d].fence
  BY <1>1, <1>2 DEF Fenced, Steady
<1>5. high'[d] <= lease[d].fence + 1 /\ (lease[d].state = "leased" => high'[d] <= lease[d].fence)
  <2>1. CASE high'[d] <= high[d]
    BY <1>1, <2>1 DEF Fenced
  <2>2. CASE Over(d, high'[d] - 1)
    BY <1>1, <2>2 DEF Over
  <2>3. CASE high'[d] \in late[d]
    BY <1>1, <1>2, <2>3
  <2>4. CASE lease[d].state = "leased" /\ high'[d] = lease[d].fence
    BY <1>1, <2>4
  <2> QED
    BY <2>1, <2>2, <2>3, <2>4 DEF Steady
<1> QED
  BY <1>3, <1>4, <1>5 DEF Fenced, Over

(* A step that touches nothing of a device is steady. *)
LEMMA Untouched ==
  ASSUME TypeOK, NEW d \in Device, uncut'[d] = uncut[d], late'[d] \subseteq late[d],
         conns'[d] \subseteq conns[d], Traces(d)' \subseteq Traces(d), high'[d] = high[d],
         under'[d] = under[d]
  PROVE  Steady(d)
BY RowFence DEF Steady

(* A client's step: a grant is looked at against the agent's mark. *)
LEMMA ClientSteady ==
  ASSUME TypeOK, NEW d \in Device, NEW f \in Fence, Client(d, f), NEW e \in Device
  PROVE  Steady(e) /\ lease' = lease /\ loops' = loops /\ pending' = pending /\ net' = net
<1>0. lease' = lease /\ loops' = loops /\ pending' = pending /\ net' = net
  BY DEF Client, Hello, Input, Command, GoOn, Leave, Expire, agent
<1>1. CASE Hello(d, f)
  <2>1. high' = [high EXCEPT ![d] = f] /\ conns' = [conns EXCEPT ![d] = @ \cup {f}]
        /\ late' = late /\ uncut' = uncut
        /\ taint' = taint /\ under' = under
        /\ f >= high[d] /\ Grant(d, f)
    BY <1>1 DEF Hello, AcceptFence, phone
  <2>2. CASE e # d
    BY <1>0, <2>1, <2>2, Untouched DEF TypeOK, Traces
  <2>3. CASE e = d
    <3>1. high'[d] = f /\ conns'[d] = conns[d] \cup {f} /\ high[d] \in Nat /\ f \in Nat
      BY <2>1, RowFence, LeaseAssumption DEF TypeOK, Fence
    <3> QED
      BY <1>0, <2>1, <2>3, <3>1 DEF Steady, Grant, Traces
  <2> QED
    BY <1>0, <2>2, <2>3
<1>2. CASE Command(d, f)
  <2>1. high' = [high EXCEPT ![d] = f] /\ taint' = [taint EXCEPT ![d] = @ \cup {f}]
        /\ late' = late /\ conns' = conns /\ uncut' = uncut
        /\ under' = under
        /\ f >= high[d] /\ Grant(d, f)
    BY <1>2 DEF Command, AcceptFence
  <2>2. CASE e # d
    BY <1>0, <2>1, <2>2, Untouched DEF TypeOK, Traces
  <2>3. CASE e = d
    <3>1. high'[d] = f /\ taint'[d] = taint[d] \cup {f} /\ high[d] \in Nat /\ f \in Nat
      BY <2>1, RowFence, LeaseAssumption DEF TypeOK, Fence
    <3> QED
      BY <1>0, <2>1, <2>3, <3>1 DEF Steady, Grant, Traces
  <2> QED
    BY <2>2, <2>3
<1>3. CASE Input(d, f)
  <2>1. taint' = [taint EXCEPT ![d] = @ \cup {f}] /\ f \in conns[d]
        /\ late' = late /\ conns' = conns /\ uncut' = uncut /\ high' = high
        /\ under' = under
    BY <1>3 DEF Input, agent
  <2>2. CASE e # d
    BY <1>0, <2>1, <2>2, Untouched DEF TypeOK, Traces
  <2>3. CASE e = d
    <3>1. taint'[d] = taint[d] \cup {f} /\ high[d] \in Nat
      BY <2>1, RowFence DEF TypeOK
    <3> QED
      BY <1>0, <2>1, <2>3, <3>1 DEF Steady, Traces
  <2> QED
    BY <2>2, <2>3
<1>4. CASE GoOn(d, f)
  <2>1. Traces(e)' \subseteq Traces(e)
    BY <1>4 DEF GoOn, Traces, TypeOK
  <2> QED
    BY <1>0, <1>4, <2>1, Untouched DEF GoOn, agent
<1>5. CASE Leave(d, f)
  <2>1. conns'[e] \subseteq conns[e]
    BY <1>5 DEF Leave, TypeOK
  <2> QED
    BY <1>0, <1>5, <2>1, Untouched DEF Leave, phone, Traces
<1>6. CASE Expire(d, f)
  <2>1. late'[e] \subseteq late[e]
    BY <1>6 DEF Expire, TypeOK
  <2> QED
    BY <1>0, <1>6, <2>1, Untouched DEF Expire, agent, phone, Traces
<1> QED
  BY <1>1, <1>2, <1>3, <1>4, <1>5, <1>6 DEF Client

(* A step of a loop: to take an offer up is to retire the fence it names. *)
LEMMA WorkingSteady ==
  ASSUME TypeOK, Offered, NEW l \in Loop, Working(l), NEW e \in Device
  PROVE  Steady(e) /\ lease' = lease /\ net' = net
<1>0. lease' = lease /\ net' = net
  BY DEF Working, Heartbeat, TakeUp, Wipe, WipeFails, FlushOver
<1>1. CASE TakeUp(l)
  <2> DEFINE o == Head(loops[l].todo)
  <2>1. o.device \in Device /\ o.fence \in Fence /\ Over(o.device, o.fence)
    BY <1>1, TakeUpShape, FirstOffer DEF Offered, Offers
  <2>2. /\ high' = [high EXCEPT ![o.device] = Retired(o.device, o.fence)]
        /\ conns' = [conns EXCEPT ![o.device] = {}]
        /\ late' = late /\ uncut' = uncut
        /\ taint' = taint /\ under' = under
    BY <1>1 DEF TakeUp, phone
  <2>3. CASE e # o.device
    BY <1>0, <2>2, <2>3, Untouched DEF TypeOK, Traces
  <2>4. CASE e = o.device
    <3>1. high'[e] = Retired(e, o.fence) /\ conns'[e] = {} /\ high[e] \in Nat /\ o.fence \in Nat
      BY <2>1, <2>2, <2>4, RowFence, LeaseAssumption DEF TypeOK, Fence
    <3>2. high[e] <= high'[e] /\ (high'[e] = high[e] \/ high'[e] - 1 = o.fence)
      BY <3>1 DEF Retired
    <3> QED
      BY <1>0, <2>1, <2>2, <2>4, <3>1, <3>2 DEF Steady, Traces
  <2> QED
    BY <2>3, <2>4
<1>2. CASE Wipe(l)
  <2>1. Traces(e)' \subseteq Traces(e) /\ (under'[e] = under[e] \/ Emptied(e)')
    BY <1>2 DEF Wipe, Traces, Emptied, TypeOK
  <2> QED
    BY <1>0, <1>2, <2>1, RowFence DEF Wipe, Steady
<1>3. CASE Heartbeat(l) \/ WipeFails(l) \/ FlushOver(l)
  BY <1>0, <1>3, Untouched DEF Heartbeat, WipeFails, FlushOver, phone, Traces
<1> QED
  BY <1>1, <1>2, <1>3 DEF Working

LEMMA RestartSteady ==
  ASSUME TypeOK, Restart, NEW d \in Device
  PROVE  Steady(d)
<1>1. high'[d] = 0 /\ conns'[d] = {} /\ uncut'[d] = uncut[d] \cup late[d]
      /\ late' = late /\ taint' = taint /\ under' = under
  BY DEF Restart, phone
<1>2. high[d] \in Nat
  BY RowFence
<1> QED
  BY <1>1, <1>2 DEF Steady, Traces

(* What a steady step keeps of the invariant's parts that speak of leases. *)
LEMMA SteadyKeeps ==
  ASSUME Inv, TypeOK', lease' = lease, \A d \in Device : Steady(d)
  PROVE  /\ \A d \in Device : Fenced(d)' /\ InPool(d)'
         /\ \A d \in Device : Sealed(d) => Sealed(d)'
         /\ \A d \in Device : lease[d].state # "leased" /\ Sealed(d) /\ Emptied(d) => Emptied(d)'
<1>1. TypeOK
  BY DEF Inv
<1>2. \A d \in Device : Fenced(d)'
  BY <1>1, SteadyFence DEF Inv
<1>3. \A d \in Device : Sealed(d) => Sealed(d)'
  BY <1>1, SteadySeal
<1>4. \A d \in Device : lease[d].state # "leased" /\ Sealed(d) /\ Emptied(d) => Emptied(d)'
  BY <1>1, SteadySeal
<1>5. ASSUME NEW d \in Device PROVE InPool(d)'
  <2>1. InPool(d)
    BY DEF Inv
  <2>2. lease[d].state \in {"free", "leased", "out"} => Sealed(d)'
    BY <1>3, <2>1 DEF InPool
  <2>3. lease[d].state \in {"free", "out"} => Emptied(d)'
    BY <1>4, <2>1 DEF InPool
  <2> QED
    BY <2>2, <2>3 DEF InPool
<1> QED
  BY <1>2, <1>3, <1>4, <1>5

(* A report of a lease's own fence comes from a device that nobody holds. *)
LEMMA OverIsFree ==
  ASSUME TypeOK, NEW d \in Device, NEW f, Over(d, f), f = lease[d].fence
  PROVE  lease[d].state # "leased"
BY RowFence DEF Over

(* A report that was there before a steady step is answered for after it. *)
LEMMA SteadyReport ==
  ASSUME Inv, TypeOK', lease' = lease, \A d \in Device : Steady(d),
         NEW r \in pending \cup net
  PROVE  Over(r.device, r.fence)' /\ Answered(r)'
<1>1. TypeOK /\ r \in Report /\ r.device \in Device
  BY DEF Inv, TypeOK, Report
<1>2. Over(r.device, r.fence) /\ Answered(r)
  BY DEF Inv, Reported
<1>3. Over(r.device, r.fence)'
  BY <1>2 DEF Over
<1>4. ASSUME r.fence = lease[r.device].fence
      PROVE  Sealed(r.device)' /\ (r.kind # "failed" => Emptied(r.device)')
  <2>1. lease[r.device].state # "leased"
    BY <1>1, <1>2, <1>4, OverIsFree
  <2> QED
    BY <1>1, <1>2, <1>4, <2>1, SteadyKeeps DEF Answered
<1> QED
  BY <1>3, <1>4 DEF Answered

(* A loop that a steady step does not touch stays as it is. *)
LEMMA SteadyLoop ==
  ASSUME Inv, TypeOK', lease' = lease, \A d \in Device : Steady(d),
         NEW l \in Loop, loops'[l] = loops[l]
  PROVE  TakenUp(l)' /\ Offers(l)'
<1>1. TypeOK /\ TakenUp(l) /\ Offers(l)
  BY DEF Inv, Offered
<1>2. Offers(l)'
  BY <1>1 DEF Offers, Over
<1>3. ASSUME loops[l].at # "next", NEW o, o = Head(loops[l].todo), o.fence = lease[o.device].fence
      PROVE  Sealed(o.device)'
  <2>1. o.device \in Device
    BY <1>1, <1>3, FirstOffer DEF TypeOK
  <2>2. Sealed(o.device)
    BY <1>1, <1>3 DEF TakenUp
  <2> QED
    BY <2>1, <2>2, SteadyKeeps
<1>4. TakenUp(l)'
  BY <1>3 DEF TakenUp
<1> QED
  BY <1>2, <1>4

(* A step of a loop: what it was offered is over, and is answered for.        *)
LEMMA WorkingKeeps ==
  ASSUME Inv, TypeOK', NEW l \in Loop, Working(l)
  PROVE  Inv'
<1>1. TypeOK /\ Offered /\ (\A d \in Device : Fenced(d))
  BY DEF Inv
<1>2. lease' = lease /\ net' = net /\ \A d \in Device : Steady(d)
  BY <1>1, WorkingSteady DEF Working, Heartbeat, TakeUp, Wipe, WipeFails, FlushOver
<1>3. \A d \in Device : Fenced(d)' /\ InPool(d)'
  BY <1>2, SteadyKeeps
<1>4. ASSUME NEW at \in {"wiping", "flushing"}, loops[l].todo # <<>>,
             \/ loops' = [loops EXCEPT ![l].at = at]
             \/ loops' = [loops EXCEPT ![l] = Onward(l)]
      PROVE  Offers(l)' /\ \A m \in Loop : m # l => loops'[m] = loops[m]
  <2>1. /\ \A m \in Loop : m # l => loops'[m] = loops[m]
        /\ \/ loops'[l].todo = loops[l].todo
           \/ loops'[l].todo = Tail(loops[l].todo)
    BY <1>1, <1>4, LoopStep
  <2>2. \A i \in 1..Len(loops'[l].todo) :
          \E j \in 1..Len(loops[l].todo) : loops'[l].todo[i] = loops[l].todo[j]
    <3>1. CASE loops'[l].todo = loops[l].todo
      BY <3>1
    <3>2. CASE loops'[l].todo = Tail(loops[l].todo)
      BY <1>1, <1>4, <3>2, FirstOffer
    <3> QED
      BY <2>1, <3>1, <3>2
  <2> QED
    BY ZenonT(40), <1>1, <1>2, <2>1, <2>2 DEF Offered, Offers, Over
<1>5. Offers(l)' /\ \A m \in Loop : m # l => loops'[m] = loops[m]
  <2>1. CASE Heartbeat(l)
    <3>1. ASSUME NEW d \in Due PROVE Over(OfferOf(d).device, OfferOf(d).fence)
      BY <1>1, RowFence DEF Due, OfferOf, Over
    <3> QED
      BY <1>1, <1>2, <2>1, <3>1, BeatLoop DEF Offers, Over
  <2>2. CASE TakeUp(l)
    BY <1>1, <1>4, <2>2, TakeUpShape
  <2>3. CASE Wipe(l) \/ WipeFails(l)
    BY <1>1, <1>4, <2>3, WipeShape
  <2>4. CASE FlushOver(l)
    BY <1>1, <1>4, <2>4 DEF FlushOver, TypeOK
  <2> QED
    BY <2>1, <2>2, <2>3, <2>4 DEF Working
<1>6. Offered' /\ \A m \in Loop : m # l => TakenUp(m)'
  BY <1>2, <1>5, SteadyLoop DEF Offered
<1>7. TakenUp(l)'
  <2>1. CASE Heartbeat(l)
    BY <1>1, <2>1, BeatLoop DEF TakenUp
  <2>2. CASE TakeUp(l)
    <3>0. PICK o : o = Head(loops[l].todo)
      OBVIOUS
    <3>1. loops[l].todo # <<>> /\ o.device \in Device /\ o.fence \in Fence
      BY <1>1, <2>2, <3>0, TakeUpShape, FirstOffer
    <3>2. high'[o.device] = Retired(o.device, o.fence) /\ conns'[o.device] = {} /\ late' = late
      BY <1>1, <2>2, <3>0, <3>1 DEF TakeUp, TypeOK
    <3>3. o.fence + 1 <= high'[o.device] /\ o.fence \in Nat /\ high'[o.device] \in Nat
      BY <1>1, <3>1, <3>2, RowFence, LeaseAssumption DEF Retired, Fence
    <3>4. o.fence = lease[o.device].fence => Sealed(o.device)'
      <4>1. \A f \in late[o.device] : f \in Nat /\ f <= lease[o.device].fence
        BY <1>1, <3>1, LeaseAssumption DEF Fenced, Over, TypeOK, Fence
      <4> QED
        BY <1>2, <3>2, <3>3, <4>1 DEF Sealed
    <3>5. loops'[l].at # "next" => loops'[l].todo = loops[l].todo
      BY <1>1, <2>2, TakeUpShape, LoopStep
    <3> QED
      BY <1>2, <3>0, <3>4, <3>5 DEF TakenUp
  <2>3. CASE Wipe(l) \/ WipeFails(l)
    <3>1. loops[l].at # "next" /\ loops[l].todo # <<>>
          /\ (loops'[l].at # "next" => loops'[l].todo = loops[l].todo)
      BY <1>1, <2>3, WipeShape, LoopStep
    <3>2. Head(loops[l].todo).device \in Device
      BY <1>1, <3>1, FirstOffer
    <3>3. TakenUp(l)
      BY DEF Inv
    <3> QED
      BY <1>2, <3>1, <3>2, <3>3, SteadyKeeps DEF TakenUp
  <2>4. CASE FlushOver(l)
    <3>1. loops'[l].at = "next"
      BY <1>1, <2>4 DEF FlushOver, Onward, TypeOK
    <3> QED
      BY <3>1 DEF TakenUp
  <2> QED
    BY <2>1, <2>2, <2>3, <2>4 DEF Working
<1>8. ASSUME NEW r \in (pending \cup net)' PROVE Over(r.device, r.fence)' /\ Answered(r)'
  <2>1. CASE r \in pending \cup net
    BY <1>2, <2>1, SteadyReport
  <2>2. CASE r \notin pending \cup net
    <3>1. Wipe(l) \/ WipeFails(l)
      BY <1>2, <2>2 DEF Working, Heartbeat, TakeUp, FlushOver
    <3>0. PICK o : o = Head(loops[l].todo)
      OBVIOUS
    <3>2. loops[l].at = "wiping" /\ loops[l].todo # <<>> /\ o.device \in Device
          /\ Over(o.device, o.fence)
      BY <1>1, <3>0, <3>1, WipeShape, FirstOffer DEF Offered, Offers
    <3>3. PICK kind \in {"reset", "recovered", "failed"} :
            /\ pending' \subseteq pending \cup {[device |-> o.device, fence |-> o.fence, kind |-> kind]}
            /\ kind # "failed" /\ pending' # pending => Wipe(l)
      BY <1>1, <3>0, <3>1, WipeShape
    <3>4. r = [device |-> o.device, fence |-> o.fence, kind |-> kind] /\ pending' # pending
      BY <1>2, <2>2, <3>3
    <3>5. o.fence = lease[o.device].fence => Sealed(o.device)'
      <4>1. TakenUp(l)
        BY DEF Inv
      <4> QED
        BY <1>2, <3>0, <3>2, <4>1, SteadyKeeps DEF TakenUp
    <3>6. kind # "failed" => Emptied(o.device)'
      <4>1. Wipe(l) => taint'[o.device] = {}
        BY <1>1, <3>0, <3>2 DEF Wipe, TypeOK
      <4> QED
        BY <3>3, <3>4, <4>1 DEF Emptied
    <3> QED
      BY <1>2, <3>2, <3>4, <3>5, <3>6 DEF Over, Answered
  <2> QED
    BY <2>1, <2>2
<1> QED
  BY <1>3, <1>6, <1>7, <1>8 DEF Inv, Reported

(* The other steps that leave the leases alone. *)
LEMMA QuietKeeps ==
  ASSUME Inv, TypeOK', lease' = lease, \A d \in Device : Steady(d),
         \/ loops' = loops
         \/ \A l \in Loop : loops'[l] = Idle,
         (pending \cup net)' \subseteq pending \cup net
  PROVE  Inv'
<1>1. \A d \in Device : Fenced(d)' /\ InPool(d)'
  BY SteadyKeeps
<1>2. \A r \in (pending \cup net)' : Over(r.device, r.fence)' /\ Answered(r)'
  BY SteadyReport
<1>3. ASSUME NEW l \in Loop PROVE Offers(l)' /\ TakenUp(l)'
  <2>1. CASE loops' = loops
    BY <2>1, SteadyLoop
  <2>2. CASE loops'[l] = Idle
    BY <2>2 DEF Idle, Offers, TakenUp
  <2> QED
    BY <2>1, <2>2
<1> QED
  BY <1>1, <1>2, <1>3 DEF Inv, Offered, Reported

-----------------------------------------------------------------------------
(* The steps that move a lease. *)

(* A step that moves the lease of d and keeps its fence: what was over stays  *)
(* over, and what was sealed while nobody held it stays so.                   *)
LEMMA SameFence ==
  ASSUME TypeOK, NEW d \in Device,
         lease'[d].fence = lease[d].fence, lease'[d].state # "leased"
  PROVE  /\ \A f \in Nat : Over(d, f) => Over(d, f)'
         /\ lease[d].state # "leased" /\ Sealed(d) /\ high' = high /\ conns' = conns
              /\ late' = late /\ uncut[d] \subseteq uncut'[d] => Sealed(d)'
         /\ Emptied(d) /\ UNCHANGED phone /\ uncut[d] \subseteq uncut'[d] => Emptied(d)'
<1>1. lease[d].fence \in Nat
  BY RowFence
<1>2. \A f \in Nat : Over(d, f) => Over(d, f)'
  BY <1>1 DEF Over
<1>3. lease[d].state # "leased" /\ Sealed(d) /\ high' = high /\ conns' = conns
        /\ late' = late /\ uncut[d] \subseteq uncut'[d] => Sealed(d)'
  BY DEF Sealed
<1>4. Emptied(d) /\ UNCHANGED phone /\ uncut[d] \subseteq uncut'[d] => Emptied(d)'
  BY DEF Emptied, Traces, phone
<1> QED
  BY <1>2, <1>3, <1>4

(* What the invariant says of a device apart from the others. *)
LEMMA OtherDevice ==
  ASSUME NEW e \in Device, lease'[e] = lease[e], high'[e] = high[e], late'[e] = late[e],
         conns'[e] = conns[e], uncut'[e] = uncut[e],
         taint'[e] = taint[e], under'[e] = under[e]
  PROVE  /\ Fenced(e) => Fenced(e)'
         /\ InPool(e) => InPool(e)'
         /\ Sealed(e) => Sealed(e)'
         /\ Emptied(e) => Emptied(e)'
         /\ \A f \in Nat : Over(e, f) => Over(e, f)'
<1>1. Fenced(e) => Fenced(e)'
  BY DEF Fenced, Over, Traces
<1>2. InPool(e) => InPool(e)'
  BY DEF InPool, Sealed, Emptied, Traces
<1>3. Sealed(e) => Sealed(e)'
  BY DEF Sealed
<1>4. Emptied(e) => Emptied(e)'
  BY DEF Emptied, Traces
<1>5. \A f \in Nat : Over(e, f) => Over(e, f)'
  BY DEF Over
<1> QED
  BY <1>1, <1>2, <1>3, <1>4, <1>5

(* If what a step makes of every device keeps what is over and, as long as    *)
(* the fence is the same, what was sealed and emptied, it keeps what loops    *)
(* and reports rest on.                                                       *)
LEMMA LoopsAndReportsKept ==
  ASSUME TypeOK, TypeOK', Offered, Reported,
         \A l \in Loop : TakenUp(l),
         \A r \in pending \cup net : Answered(r),
         loops' = loops, (pending \cup net)' \subseteq pending \cup net,
         \A d \in Device :
           /\ \A f \in Nat : Over(d, f) => Over(d, f)'
           /\ lease'[d].fence = lease[d].fence \/ \A f \in Nat : Over(d, f) => f # lease'[d].fence
           /\ lease'[d].fence = lease[d].fence /\ lease[d].state # "leased" =>
                (Sealed(d) => Sealed(d)') /\ (Emptied(d) => Emptied(d)')
  PROVE  /\ Offered' /\ Reported'
         /\ \A l \in Loop : TakenUp(l)'
         /\ \A r \in (pending \cup net)' : Answered(r)'
<1>0. Fence \subseteq Nat
  BY LeaseAssumption DEF Fence
<1>1. ASSUME NEW l \in Loop PROVE Offers(l)'
  <2>1. ASSUME NEW i \in 1..Len(loops[l].todo), NEW o, o = loops[l].todo[i]
        PROVE  Over(o.device, o.fence)'
    <3>1. o \in Offer
      BY <2>1 DEF TypeOK
    <3>2. o.device \in Device /\ o.fence \in Nat
      BY <1>0, <3>1 DEF Offer
    <3> QED
      BY <2>1, <3>2 DEF Offered, Offers
  <2> QED
    BY <2>1 DEF Offers
<1>2. ASSUME NEW r \in (pending \cup net)'
      PROVE  r.device \in Device /\ r.fence \in Nat /\ Over(r.device, r.fence)
  <2>1. r \in Report /\ r \in pending \cup net
    BY DEF TypeOK
  <2> QED
    BY <1>0, <2>1 DEF Report, Reported
<1>3. ASSUME NEW r \in (pending \cup net)' PROVE Answered(r)'
  <2>1. CASE r.fence = lease'[r.device].fence
    <3>1. r.fence = lease[r.device].fence /\ Answered(r)
      BY <1>2, <2>1
    <3>2. lease[r.device].state # "leased"
      BY <1>2, <3>1, OverIsFree
    <3> QED
      BY <1>2, <2>1, <3>1, <3>2 DEF Answered
  <2> QED
    BY <2>1 DEF Answered
<1>4. ASSUME NEW l \in Loop, loops[l].at # "next", NEW o, o = Head(loops[l].todo),
             o.fence = lease'[o.device].fence
      PROVE  Sealed(o.device)'
  <2>1. loops[l].todo # <<>>
    BY <1>4 DEF TypeOK
  <2>2. o.device \in Device /\ o.fence \in Nat /\ Over(o.device, o.fence)
    BY <1>0, <1>4, <2>1, FirstOffer DEF Offered, Offers
  <2>3. o.fence = lease[o.device].fence
    BY <1>4, <2>2
  <2>4. lease[o.device].state # "leased" /\ Sealed(o.device)
    BY <1>4, <2>2, <2>3, OverIsFree DEF TakenUp
  <2> QED
    BY <1>4, <2>2, <2>3, <2>4
<1>5. \A l \in Loop : TakenUp(l)'
  BY <1>4 DEF TakenUp
<1> QED
  BY <1>1, <1>2, <1>3, <1>5 DEF Offered, Reported

(* A report is heard: it frees only a device that is sealed and empty. *)
LEMMA EventsKeeps ==
  ASSUME Inv, TypeOK', NEW r \in net, Events(r)
  PROVE  Inv'
<1>1. TypeOK /\ r \in Report /\ r.device \in Device /\ Answered(r)
  BY DEF Inv, TypeOK, Report
<1>2. PICK d \in Device : d = r.device
  BY <1>1
<1>3. lease[d] \in Row /\ lease[d].fence \in Nat /\ high[d] \in Nat
  BY <1>1, RowFence
<1>4. /\ lease'[d] = Verdict(lease[d], r)
      /\ \A e \in Device : e # d => lease'[e] = lease[e]
      /\ loops' = loops /\ high' = high /\ conns' = conns /\ late' = late
      /\ taint' = taint /\ under' = under /\ uncut' = uncut
      /\ (pending \cup net)' \subseteq pending \cup net
  BY <1>1, <1>2 DEF Events, TypeOK, phone
<1>5. /\ lease'[d].fence = lease[d].fence
      /\ \/ lease'[d] = lease[d]
         \/ /\ lease[d].fence = r.fence /\ lease[d].state \in {"dirty", "preparing"}
            /\ \/ lease'[d].state = "free" /\ r.kind # "failed"
               \/ lease'[d].state = "judged"
  BY <1>1, <1>3, <1>4, VerdictShape
<1>6. Fenced(d) /\ InPool(d)
  BY DEF Inv
<1>7. CASE lease'[d] = lease[d]
  <2>1. \A e \in Device : lease'[e] = lease[e]
    BY <1>4, <1>7
  <2>2. \A e \in Device : Fenced(e)' /\ InPool(e)'
    BY <1>4, <2>1, OtherDevice DEF Inv
  <2>3. /\ Offered' /\ Reported'
        /\ \A l \in Loop : TakenUp(l)'
        /\ \A q \in (pending \cup net)' : Answered(q)'
    BY <1>1, <1>4, <2>1, OtherDevice, LoopsAndReportsKept DEF Inv
  <2> QED
    BY <2>2, <2>3 DEF Inv
<1>8. CASE /\ lease[d].fence = r.fence /\ lease[d].state \in {"dirty", "preparing"}
           /\ \/ lease'[d].state = "free" /\ r.kind # "failed"
              \/ lease'[d].state = "judged"
  <2>1. lease'[d].state # "leased" /\ lease[d].state # "leased"
    BY <1>8
  <2>2. /\ \A f \in Nat : Over(d, f) => Over(d, f)'
        /\ Sealed(d) => Sealed(d)'
        /\ Emptied(d) => Emptied(d)'
    BY <1>1, <1>4, <1>5, <2>1, SameFence DEF phone
  <2>3. InPool(d)'
    BY <1>1, <1>2, <1>8, <2>2 DEF InPool, Answered
  <2>4. Fenced(d)'
    <3>1. \A f \in late[d] : f \in Nat
      BY <1>1, LeaseAssumption DEF TypeOK, Fence
    <3> QED
      BY <1>4, <1>5, <1>6, <1>8, <2>1, <2>2, <3>1 DEF Fenced, Owing, Traces
  <2>5. \A e \in Device : Fenced(e)' /\ InPool(e)'
    BY <1>4, <2>3, <2>4, OtherDevice DEF Inv
  <2>6. /\ Offered' /\ Reported'
        /\ \A l \in Loop : TakenUp(l)'
        /\ \A q \in (pending \cup net)' : Answered(q)'
    <3>1. ASSUME NEW e \in Device
          PROVE  /\ \A f \in Nat : Over(e, f) => Over(e, f)'
                 /\ lease'[e].fence = lease[e].fence
                 /\ (Sealed(e) => Sealed(e)') /\ (Emptied(e) => Emptied(e)')
      BY <1>4, <1>5, <2>2, OtherDevice
    <3> QED
      BY <1>1, <1>4, <3>1, LoopsAndReportsKept DEF Inv
  <2> QED
    BY <2>5, <2>6 DEF Inv
<1> QED
  BY <1>5, <1>7, <1>8

(* A step of the control plane: a lease begins on a device that is sealed,    *)
(* and one that ends makes every grant of it late.                            *)
LEMMA ControlPlaneKeeps ==
  ASSUME Inv, TypeOK', NEW d \in Device, ControlPlane(d)
  PROVE  Inv'
<1>1. TypeOK /\ Fenced(d) /\ InPool(d)
  BY DEF Inv
<1>2. PICK q \in Unaided(lease[d]) :
        /\ lease' = [lease EXCEPT ![d] = q]
        /\ late' = IF lease[d].state = "leased"
                   THEN [late EXCEPT ![d] = @ \cup {lease[d].fence}] ELSE late
        /\ uncut' = IF q.state = "out" /\ lease[d].state \in Owing
                    THEN [uncut EXCEPT ![d] = @ \cup 1..lease[d].fence] ELSE uncut
        /\ escalated' \subseteq escalated
        /\ UNCHANGED <<agent, net, phone>>
  BY DEF ControlPlane
<1>3. /\ lease[d] \in Row /\ lease[d].fence \in Nat /\ high[d] \in Nat
      /\ lease[d].state \in State
  BY <1>1, RowFence
<1>4. /\ q \in Moves(lease[d])
      /\ ~(lease[d].state \in {"dirty", "preparing"} /\ q.state = "free")
  BY DEF Unaided
<1>5. /\ lease'[d] = q
      /\ high' = high /\ conns' = conns /\ loops' = loops
      /\ taint' = taint /\ under' = under
      /\ (pending \cup net)' = pending \cup net
      /\ uncut[d] \subseteq uncut'[d]
      /\ late'[d] = IF lease[d].state = "leased" THEN late[d] \cup {lease[d].fence} ELSE late[d]
      /\ q.state = "out" /\ lease[d].state \in Owing => 1..lease[d].fence \subseteq uncut'[d]
  BY <1>1, <1>2 DEF TypeOK, agent, phone
<1>6. ASSUME NEW e \in Device, e # d
      PROVE  /\ lease'[e] = lease[e] /\ high'[e] = high[e] /\ late'[e] = late[e]
             /\ conns'[e] = conns[e] /\ uncut'[e] = uncut[e] /\ taint'[e] = taint[e]
             /\ under'[e] = under[e]
  BY <1>1, <1>2, <1>6 DEF TypeOK, agent, phone
<1>7. /\ \/ q.fence = lease[d].fence /\ q.state # "leased"
         \/ q.fence = lease[d].fence + 1 /\ q.state = "leased" /\ lease[d].state = "free"
         \/ q.fence = lease[d].fence + 1 /\ q.state = "preparing" /\ lease[d].state # "leased"
      /\ q.state \in Owing /\ q.fence = lease[d].fence => lease[d].state \in Owing \cup {"leased"}
      /\ q.state = "free" => lease[d].state = "out"
      /\ q.state = "out" => lease[d].state \in Owing \cup {"free"}
  BY <1>3, <1>4, MoveShape
<1>8. \A f \in late[d] \cup conns[d] \cup Traces(d) : f \in Nat /\ f >= 1 /\ f <= lease[d].fence
  BY <1>1, LeaseAssumption DEF Fenced, Over, TypeOK, Fence, Traces
<1>9. \A f \in Nat : Over(d, f) => Over(d, f)'
  BY <1>3, <1>5, <1>7 DEF Over
<1>10. q.fence = lease[d].fence \/ \A f \in Nat : Over(d, f) => f # q.fence
  BY <1>3, <1>7 DEF Over
<1>11. Fenced(d)'
  <2>1. \A f \in late'[d] : Over(d, f)'
    BY <1>1, <1>3, <1>5, <1>7, <1>8, <1>9 DEF Fenced, Over
  <2>2. q.state \in Owing \cup {"leased"} => q.fence >= 1
    BY <1>1, <1>3, <1>7 DEF Fenced
  <2>3. high[d] <= q.fence + 1 /\ (q.state = "leased" => high[d] <= q.fence)
    BY <1>1, <1>3, <1>7 DEF Fenced
  <2>4. \A f \in conns[d] \cup Traces(d) : f <= q.fence
    BY <1>3, <1>7, <1>8
  <2> QED
    BY <1>5, <2>1, <2>2, <2>3, <2>4 DEF Fenced, Traces
<1>12. ASSUME lease[d].state # "leased", Sealed(d)
       PROVE  Sealed(d)'
  BY <1>5, <1>12 DEF Sealed
<1>13. Emptied(d) => Emptied(d)'
  BY <1>5 DEF Emptied, Traces
<1>14. InPool(d)'
  <2>1. CASE q.state = "out" /\ lease[d].state \in Owing
    <3>1. late'[d] = late[d] /\ 1..lease[d].fence \subseteq uncut'[d]
      BY <1>5, <2>1 DEF Owing
    <3>2. \A f \in late[d] \cup conns[d] \cup Traces(d) : f \in uncut'[d]
      BY <1>3, <1>8, <3>1
    <3> QED
      BY <1>5, <3>1, <3>2 DEF InPool, Sealed, Emptied, Traces
  <2>2. CASE q.state \in {"free", "leased", "out"} /\ lease[d].state \in {"free", "out"}
    BY <1>1, <1>5, <1>12, <1>13, <2>2 DEF InPool
  <2>3. CASE q.state \notin {"free", "leased", "out"}
    BY <1>5, <2>3 DEF InPool
  <2> QED
    BY <1>3, <1>7, <2>1, <2>2, <2>3
<1>15. \A e \in Device : Fenced(e)' /\ InPool(e)'
  BY <1>6, <1>11, <1>14, OtherDevice DEF Inv
<1>16. /\ Offered' /\ Reported'
       /\ \A l \in Loop : TakenUp(l)'
       /\ \A r \in (pending \cup net)' : Answered(r)'
  <2>1. ASSUME NEW e \in Device
        PROVE  /\ \A f \in Nat : Over(e, f) => Over(e, f)'
               /\ lease'[e].fence = lease[e].fence \/ \A f \in Nat : Over(e, f) => f # lease'[e].fence
               /\ lease'[e].fence = lease[e].fence /\ lease[e].state # "leased" =>
                    (Sealed(e) => Sealed(e)') /\ (Emptied(e) => Emptied(e)')
    <3>1. CASE e = d
      BY <1>5, <1>9, <1>10, <1>12, <1>13, <3>1
    <3>2. CASE e # d
      BY <1>6, <3>2, OtherDevice
    <3> QED
      BY <3>1, <3>2
  <2> QED
    BY <1>1, <1>5, <2>1, LoopsAndReportsKept DEF Inv
<1> QED
  BY <1>15, <1>16 DEF Inv

-----------------------------------------------------------------------------
LEMMA InitInv == FarmInit => Inv
<1> SUFFICES ASSUME FarmInit PROVE Inv
  OBVIOUS
<1>1. ASSUME NEW d \in Device
      PROVE  /\ lease[d] \in Row /\ lease[d].fence = 0 /\ lease[d].state \in {"free", "out"}
             /\ high[d] = 0 /\ late[d] = {} /\ conns[d] = {} /\ uncut[d] = {}
             /\ Traces(d) = {}
  <2>1. PICK t \in {"free", "out"} : lease[d] = [state |-> t, fence |-> 0, holder |-> Nobody]
    BY DEF FarmInit, Init
  <2> QED
    BY <2>1, LeaseAssumption DEF FarmInit, Row, State, Traces
<1>2. lease \in [Device -> Row]
  BY <1>1 DEF FarmInit, Init
<1>3. \A l \in Loop : loops[l] = Idle
  BY DEF FarmInit
<1>4. TypeOK
  <2>1. Idle \in [todo: Seq(Offer), at: {"next", "wiping", "flushing"}] /\ Idle.at = "next"
    BY DEF Idle
  <2>2. loops \in [Loop -> [todo: Seq(Offer), at: {"next", "wiping", "flushing"}]]
    BY <2>1 DEF FarmInit
  <2>3. high \in [Device -> 0..MaxFence + 1]
    BY LeaseAssumption DEF FarmInit
  <2>4. \A l \in Loop : loops[l].at = "next"
    BY <1>3, <2>1
  <2>5. /\ late \in [Device -> SUBSET Fence] /\ conns \in [Device -> SUBSET Fence]
        /\ taint \in [Device -> SUBSET Fence] /\ uncut \in [Device -> SUBSET Fence]
        /\ under \in [Device -> SUBSET Fence]
    BY DEF FarmInit
  <2>6. pending \subseteq Report /\ net \subseteq Report /\ escalated \subseteq Device
    BY DEF FarmInit
  <2> QED
    BY <1>2, <2>2, <2>3, <2>4, <2>5, <2>6 DEF TypeOK
<1>5. \A d \in Device : Fenced(d) /\ InPool(d)
  <2> SUFFICES ASSUME NEW d \in Device PROVE Fenced(d) /\ InPool(d)
    OBVIOUS
  <2>1. lease[d].state \notin Owing \cup {"leased"}
    BY <1>1 DEF Owing
  <2>2. high[d] <= lease[d].fence + 1
    BY <1>1
  <2>3. late[d] = {} /\ conns[d] = {} /\ Traces(d) = {}
    BY <1>1
  <2> QED
    BY <2>1, <2>2, <2>3 DEF Fenced, InPool, Sealed, Emptied, Traces
<1>6. Offered /\ \A l \in Loop : TakenUp(l)
  BY <1>3 DEF Offered, Offers, TakenUp, Idle
<1>7. pending \cup net = {}
  BY DEF FarmInit
<1> QED
  BY <1>4, <1>5, <1>6, <1>7 DEF Inv, Reported

LEMMA InvStep == Inv /\ [FarmNext]_vars => Inv'
<1> SUFFICES ASSUME Inv, [FarmNext]_vars PROVE Inv'
  OBVIOUS
<1>1. TypeOK /\ Offered /\ TypeOK'
  BY Types DEF Inv
<1>2. ASSUME NEW d \in Device, NEW f \in Fence, Client(d, f) PROVE Inv'
  <2>1. /\ \A e \in Device : Steady(e)
        /\ lease' = lease /\ loops' = loops /\ pending' = pending /\ net' = net
    BY <1>1, <1>2, ClientSteady
  <2> QED
    BY <1>1, <2>1, QuietKeeps
<1>3. CASE Restart
  BY <1>1, <1>3, RestartSteady, QuietKeeps DEF Restart
<1>4. CASE Flush
  BY <1>1, <1>4, Untouched, QuietKeeps DEF Flush, agent, phone, Traces
<1>5. ASSUME NEW r \in net, LoseReport(r) PROVE Inv'
  BY <1>1, <1>5, Untouched, QuietKeeps DEF LoseReport, agent, phone, Traces
<1>6. CASE UNCHANGED vars
  BY <1>1, <1>6, Untouched, QuietKeeps DEF vars, agent, phone, Traces
<1>7. ASSUME NEW d \in Device, Escalate(d) \/ ClearEscalation(d) PROVE Inv'
  BY <1>1, <1>7, Untouched, QuietKeeps
     DEF Escalate, ClearEscalation, agent, phone, Traces
<1> QED
  BY <1>1, <1>2, <1>3, <1>4, <1>5, <1>6, <1>7, ControlPlaneKeeps, WorkingKeeps, EventsKeeps
     DEF FarmNext, Rows

(* Every reachable state satisfies the inductive invariant. *)
THEOREM Invariance == FarmSpec => []Inv
BY InitInv, InvStep, PTL DEF FarmSpec

(* The variables of the agent and of the control plane keep their types. *)
THEOREM TypeCorrect == FarmSpec => []TypeOK
BY Invariance, PTL DEF Inv

(* Whatever beats, loops, reports, restarts and late grants do to each other,  *)
(* a device that is given back to the pool (a reset or a recovery confirmed at *)
(* POST /workers/events) carries nothing of a tenant but what nothing cuts     *)
(* off and what was under way when the last wipe ran.                          *)
THEOREM PoolStaysClean == FarmSpec => []PoolIsClean
<1>1. Inv => PoolIsClean
  BY DEF Inv, InPool, Emptied, PoolIsClean
<1> QED
  BY <1>1, Invariance, PTL

(* Nobody is attached to a leased device but its holder, with the same two     *)
(* exceptions: the fence that runRequestedResets retires, and every client it  *)
(* disconnects, stay out.                                                      *)
THEOREM HolderStaysAlone == FarmSpec => []HolderAlone
<1>1. Inv => HolderAlone
  BY DEF Inv, InPool, Sealed, HolderAlone
<1> QED
  BY <1>1, Invariance, PTL

(* acceptFence never refuses the holder of a device its own grant.             *)
THEOREM HolderGetsIn == FarmSpec => []HolderIsLetIn
<1>1. Inv => HolderIsLetIn
  BY DEF Inv, Fenced, HolderIsLetIn
<1> QED
  BY <1>1, Invariance, PTL

=============================================================================
