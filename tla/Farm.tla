-------------------------------- MODULE Farm --------------------------------
(***************************************************************************)
(* A host's agent beside the control plane: how a device is emptied of one *)
(* tenant before another is let in.                                        *)
(*                                                                         *)
(* The control plane is Lease.  Its beats offer the resets and recoveries  *)
(* that are due; the agent works through each answer in a loop of its own, *)
(* and a new beat starts a new loop whether or not the last one is done.   *)
(* What it has to report waits in memory until a flush is answered.  Beats,*)
(* reports and answers may be late or lost, and the agent may restart at   *)
(* any time, with no memory.                                               *)
(*                                                                         *)
(* A tenant is known by the fence of its lease.  A grant is verified by    *)
(* the agent alone, and outlives its lease by up to two minutes.  What a   *)
(* tenant was let do is not cut off with it: a command on its way through  *)
(* the gateway, an input that waits its turn or an action of an app under  *)
(* way is carried out when its time comes, whatever happened since.        *)
(***************************************************************************)
EXTENDS Lease, Sequences, FiniteSets, SequencesExt

CONSTANT Loop     \* the reset loops that may run at one time

ASSUME FarmAssumption == IsFiniteSet(Device)

Fence == 1..MaxFence

VARIABLES
  high,     \* fenceHighWater
  loops,    \* the runRequestedResets calls: what each has yet to do, and where it is
  pending,  \* pendingResets and pendingRecoveries
  net,      \* reports on their way to the control plane
  late,     \* the fences of ended leases whose grants have not expired
  conns,    \* the fences of the clients attached to a device
  taint,    \* the fences of the tenants whose data is on a device
  under,    \* the fences whose commands, inputs or app actions were under way
            \* when the device was last wiped, and that the wipe did not end;
            \* those of uncut are not told apart
  escalated, \* the devices with reset_escalated_at
  uncut     \* history: the fences of ended leases that nothing cuts off any more:
            \* their grants outlived the agent's memory, or their device was put
            \* aside before its reset was confirmed

agent == <<high, loops, pending, conns>>
phone == <<taint, under>>
vars == <<lease, agent, net, late, phone, escalated, uncut>>

(* recovery marks the offer of a device that is PREPARING. *)
Offer == [device: Device, fence: Fence, recovery: BOOLEAN]

Report == [device: Device, fence: Fence, kind: {"reset", "recovered", "failed"}]

(* at says where a loop is with the first of its offers: not begun, about to *)
(* wipe the device, or waiting for the flush that reports it.                *)
Idle == [todo |-> <<>>, at |-> "next"]

TypeOK ==
  /\ lease \in [Device -> Row]
  /\ high \in [Device -> 0..MaxFence + 1]
  /\ loops \in [Loop -> [todo: Seq(Offer), at: {"next", "wiping", "flushing"}]]
  /\ \A l \in Loop : loops[l].at # "next" => loops[l].todo # <<>>
  /\ pending \subseteq Report /\ net \subseteq Report
  /\ late \in [Device -> SUBSET Fence]
  /\ conns \in [Device -> SUBSET Fence]
  /\ taint \in [Device -> SUBSET Fence]
  /\ under \in [Device -> SUBSET Fence]
  /\ escalated \subseteq Device
  /\ uncut \in [Device -> SUBSET Fence]

FarmInit ==
  /\ Init
  /\ high = [d \in Device |-> 0]
  /\ loops = [l \in Loop |-> Idle]
  /\ pending = {} /\ net = {}
  /\ late = [d \in Device |-> {}]
  /\ conns = [d \in Device |-> {}]
  /\ taint = [d \in Device |-> {}]
  /\ under = [d \in Device |-> {}]
  /\ escalated = {}
  /\ uncut = [d \in Device |-> {}]

-----------------------------------------------------------------------------
(* The control plane. *)

(* A device moves as its lease may, except where a worker has to say so. The *)
(* grants of a lease that ends stay good until they expire.  A recovery is    *)
(* authorised with a fresh budget.                                            *)
Unaided(r) ==
  {q \in Moves(r) : /\ q.fence <= MaxFence
                    /\ ~(r.state \in {"dirty", "preparing"} /\ q.state = "free")}

ControlPlane(d) ==
  \E q \in Unaided(lease[d]) :
    /\ \A e \in Device \ {d} : q.holder = Nobody \/ lease[e].holder # q.holder
    /\ lease' = [lease EXCEPT ![d] = q]
    /\ late' = IF lease[d].state = "leased"
               THEN [late EXCEPT ![d] = @ \cup {lease[d].fence}] ELSE late
    /\ uncut' = IF q.state = "out" /\ lease[d].state \in Owing
                THEN [uncut EXCEPT ![d] = @ \cup 1..lease[d].fence] ELSE uncut
    /\ escalated' = IF q.state = "preparing" /\ q.fence > lease[d].fence
                    THEN escalated \ {d} ELSE escalated
    /\ UNCHANGED <<agent, net, phone>>

(* The budget of a device's resets is spent ... *)
Escalate(d) ==
  /\ lease[d].state = "dirty"
  /\ escalated' = escalated \cup {d}
  /\ UNCHANGED <<lease, agent, net, late, phone, uncut>>

(* ... until a person gives it another. *)
ClearEscalation(d) ==
  /\ d \in escalated
  /\ escalated' = escalated \ {d}
  /\ UNCHANGED <<lease, agent, net, late, phone, uncut>>

(* A reset confirmation frees a dirty device at its own fence; one for a      *)
(* device that is preparing fails the recovery.  A recovery's verdict is      *)
(* taken from a device that is preparing, at its own fence.  Whatever frees a *)
(* device ends its escalation.                                                *)
Verdict(r, report) ==
  CASE r.fence = report.fence /\ r.state = "dirty" /\ report.kind = "reset"
         -> Becomes(r, "free")
    [] r.fence = report.fence /\ r.state = "preparing"
         -> Becomes(r, IF report.kind = "recovered" THEN "free" ELSE "judged")
    [] OTHER -> r

(* POST /workers/events, one report of the batch.  The answer drops the report *)
(* from what waits; a lost or late answer leaves it there, to be sent again.   *)
Events(report) ==
  /\ report \in net
  /\ net' = net \ {report}
  /\ lease' = [lease EXCEPT ![report.device] = Verdict(@, report)]
  /\ escalated' = IF lease'[report.device].state = "free"
                  THEN escalated \ {report.device} ELSE escalated
  /\ pending' \in {pending, pending \ {report}}
  /\ UNCHANGED <<high, loops, conns, late, phone, uncut>>

(* What a beat offers: a device whose budget is spent is not. *)
Due == {d \in Device : lease[d].state \in {"dirty", "preparing"} /\ d \notin escalated}

OfferOf(d) == [device |-> d, fence |-> lease[d].fence,
               recovery |-> lease[d].state = "preparing"]

-----------------------------------------------------------------------------
(* The agent. *)

(* A beat: the control plane lists what is due, in any order.  The answer     *)
(* becomes a loop of the agent when it arrives.                               *)
Heartbeat(l) ==
  /\ loops[l] = Idle
  /\ Due # {}
  /\ \E order \in SetToSeqs(Due) :
       loops' = [loops EXCEPT ![l].todo = [i \in DOMAIN order |-> OfferOf(order[i])]]
  /\ UNCHANGED <<lease, high, pending, conns, net, late, phone, escalated, uncut>>

(* Mutant: a device whose fence was retired once counts as being reset. *)
BusyOnceRetired(d) == high[d] > lease[d].fence

(* resetsInFlight *)
Busy(d) == \E l \in Loop : loops[l].at # "next" /\ Head(loops[l].todo).device = d

(* The rest of a loop's offers. *)
Onward(l) == [todo |-> Tail(loops[l].todo), at |-> "next"]

(* Mutant: the fence of the next lease is retired too. *)
RetiredHigh(d, f) == IF f + 2 > high[d] THEN f + 2 ELSE high[d]

(* Mutant: the grant of the ended lease itself is left good. *)
RetiredLow(d, f) == IF f > high[d] THEN f ELSE high[d]

(* retireFence: the fence of the ended lease, and all before it, are refused. *)
Retired(d, f) == IF f + 1 > high[d] THEN f + 1 ELSE high[d]

(* runRequestedResets takes up its next offer: the fence is retired and every *)
(* client of the device is cut off, whatever follows; a device that another   *)
(* loop is resetting is passed over.                                          *)
TakeUp(l) ==
  /\ loops[l].at = "next" /\ loops[l].todo # <<>>
  /\ LET o == Head(loops[l].todo) IN
     /\ high' = [high EXCEPT ![o.device] = Retired(o.device, o.fence)]
     /\ conns' = [conns EXCEPT ![o.device] = {}]
     /\ loops' = [loops EXCEPT ![l] = IF Busy(o.device) THEN Onward(l)
                                      ELSE [@ EXCEPT !.at = "wiping"]]
  /\ UNCHANGED <<lease, pending, net, late, phone, escalated, uncut>>

(* resetToSnapshot and what follows it: the device is wiped and the outcome   *)
(* waits to be reported, by a flush this loop waits for.  A recovery that      *)
(* wiped the device may still find it unfit.  Nothing stops what tenants have  *)
(* under way meanwhile: a command that the gateway proxies, an input that      *)
(* waits in its connection's queue, an app action past its check.              *)
Wipe(l) ==
  /\ loops[l].at = "wiping"
  /\ LET o == Head(loops[l].todo) IN
     /\ \E kind \in IF o.recovery THEN {"recovered", "failed"} ELSE {"reset"} :
          pending' = pending \cup {[device |-> o.device, fence |-> o.fence, kind |-> kind]}
     /\ taint' = [taint EXCEPT ![o.device] = {}]
     /\ \E S \in SUBSET ((taint[o.device] \cup under[o.device]) \ uncut[o.device]) :
          under' = [under EXCEPT ![o.device] = S]
     /\ loops' = [loops EXCEPT ![l].at = "flushing"]
  /\ UNCHANGED <<lease, high, conns, net, late, escalated, uncut>>

(* Mutant: a reset that failed is reported like one that did not. *)
WipeFailsQuietly(l) ==
  /\ loops[l].at = "wiping"
  /\ LET o == Head(loops[l].todo) IN
     /\ pending' = pending \cup {[device |-> o.device, fence |-> o.fence,
                                  kind |-> IF o.recovery THEN "failed" ELSE "reset"]}
     /\ loops' = [loops EXCEPT ![l].at = "flushing"]
  /\ UNCHANGED <<lease, high, conns, net, late, phone, escalated, uncut>>

(* The wipe fails: a reset is dropped, to be offered again; a recovery reports *)
(* its failure.                                                                *)
WipeFails(l) ==
  /\ loops[l].at = "wiping"
  /\ LET o == Head(loops[l].todo) IN
     IF o.recovery
     THEN /\ pending' = pending \cup {[device |-> o.device, fence |-> o.fence, kind |-> "failed"]}
          /\ loops' = [loops EXCEPT ![l].at = "flushing"]
     ELSE /\ loops' = [loops EXCEPT ![l] = Onward(l)]
          /\ UNCHANGED pending
  /\ UNCHANGED <<lease, high, conns, net, late, phone, escalated, uncut>>

(* flush, of a loop or of the timer: what waits is sent, and goes on waiting. *)
Flush ==
  /\ pending # {}
  /\ net' = net \cup pending
  /\ UNCHANGED <<lease, agent, late, phone, escalated, uncut>>

(* The flush a loop waits for is over, answered or not. *)
FlushOver(l) ==
  /\ loops[l].at = "flushing"
  /\ loops' = [loops EXCEPT ![l] = Onward(l)]
  /\ UNCHANGED <<lease, high, pending, conns, net, late, phone, escalated, uncut>>

(* The agent's process starts anew.  What it passed on to Appium goes on. *)
Restart ==
  /\ high' = [d \in Device |-> 0]
  /\ loops' = [l \in Loop |-> Idle]
  /\ pending' = {}
  /\ conns' = [d \in Device |-> {}]
  /\ uncut' = [d \in Device |-> uncut[d] \cup late[d]]
  /\ UNCHANGED <<lease, net, late, phone, escalated>>

-----------------------------------------------------------------------------
(* Clients, and the wire. *)

(* A grant that verifies: of the lease in force, or of one that ended lately. *)
Grant(d, f) ==
  \/ lease[d].state = "leased" /\ lease[d].fence = f
  \/ f \in late[d]

(* acceptFence *)
AcceptFence(d, f) == f >= high[d]

(* onHello: the client is attached, at its fence. *)
Hello(d, f) ==
  /\ Grant(d, f) /\ AcceptFence(d, f)
  /\ high' = [high EXCEPT ![d] = f]
  /\ conns' = [conns EXCEPT ![d] = @ \cup {f}]
  /\ UNCHANGED <<lease, loops, pending, net, late, phone, escalated, uncut>>

(* An attached client's inputs, drained from a queue one after another, to the *)
(* end of the queue, closed connection or not ...                              *)
Input(d, f) ==
  /\ f \in conns[d]
  /\ taint' = [taint EXCEPT ![d] = @ \cup {f}]
  /\ UNCHANGED <<lease, agent, net, late, under, escalated, uncut>>

(* ... and WebDriver commands, each authorised on its own and then proxied: the *)
(* device is touched from here on, until the command is over.                   *)
Command(d, f) ==
  /\ Grant(d, f) /\ AcceptFence(d, f)
  /\ high' = [high EXCEPT ![d] = f]
  /\ taint' = [taint EXCEPT ![d] = @ \cup {f}]
  /\ UNCHANGED <<lease, loops, pending, conns, net, late, under, escalated, uncut>>

(* What a wipe did not end goes on, whatever became of its lease, its grant and *)
(* its connection.                                                              *)
GoOn(d, f) ==
  /\ f \in under[d]
  /\ taint' = [taint EXCEPT ![d] = @ \cup {f}]
  /\ UNCHANGED <<lease, agent, net, late, under, escalated, uncut>>

Leave(d, f) ==
  /\ f \in conns[d]
  /\ conns' = [conns EXCEPT ![d] = @ \ {f}]
  /\ UNCHANGED <<lease, high, loops, pending, net, late, phone, escalated, uncut>>

Expire(d, f) ==
  /\ f \in late[d]
  /\ late' = [late EXCEPT ![d] = @ \ {f}]
  /\ UNCHANGED <<lease, agent, net, phone, escalated, uncut>>

(* A report is lost on the way. *)
LoseReport(report) ==
  /\ report \in net
  /\ net' = net \ {report}
  /\ UNCHANGED <<lease, agent, late, phone, escalated, uncut>>

-----------------------------------------------------------------------------
Working(l) == Heartbeat(l) \/ TakeUp(l) \/ Wipe(l) \/ WipeFails(l) \/ FlushOver(l)

Client(d, f) ==
  \/ Hello(d, f) \/ Input(d, f) \/ Command(d, f) \/ GoOn(d, f)
  \/ Leave(d, f) \/ Expire(d, f)

Rows(d) == ControlPlane(d) \/ Escalate(d) \/ ClearEscalation(d)

FarmNext ==
  \/ \E d \in Device : Rows(d) \/ \E f \in Fence : Client(d, f)
  \/ \E l \in Loop : Working(l)
  \/ Flush \/ Restart
  \/ \E r \in net : Events(r) \/ LoseReport(r)

FarmSpec == FarmInit /\ [][FarmNext]_vars

(* Beats and flushes run on timers for ever; a loop goes on; a reset does not *)
(* fail every time, a report is not lost every time, and the agent does not   *)
(* restart for ever.                                                          *)
Confirmed(d) ==
  \E r \in net : /\ r.device = d /\ r.fence = lease[d].fence /\ r.kind = "reset"
                 /\ Events(r)

Timers ==
  /\ WF_vars(\E l \in Loop : Heartbeat(l))
  /\ \A l \in Loop : WF_vars(TakeUp(l) \/ FlushOver(l)) /\ SF_vars(Wipe(l))
  /\ WF_vars(Flush)
  /\ \A d \in Device : SF_vars(Confirmed(d))
  /\ <>[][~Restart]_vars

FairFarm == FarmSpec /\ Timers

-----------------------------------------------------------------------------
(* A device in the pool carries nothing of a tenant, except what was put      *)
(* aside before its reset was confirmed, what a client did with a grant that  *)
(* outlived a restart of the agent ("it would be driving a device that has    *)
(* since been reset and handed to a different tenant", acceptFence), or what  *)
(* was under way when the last wipe ran, which nothing stops.                 *)
PoolIsClean ==
  \A d \in Device :
    lease[d].state = "free" => taint[d] \subseteq uncut[d] \cup under[d]

(* Nobody but the holder is attached to a leased device, with the same two    *)
(* exceptions: "could have gone on touching it, under whoever held it next"   *)
(* (runRequestedResets).                                                      *)
HolderAlone ==
  \A d \in Device :
    lease[d].state = "leased" =>
      conns[d] \subseteq {lease[d].fence} \cup uncut[d]

(* A holder is never refused its own device: the mark that retired the last   *)
(* lease, or the recovery before this one, is not above the new fence.        *)
HolderIsLetIn ==
  \A d \in Device : lease[d].state = "leased" => high[d] <= lease[d].fence

(* "A reset is the end of a lease ... the one moment both a live-view session *)
(* and a WebDriver-only one are certainly over" (runRequestedResets): no loop *)
(* is about to wipe a device that a tenant holds (of a device that was put    *)
(* aside nothing is asked here).                                              *)
ResetAfterLease ==
  \A l \in Loop :
    loops[l].at = "wiping" =>
      LET o == Head(loops[l].todo) IN
      lease[o.device].state # "leased" \/ o.fence \in uncut[o.device]

(* "The next beat brings the request back for free" (runRequestedResets): a   *)
(* reset that failed, was passed over, was lost with the agent's memory or    *)
(* was not heard of is run again, until the control plane has taken its       *)
(* confirmation, the device has left its hands some other way, or the budget  *)
(* is spent and a person is told.                                             *)
DirtyIsEmptied ==
  \A d \in Device :
    lease[d].state = "dirty" ~> lease[d].state # "dirty" \/ d \in escalated

=============================================================================
