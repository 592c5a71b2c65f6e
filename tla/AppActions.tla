----------------------------- MODULE AppActions -----------------------------
(***************************************************************************)
(* What a tenant asks to be done on its device: install, launch, uninstall,*)
(* capture.  A request is a row that each beat offers until it is settled; *)
(* the agent performs it, reports the outcome with a flush, and whoever    *)
(* asked polls the row.                                                    *)
(*                                                                         *)
(* One device passes from lease to lease.  A loop of the agent works       *)
(* through one answer of a beat; loops overlap.  Reports and answers may   *)
(* be lost, and the agent may restart with no memory.                      *)
(***************************************************************************)
EXTENDS Naturals, FiniteSets, Sequences, SequencesExt

CONSTANTS
  MaxActions,   \* bound on the requests, numbered in the order of requested_at
  MaxFence,     \* bound on the leases
  OfferLimit,   \* the most a beat offers (LIMIT 10)
  Loop,         \* the runRequestedActions calls that may run at one time
  MaxRuns       \* bound on how often one action is performed

ASSUME AppActionsAssumption ==
  MaxActions \in Nat /\ MaxFence \in Nat \ {0} /\ OfferLimit \in Nat \ {0} /\ MaxRuns \in Nat

Action == 1..MaxActions

VARIABLES
  fence,    \* the device's fence
  stage,    \* its lease is live, ended, or confirmed as reset
  rows,     \* app_actions, in the order they were asked for
  told,     \* what whoever waits for an action has been told
  high,     \* the agent's fenceHighWater for the device
  loops,    \* what each loop has yet to do, and where it is with the first
  pending,  \* pendingActions
  net,      \* reports on their way
  ran,      \* history: how often each action was performed
  astray,   \* history: the actions performed on another tenant's device
  caught,   \* history: the actions under way when their lease was retired
  stale     \* history: the actions offered or run whose outcome the agent let go of

agent == <<high, loops, pending>>
history == <<ran, astray, caught, stale>>
vars == <<fence, stage, rows, told, agent, net, history>>

Settled == {"DONE", "FAILED"}

AppAction == [fence: 1..MaxFence, state: Settled \cup {"PENDING"}]

Report == [action: Action, ok: BOOLEAN]

Idle == [todo |-> <<>>, at |-> "next"]

TypeOK ==
  /\ fence \in 1..MaxFence
  /\ stage \in {"live", "ended", "reset"}
  /\ rows \in Seq(AppAction) /\ Len(rows) <= MaxActions
  /\ \A a \in DOMAIN rows : rows[a].fence <= fence
  /\ told \in [Action -> Settled \cup {"nothing", "gave up"}]
  /\ high \in 0..fence + 1
  /\ loops \in [Loop -> [todo: Seq(Action), at: {"next", "running", "flushing"}]]
  /\ \A l \in Loop : /\ loops[l].at # "next" => loops[l].todo # <<>>
                     /\ ToSet(loops[l].todo) \subseteq DOMAIN rows
                     /\ Len(loops[l].todo) <= OfferLimit
  /\ pending \subseteq Report /\ net \subseteq Report
  /\ ran \in [Action -> 0..MaxRuns]
  /\ astray \subseteq Action /\ caught \subseteq Action /\ stale \subseteq Action

Init ==
  /\ fence = 1 /\ stage = "live"
  /\ rows = <<>>
  /\ told = [a \in Action |-> "nothing"]
  /\ high = 0
  /\ loops = [l \in Loop |-> Idle]
  /\ pending = {} /\ net = {}
  /\ ran = [a \in Action |-> 0]
  /\ astray = {} /\ caught = {} /\ stale = {}

Running == {Head(loops[l].todo) : l \in {k \in Loop : loops[k].at = "running"}}

Held(l) == IF loops[l].at = "next" THEN ToSet(loops[l].todo)
           ELSE ToSet(Tail(loops[l].todo))

-----------------------------------------------------------------------------
(* The control plane. *)

(* requestAppAction: the row is of a live session, at the fence of its lease. *)
Requested == IF stage = "live" THEN Append(rows, [fence |-> fence, state |-> "PENDING"])
             ELSE rows

(* POST /sessions/:id/app-actions: a request that inserts nothing is refused. *)
RequestAppAction ==
  /\ Len(rows) < MaxActions
  /\ Requested # rows
  /\ rows' = Requested
  /\ UNCHANGED <<fence, stage, told, agent, net, history>>

(* awaitAppAction: the waiter is told what the row says once it is settled, *)
(* and gives up at its deadline or when its own caller has left.            *)
AwaitAppAction(a) ==
  /\ a \in DOMAIN rows /\ told[a] = "nothing"
  /\ told' = [told EXCEPT ![a] = IF rows[a].state = "PENDING" THEN "gave up"
                                 ELSE rows[a].state]
  /\ UNCHANGED <<fence, stage, rows, agent, net, history>>

EndLease ==
  /\ stage = "live" /\ stage' = "ended"
  /\ UNCHANGED <<fence, rows, told, agent, net, history>>

NextLease ==
  /\ stage = "reset" /\ fence < MaxFence
  /\ stage' = "live" /\ fence' = fence + 1
  /\ UNCHANGED <<rows, told, agent, net, history>>

(* Mutant: only the actions of a device's earlier holders are orphans. *)
OrphansReplaced == {a \in DOMAIN rows : rows[a].state = "PENDING" /\ rows[a].fence < fence}

(* The sweep of reap(): an action whose session is over is settled. *)
Orphans == {a \in DOMAIN rows : /\ rows[a].state = "PENDING"
                                /\ ~(stage = "live" /\ rows[a].fence = fence)}

Sweep ==
  /\ Orphans # {}
  /\ rows' = [a \in DOMAIN rows |->
                IF a \in Orphans THEN [rows[a] EXCEPT !.state = "FAILED"] ELSE rows[a]]
  /\ UNCHANGED <<fence, stage, told, agent, net, history>>

(* Mutant: a late outcome overwrites the one already given. *)
RecordAgain(r, ok) == [r EXCEPT !.state = IF ok THEN "DONE" ELSE "FAILED"]

(* What an outcome does to its row: only the first one counts. *)
Record(r, ok) ==
  IF r.state = "PENDING" THEN [r EXCEPT !.state = IF ok THEN "DONE" ELSE "FAILED"] ELSE r

(* POST /workers/events, one outcome of the batch.  The answer drops it from  *)
(* what waits, taken or not; a lost or late answer leaves it to be sent again.*)
Events(r) ==
  /\ r \in net
  /\ net' = net \ {r}
  /\ rows' = [rows EXCEPT ![r.action] = Record(@, r.ok)]
  /\ \/ UNCHANGED <<pending, stale>>
     \/ /\ pending' = pending \ {r}
        /\ stale' = IF \E l \in Loop : r.action \in Held(l)
                    THEN stale \cup {r.action} ELSE stale
  /\ UNCHANGED <<fence, stage, told, high, loops, ran, astray, caught>>

(* What a beat offers: the oldest pending actions of the lease in force, in   *)
(* the order they were asked for.                                             *)
Due == {a \in DOMAIN rows : /\ rows[a].state = "PENDING"
                            /\ stage = "live" /\ rows[a].fence = fence}

Offered(todo) ==
  /\ \A i, j \in DOMAIN todo : i < j => todo[i] < todo[j]
  /\ \A a \in Due \ ToSet(todo), i \in DOMAIN todo : todo[i] < a

OfferCount == IF Cardinality(Due) < OfferLimit THEN Cardinality(Due) ELSE OfferLimit

-----------------------------------------------------------------------------
(* The agent. *)

Heartbeat(l) ==
  /\ loops[l] = Idle
  /\ Due # {}
  /\ \E todo \in [1..OfferCount -> Due] :
       Offered(todo) /\ loops' = [loops EXCEPT ![l].todo = todo]
  /\ UNCHANGED <<fence, stage, rows, told, high, pending, net, history>>

Onward(l) == [todo |-> Tail(loops[l].todo), at |-> "next"]

(* Mutant: an outcome that waits to be reported does not hold its action back. *)
PassedOverRunning(a) == a \in Running

(* actionsInFlight, and the outcomes that wait for their flush. *)
PassedOver(a) == a \in Running \/ \E r \in pending : r.action = a

(* Mutant: the beat's own check of the fence is trusted. *)
AcceptAnyFence(f) == TRUE

(* acceptFence *)
AcceptFence(f) == f >= high

(* runRequestedActions takes up its next request. *)
TakeUp(l) ==
  /\ loops[l].at = "next" /\ loops[l].todo # <<>>
  /\ LET a == Head(loops[l].todo)
         f == rows[a].fence
     IN  \/ /\ PassedOver(a)
            /\ loops' = [loops EXCEPT ![l] = Onward(l)]
            /\ UNCHANGED <<high, pending>>
         \/ /\ ~PassedOver(a) /\ ~AcceptFence(f)
            /\ pending' = pending \cup {[action |-> a, ok |-> FALSE]}
            /\ loops' = [loops EXCEPT ![l].at = "flushing"]
            /\ UNCHANGED high
         \/ /\ ~PassedOver(a) /\ AcceptFence(f)
            /\ high' = f
            /\ loops' = [loops EXCEPT ![l].at = "running"]
            /\ UNCHANGED pending
  /\ UNCHANGED <<fence, stage, rows, told, net, history>>

(* performAction, to its end: the device has been acted on, or it has not. *)
PerformAction(l) ==
  /\ loops[l].at = "running"
  /\ LET a == Head(loops[l].todo) IN
     \E ok \in BOOLEAN :
       /\ ok => ran[a] < MaxRuns
       /\ pending' = pending \cup {[action |-> a, ok |-> ok]}
       /\ ran' = IF ok THEN [ran EXCEPT ![a] = @ + 1] ELSE ran
       /\ astray' = IF ok /\ rows[a].fence < fence THEN astray \cup {a} ELSE astray
  /\ loops' = [loops EXCEPT ![l].at = "flushing"]
  /\ UNCHANGED <<fence, stage, rows, told, high, net, caught, stale>>

(* flush, of a loop or of the timer. *)
Flush ==
  /\ pending # {}
  /\ net' = net \cup pending
  /\ UNCHANGED <<fence, stage, rows, told, agent, history>>

FlushOver(l) ==
  /\ loops[l].at = "flushing"
  /\ loops' = [loops EXCEPT ![l] = Onward(l)]
  /\ UNCHANGED <<fence, stage, rows, told, high, pending, net, history>>

LoseReport(r) ==
  /\ r \in net
  /\ net' = net \ {r}
  /\ UNCHANGED <<fence, stage, rows, told, agent, history>>

(* retireFence *)
Retired == IF fence + 1 > high THEN fence + 1 ELSE high

(* The reset that follows a lease: its fence is retired before anything else, *)
(* and the control plane has taken its confirmation.                          *)
Reset ==
  /\ stage = "ended"
  /\ stage' = "reset"
  /\ high' = Retired
  /\ caught' = caught \cup Running
  /\ UNCHANGED <<fence, rows, told, loops, pending, net, ran, astray, stale>>

Restart ==
  /\ high' = 0
  /\ loops' = [l \in Loop |-> Idle]
  /\ pending' = {}
  /\ stale' = stale \cup {r.action : r \in pending}
  /\ UNCHANGED <<fence, stage, rows, told, net, ran, astray, caught>>

-----------------------------------------------------------------------------
Agent(l) ==
  Heartbeat(l) \/ TakeUp(l) \/ PerformAction(l) \/ FlushOver(l)

Next ==
  \/ RequestAppAction \/ EndLease \/ NextLease \/ Sweep
  \/ Flush \/ Reset \/ Restart
  \/ \E a \in Action : AwaitAppAction(a)
  \/ \E l \in Loop : Agent(l)
  \/ \E r \in net : Events(r) \/ LoseReport(r)

Spec == Init /\ [][Next]_vars

(* Beats, flushes and the reaper's sweep run on timers for ever, an action    *)
(* ends one way or the other, a report is not lost every time and the agent   *)
(* does not restart for ever.                                                 *)
Reported(a) == \E r \in net : r.action = a /\ Events(r)

Timers ==
  /\ WF_vars(\E l \in Loop : Heartbeat(l))
  /\ \A l \in Loop : WF_vars(TakeUp(l) \/ PerformAction(l) \/ FlushOver(l))
  /\ WF_vars(Flush) /\ WF_vars(Sweep)
  /\ \A a \in Action : SF_vars(Reported(a))
  /\ <>[][~Restart]_vars

FairSpec == Spec /\ Timers

-----------------------------------------------------------------------------
(* Whoever was told how an action ended was told the truth, for good: DONE is *)
(* of an action that a device was made to perform, and no later report, sweep *)
(* or second run turns one answer into the other.                             *)
ToldTheTruth ==
  \A a \in Action :
    /\ told[a] \in Settled => rows[a].state = told[a]
    /\ told[a] = "DONE" => ran[a] > 0

(* "Second lock on a device that has been reallocated since this beat was     *)
(* built" (runRequestedActions): an action acts on a later tenant's device    *)
(* only when it was already under way as its own lease was retired.           *)
StraysOnlyIfCaught == astray \subseteq caught

(* An action is performed again only when the agent has let go of its outcome *)
(* while the offer was still held: by a restart, or by an answer taken while  *)
(* another loop had the action ahead of it.                                   *)
RunsAgainOnlyIfStale == \A a \in Action : ran[a] > 1 => a \in stale

(* No request is left without an outcome: "a caller polling the action waits  *)
(* on a job no worker will ever be told about" (reap).                        *)
EveryActionSettles ==
  \A a \in Action :
    (a \in DOMAIN rows) ~> (a \in DOMAIN rows /\ rows[a].state \in Settled)

=============================================================================
