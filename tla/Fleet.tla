------------------------------- MODULE Fleet -------------------------------
(***************************************************************************)
(* The control plane of the device farm: the rows of hosts, devices and    *)
(* sessions, the SQL functions that are the only writers of those rows,    *)
(* and the handlers and the reaper that call them.                         *)
(*                                                                         *)
(* A SQL function is an operator from a database to a database and keeps   *)
(* its name; an action is a whole handler and composes the functions it    *)
(* calls in the order of the code.  The workers are not modelled here: any *)
(* registered host may report anything, at any time, with any fence it     *)
(* could ever have been told.                                              *)
(*                                                                         *)
(* Time is abstract.  A lease, a recovery or the grace of a stop may be    *)
(* over whenever the reaper or a beat looks at it; a host's silence is     *)
(* kept as a level, and a reset's age as young or due.                     *)
(***************************************************************************)
EXTENDS Naturals, FiniteSets

CONSTANTS
  Host,         \* the machines
  Device,       \* the handsets and emulators, each on one machine
  Org,          \* the tenants
  Session,      \* the session rows that may ever be created
  NoDevice,     \* the device of a session that has none (SQL NULL)
  HostOf,       \* devices.host_id
  OrgOf,        \* sessions.org_id
  Fits,         \* the devices whose region, class and org pin match a request
  WebDriver,    \* the sessions driven through the WebDriver hub
  MaxConcurrent, \* orgs.max_concurrent
  MaxResetAttempts, \* the reset budget
  MaxFence,     \* bound on devices.fence
  MaxAsked,     \* bound on operators' requests between check and change
  Features      \* which of the optional operations take part

(* What an instance may leave out; every theorem holds for any of the       *)
(* subsets.  Without "renew" the age of a reset is not kept, and any reset   *)
(* may be overdue at any tick.                                               *)
AllFeatures ==
  {"stop", "retire", "away", "drop", "unfit", "forget", "recover", "renew"}

ASSUME FleetAssumption ==
  /\ IsFiniteSet(Session)
  /\ HostOf \in [Device -> Host]
  /\ OrgOf \in [Session -> Org]
  /\ Fits \in [Session -> SUBSET Device]
  /\ WebDriver \subseteq Session
  /\ MaxConcurrent \in [Org -> Nat]
  /\ MaxResetAttempts \in Nat \ {0}
  /\ MaxFence \in Nat
  /\ MaxAsked \in Nat
  /\ NoDevice \notin Device \cup Session
  /\ Features \subseteq AllFeatures

VARIABLE db

vars == <<db>>

-----------------------------------------------------------------------------
(* The rows. *)

(* ABSENT is a device that was never registered.  BOOTING, EVICTED and     *)
(* DRAINING exist as enum values and nothing writes them.                  *)
DeviceState == {"ABSENT", "OFFLINE", "READY", "RESERVED", "SESSION_ACTIVE",
                "CLEANING", "PREPARING", "QUARANTINED"}

Leased == {"RESERVED", "SESSION_ACTIVE"}

(* What quarantine_host and mark_host_down take out of circulation. *)
Collapsible == {"READY", "OFFLINE", "CLEANING", "PREPARING"}

SessionState == {"NONE", "QUEUED", "ALLOCATING", "ACTIVE", "ENDED"}

Live == {"ALLOCATING", "ACTIVE"}

(* source is quarantine_source; stopping is a stop-host operation inside    *)
(* its grace; quiet is the age of the last beat: 0 inside the silence       *)
(* timeout, 1 past it but inside the reset timeout, 2 past every timeout.   *)
HostRow == [state: {"UP", "QUARANTINED", "DOWN"},
            source: {"none", "reaper", "operator"},
            retired: BOOLEAN, stopping: BOOLEAN, quiet: 0..2]

(* from is quarantined_from, away is away_since, forgotten is retired_at,   *)
(* escalated is reset_escalated_at.  age is that of the reset attempt under *)
(* way, from last_reset_attempt_at or, before the first was counted, from   *)
(* updated_at; renewed is young again, through a write that had nothing to  *)
(* do with the reset.  The last four fields are history: a tenant has held  *)
(* the device since a worker last confirmed a reset; the last registration  *)
(* of its host listed it; a registration withdrew it while its host's       *)
(* quarantine was holding it; a second promotion of its session gave that   *)
(* session another device, and nothing will release this one.               *)
Age == {"young", "renewed", "due"}

DeviceRow == [state: DeviceState, fence: 0..MaxFence,
              from: Collapsible \cup {"none"},
              source: {"none", "operator", "health", "host"},
              away: BOOLEAN, forgotten: BOOLEAN,
              attempts: 0..MaxResetAttempts, escalated: BOOLEAN, age: Age,
              used: BOOLEAN, listed: BOOLEAN, lost: BOOLEAN, orphan: BOOLEAN]

(* waited is history: the session has been QUEUED, and a tick that read the *)
(* queue then may still have it in hand.                                    *)
SessionRow == [state: SessionState, device: Device \cup {NoDevice},
               fence: 0..MaxFence, waited: BOOLEAN]

(* What has been decided and not yet done: an operator's request whose check  *)
(* has passed, in a transaction of its own, and whose change is made in       *)
(* another; and a host that the sweep has read as silent and is to quarantine. *)
Request == ({"release"} \X Device) \cup ({"drain", "retire", "sweep"} \X Host)

Database == [hosts: [Host -> HostRow], devices: [Device -> DeviceRow],
             sessions: [Session -> SessionRow], asked: SUBSET Request]

(* Every machine has registered; each of its devices is either READY or has *)
(* yet to be plugged in for the first time.                                 *)
Init ==
  \E plugged \in SUBSET Device :
    db = [hosts |-> [h \in Host |-> [state |-> "UP", source |-> "none",
              retired |-> FALSE, stopping |-> FALSE, quiet |-> 0]],
          devices |-> [d \in Device |->
             [state |-> IF d \in plugged THEN "READY" ELSE "ABSENT",
              fence |-> 0, from |-> "none", source |-> "none",
              away |-> FALSE, forgotten |-> FALSE,
              attempts |-> 0, escalated |-> FALSE, age |-> "young",
              used |-> FALSE, listed |-> d \in plugged,
              lost |-> FALSE, orphan |-> FALSE]],
          sessions |-> [s \in Session |-> [state |-> "NONE",
              device |-> NoDevice, fence |-> 0, waited |-> FALSE]],
          asked |-> {}]

-----------------------------------------------------------------------------
(* What the functions do to one row. *)

(* devices.state = 'CLEANING', whatever it was *)
CleanRow(r) == [r EXCEPT !.state = "CLEANING", !.orphan = FALSE]

(* Any write to the row of a CLEANING device renews updated_at, which is its *)
(* reset's age until a first attempt has been counted.                       *)
TouchRow(r) ==
  IF "renew" \in Features /\ r.state = "CLEANING" /\ r.attempts = 0
  THEN [r EXCEPT !.age = IF r.age = "young" THEN "renewed" ELSE "young"]
  ELSE r

(* The collapse of quarantine_host and of mark_host_down. *)
CollapseRow(r) ==
  IF r.state \in Collapsible
  THEN [r EXCEPT !.from = r.state, !.state = "QUARANTINED", !.source = "host",
                 !.age = "young"]
  ELSE r

(* Mutant: everything the cascade took comes back to the pool. *)
RestoreRowToPool(r) ==
  IF r.state = "QUARANTINED" /\ r.from # "none" /\ r.source = "host"
  THEN [r EXCEPT !.state = "READY", !.from = "none", !.source = "none"]
  ELSE r

(* The restore that the three ways back of a host share: only a row the     *)
(* cascade collapsed, and to what it was doing.                             *)
RestoreRow(r) ==
  IF r.state = "QUARANTINED" /\ r.from # "none" /\ r.source = "host"
  THEN [r EXCEPT !.state = r.from, !.from = "none", !.source = "none"]
  ELSE r

(* A device-level quarantine: nothing to restore from. *)
HoldRow(r, source) ==
  [r EXCEPT !.state = "QUARANTINED", !.source = source, !.from = "none",
            !.age = "young", !.orphan = FALSE]

ZeroBudget(r) == [r EXCEPT !.attempts = 0, !.escalated = FALSE, !.age = "young"]

(* A lease, at a new fence. *)
ReserveRow(r) == [r EXCEPT !.state = "RESERVED", !.fence = @ + 1, !.used = TRUE]

(* A worker has confirmed the reset. *)
ResetRow(r) ==
  [r EXCEPT !.state = "READY", !.used = FALSE, !.attempts = 0, !.escalated = FALSE,
            !.age = "young"]

(* A recovery is authorised, at a new fence. *)
PrepareRow(r) ==
  [r EXCEPT !.state = "PREPARING", !.source = "none", !.from = "none",
            !.fence = @ + 1, !.attempts = 0, !.escalated = FALSE]

(* One more reset attempt has run out of time. *)
StallRow(r) ==
  [r EXCEPT !.attempts = @ + 1, !.escalated = (r.attempts + 1 >= MaxResetAttempts),
            !.age = "young"]

OfHost(h) == {d \in Device : HostOf[d] = h}

-----------------------------------------------------------------------------
(* Sessions and leases. *)

LiveOf(base, o) ==
  {s \in Session : base.sessions[s].state \in Live /\ OrgOf[s] = o}

ReadyFor(base, s) == {d \in Fits[s] : base.devices[d].state = "READY"}

(* Mutant: a device is handed over at the fence it had. *)
ReserveSameFence(base, p) ==
  [base EXCEPT
    !.devices = [d \in Device |->
       IF \E s \in DOMAIN p : p[s] = d
       THEN [base.devices[d] EXCEPT !.state = "RESERVED", !.used = TRUE]
       ELSE base.devices[d]],
    !.sessions = [s \in Session |->
       IF s \in DOMAIN p
       THEN [base.sessions[s] EXCEPT !.state = "ALLOCATING", !.device = p[s],
               !.fence = base.devices[p[s]].fence]
       ELSE base.sessions[s]]]

(* Hand each session of p the device p gives it, each at a new fence. *)
Reserve(base, p) ==
  [base EXCEPT
    !.devices = [d \in Device |->
       IF \E s \in DOMAIN p : p[s] = d
       THEN ReserveRow(base.devices[d]) ELSE base.devices[d]],
    !.sessions = [s \in Session |->
       IF s \in DOMAIN p
       THEN [base.sessions[s] EXCEPT !.state = "ALLOCATING", !.device = p[s],
               !.fence = base.devices[p[s]].fence + 1]
       ELSE base.sessions[s]]]

(* End the sessions of S; the devices they hold await a reset. *)
EndSessions(base, S) ==
  [base EXCEPT
    !.sessions = [s \in Session |->
       IF s \in S THEN [base.sessions[s] EXCEPT !.state = "ENDED"] ELSE base.sessions[s]],
    !.devices = [d \in Device |->
       IF \E s \in S : base.sessions[s].device = d
       THEN CleanRow(base.devices[d]) ELSE base.devices[d]]]

(* The client of s has arrived; the device follows where the fence still     *)
(* matches.                                                                  *)
Attach(base, s) ==
  [base EXCEPT
    !.sessions[s].state = "ACTIVE",
    !.devices = [d \in Device |->
       IF d = base.sessions[s].device /\ base.devices[d].fence = base.sessions[s].fence
       THEN [base.devices[d] EXCEPT !.state = "SESSION_ACTIVE"]
       ELSE base.devices[d]]]

(* allocate_device: the org is at its cap, or every READY device that fits  *)
(* is taken or locked by another transaction (SKIP LOCKED): the request     *)
(* waits.  Otherwise one of them is reserved.                               *)
AllocateQueued(base, s) ==
  [base EXCEPT !.sessions[s] = [state |-> "QUEUED", device |-> NoDevice, fence |-> 0,
                                waited |-> TRUE]]

UnderCap(base, o) == Cardinality(LiveOf(base, o)) < MaxConcurrent[o]

(* The sessions a tick may have in hand: every one that has waited, whatever *)
(* became of it since the cursor was opened, but for those (gone) that the   *)
(* tick itself ended before.                                                 *)
InHand(base, gone) == {s \in Session : base.sessions[s].waited} \ gone

(* The UPDATE of a promotion does not ask for the state: the sessions of S    *)
(* are taken for waiting ones, and a device that one of them holds by now is  *)
(* left with nobody to give it back.                                          *)
Recall(base, S) ==
  [base EXCEPT
    !.sessions = [s \in Session |->
       IF s \in S
       THEN [base.sessions[s] EXCEPT !.state = "QUEUED", !.device = NoDevice, !.fence = 0]
       ELSE base.sessions[s]],
    !.devices = [d \in Device |->
       IF \E s \in S : base.sessions[s].state \in Live /\ base.sessions[s].device = d
       THEN [base.devices[d] EXCEPT !.orphan = TRUE] ELSE base.devices[d]]]

(* promote_queued as its loop leaves it: distinct READY devices given to the *)
(* sessions in hand, no more than the limit.  An org's live sessions are     *)
(* counted without the lock that allocate_device takes: every one that       *)
(* another transaction made live may have come after the count, and only the *)
(* promotions of this tick are sure to be counted.                           *)
PromoteLimit == 20

PromoteQueued(base, gone) ==
  LET ready == {d \in Device : base.devices[d].state = "READY"
                               /\ base.devices[d].fence < MaxFence}
  IN  {p \in UNION {[S -> ready] : S \in SUBSET InHand(base, gone)} :
        /\ \A s \in DOMAIN p : p[s] \in Fits[s]
        /\ \A s, t \in DOMAIN p : p[s] = p[t] => s = t
        /\ \A o \in Org :
             Cardinality({s \in DOMAIN p : OrgOf[s] = o}) <= MaxConcurrent[o]
        /\ Cardinality(DOMAIN p) <= PromoteLimit}

-----------------------------------------------------------------------------
(* Devices: resets, quarantine and recovery. *)

(* Mutant: a confirmation is taken whatever the device is doing. *)
ResetAnytime(base, h, d, f) == base.devices[d].fence = f /\ HostOf[d] = h

(* device_reset_complete: host-scoped, fenced, and only out of CLEANING. *)
ResetAccepted(base, h, d, f) ==
  /\ base.devices[d].state = "CLEANING"
  /\ base.devices[d].fence = f
  /\ HostOf[d] = h

DeviceResetComplete(base, d) == [base EXCEPT !.devices[d] = ResetRow(@)]

(* finish_device_recovery: host-scoped, fenced, and only out of PREPARING. *)
RecoveryAccepted(base, h, d, f) ==
  /\ base.devices[d].state = "PREPARING"
  /\ base.devices[d].fence = f
  /\ HostOf[d] = h

FinishDeviceRecovery(base, d, ok) ==
  [base EXCEPT !.devices[d] =
     IF ok THEN ResetRow(@) ELSE HoldRow(@, "health")]

(* quarantine_device: whoever holds the device loses it. *)
QuarantineDevice(base, d) ==
  [base EXCEPT
    !.devices[d] = HoldRow(@, "operator"),
    !.sessions = [s \in Session |->
       IF /\ base.sessions[s].device = d
          /\ base.sessions[s].state \in Live \cup {"QUEUED"}
       THEN [base.sessions[s] EXCEPT !.state = "ENDED"] ELSE base.sessions[s]]]

(* release_device_quarantine: authorises a recovery at a new fence. *)
ReleaseDeviceQuarantine(base, d) == [base EXCEPT !.devices[d] = PrepareRow(@)]

Old(r) == "renew" \in Features => r.age = "due"

(* Mutant: a late beat is taken for a silent host. *)
MayStallInTouch(base) ==
  {d \in Device : /\ base.devices[d].state = "CLEANING"
                  /\ Old(base.devices[d]) /\ ~base.devices[d].escalated
                  /\ base.hosts[HostOf[d]].quiet = 0}

(* count_stalled_resets on the devices of D, whose resets are overdue. *)
MayStall(base) ==
  {d \in Device : /\ base.devices[d].state = "CLEANING"
                  /\ Old(base.devices[d]) /\ ~base.devices[d].escalated
                  /\ base.hosts[HostOf[d]].quiet < 2}

CountStalledResets(base, D) ==
  [base EXCEPT !.devices = [d \in Device |->
     IF d \in D THEN StallRow(base.devices[d]) ELSE base.devices[d]]]

(* expire_stalled_recoveries on the devices of D, whose window has closed. *)
ExpireStalledRecoveries(base, D) ==
  [base EXCEPT !.devices = [d \in Device |->
     IF d \in D THEN HoldRow(base.devices[d], "health") ELSE base.devices[d]]]

-----------------------------------------------------------------------------
(* Hosts: the cascade and the three ways back. *)

Collapse(base, h) ==
  [base EXCEPT !.devices = [d \in Device |->
     IF HostOf[d] = h THEN CollapseRow(base.devices[d]) ELSE base.devices[d]]]

Restore(base, h) ==
  [base EXCEPT !.devices = [d \in Device |->
     IF HostOf[d] = h THEN RestoreRow(base.devices[d]) ELSE base.devices[d]]]

QuarantineHost(base, h, source) ==
  Collapse([base EXCEPT !.hosts[h].state = "QUARANTINED", !.hosts[h].source = source], h)

MarkHostDown(base, h) == Collapse([base EXCEPT !.hosts[h].state = "DOWN"], h)

(* clear_silence_quarantine and release_host_quarantine, told apart by whose *)
(* quarantine they may lift.                                                 *)
LiftQuarantine(base, h, source) ==
  IF base.hosts[h].state = "QUARANTINED" /\ base.hosts[h].source = source
  THEN Restore([base EXCEPT !.hosts[h].state = "UP", !.hosts[h].source = "none"], h)
  ELSE base

ClearSilenceQuarantine(base, h) == LiftQuarantine(base, h, "reaper")

ReleaseHostQuarantine(base, h) == LiftQuarantine(base, h, "operator")

(* Mutant: the host comes back without its devices. *)
LiftHostAlone(base, h) ==
  IF base.hosts[h].state = "DOWN"
  THEN [base EXCEPT !.hosts[h].state = "UP"]
  ELSE base

(* lift_host_down: only the state of the host row is written. *)
LiftHostDown(base, h) ==
  IF base.hosts[h].state = "DOWN"
  THEN Restore([base EXCEPT !.hosts[h].state = "UP"], h)
  ELSE base

(* quarantine_host 'reaper' for every host of H, whatever its state is by now. *)
SweepHosts(base, H) ==
  [base EXCEPT
    !.asked = @ \ ({"sweep"} \X H),
    !.hosts = [h \in Host |-> IF h \in H
       THEN [base.hosts[h] EXCEPT !.state = "QUARANTINED", !.source = "reaper"]
       ELSE base.hosts[h]],
    !.devices = [d \in Device |-> IF HostOf[d] \in H
       THEN CollapseRow(base.devices[d]) ELSE base.devices[d]]]

-----------------------------------------------------------------------------
(* Tenants. *)

(* POST /sessions *)
CreateSession(s) ==
  /\ db.sessions[s].state = "NONE"
  /\ \/ db' = AllocateQueued(db, s)
     \/ /\ UnderCap(db, OrgOf[s])
        /\ \E d \in ReadyFor(db, s) :
             /\ db.devices[d].fence < MaxFence
             /\ db' = Reserve(db, [t \in {s} |-> d])

(* DELETE /sessions/:id, and every other caller of release_device *)
ReleaseDevice(s) ==
  /\ db.sessions[s].state \in Live \cup {"QUEUED"}
  /\ db' = EndSessions(db, {s})

(* session_activate by the client and session_attach by a worker: fenced on *)
(* the session, and again on the device.                                    *)
SessionAttach(s, f) ==
  /\ db.sessions[s].state = "ALLOCATING"
  /\ db.sessions[s].fence = f
  /\ db' = Attach(db, s)

-----------------------------------------------------------------------------
(* Workers. *)

(* POST /workers/events, one outcome of the batch: a bare reset confirmation *)
(* that a CLEANING device does not take fails the recovery of a PREPARING    *)
(* one.                                                                      *)
ReportReset(h, d, f) ==
  \/ /\ ResetAccepted(db, h, d, f)
     /\ db' = DeviceResetComplete(db, d)
  \/ /\ ~ResetAccepted(db, h, d, f)
     /\ RecoveryAccepted(db, h, d, f)
     /\ db' = FinishDeviceRecovery(db, d, FALSE)

ReportRecovery(h, d, f, ok) ==
  /\ RecoveryAccepted(db, h, d, f)
  /\ db' = FinishDeviceRecovery(db, d, ok)

(* applyAway: take the READY devices the agent cannot see, then give back    *)
(* the marked ones it did not name.                                          *)
AwayRow(r, isAway) ==
  CASE isAway /\ r.state = "READY" -> [r EXCEPT !.state = "OFFLINE", !.away = TRUE]
    [] ~isAway /\ r.away /\ r.state = "OFFLINE"
         -> [r EXCEPT !.state = "READY", !.away = FALSE, !.forgotten = FALSE]
    [] OTHER -> r

ApplyAway(base, h, A) ==
  [base EXCEPT !.devices = [d \in Device |->
     IF HostOf[d] = h THEN AwayRow(base.devices[d], d \in A) ELSE base.devices[d]]]

(* The devices whose advertised automation differs from the stored one. *)
Reconcile(base, T) ==
  [base EXCEPT !.devices = [d \in Device |->
     IF d \in T THEN TouchRow(base.devices[d]) ELSE base.devices[d]]]

(* POST /workers/heartbeat: a beat disproves silence, and disproves DOWN     *)
(* once the grace of a stop is over.  A is what the agent cannot see; an      *)
(* agent too old to say changes nothing.  T are the devices reconciled.      *)
Heartbeat(h, A, T) ==
  /\ A \subseteq {d \in OfHost(h) : db.devices[d].listed} /\ T \subseteq OfHost(h)
  /\ A # {} => "away" \in Features
  /\ T # {} => "renew" \in Features
  /\ LET heard == [db EXCEPT !.hosts[h].quiet = 0]
         lifted == CASE heard.hosts[h].state = "DOWN" /\ ~heard.hosts[h].stopping
                          -> LiftHostDown(heard, h)
                     [] heard.hosts[h].state = "QUARANTINED"
                          -> ClearSilenceQuarantine(heard, h)
                     [] OTHER -> heard
         agreed == Reconcile(lifted, T)
     IN  db' \in {agreed, ApplyAway(agreed, h, A)}

(* Mutant: a registration forgets that a device may be in use. *)
UpsertRowInUse(r, schedulable, isAway) ==
  [TouchRow(r) EXCEPT !.state = IF r.state = "QUARANTINED" THEN r.state
                      ELSE IF schedulable /\ ~isAway THEN "READY" ELSE "OFFLINE",
            !.away = isAway, !.listed = TRUE]

(* The upsert of one listed device. *)
UpsertRow(r, schedulable, isAway) ==
  LET new == IF schedulable /\ ~isAway THEN "READY" ELSE "OFFLINE"
      held == r.state = "QUARANTINED" /\ r.from # "none"
  IN  [TouchRow(r) EXCEPT
        !.state = IF \/ r.state = "QUARANTINED" /\ r.source \in {"operator", "health"}
                     \/ held
                     \/ r.state \in {"RESERVED", "SESSION_ACTIVE", "CLEANING", "PREPARING"}
                  THEN r.state ELSE new,
        !.away = IF held THEN r.away ELSE isAway,
        !.forgotten = IF isAway THEN r.forgotten ELSE FALSE,
        !.listed = TRUE]

(* Mutant: any quarantine is dropped with the device. *)
WithdrawRowAnyway(r) ==
  IF r.state \in {"READY", "QUARANTINED"}
  THEN [r EXCEPT !.state = "OFFLINE", !.listed = FALSE, !.lost = TRUE]
  ELSE [r EXCEPT !.listed = FALSE]

(* A device missing from the registration leaves the pool. *)
WithdrawRow(r) ==
  IF \/ r.state = "READY"
     \/ r.state = "QUARANTINED" /\ r.source \notin {"operator", "health"}
  THEN [r EXCEPT !.state = "OFFLINE", !.listed = FALSE,
                 !.lost = @ \/ (r.state = "QUARANTINED" /\ r.from # "none")]
  ELSE [r EXCEPT !.listed = FALSE]

Upsert(base, h, L, S, A) ==
  [base EXCEPT !.devices = [d \in Device |->
     IF HostOf[d] = h /\ d \in L
     THEN UpsertRow(base.devices[d], d \in S, d \in A) ELSE base.devices[d]]]

Withdraw(base, h, L) ==
  [base EXCEPT !.devices = [d \in Device |->
     IF HostOf[d] = h /\ d \notin L
     THEN WithdrawRow(base.devices[d]) ELSE base.devices[d]]]

(* A registration on its host: the row is refreshed, and a host out of       *)
(* service is given back only by what it disproves: a stop, silence, or its  *)
(* own retirement.                                                           *)
Welcome(base, h) ==
  LET before == base.hosts[h]
      seen == [base EXCEPT !.hosts[h] = [@ EXCEPT !.quiet = 0, !.retired = FALSE]]
      lifted == IF before.state = "DOWN" THEN LiftHostDown(seen, h) ELSE seen
      cleared == IF before.state = "QUARANTINED" /\ before.source = "reaper"
                 THEN ClearSilenceQuarantine(lifted, h) ELSE lifted
  IN  IF before.retired /\ before.state = "QUARANTINED" /\ before.source = "operator"
      THEN ReleaseHostQuarantine(cleared, h) ELSE cleared

(* Mutant: a new device of a quarantined host is left in the pool. *)
RequarantineNothing(base, h) == base

(* A host that is still quarantined takes its devices with it again. *)
Requarantine(base, h) ==
  IF base.hosts[h].state = "QUARANTINED"
  THEN QuarantineHost(base, h,
         IF base.hosts[h].source = "reaper" THEN "reaper" ELSE "operator")
  ELSE base

(* POST /workers/register with the devices L, of which S are schedulable and *)
(* A cannot be seen.                                                         *)
Register(h, L, S, A) ==
  /\ L \subseteq OfHost(h) /\ S \subseteq L /\ A \subseteq L
  /\ "drop" \in Features \/ \A d \in OfHost(h) : db.devices[d].listed => d \in L
  /\ "unfit" \in Features \/ S = L
  /\ "away" \in Features \/ A = {}
  /\ db' = Withdraw(Requarantine(Upsert(Welcome(db, h), h, L, S, A), h), h, L)

-----------------------------------------------------------------------------
(* Operators. *)

MayAsk == Cardinality({r \in db.asked : r[1] # "sweep"}) < MaxAsked

Asked(r) == [db EXCEPT !.asked = @ \cup {r}]

Served(r) == [db EXCEPT !.asked = @ \ {r}]

(* POST /devices/:id/quarantine *)
OperatorQuarantine(d) ==
  /\ "recover" \in Features
  /\ db.devices[d].state \notin {"QUARANTINED", "ABSENT"}
  /\ db' = QuarantineDevice(db, d)

(* POST /devices/:id/release-quarantine: a forgotten device is refused by a *)
(* check in a transaction of its own ...                                    *)
OperatorAsksRelease(d) ==
  /\ "recover" \in Features /\ MayAsk
  /\ db.devices[d].state = "QUARANTINED" /\ ~db.devices[d].forgotten
  /\ db' = Asked(<<"release", d>>)

(* ... and the release follows in another. *)
OperatorRelease(d) ==
  /\ <<"release", d>> \in db.asked
  /\ db.devices[d].state = "QUARANTINED" => db.devices[d].fence < MaxFence
  /\ db' = IF db.devices[d].state = "QUARANTINED"
           THEN ReleaseDeviceQuarantine(Served(<<"release", d>>), d)
           ELSE Served(<<"release", d>>)

(* POST /devices/:id/clear-reset-escalation *)
ClearResetEscalation(d) ==
  /\ db.devices[d].escalated
  /\ db' = [db EXCEPT !.devices[d] = ZeroBudget(@)]

(* POST /devices/:id/forget *)
ForgetDevice(d) ==
  /\ "forget" \in Features
  /\ ~db.devices[d].forgotten
  /\ \/ db.devices[d].state = "OFFLINE"
     \/ db.devices[d].state = "QUARANTINED" /\ db.devices[d].source \in {"operator", "health"}
  /\ db' = [db EXCEPT !.devices[d].forgotten = TRUE]

(* POST /devices/:id/restore *)
RestoreDevice(d) ==
  /\ db.devices[d].forgotten
  /\ db' = [db EXCEPT !.devices[d].forgotten = FALSE]

(* Drain: refused on a host already drained or quarantined for silence, by  *)
(* the row loadHost read ...                                                *)
OperatorAsksDrain(h) ==
  /\ MayAsk
  /\ db.hosts[h].state # "QUARANTINED"
  /\ db' = Asked(<<"drain", h>>)

(* ... and made on the row as it is by then. *)
DrainHost(h) ==
  /\ <<"drain", h>> \in db.asked
  /\ db' = QuarantineHost(Served(<<"drain", h>>), h, "operator")

ResumeHost(h) ==
  /\ db.hosts[h].state = "QUARANTINED" /\ db.hosts[h].source = "operator"
  /\ db' = ReleaseHostQuarantine(db, h)

(* Stop, from the audit row that opens its grace ... *)
StopRequested(h) ==
  /\ "stop" \in Features
  /\ ~db.hosts[h].stopping
  /\ db' = [db EXCEPT !.hosts[h].stopping = TRUE]

(* ... through the provider taking it, at once or on a second press ... *)
StopTaken(h) ==
  /\ db.hosts[h].stopping
  /\ db' = MarkHostDown(db, h)

(* ... to the end of the grace, or a provider that refused. *)
StopOver(h) ==
  /\ db.hosts[h].stopping
  /\ db' = [db EXCEPT !.hosts[h].stopping = FALSE]

(* Retire: only a machine that loadHost read as long silent and without a   *)
(* tenant ...                                                               *)
OperatorAsksRetire(h) ==
  /\ "retire" \in Features /\ MayAsk
  /\ ~db.hosts[h].retired /\ db.hosts[h].quiet = 2
  /\ \A s \in Session : db.sessions[s].state \in Live =>
       \A d \in OfHost(h) : db.sessions[s].device # d
  /\ db' = Asked(<<"retire", h>>)

(* ... and its devices are withdrawn the safe way. *)
RetireHost(h) ==
  /\ <<"retire", h>> \in db.asked
  /\ db' = [QuarantineHost(Served(<<"retire", h>>), h, "operator")
              EXCEPT !.hosts[h].retired = TRUE]

RestoreHost(h) ==
  /\ db.hosts[h].retired
  /\ db' = ReleaseHostQuarantine([db EXCEPT !.hosts[h].retired = FALSE], h)

-----------------------------------------------------------------------------
(* The reaper, and time. *)

(* Silence grows until a beat or a registration ends it. *)
GoQuiet(h) ==
  /\ db.hosts[h].quiet < 2
  /\ db' = [db EXCEPT !.hosts[h].quiet = @ + 1]

(* The reset of a device grows old. *)
ComeDue(d) ==
  /\ "renew" \in Features
  /\ db.devices[d].state = "CLEANING" /\ db.devices[d].age # "due"
  /\ db' = [db EXCEPT !.devices[d].age = "due"]

(* Mutant: a drained host's silence is recorded as a silence like any other. *)
SilentWhateverState(base) ==
  {h \in Host : ~base.hosts[h].retired /\ base.hosts[h].quiet > 0}

Silent(base) ==
  {h \in Host : base.hosts[h].state = "UP" /\ ~base.hosts[h].retired
                /\ base.hosts[h].quiet > 0}

LiveSessions(base) == {s \in Session : base.sessions[s].state \in Live}

ExpireSessions(base, E) == EndSessions(base, E)

ExpireIdleWebDriverSessions(base, I) == EndSessions(base, I)

(* The sweep of a tick reads the hosts to quarantine, without a lock; others *)
(* may write them before the tick does.                                      *)
SweepReads == db' = [db EXCEPT !.asked = @ \cup ({"sweep"} \X Silent(db))]

Swept(base) == {h \in Host : <<"sweep", h>> \in base.asked}

(* reap(), one transaction: leases run out (E), idle hub sessions end (I),   *)
(* the queue is promoted (p), resets overdue before this tick are counted    *)
(* (D), recoveries past their window fail (R) and the hosts the sweep read,  *)
(* if it was due, are quarantined.                                           *)
Ended(E, I) == ExpireIdleWebDriverSessions(ExpireSessions(db, E), I)

Promoted(E, I, p) == Reserve(Recall(Ended(E, I), DOMAIN p), p)

Overdue(E, I, p) ==
  {d \in MayStall(Promoted(E, I, p)) : Promoted(E, I, p).devices[d] = db.devices[d]}

(* Mutant: a recovery on a silent host is left alone, as a reset is. *)
RecoveringInTouch(E, I, p) ==
  {d \in Device : /\ Promoted(E, I, p).devices[d].state = "PREPARING"
                  /\ db.hosts[HostOf[d]].quiet < 2}

Recovering(E, I, p) ==
  {d \in Device : Promoted(E, I, p).devices[d].state = "PREPARING"}

Reap(E, I, p, D, R) ==
  LET failed == ExpireStalledRecoveries(CountStalledResets(Promoted(E, I, p), D), R)
  IN  \E H \in {{}, Swept(db)} : db' = SweepHosts(failed, H)

Tenant == \E s \in Session : \/ CreateSession(s)
                             \/ ReleaseDevice(s)
                             \/ \E f \in 0..MaxFence : SessionAttach(s, f)

Worker ==
  \E h \in Host :
    \/ \E A, T \in SUBSET OfHost(h) : Heartbeat(h, A, T)
    \/ \E L, S, A \in SUBSET OfHost(h) : Register(h, L, S, A)
    \/ \E d \in Device, f \in 0..MaxFence :
         \/ ReportReset(h, d, f)
         \/ \E ok \in BOOLEAN : ReportRecovery(h, d, f, ok)

Operator ==
  \/ \E d \in Device : \/ OperatorQuarantine(d) \/ OperatorAsksRelease(d)
                       \/ OperatorRelease(d)
                       \/ ClearResetEscalation(d)
                       \/ ForgetDevice(d) \/ RestoreDevice(d)
  \/ \E h \in Host : \/ OperatorAsksDrain(h) \/ DrainHost(h) \/ ResumeHost(h)
                     \/ StopRequested(h) \/ StopTaken(h) \/ StopOver(h)
                     \/ OperatorAsksRetire(h) \/ RetireHost(h) \/ RestoreHost(h)

Clock == (\E h \in Host : GoQuiet(h)) \/ (\E d \in Device : ComeDue(d))

Reaper ==
  \/ SweepReads
  \/ \E E \in SUBSET LiveSessions(db) :
     \E I \in SUBSET ((LiveSessions(db) \cap WebDriver) \ E) :
     \E p \in PromoteQueued(Ended(E, I), E \cup I) :
     \E D \in SUBSET Overdue(E, I, p), R \in SUBSET Recovering(E, I, p) :
       Reap(E, I, p, D, R)

Next == Tenant \/ Worker \/ Operator \/ Clock \/ Reaper

Spec == Init /\ [][Next]_vars

-----------------------------------------------------------------------------
(* Fairness: what the passing of time and the reaper's timer guarantee.  A   *)
(* recovery's window closes and nothing resets it.  So does a reset's, once  *)
(* an attempt has been counted; before that, only unless other writes to the *)
(* device keep putting it off.  Nothing is assumed of workers, tenants or    *)
(* operators.                                                                *)

ResetOverdue(d) ==
  \E p \in PromoteQueued(db, {}) :
    d \in Overdue({}, {}, p) /\ Reap({}, {}, p, {d}, {})

RecoveryRunsOut(d) ==
  \E p \in PromoteQueued(db, {}) : d \in Recovering({}, {}, p) /\ Reap({}, {}, p, {}, {d})

(* A write renews the age of a reset of which no attempt was counted. *)
PutOff(d) ==
  LET r == db.devices[d]
      q == db'.devices[d]
  IN  /\ r.state = "CLEANING" /\ q.state = "CLEANING"
      /\ r.attempts = 0 /\ q.attempts = 0
      /\ q.age # r.age /\ q.age # "due"

ReaperTicks ==
  \A d \in Device :
    /\ WF_vars(ResetOverdue(d)) /\ WF_vars(RecoveryRunsOut(d))
    /\ WF_vars(ComeDue(d) /\ db.devices[d].attempts > 0)
    /\ []<><<PutOff(d)>>_vars \/ WF_vars(ComeDue(d))

FairSpec == Spec /\ ReaperTicks

-----------------------------------------------------------------------------
(* The lease that the rows of a device stand for. *)

(* The live session of a device, by the row of the session. *)
HolderOf(base, d) ==
  LET live == {s \in Session : base.sessions[s].state \in Live
                               /\ base.sessions[s].device = d}
  IN  IF live = {} THEN NoDevice ELSE CHOOSE s \in live : TRUE

(* A device that its host's quarantine holds is "held" when its reset or its *)
(* recovery is still owed, and merely out of the pool otherwise.  One that a *)
(* second promotion left behind waits for a person, as a judged one does.    *)
LeaseState(r) ==
  CASE r.state = "READY" -> "free"
    [] r.state \in Leased /\ ~r.orphan -> "leased"
    [] r.state \in Leased /\ r.orphan -> "judged"
    [] r.state = "CLEANING" -> "dirty"
    [] r.state = "PREPARING" -> "preparing"
    [] r.state = "QUARANTINED" /\ r.source \in {"operator", "health"} -> "judged"
    [] r.state = "QUARANTINED" /\ r.source = "host" /\ r.from = "CLEANING" -> "held dirty"
    [] r.state = "QUARANTINED" /\ r.source = "host" /\ r.from = "PREPARING" -> "held preparing"
    [] OTHER -> "out"

LeaseOf(base) ==
  [d \in Device |-> [state |-> LeaseState(base.devices[d]),
                     fence |-> base.devices[d].fence,
                     holder |-> HolderOf(base, d)]]

Abstract == INSTANCE Lease WITH Holder <- Session, Nobody <- NoDevice,
                                lease <- LeaseOf(db)

-----------------------------------------------------------------------------
(* Every row has the columns its table declares, fences and reset attempts   *)
(* within their bounds.                                                      *)
TypeOK == db \in Database

(* A lease is one fact written in two tables: the device of a live session   *)
(* is leased at the session's own fence (SESSION_ACTIVE exactly when the     *)
(* session is ACTIVE), and every leased device has a live session that will  *)
(* give it back.  No route, report, quarantine or sweep can leave one half,  *)
(* but for the device of a session that two ticks promoted.                  *)
CustodyIn(base) ==
  /\ \A s \in Session : base.sessions[s].state \in Live =>
       LET d == base.sessions[s].device IN
       /\ d \in Device /\ ~base.devices[d].orphan
       /\ base.devices[d].fence = base.sessions[s].fence
       /\ base.devices[d].state = IF base.sessions[s].state = "ACTIVE"
                                  THEN "SESSION_ACTIVE" ELSE "RESERVED"
  /\ \A d \in Device : base.devices[d].state \in Leased /\ ~base.devices[d].orphan =>
       \E s \in Session : base.sessions[s].state \in Live /\ base.sessions[s].device = d

Custody == CustodyIn(db)

(* A device and a fence name at most one session, live or ended, and never a *)
(* fence the device has not reached: what the heartbeat's match of a reset   *)
(* to the session it cleans up after relies on.                              *)
FencesIn(base) ==
  \A s \in Session :
    base.sessions[s].device # NoDevice =>
      /\ base.sessions[s].fence <= base.devices[base.sessions[s].device].fence
      /\ \A t \in Session :
           /\ base.sessions[s].device = base.sessions[t].device
           /\ base.sessions[s].fence = base.sessions[t].fence
           => s = t

FenceNamesOneSession == FencesIn(db)

(* Only a worker's confirmation makes a device that a tenant held available  *)
(* again; the one exception is a device that a registration withdrew while   *)
(* its host's quarantine was holding it.                                     *)
CleanUnlessWithdrawn ==
  \A d \in Device :
    db.devices[d].state = "READY" /\ db.devices[d].used => db.devices[d].lost

(* A device the cascade of its host took out comes back with its host: while *)
(* one is held that way, its host is still out of service.                   *)
HeldIn(base) ==
  \A d \in Device :
    base.devices[d].state = "QUARANTINED" /\ base.devices[d].source = "host" =>
      /\ base.devices[d].from # "none"
      /\ base.hosts[HostOf[d]].state # "UP"

NoDeviceStranded == HeldIn(db)

(* A quarantine that a person or a health check put on a device is left only *)
(* through an authorised recovery at a new fence: no beat, registration,     *)
(* cable or host release lifts it.                                           *)
JudgementStands ==
  [][\A d \in Device :
       LET r == db.devices[d]
           q == db'.devices[d]
       IN  r.state = "QUARANTINED" /\ r.source \in {"operator", "health"} =>
             \/ q.state = "QUARANTINED" /\ q.source = r.source
             \/ q.state = "PREPARING" /\ q.fence > r.fence]_vars

(* While a host stays out of service the only devices of it that become      *)
(* READY are those whose lease outlived the decision: just reset by a        *)
(* worker, or back on the cable they lost after that reset.  A device new to *)
(* the host, or held by it, is not handed out.                               *)
OutOfServiceGivesNothing ==
  [][\A d \in Device :
       LET h == HostOf[d]
           r == db.devices[d]
       IN  /\ db.hosts[h].state # "UP" /\ db'.hosts[h].state # "UP"
           /\ r.state # "READY" /\ db'.devices[d].state = "READY"
           => r.state \in {"CLEANING", "PREPARING"} \/ (r.state = "OFFLINE" /\ r.away)]_vars

(* A drain is a person's word, and lifts itself through nothing: it ends with *)
(* a resume, with a stop that is under way, or with the host's retirement     *)
(* taken back, by a restore or by a registration of the retired host.  No     *)
(* silence, beat or registration ends it, no sweep takes a drained host in    *)
(* hand, and none turns the drain into a silence quarantine, which the next   *)
(* beat would lift: except a sweep that had read the host before it was       *)
(* drained, for the write does not ask again.  (The beat that ends the stop's *)
(* DOWN does not ask whether it was written over a drain.)                    *)
DrainStands ==
  [][\A h \in Host :
       LET x == db.hosts[h]
           y == db'.hosts[h]
       IN  x.state = "QUARANTINED" /\ x.source = "operator" =>
             /\ \/ y.state = "QUARANTINED" /\ y.source = "operator"
                \/ y.state = "DOWN" /\ x.stopping
                \/ ResumeHost(h)
                \/ x.retired /\ ~y.retired
                \/ /\ h \in Swept(db)
                   /\ y.state = "QUARANTINED" /\ y.source = "reaper"
             /\ h \in Swept(db') => h \in Swept(db)]_vars

(* The rows implement the promise of Lease: every handler, report and tick of *)
(* the reaper, however many functions it composes, moves each device the way  *)
(* its lease may move, and a session's lease begins and ends with its device. *)
LeaseHolds == Abstract!Spec

(* No device waits in silence: one that awaits a reset is confirmed, taken   *)
(* out, or escalated to a person, unless its host has stopped beating (038)  *)
(* or, until a first attempt has been counted, its registrations and its     *)
(* reconciling beats keep renewing the time that the reset is measured from. *)
ResetIsSettled ==
  \A d \in Device :
    \/ []<><<PutOff(d)>>_vars
    \/ db.devices[d].state = "CLEANING" ~>
         \/ db.devices[d].state # "CLEANING"
         \/ db.devices[d].escalated
         \/ db.hosts[HostOf[d]].quiet = 2

(* PREPARING is not a state a device can never leave (ADR-0019), whether or  *)
(* not its host ever answers.                                                *)
RecoveryIsSettled ==
  \A d \in Device : db.devices[d].state = "PREPARING" ~> db.devices[d].state # "PREPARING"

=============================================================================
