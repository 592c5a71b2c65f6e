---------------------------- MODULE AllocatorTx ----------------------------
(***************************************************************************)
(* The allocator one SQL statement at a time.  Fleet takes each function   *)
(* of the database as one step; here the functions that give, take and end *)
(* leases run as Postgres runs them, in READ COMMITTED transactions:       *)
(*                                                                         *)
(*   - a statement reads what is committed, and what its own transaction   *)
(*     has written;                                                        *)
(*   - a written row is locked to the end of the transaction, a statement  *)
(*     that wants it waits, and then tests its condition again;            *)
(*   - SKIP LOCKED passes over a locked row;                               *)
(*   - any transaction may be rolled back between two statements: a lost   *)
(*     connection, a crash, a deadlock's victim.                           *)
(***************************************************************************)
EXTENDS Naturals, FiniteSets

CONSTANTS
  Device, Org, Session,
  Tick,           \* the ticks of the reaper that may overlap
  NoDevice,       \* SQL NULL
  NoTx,           \* the holder of a row that is not locked
  OrgOf,          \* sessions.org_id
  MaxConcurrent,  \* orgs.max_concurrent
  MaxFence        \* bound on devices.fence

ASSUME AllocatorAssumption ==
  /\ OrgOf \in [Session -> Org]
  /\ MaxConcurrent \in [Org -> Nat \ {0}]
  /\ MaxFence \in Nat
  /\ NoDevice \notin Device
  /\ IsFiniteSet(Session)
  /\ Session \cap Device = {} /\ Session \cap Org = {} /\ Device \cap Org = {}

VARIABLES
  com,      \* the rows as they are committed
  cur,      \* the rows as their last writer left them
  lock,     \* the transaction that holds each row
  tx,       \* where each transaction is
  queued,   \* history: the sessions that have been in the queue
  stranded  \* history: the devices of sessions that were given another one

history == <<queued, stranded>>
vars == <<com, cur, lock, tx, history>>

Live == {"ALLOCATING", "ACTIVE"}

SessionRow == [state: {"NONE", "QUEUED", "ENDED"} \cup Live,
               device: Device \cup {NoDevice}, fence: 0..MaxFence]

DeviceRow == [state: {"READY", "RESERVED", "SESSION_ACTIVE", "CLEANING", "QUARANTINED"},
              fence: 0..MaxFence]

Rows == [sessions: [Session -> SessionRow], devices: [Device -> DeviceRow]]

(* A transaction is named by the function it runs and what it runs it on. *)
Allocate(s) == <<"allocate_device", s>>
Release(s) == <<"release_device", s>>
Attach(s) == <<"session_activate", s>>
Quarantine(d) == <<"quarantine_device", d>>
Reap(k) == <<"reap", k>>

Tx == ({"allocate_device", "release_device", "session_activate"} \X Session)
      \cup ({"quarantine_device"} \X Device) \cup ({"reap"} \X Tick)

ASSUME NoTxAssumption == NoTx \notin Tx

(* Its place, the device and the session in hand, the sessions yet to do. *)
Place == {"idle", "count", "pick", "insert", "queue", "device", "sessions",
          "expire", "clean", "promote", "update", "commit"}

Running == [pc: Place, dev: Device \cup {NoDevice}, row: SUBSET Session, todo: SUBSET Session]

Idle == [pc |-> "idle", dev |-> NoDevice, row |-> {}, todo |-> {}]

TypeOK ==
  /\ com \in Rows /\ cur \in Rows
  /\ lock \in [Session \cup Device \cup Org -> Tx \cup {NoTx}]
  /\ tx \in [Tx -> Running]
  /\ queued \subseteq Session /\ stranded \subseteq Device

Init ==
  /\ com = [sessions |-> [s \in Session |->
                [state |-> "NONE", device |-> NoDevice, fence |-> 0]],
            devices |-> [d \in Device |-> [state |-> "READY", fence |-> 0]]]
  /\ cur = com
  /\ lock = [k \in Session \cup Device \cup Org |-> NoTx]
  /\ tx = [t \in Tx |-> Idle]
  /\ queued = {} /\ stranded = {}

-----------------------------------------------------------------------------
(* What a statement of t sees, and what it does. *)

SeenSession(t, s) == IF lock[s] = t THEN cur.sessions[s] ELSE com.sessions[s]

SeenDevice(t, d) == IF lock[d] = t THEN cur.devices[d] ELSE com.devices[d]

Free(t, k) == lock[k] \in {NoTx, t}

At(t, pc) == tx[t].pc = pc

Goes(t, pc, dev, row, todo) ==
  tx' = [tx EXCEPT ![t] = [pc |-> pc, dev |-> dev, row |-> row, todo |-> todo]]

Goto(t, pc) == Goes(t, pc, tx[t].dev, tx[t].row, tx[t].todo)

(* With a device in hand. *)
Take(t, pc, d) == Goes(t, pc, d, tx[t].row, tx[t].todo)

(* An UPDATE of one row, once its lock is granted. *)
WriteSession(t, s, row) ==
  /\ cur' = [cur EXCEPT !.sessions[s] = row]
  /\ lock' = [lock EXCEPT ![s] = t]

WriteDevice(t, d, row) ==
  /\ cur' = [cur EXCEPT !.devices[d] = row]
  /\ lock' = [lock EXCEPT ![d] = t]

LiveOf(t, o) == {s \in Session : OrgOf[s] = o /\ SeenSession(t, s).state \in Live}

(* READY, FOR UPDATE SKIP LOCKED *)
Candidates(t) ==
  {d \in Device : /\ Free(t, d)
                  /\ SeenDevice(t, d).state = "READY"
                  /\ SeenDevice(t, d).fence < MaxFence}

(* Mutant: the fence is left as it was. *)
ReservedSameFence(r) == [state |-> "RESERVED", fence |-> r.fence]

Reserved(r) == [state |-> "RESERVED", fence |-> r.fence + 1]

Leased(d) == [state |-> "ALLOCATING", device |-> d, fence |-> cur.devices[d].fence]

(* sessions_one_live_per_device would refuse d to s. *)
Taken(s, d) ==
  \E x \in Session \ {s} :
    \/ com.sessions[x].state \in Live /\ com.sessions[x].device = d
    \/ cur.sessions[x].state \in Live /\ cur.sessions[x].device = d

-----------------------------------------------------------------------------
(* Transactions end. *)

Unlocked(t) == [k \in DOMAIN lock |-> IF lock[k] = t THEN NoTx ELSE lock[k]]

(* The devices that t takes their session away from, and leaves as they are. *)
Left(t) ==
  {com.sessions[s].device : s \in
     {x \in Session : /\ lock[x] = t /\ com.sessions[x].state \in Live
                      /\ cur.sessions[x].state \in Live
                      /\ cur.sessions[x].device # com.sessions[x].device}}

Commit(t) ==
  /\ At(t, "commit")
  /\ queued' = queued \cup {s \in Session : SeenSession(t, s).state = "QUEUED"}
  /\ stranded' = stranded \cup Left(t)
  /\ com' = [sessions |-> [s \in Session |-> SeenSession(t, s)],
             devices |-> [d \in Device |-> SeenDevice(t, d)]]
  /\ lock' = Unlocked(t)
  /\ tx' = [tx EXCEPT ![t] = Idle]
  /\ UNCHANGED cur

Rollback(t) ==
  /\ ~At(t, "idle")
  /\ cur' = [sessions |-> [s \in Session |->
                IF lock[s] = t THEN com.sessions[s] ELSE cur.sessions[s]],
             devices |-> [d \in Device |->
                IF lock[d] = t THEN com.devices[d] ELSE cur.devices[d]]]
  /\ lock' = Unlocked(t)
  /\ tx' = [tx EXCEPT ![t] = Idle]
  /\ UNCHANGED <<com, history>>

-----------------------------------------------------------------------------
(* allocate_device *)

(* Mutant: the cap is read without FOR UPDATE. *)
AllocateUnlocked(s) ==
  /\ At(Allocate(s), "idle") /\ com.sessions[s].state = "NONE"
  /\ Goto(Allocate(s), "count")
  /\ UNCHANGED <<com, cur, lock, history>>

(* SELECT max_concurrent ... FOR UPDATE *)
AllocateLock(s) ==
  LET t == Allocate(s) IN
  /\ At(t, "idle") /\ com.sessions[s].state = "NONE"
  /\ lock[OrgOf[s]] = NoTx
  /\ lock' = [lock EXCEPT ![OrgOf[s]] = t]
  /\ Goto(t, "count")
  /\ UNCHANGED <<com, cur, history>>

(* SELECT count( * ) *)
AllocateCount(s) ==
  LET t == Allocate(s) IN
  /\ At(t, "count")
  /\ Goto(t, IF Cardinality(LiveOf(t, OrgOf[s])) >= MaxConcurrent[OrgOf[s]]
             THEN "queue" ELSE "pick")
  /\ UNCHANGED <<com, cur, lock, history>>

(* The candidate and its UPDATE, one statement. *)
AllocatePick(s) ==
  LET t == Allocate(s) IN
  /\ At(t, "pick")
  /\ \/ /\ Candidates(t) = {}
        /\ Goto(t, "queue")
        /\ UNCHANGED <<cur, lock>>
     \/ \E d \in Candidates(t) :
          /\ WriteDevice(t, d, Reserved(SeenDevice(t, d)))
          /\ Take(t, "insert", d)
  /\ UNCHANGED <<com, history>>

AllocateInsert(s) ==
  LET t == Allocate(s) IN
  /\ \/ /\ At(t, "insert") /\ ~Taken(s, tx[t].dev)
        /\ WriteSession(t, s, Leased(tx[t].dev))
     \/ /\ At(t, "queue")
        /\ WriteSession(t, s, [state |-> "QUEUED", device |-> NoDevice, fence |-> 0])
  /\ Goto(t, "commit")
  /\ UNCHANGED <<com, history>>

-----------------------------------------------------------------------------
(* release_device and session_activate: the session's row, then the device's. *)

ReleaseSession(s) ==
  LET t == Release(s)
      r == com.sessions[s]
  IN
  /\ At(t, "idle") /\ lock[s] = NoTx
  /\ r.state \in Live \cup {"QUEUED"}
  /\ WriteSession(t, s, [r EXCEPT !.state = "ENDED"])
  /\ Take(t, IF r.device = NoDevice THEN "commit" ELSE "device", r.device)
  /\ UNCHANGED <<com, history>>

ReleaseDevice(s) ==
  LET t == Release(s)
      d == tx[t].dev
  IN
  /\ At(t, "device") /\ Free(t, d)
  /\ WriteDevice(t, d, [SeenDevice(t, d) EXCEPT !.state = "CLEANING"])
  /\ Goto(t, "commit")
  /\ UNCHANGED <<com, history>>

(* Mutant: activation does not test what the session's state is. *)
ActivateWhateverState(s) ==
  LET t == Attach(s)
      r == com.sessions[s]
  IN
  /\ At(t, "idle") /\ lock[s] = NoTx
  /\ r.device # NoDevice
  /\ WriteSession(t, s, [r EXCEPT !.state = "ACTIVE"])
  /\ Take(t, "device", r.device)
  /\ UNCHANGED <<com, history>>

ActivateSession(s) ==
  LET t == Attach(s)
      r == com.sessions[s]
  IN
  /\ At(t, "idle") /\ lock[s] = NoTx
  /\ r.state = "ALLOCATING"
  /\ WriteSession(t, s, [r EXCEPT !.state = "ACTIVE"])
  /\ Take(t, "device", r.device)
  /\ UNCHANGED <<com, history>>

ActivateDevice(s) ==
  LET t == Attach(s)
      d == tx[t].dev
      r == SeenDevice(t, d)
  IN
  /\ At(t, "device") /\ Free(t, d)
  /\ IF r.fence = cur.sessions[s].fence
     THEN WriteDevice(t, d, [r EXCEPT !.state = "SESSION_ACTIVE"])
     ELSE UNCHANGED <<cur, lock>>
  /\ Goto(t, "commit")
  /\ UNCHANGED <<com, history>>

-----------------------------------------------------------------------------
(* quarantine_device: the device's row, then the session's. *)

QuarantineRow(d) ==
  LET t == Quarantine(d) IN
  /\ At(t, "idle") /\ lock[d] = NoTx
  /\ com.devices[d].state # "QUARANTINED"
  /\ WriteDevice(t, d, [com.devices[d] EXCEPT !.state = "QUARANTINED"])
  /\ Goto(t, "sessions")
  /\ UNCHANGED <<com, history>>

(* Mutant: the tenant is left with a session on a device that is gone. *)
QuarantineKeepsSession(d) ==
  /\ At(Quarantine(d), "sessions")
  /\ Goto(Quarantine(d), "commit")
  /\ UNCHANGED <<com, cur, lock, history>>

(* No such session, or one to end. *)
QuarantineSessions(d) ==
  LET t == Quarantine(d)
      on == {s \in Session : com.sessions[s].device = d
                             /\ com.sessions[s].state \in Live \cup {"QUEUED"}}
  IN
  /\ At(t, "sessions")
  /\ \/ on = {} /\ UNCHANGED <<cur, lock>>
     \/ \E s \in on :
          /\ Free(t, s)
          /\ WriteSession(t, s, [com.sessions[s] EXCEPT !.state = "ENDED"])
  /\ Goto(t, "commit")
  /\ UNCHANGED <<com, history>>

-----------------------------------------------------------------------------
(* device_reset_complete, one statement. *)

(* Mutant: a confirmation is taken whatever the device is doing. *)
ResetAnytime(d) ==
  /\ lock[d] = NoTx
  /\ com.devices[d].state # "QUARANTINED"
  /\ com' = [com EXCEPT !.devices[d].state = "READY"]
  /\ cur' = [cur EXCEPT !.devices[d].state = "READY"]
  /\ UNCHANGED <<lock, tx, history>>

ResetComplete(d) ==
  /\ lock[d] = NoTx
  /\ com.devices[d].state = "CLEANING"
  /\ com' = [com EXCEPT !.devices[d].state = "READY"]
  /\ cur' = [cur EXCEPT !.devices[d].state = "READY"]
  /\ UNCHANGED <<lock, tx, history>>

-----------------------------------------------------------------------------
(* reap(): expire_sessions row by row, then promote_queued row by row, one   *)
(* transaction for all of it.  Its timer does not wait for a tick to end, so *)
(* two may run at once.                                                      *)

ExpireStart(k) ==
  LET t == Reap(k) IN
  /\ At(t, "idle")
  /\ \E E \in SUBSET {s \in Session : com.sessions[s].state \in Live} :
       Goes(t, "expire", tx[t].dev, tx[t].row, E)
  /\ UNCHANGED <<com, cur, lock, history>>

(* A row that a concurrent transaction ended first is passed over. *)
ExpireSession(k, s) ==
  LET t == Reap(k)
      r == com.sessions[s]
  IN
  /\ At(t, "expire") /\ s \in tx[t].todo /\ lock[s] = NoTx
  /\ IF r.state \in Live
     THEN /\ WriteSession(t, s, [r EXCEPT !.state = "ENDED"])
          /\ Goes(t, "clean", r.device, tx[t].row, tx[t].todo \ {s})
     ELSE /\ Goes(t, "expire", tx[t].dev, tx[t].row, tx[t].todo \ {s})
          /\ UNCHANGED <<cur, lock>>
  /\ UNCHANGED <<com, history>>

ExpireClean(k) ==
  LET t == Reap(k)
      d == tx[t].dev
  IN
  /\ At(t, "clean") /\ Free(t, d)
  /\ WriteDevice(t, d, [SeenDevice(t, d) EXCEPT !.state = "CLEANING"])
  /\ Goto(t, "expire")
  /\ UNCHANGED <<com, history>>

(* The cursor of the loop: the rows QUEUED as it opens. *)
PromoteStart(k) ==
  LET t == Reap(k) IN
  /\ At(t, "expire") /\ tx[t].todo = {}
  /\ Goes(t, "promote", tx[t].dev, tx[t].row,
          {s \in Session : SeenSession(t, s).state = "QUEUED"})
  /\ UNCHANGED <<com, cur, lock, history>>

(* CONTINUE WHEN the org is at its cap: no lock on the org's row. *)
PromoteCount(k, s) ==
  LET t == Reap(k) IN
  /\ At(t, "promote") /\ s \in tx[t].todo
  /\ Goes(t, IF Cardinality(LiveOf(t, OrgOf[s])) >= MaxConcurrent[OrgOf[s]]
             THEN "promote" ELSE "pick", tx[t].dev, {s}, tx[t].todo \ {s})
  /\ UNCHANGED <<com, cur, lock, history>>

PromotePick(k) ==
  LET t == Reap(k) IN
  /\ At(t, "pick")
  /\ \/ /\ Candidates(t) = {}
        /\ Goto(t, "promote")
        /\ UNCHANGED <<cur, lock>>
     \/ \E d \in Candidates(t) :
          /\ WriteDevice(t, d, Reserved(SeenDevice(t, d)))
          /\ Take(t, "update", d)
  /\ UNCHANGED <<com, history>>

(* UPDATE sessions ... WHERE id = r.id, and no other condition. *)
PromoteUpdate(k, s) ==
  LET t == Reap(k) IN
  /\ At(t, "update") /\ s \in tx[t].row
  /\ Free(t, s) /\ ~Taken(s, tx[t].dev)
  /\ WriteSession(t, s, Leased(tx[t].dev))
  /\ Goto(t, "promote")
  /\ UNCHANGED <<com, history>>

PromoteDone(k) ==
  LET t == Reap(k) IN
  /\ At(t, "promote") /\ tx[t].todo = {}
  /\ Goto(t, "commit")
  /\ UNCHANGED <<com, cur, lock, history>>

Next ==
  \/ \E s \in Session :
       \/ AllocateLock(s) \/ AllocateCount(s) \/ AllocatePick(s) \/ AllocateInsert(s)
       \/ ReleaseSession(s) \/ ReleaseDevice(s)
       \/ ActivateSession(s) \/ ActivateDevice(s)
       \/ \E k \in Tick : ExpireSession(k, s) \/ PromoteCount(k, s) \/ PromoteUpdate(k, s)
  \/ \E d \in Device : QuarantineRow(d) \/ QuarantineSessions(d) \/ ResetComplete(d)
  \/ \E k \in Tick : \/ ExpireStart(k) \/ ExpireClean(k)
                      \/ PromoteStart(k) \/ PromotePick(k) \/ PromoteDone(k)
  \/ \E t \in Tx : Commit(t) \/ Rollback(t)

Spec == Init /\ [][Next]_vars

-----------------------------------------------------------------------------
(* The two rows of a lease agree in every committed state, although the      *)
(* functions write them in two statements, in different orders, and any of   *)
(* them may be rolled back in between: the row locks are enough for what     *)
(* Fleet calls Custody.  The exception is a device whose session a second,   *)
(* overlapping tick promoted once more, to another device.                   *)
CommittedCustody ==
  /\ \A s \in Session : com.sessions[s].state \in Live =>
       LET r == com.devices[com.sessions[s].device] IN
       /\ r.fence = com.sessions[s].fence
       /\ r.state = IF com.sessions[s].state = "ACTIVE" THEN "SESSION_ACTIVE" ELSE "RESERVED"
  /\ \A d \in Device : com.devices[d].state \in {"RESERVED", "SESSION_ACTIVE"} =>
       \/ d \in stranded
       \/ \E s \in Session : com.sessions[s].state \in Live /\ com.sessions[s].device = d

(* No fence of a device is given to two sessions, whatever was rolled back. *)
CommittedFences ==
  \A s, t \in Session :
    /\ com.sessions[s].device # NoDevice
    /\ com.sessions[s].device = com.sessions[t].device
    /\ com.sessions[s].fence = com.sessions[t].fence
    => s = t

(* sessions_one_live_per_device is a backstop ("if the allocator ever        *)
(* regresses, this constraint fails the transaction"): no transaction about  *)
(* to give a device away meets it.                                           *)
BackstopNeverFires ==
  /\ \A s \in Session : At(Allocate(s), "insert") => ~Taken(s, tx[Allocate(s)].dev)
  /\ \A k \in Tick : At(Reap(k), "update") =>
       \A s \in tx[Reap(k)].row : ~Taken(s, tx[Reap(k)].dev)

(* An organisation has more sessions than its cap only with a session among  *)
(* them that came from the queue: between allocations the lock on the org's  *)
(* row makes the cap exact, and only promote_queued, which counts without    *)
(* it, can pass it.                                                          *)
OnlyThePromotedPassTheCap ==
  \A o \in Org :
    LET live == {s \in Session : OrgOf[s] = o /\ com.sessions[s].state \in Live}
    IN  Cardinality(live) > MaxConcurrent[o] => live \cap queued # {}

(* What the committed rows say of a device, in the words of Lease. *)
LeaseState == [READY |-> "free", RESERVED |-> "leased", SESSION_ACTIVE |-> "leased",
               CLEANING |-> "dirty", QUARANTINED |-> "judged"]

LeaseRow(r, s) ==
  [state |-> LeaseState[r.state], fence |-> r.fence,
   holder |-> IF LeaseState[r.state] = "leased" THEN s ELSE NoDevice]

HolderOf(d) ==
  CHOOSE s \in Session : com.sessions[s].state \in Live /\ com.sessions[s].device = d

(* A stranded device is nobody's, and only an operator brings it back. *)
LeaseOf(d) ==
  IF d \in stranded
  THEN [state |-> "judged", fence |-> com.devices[d].fence, holder |-> NoDevice]
  ELSE LeaseRow(com.devices[d], HolderOf(d))

Abstract == INSTANCE Lease WITH Holder <- Session, Nobody <- NoDevice,
                                lease <- [d \in Device |-> LeaseOf(d)]

(* What is committed implements Lease: statement by statement, rolled back   *)
(* anywhere, the functions still give a device from free, to one holder and  *)
(* at one fence more, take it from the holder to dirty or judged and to no   *)
(* other holder, and free it by a confirmed reset alone; and a device that   *)
(* an overlapping tick stranded is never given, cleaned or freed again.      *)
CommitsKeepLease == Abstract!Spec

(* A session that has ended stays ended, whatever statements were waiting    *)
(* for its row, unless promote_queued, whose update tests nothing, held it   *)
(* in its cursor from before.                                                *)
OnlyAPromotionRevives ==
  [][\A s \in Session : com.sessions[s].state = "ENDED" /\ com'.sessions[s].state # "ENDED"
       => s \in queued /\ \E k \in Tick : At(Reap(k), "commit")]_vars
=============================================================================
