-------------------------- MODULE AllocatorTxProofs --------------------------
(* Theorems about AllocatorTx, for any number of devices, sessions,           *)
(* organisations and overlapping ticks.                                       *)
EXTENDS AllocatorTx, FiniteSetTheorems, TLAPS

(* Abbreviations: the committed rows, and the rows as their writers left them. *)
Sc(s) == com.sessions[s]
Su(s) == cur.sessions[s]
Dc(d) == com.devices[d]
Du(d) == cur.devices[d]

Held == {"RESERVED", "SESSION_ACTIVE"}

(* What is committed: custody, fences, and what the columns say of each other. *)
SessionOK(s) ==
  /\ Sc(s).state \in {"NONE", "QUEUED"} => Sc(s).device = NoDevice
  /\ Sc(s).state \in Live => Sc(s).device \in Device
  /\ Sc(s).state = "QUEUED" => s \in queued
  /\ s \in queued => Sc(s).state # "NONE"
  /\ Sc(s).device \in Device => Sc(s).fence <= Dc(Sc(s).device).fence

LeaseOK(s) ==
  Sc(s).state \in Live =>
    /\ Dc(Sc(s).device).fence = Sc(s).fence
    /\ Dc(Sc(s).device).state = IF Sc(s).state = "ACTIVE" THEN "SESSION_ACTIVE" ELSE "RESERVED"

HeldOK(d) ==
  Dc(d).state \in Held => d \in stranded \/ \E s \in Session : Sc(s).state \in Live /\ Sc(s).device = d

Committed ==
  /\ \A s \in Session : SessionOK(s) /\ LeaseOK(s)
  /\ \A d \in Device : HeldOK(d)
  /\ CommittedFences

(* Why a transaction has written a session's row. *)
Ending(t, s) ==
  /\ t # Attach(s)
  /\ Sc(s).state \in Live \cup {"QUEUED"}
  /\ Su(s).state = "ENDED" /\ Su(s).device = Sc(s).device /\ Su(s).fence = Sc(s).fence
  /\ Sc(s).device \in Device =>
       \/ tx[t].pc \in {"device", "clean"} /\ tx[t].dev = Sc(s).device
       \/ lock[Sc(s).device] = t

Activating(t, s) ==
  /\ t = Attach(s) /\ Sc(s).state = "ALLOCATING"
  /\ Su(s).state = "ACTIVE" /\ Su(s).device = Sc(s).device /\ Su(s).fence = Sc(s).fence
  /\ \/ tx[t].pc = "device" /\ tx[t].dev = Sc(s).device
     \/ lock[Sc(s).device] = t

Leasing(t, s) ==
  /\ Su(s).state = "ALLOCATING" /\ Su(s).device \in Device
  /\ lock[Su(s).device] = t /\ Du(Su(s).device).state = "RESERVED"
  /\ Du(Su(s).device).fence = Su(s).fence
  /\ \/ t = Allocate(s) /\ Sc(s).state = "NONE"
     \/ s \in queued /\ \E k \in Tick : t = Reap(k)

Queueing(t, s) ==
  /\ t = Allocate(s) /\ Sc(s).state = "NONE"
  /\ Su(s).state = "QUEUED" /\ Su(s).device = NoDevice

SessionWritten(t, s) == Ending(t, s) \/ Activating(t, s) \/ Leasing(t, s) \/ Queueing(t, s)

(* Why it has written a device's row. *)
InHand(t, d) == tx[t].pc \in {"insert", "update"} /\ tx[t].dev = d

Reserving(t, d) ==
  /\ Dc(d).state = "READY" /\ Du(d).state = "RESERVED" /\ Du(d).fence = Dc(d).fence + 1
  /\ InHand(t, d) \/ \E s \in Session : lock[s] = t /\ Su(s).state = "ALLOCATING" /\ Su(s).device = d

Cleaning(t, d) ==
  /\ Du(d).state = "CLEANING" /\ Du(d).fence = Dc(d).fence
  /\ \E s \in Session : lock[s] = t /\ Su(s).state = "ENDED" /\ Sc(s).state \in Live /\ Sc(s).device = d

Quarantining(t, d) ==
  /\ t = Quarantine(d)
  /\ Du(d).state = "QUARANTINED" /\ Du(d).fence = Dc(d).fence
  /\ \/ tx[t].pc = "sessions"
     \/ \A s \in Session : Sc(s).state \in Live /\ Sc(s).device = d => lock[s] = t

InUse(t, d) ==
  /\ Du(d).state = "SESSION_ACTIVE" /\ Du(d).fence = Dc(d).fence
  /\ \E s \in Session : lock[s] = t /\ t = Attach(s) /\ Su(s).state = "ACTIVE" /\ Sc(s).device = d

DeviceWritten(t, d) == Reserving(t, d) \/ Cleaning(t, d) \/ Quarantining(t, d) \/ InUse(t, d)

Written ==
  /\ \A s \in Session : IF lock[s] = NoTx THEN Su(s) = Sc(s) ELSE SessionWritten(lock[s], s)
  /\ \A d \in Device : IF lock[d] = NoTx THEN Du(d) = Dc(d) ELSE DeviceWritten(lock[d], d)

(* No device is being given to two sessions. *)
GivenOnce ==
  \A s, x \in Session :
    Su(s).state \in Live /\ Su(x).state \in Live /\ Su(s).device = Su(x).device => s = x

(* Where each transaction is, and what it then holds. *)
NotGiven(d) == \A x \in Session : ~(Su(x).state \in Live /\ Su(x).device = d)

(* A device that t has reserved and given to no session yet. *)
Chosen(t) ==
  LET d == tx[t].dev IN
  d \in Device /\ lock[d] = t /\ Du(d).state = "RESERVED" /\ NotGiven(d)

Allocating(t, s) ==
  /\ tx[t].pc \in {"idle", "count", "pick", "insert", "queue", "commit"}
  /\ tx[t].pc # "idle" => Sc(s).state = "NONE" /\ lock[OrgOf[s]] = t
  /\ tx[t].pc = "insert" => Chosen(t)
  /\ tx[t].pc = "commit" => lock[s] = t
  /\ \A x \in Session : lock[x] = t => tx[t].pc = "commit"

(* The session's row is written, the device's is next. *)
Releasing(t, s) ==
  /\ tx[t].pc \in {"idle", "device", "commit"}
  /\ tx[t].pc = "device" => /\ lock[s] = t /\ Sc(s).state \in Live
                            /\ tx[t].dev = Sc(s).device /\ lock[tx[t].dev] # t

Judging(t, d) ==
  /\ tx[t].pc \in {"idle", "sessions", "commit"}
  /\ tx[t].pc # "idle" => lock[d] = t
  /\ tx[t].pc = "sessions" => \A x \in Session : lock[x] # t

Reaping(t) ==
  /\ tx[t].pc \in {"idle", "expire", "clean", "promote", "pick", "update", "commit"}
  /\ tx[t].pc = "clean" =>
       /\ lock[tx[t].dev] # t
       /\ \E s \in Session : /\ lock[s] = t /\ Su(s).state = "ENDED"
                             /\ Sc(s).state \in Live /\ Sc(s).device = tx[t].dev
  /\ tx[t].pc = "update" => Chosen(t)
  /\ tx[t].pc \in {"promote", "pick", "update"} =>
       \A s \in tx[t].todo : s \in queued /\ lock[s] # t
  /\ tx[t].pc \in {"pick", "update"} =>
       \A s \in tx[t].row : s \in queued /\ lock[s] # t /\ s \notin tx[t].todo

PlaceOK(t) ==
  /\ tx[t].pc = "idle" => \A k \in Session \cup Device \cup Org : lock[k] # t
  /\ \A s \in Session : /\ t = Allocate(s) => Allocating(t, s)
                        /\ t \in {Release(s), Attach(s)} => Releasing(t, s)
  /\ \A d \in Device : t = Quarantine(d) => Judging(t, d)
  /\ \A k \in Tick : t = Reap(k) => Reaping(t)

Orderly == \A t \in Tx : PlaceOK(t)

(* The sessions of an organisation that did not come through the queue. *)
Direct(o) == {s \in Session \ queued : OrgOf[s] = o /\ Sc(s).state \in Live}

(* An allocation that has counted, and will take a place. *)
TakesPlace(s) ==
  \/ tx[Allocate(s)].pc \in {"pick", "insert"}
  \/ tx[Allocate(s)].pc = "commit" /\ Su(s).state = "ALLOCATING"

Capped ==
  /\ \A o \in Org : Cardinality(Direct(o)) <= MaxConcurrent[o]
  /\ \A s \in Session : TakesPlace(s) => Cardinality(Direct(OrgOf[s])) < MaxConcurrent[OrgOf[s]]

Inv == TypeOK /\ Committed /\ Written /\ GivenOnce /\ Orderly /\ Capped

-----------------------------------------------------------------------------
(* The names of the transactions tell them apart. *)

(* A transaction runs one function, on one session, device or tick. *)
Function(t) == t[1]

LEMMA Kinds ==
  /\ \A s \in Session : Allocate(s) \in Tx /\ Release(s) \in Tx /\ Attach(s) \in Tx
  /\ \A d \in Device : Quarantine(d) \in Tx
  /\ \A k \in Tick : Reap(k) \in Tx
  /\ \A s, x \in Session : /\ Allocate(s) = Allocate(x) => s = x
                           /\ Release(s) = Release(x) => s = x
                           /\ Attach(s) = Attach(x) => s = x
  /\ \A d, e \in Device : Quarantine(d) = Quarantine(e) => d = e
  /\ \A s : /\ Function(Allocate(s)) = "allocate_device"
            /\ Function(Release(s)) = "release_device"
            /\ Function(Attach(s)) = "session_activate"
            /\ Function(Quarantine(s)) = "quarantine_device"
            /\ Function(Reap(s)) = "reap"
  /\ NoTx \notin Tx
<1>1. /\ \A s \in Session : Allocate(s) \in Tx /\ Release(s) \in Tx /\ Attach(s) \in Tx
      /\ \A d \in Device : Quarantine(d) \in Tx
      /\ \A k \in Tick : Reap(k) \in Tx
  BY DEF Tx, Allocate, Release, Attach, Quarantine, Reap
<1>2. \A s : /\ Function(Allocate(s)) = "allocate_device"
             /\ Function(Release(s)) = "release_device"
             /\ Function(Attach(s)) = "session_activate"
             /\ Function(Quarantine(s)) = "quarantine_device"
             /\ Function(Reap(s)) = "reap"
  BY DEF Function, Allocate, Release, Attach, Quarantine, Reap
<1>3. \A s, x : /\ Allocate(s) = Allocate(x) => s = x
                /\ Release(s) = Release(x) => s = x
                /\ Attach(s) = Attach(x) => s = x
                /\ Quarantine(s) = Quarantine(x) => s = x
  BY DEF Allocate, Release, Attach, Quarantine
<1> QED BY <1>1, <1>2, <1>3, NoTxAssumption

(* Of two functions, two transactions. *)
LEMMA Distinct ==
  \A s, x, d, k :
    /\ Allocate(s) # Release(x) /\ Allocate(s) # Attach(x) /\ Release(s) # Attach(x)
    /\ Quarantine(d) # Allocate(s) /\ Quarantine(d) # Release(s) /\ Quarantine(d) # Attach(s)
    /\ Reap(k) # Allocate(s) /\ Reap(k) # Release(s) /\ Reap(k) # Attach(s)
    /\ Reap(k) # Quarantine(d)
  BY Kinds

(* What a row may hold. *)
LEMMA Types ==
  ASSUME TypeOK
  PROVE  /\ \A s \in Session :
              /\ Sc(s) \in SessionRow /\ Su(s) \in SessionRow
              /\ Sc(s).state \in {"NONE", "QUEUED", "ENDED"} \cup Live
              /\ Su(s).state \in {"NONE", "QUEUED", "ENDED"} \cup Live
              /\ Sc(s).device \in Device \cup {NoDevice}
              /\ Su(s).device \in Device \cup {NoDevice}
              /\ Sc(s).fence \in 0..MaxFence /\ Su(s).fence \in 0..MaxFence
              /\ Sc(s).fence \in Nat /\ Su(s).fence \in Nat
              /\ lock[s] \in Tx \cup {NoTx}
         /\ \A d \in Device :
              /\ Dc(d) \in DeviceRow /\ Du(d) \in DeviceRow
              /\ Dc(d).state \in {"READY", "RESERVED", "SESSION_ACTIVE", "CLEANING", "QUARANTINED"}
              /\ Dc(d).fence \in 0..MaxFence /\ Du(d).fence \in 0..MaxFence
              /\ Dc(d).fence \in Nat /\ Du(d).fence \in Nat
              /\ lock[d] \in Tx \cup {NoTx}
         /\ \A o \in Org : lock[o] \in Tx \cup {NoTx}
         /\ \A t \in Tx : tx[t] \in Running /\ tx[t].dev \in Device \cup {NoDevice}
                          /\ tx[t].row \subseteq Session /\ tx[t].todo \subseteq Session
<1>1. com \in Rows /\ cur \in Rows /\ lock \in [Session \cup Device \cup Org -> Tx \cup {NoTx}]
      /\ tx \in [Tx -> Running]
  BY DEF TypeOK
<1>2. \A s \in Session : Sc(s) \in SessionRow /\ Su(s) \in SessionRow
  BY <1>1 DEF Rows, Sc, Su
<1>3. \A d \in Device : Dc(d) \in DeviceRow /\ Du(d) \in DeviceRow
  BY <1>1 DEF Rows, Dc, Du
<1>4. \A r \in SessionRow : /\ r.state \in {"NONE", "QUEUED", "ENDED"} \cup Live
                            /\ r.device \in Device \cup {NoDevice}
                            /\ r.fence \in 0..MaxFence /\ r.fence \in Nat
  BY AllocatorAssumption DEF SessionRow
<1>5. \A r \in DeviceRow :
        /\ r.state \in {"READY", "RESERVED", "SESSION_ACTIVE", "CLEANING", "QUARANTINED"}
        /\ r.fence \in 0..MaxFence /\ r.fence \in Nat
  BY AllocatorAssumption DEF DeviceRow
<1>6. \A t \in Tx : tx[t] \in Running /\ tx[t].dev \in Device \cup {NoDevice}
                    /\ tx[t].row \subseteq Session /\ tx[t].todo \subseteq Session
  BY <1>1 DEF Running
<1> QED BY <1>1, <1>2, <1>3, <1>4, <1>5, <1>6

(* A device has one committed lease. *)
LEMMA OneLease ==
  ASSUME Inv, NEW s \in Session, NEW x \in Session,
         Sc(s).state \in Live, Sc(x).state \in Live, Sc(s).device = Sc(x).device
  PROVE  s = x
<1>1. Sc(s).device \in Device
  BY DEF Inv, Committed, SessionOK
<1>2. Sc(s).fence = Sc(x).fence
  BY DEF Inv, Committed, LeaseOK
<1> QED BY <1>1, <1>2, AllocatorAssumption DEF Inv, Committed, CommittedFences, Sc

(* And while it is being reserved it has none. *)
LEMMA ReservedWasReady ==
  ASSUME Inv, NEW d \in Device, lock[d] # NoTx, Du(d).state = "RESERVED"
  PROVE  Reserving(lock[d], d) /\ \A s \in Session : ~(Sc(s).state \in Live /\ Sc(s).device = d)
<1>1. Reserving(lock[d], d)
  BY DEF Inv, Written, DeviceWritten, Cleaning, Quarantining, InUse
<1>2. Dc(d).state = "READY"
  BY <1>1 DEF Reserving
<1> QED BY <1>1, <1>2 DEF Inv, Committed, LeaseOK

-----------------------------------------------------------------------------
(* What a step leaves alone. *)

Keys == Session \cup Device \cup Org

(* A step leaves what j has written, and the locks it holds. *)
Keeps(j) ==
  /\ \A k \in Keys : lock[k] = j => lock'[k] = j
  /\ \A s \in Session : lock[s] = j => Su(s)' = Su(s) /\ Sc(s)' = Sc(s)
  /\ \A d \in Device : lock[d] = j => Du(d)' = Du(d) /\ Dc(d)' = Dc(d)
  /\ queued \subseteq queued'

(* And j does nothing itself. *)
Passive(j) ==
  /\ Keeps(j) /\ tx'[j] = tx[j]
  /\ \A k \in Keys : lock'[k] = j => lock[k] = j

LEMMA SessionStays ==
  ASSUME Inv, NEW j \in Tx, Keeps(j), NEW s \in Session, lock[s] = j,
         \/ tx'[j] = tx[j]
         \/ tx[j].pc \notin {"device", "clean"}
         \/ lock'[tx[j].dev] = j
  PROVE  SessionWritten(j, s)'
<1>1. lock'[s] = j /\ Su(s)' = Su(s) /\ Sc(s)' = Sc(s)
  BY DEF Keeps, Keys
<1>2. SessionWritten(j, s)
  BY Kinds DEF Inv, Written
<1>3. CASE Ending(j, s)
  <2>1. Sc(s).device \in Device /\ lock[Sc(s).device] = j => lock'[Sc(s).device] = j
    BY DEF Keeps, Keys
  <2>2. Ending(j, s)'
    BY <1>1, <1>3, <2>1 DEF Ending, Sc, Su
  <2> QED BY <2>2 DEF SessionWritten
<1>4. CASE Activating(j, s)
  <2>0. Sc(s).device \in Device
    BY <1>4 DEF Activating, Inv, Committed, SessionOK, Live
  <2>1. lock[Sc(s).device] = j => lock'[Sc(s).device] = j
    BY <2>0 DEF Keeps, Keys
  <2>2. Activating(j, s)'
    BY <1>1, <1>4, <2>1 DEF Activating, Sc, Su
  <2> QED BY <2>2 DEF SessionWritten
<1>5. CASE Leasing(j, s)
  <2>1. PICK d \in Device : Su(s).device = d
    BY <1>5 DEF Leasing
  <2>2. lock'[d] = j /\ Du(d)' = Du(d)
    BY <1>5, <2>1 DEF Leasing, Keeps, Keys
  <2>3. s \in queued => s \in queued'
    BY DEF Keeps
  <2>4. Leasing(j, s)'
    BY <1>1, <1>5, <2>1, <2>2, <2>3 DEF Leasing, Sc, Su, Du
  <2> QED BY <2>4 DEF SessionWritten
<1>6. CASE Queueing(j, s)
  <2>1. Queueing(j, s)'
    BY <1>1, <1>6 DEF Queueing, Sc, Su
  <2> QED BY <2>1 DEF SessionWritten
<1> QED BY <1>2, <1>3, <1>4, <1>5, <1>6 DEF SessionWritten

LEMMA DeviceStays ==
  ASSUME Inv, NEW j \in Tx, Keeps(j), NEW d \in Device, lock[d] = j,
         InHand(j, d) =>
           \/ InHand(j, d)'
           \/ \E s \in Session : lock'[s] = j /\ Su(s)'.state = "ALLOCATING" /\ Su(s)'.device = d,
         Quarantining(j, d) =>
           \/ tx'[j].pc = "sessions"
           \/ \A s \in Session : Sc(s)'.state \in Live /\ Sc(s)'.device = d => lock'[s] = j
  PROVE  DeviceWritten(j, d)'
<1>1. lock'[d] = j /\ Du(d)' = Du(d) /\ Dc(d)' = Dc(d)
  BY DEF Keeps, Keys
<1>2. DeviceWritten(j, d)
  BY Kinds DEF Inv, Written
<1>3. \A s \in Session : lock[s] = j => lock'[s] = j /\ Su(s)' = Su(s) /\ Sc(s)' = Sc(s)
  BY DEF Keeps, Keys
<1>4. CASE Reserving(j, d)
  <2>1. Reserving(j, d)'
    BY <1>1, <1>3, <1>4 DEF Reserving, Su, Sc, Du, Dc
  <2> QED BY <2>1 DEF DeviceWritten
<1>5. CASE Cleaning(j, d)
  <2>1. Cleaning(j, d)'
    BY <1>1, <1>3, <1>5 DEF Cleaning, Su, Sc, Du, Dc
  <2> QED BY <2>1 DEF DeviceWritten
<1>6. CASE Quarantining(j, d)
  <2>1. Quarantining(j, d)'
    BY <1>1, <1>6 DEF Quarantining, Sc, Du, Dc
  <2> QED BY <2>1 DEF DeviceWritten
<1>7. CASE InUse(j, d)
  <2>1. InUse(j, d)'
    BY <1>1, <1>3, <1>7 DEF InUse, Su, Sc, Du, Dc
  <2> QED BY <2>1 DEF DeviceWritten
<1> QED BY <1>2, <1>4, <1>5, <1>6, <1>7 DEF DeviceWritten

(* A transaction that does nothing stays in order, if its device is still    *)
(* given to nobody and its session still not there.                          *)
LEMMA PlaceStays ==
  ASSUME Inv, NEW j \in Tx, Passive(j),
         Chosen(j) => NotGiven(tx[j].dev)',
         \A s \in Session : j = Allocate(s) /\ lock[s] # j /\ Sc(s).state = "NONE" =>
           Sc(s)'.state = "NONE"
  PROVE  PlaceOK(j)'
<1>1. /\ PlaceOK(j) /\ tx'[j] = tx[j]
      /\ \A k \in Keys : lock'[k] = j <=> lock[k] = j
      /\ \A s \in Session : lock[s] = j => Su(s)' = Su(s) /\ Sc(s)' = Sc(s)
      /\ \A d \in Device : lock[d] = j => Du(d)' = Du(d)
      /\ queued \subseteq queued'
  BY DEF Inv, Orderly, Passive, Keeps
<1>2. tx[j].row \subseteq Session /\ tx[j].todo \subseteq Session /\ tx[j].dev \in Device \cup {NoDevice}
  BY Types DEF Inv
<1>3. Chosen(j) => Chosen(j)'
  BY <1>1 DEF Chosen, Du, NotGiven, Keys
<1>4. ASSUME NEW s \in Session, j = Allocate(s), Allocating(j, s) PROVE Allocating(j, s)'
  <2>1. OrgOf[s] \in Org
    BY AllocatorAssumption
  <2>2. Sc(s).state = "NONE" => Sc(s)'.state = "NONE"
    BY <1>1, <1>4
  <2> QED BY <1>1, <1>3, <1>4, <2>1, <2>2 DEF Allocating, Sc, Su, Keys
<1>5. ASSUME NEW s \in Session, Releasing(j, s) PROVE Releasing(j, s)'
  <2>1. tx[j].pc = "device" => tx[j].dev \in Device /\ Sc(s)' = Sc(s)
    BY <1>1, <1>5 DEF Releasing, Inv, Committed, SessionOK
  <2> QED BY <1>1, <1>5, <2>1 DEF Releasing, Sc, Keys
<1>6. ASSUME NEW d \in Device, Judging(j, d) PROVE Judging(j, d)'
  BY <1>1, <1>6 DEF Judging, Keys
<1>7. ASSUME Reaping(j) PROVE Reaping(j)'
  <2>1. ASSUME tx[j].pc = "clean"
        PROVE  /\ lock'[tx[j].dev] # j
               /\ \E s \in Session : /\ lock'[s] = j /\ Su(s)'.state = "ENDED"
                                     /\ Sc(s)'.state \in Live /\ Sc(s)'.device = tx[j].dev
    <3>1. PICK s \in Session : /\ lock[s] = j /\ Su(s).state = "ENDED"
                               /\ Sc(s).state \in Live /\ Sc(s).device = tx[j].dev
      BY <1>7, <2>1 DEF Reaping
    <3>2. tx[j].dev \in Device /\ lock[tx[j].dev] # j
      BY <1>7, <2>1, <3>1 DEF Reaping, Inv, Committed, SessionOK
    <3> QED BY <1>1, <3>1, <3>2 DEF Keys
  <2>2. \A s \in Session : s \in queued => s \in queued'
    BY <1>1
  <2> QED BY <1>1, <1>2, <1>3, <1>7, <2>1, <2>2 DEF Reaping, Sc, Su, Keys
<1> QED BY <1>1, <1>4, <1>5, <1>6, <1>7 DEF PlaceOK, Keys

-----------------------------------------------------------------------------
(* The three kinds of step a transaction takes between its beginning and its *)
(* end, and what each owes the invariant.                                    *)

(* Nothing is committed. *)
Uncommitted(t) ==
  /\ com' = com /\ queued' = queued /\ stranded' = stranded
  /\ \A j \in Tx \ {t} : tx'[j] = tx[j]

(* A statement that writes nothing. *)
Moves(t) == Uncommitted(t) /\ cur' = cur /\ lock' = lock

(* A statement that writes the row of s, which nobody had locked. *)
WritesSession(t, s) ==
  /\ Uncommitted(t)
  /\ lock[s] = NoTx /\ lock'[s] = t
  /\ \A k \in Keys \ {s} : lock'[k] = lock[k]
  /\ \A x \in Session \ {s} : Su(x)' = Su(x)
  /\ \A d \in Device : Du(d)' = Du(d)

(* A statement that writes the row of d, which nobody had locked. *)
WritesDevice(t, d) ==
  /\ Uncommitted(t)
  /\ lock[d] = NoTx /\ lock'[d] = t
  /\ \A k \in Keys \ {d} : lock'[k] = lock[k]
  /\ \A s \in Session : Su(s)' = Su(s)
  /\ \A e \in Device \ {d} : Du(e)' = Du(e)

LEMMA CommittedStays ==
  ASSUME Inv, NEW t, Uncommitted(t)
  PROVE  /\ Committed'
         /\ \A s \in Session : Sc(s)' = Sc(s)
         /\ \A d \in Device : Dc(d)' = Dc(d)
         /\ \A o : Direct(o)' = Direct(o)
<1>1. com' = com /\ queued' = queued /\ stranded' = stranded /\ Committed
  BY DEF Inv, Uncommitted
<1>2. \A s \in Session : (SessionOK(s) /\ LeaseOK(s)) => (SessionOK(s) /\ LeaseOK(s))'
  BY <1>1 DEF SessionOK, LeaseOK, Sc, Dc
<1>3. \A d \in Device : HeldOK(d) => HeldOK(d)'
  BY <1>1 DEF HeldOK, Sc, Dc
<1>4. CommittedFences'
  BY <1>1 DEF Committed, CommittedFences
<1>5. \A o : Direct(o)' = Direct(o)
  BY <1>1 DEF Direct, Sc
<1> QED BY <1>1, <1>2, <1>3, <1>4, <1>5 DEF Committed, Sc, Dc

(* What a place in the organisation's count owes, when nothing is committed. *)
LEMMA CappedStays ==
  ASSUME Inv, NEW t, Uncommitted(t),
         \A s \in Session : TakesPlace(s)' =>
           TakesPlace(s) \/ Cardinality(Direct(OrgOf[s])) < MaxConcurrent[OrgOf[s]]
  PROVE  Capped'
  BY CommittedStays, AllocatorAssumption DEF Capped, Inv

LEMMA MoveFrame ==
  ASSUME Inv, TypeOK', NEW t \in Tx, Moves(t),
         tx[t].pc \notin {"device", "clean", "insert", "update"},
         tx[t].pc = "sessions" => \A d \in Device : t = Quarantine(d) =>
           \A s \in Session : ~(Sc(s).state \in Live /\ Sc(s).device = d),
         PlaceOK(t)',
         \A s \in Session : t = Allocate(s) /\ TakesPlace(s)' =>
           TakesPlace(s) \/ Cardinality(Direct(OrgOf[s])) < MaxConcurrent[OrgOf[s]]
  PROVE  Inv'
<1>1. Uncommitted(t) /\ cur' = cur /\ lock' = lock
  BY DEF Moves
<1>2. \A s \in Session : Su(s)' = Su(s) /\ Sc(s)' = Sc(s)
  BY <1>1, CommittedStays DEF Su
<1>3. \A d \in Device : Du(d)' = Du(d) /\ Dc(d)' = Dc(d)
  BY <1>1, CommittedStays DEF Du
<1>4. \A j \in Tx : Keeps(j)
  BY <1>1, <1>2, <1>3 DEF Keeps, Uncommitted
<1>5. ASSUME NEW s \in Session, lock[s] # NoTx PROVE SessionWritten(lock[s], s)'
  <2>1. PICK j \in Tx : lock[s] = j
    BY <1>5, Types DEF Inv
  <2>2. tx'[j] = tx[j] \/ tx[j].pc \notin {"device", "clean"}
    BY <1>1 DEF Uncommitted
  <2>3. SessionWritten(j, s)'
    BY <1>4, <2>1, <2>2, SessionStays
  <2> QED BY <1>1, <2>1, <2>3
<1>6. ASSUME NEW d \in Device, lock[d] # NoTx PROVE DeviceWritten(lock[d], d)'
  <2>1. PICK j \in Tx : lock[d] = j
    BY <1>6, Types DEF Inv
  <2>2. InHand(j, d) => InHand(j, d)'
    BY <1>1 DEF InHand, Uncommitted
  <2>3. Quarantining(j, d) =>
           \/ tx'[j].pc = "sessions"
           \/ \A s \in Session : Sc(s)'.state \in Live /\ Sc(s)'.device = d => lock'[s] = j
    BY <1>1, <1>2 DEF Quarantining, Uncommitted
  <2>4. DeviceWritten(j, d)'
    BY <1>4, <2>1, <2>2, <2>3, DeviceStays
  <2> QED BY <1>1, <2>1, <2>4
<1>7. Written'
  <2>1. \A s \in Session : lock[s] = NoTx => Su(s) = Sc(s)
    BY DEF Inv, Written
  <2>2. \A d \in Device : lock[d] = NoTx => Du(d) = Dc(d)
    BY DEF Inv, Written
  <2> QED BY <1>1, <1>2, <1>3, <1>5, <1>6, <2>1, <2>2 DEF Written
<1>8. GivenOnce'
  BY <1>2 DEF Inv, GivenOnce
<1>9. Orderly'
  <2>1. ASSUME NEW j \in Tx, j # t PROVE PlaceOK(j)'
    <3>1. Passive(j)
      BY <1>1, <1>4, <2>1 DEF Passive, Uncommitted
    <3>2. Chosen(j) => NotGiven(tx[j].dev)'
      BY <1>1, <2>1 DEF Chosen, NotGiven, Su, Uncommitted
    <3> QED BY <1>2, <3>1, <3>2, PlaceStays
  <2> QED BY <2>1 DEF Orderly
<1>10. Capped'
  <2>1. \A s \in Session : t # Allocate(s) /\ TakesPlace(s)' => TakesPlace(s)
    BY <1>1, Kinds DEF TakesPlace, Uncommitted, Su
  <2> QED BY <1>1, <2>1, CappedStays
<1> QED BY <1>1, <1>7, <1>8, <1>9, <1>10, CommittedStays DEF Inv

LEMMA SessionFrame ==
  ASSUME Inv, TypeOK', NEW t \in Tx, NEW s \in Session, WritesSession(t, s),
         tx[t].pc \notin {"device", "clean"},
         SessionWritten(t, s)',
         tx[t].pc \in {"insert", "update"} =>
           Su(s)'.state = "ALLOCATING" /\ Su(s)'.device = tx[t].dev,
         tx[t].pc = "sessions" => \A d \in Device : t = Quarantine(d) =>
           \A x \in Session \ {s} : ~(Sc(x).state \in Live /\ Sc(x).device = d),
         Su(s)'.state \in Live =>
           \/ Sc(s).state \in Live /\ Su(s)'.device = Sc(s).device
           \/ Chosen(t) /\ Su(s)'.device = tx[t].dev,
         PlaceOK(t)',
         t = Allocate(s) /\ TakesPlace(s)' => TakesPlace(s),
         \A x \in Session \ {s} : t # Allocate(x)
  PROVE  Inv'
<1>0. /\ Uncommitted(t) /\ lock[s] = NoTx /\ lock'[s] = t
      /\ \A k \in Keys \ {s} : lock'[k] = lock[k]
      /\ \A x \in Session \ {s} : Su(x)' = Su(x)
      /\ \A d \in Device : Du(d)' = Du(d)
      /\ Su(s) = Sc(s) /\ t # NoTx
  BY Kinds DEF WritesSession, Inv, Written
<1>1. /\ Committed' /\ \A x \in Session : Sc(x)' = Sc(x)
      /\ \A d \in Device : Dc(d)' = Dc(d) /\ d # s
  BY <1>0, CommittedStays, AllocatorAssumption
<1>2. \A d \in Device : lock'[d] = lock[d]
  BY <1>0, <1>1 DEF Keys
<1>3. \A x \in Session \ {s} : lock'[x] = lock[x]
  BY <1>0 DEF Keys
<1>4. \A j \in Tx : Keeps(j)
  BY <1>0, <1>1, Kinds DEF Keeps, Uncommitted
<1>5. ASSUME NEW x \in Session \ {s}, lock[x] # NoTx PROVE SessionWritten(lock[x], x)'
  <2>1. PICK j \in Tx : lock[x] = j
    BY <1>5, Types DEF Inv
  <2>2. tx'[j] = tx[j] \/ tx[j].pc \notin {"device", "clean"}
    BY <1>0 DEF Uncommitted
  <2>3. SessionWritten(j, x)'
    BY <1>4, <2>1, <2>2, SessionStays
  <2> QED BY <1>3, <2>1, <2>3
<1>6. ASSUME NEW d \in Device, lock[d] # NoTx PROVE DeviceWritten(lock[d], d)'
  <2>1. PICK j \in Tx : lock[d] = j
    BY <1>6, Types DEF Inv
  <2>2. ASSUME InHand(j, d)
        PROVE  \/ InHand(j, d)'
               \/ \E x \in Session : lock'[x] = j /\ Su(x)'.state = "ALLOCATING" /\ Su(x)'.device = d
    <3>1. CASE j # t
      BY <1>0, <2>2, <3>1 DEF InHand, Uncommitted
    <3>2. CASE j = t
      <4>1. tx[t].pc \in {"insert", "update"} /\ tx[t].dev = d
        BY <2>2, <3>2 DEF InHand
      <4> QED BY <1>0, <3>2, <4>1
    <3> QED BY <3>1, <3>2
  <2>3. ASSUME Quarantining(j, d)
        PROVE  \/ tx'[j].pc = "sessions"
               \/ \A x \in Session : Sc(x)'.state \in Live /\ Sc(x)'.device = d => lock'[x] = j
    <3>1. j = Quarantine(d)
      BY <2>3 DEF Quarantining
    <3>2. CASE tx[j].pc = "sessions"
      BY <1>0, <1>1, <3>1, <3>2 DEF Uncommitted
    <3>3. CASE tx[j].pc # "sessions"
      BY <1>0, <1>1, <1>3, <2>3, <3>3, Kinds DEF Quarantining
    <3> QED BY <3>2, <3>3
  <2>4. DeviceWritten(j, d)'
    BY <1>4, <2>1, <2>2, <2>3, DeviceStays
  <2> QED BY <1>2, <2>1, <2>4
<1>7. Written'
  <2>1. \A x \in Session \ {s} : lock[x] = NoTx => Su(x)' = Sc(x)'
    BY <1>0, <1>1 DEF Inv, Written
  <2>2. \A d \in Device : lock[d] = NoTx => Du(d)' = Dc(d)'
    BY <1>0, <1>1 DEF Inv, Written
  <2> QED BY <1>0, <1>2, <1>3, <1>5, <1>6, <2>1, <2>2 DEF Written
<1>8. GivenOnce'
  <2>1. ASSUME NEW x \in Session \ {s}, Su(s)'.state \in Live, Su(x).state \in Live,
               Su(s)'.device = Su(x).device
        PROVE  FALSE
    <3>1. CASE Sc(s).state \in Live /\ Su(s)'.device = Sc(s).device
      BY <1>0, <2>1, <3>1 DEF Inv, GivenOnce
    <3>2. CASE Chosen(t) /\ Su(s)'.device = tx[t].dev
      BY <2>1, <3>2 DEF Chosen, NotGiven
    <3> QED BY <2>1, <3>1, <3>2
  <2> QED BY <1>0, <2>1 DEF Inv, GivenOnce
<1>9. Orderly'
  <2>1. ASSUME NEW j \in Tx, j # t PROVE PlaceOK(j)'
    <3>1. Passive(j)
      BY <1>0, <1>4, <2>1 DEF Passive, Uncommitted
    <3>2. ASSUME Chosen(j) PROVE NotGiven(tx[j].dev)'
      <4>1. PICK d \in Device : tx[j].dev = d
        BY <3>2 DEF Chosen
      <4>2. tx'[j].dev = d /\ lock[d] = j /\ NotGiven(d)
        BY <1>0, <2>1, <3>2, <4>1 DEF Chosen, Uncommitted
      <4>3. ~(Su(s)'.state \in Live /\ Su(s)'.device = d)
        BY <1>0, <2>1, <4>2 DEF Chosen, NotGiven
      <4>4. NotGiven(d)'
        BY <1>0, <4>2, <4>3 DEF NotGiven
      <4> QED BY <4>2, <4>4 DEF NotGiven
    <3> QED BY <1>1, <3>1, <3>2, PlaceStays
  <2> QED BY <2>1 DEF Orderly
<1>10. Capped'
  <2>1. ASSUME NEW x \in Session, TakesPlace(x)' PROVE TakesPlace(x)
    <3>1. CASE t = Allocate(x)
      BY <2>1, <3>1
    <3>2. CASE t # Allocate(x)
      <4>1. tx'[Allocate(x)] = tx[Allocate(x)] /\ Allocate(x) \in Tx
        BY <1>0, <3>2, Kinds DEF Uncommitted
      <4>2. CASE x # s
        BY <1>0, <2>1, <4>1, <4>2 DEF TakesPlace
      <4>3. CASE x = s
        <5>1. tx[Allocate(s)].pc = "commit" => lock[s] = Allocate(s)
          BY <4>1, <4>3 DEF Inv, Orderly, PlaceOK, Allocating
        <5> QED BY <1>0, <2>1, <4>1, <4>3, <5>1, Kinds DEF TakesPlace
      <4> QED BY <4>2, <4>3
    <3> QED BY <3>1, <3>2
  <2> QED BY <1>0, <2>1, CappedStays
<1> QED BY <1>1, <1>7, <1>8, <1>9, <1>10 DEF Inv

LEMMA DeviceFrame ==
  ASSUME Inv, TypeOK', NEW t \in Tx, NEW d \in Device, WritesDevice(t, d),
         tx[t].pc \notin {"insert", "update", "sessions"},
         tx[t].pc \in {"device", "clean"} => tx[t].dev = d,
         DeviceWritten(t, d)',
         PlaceOK(t)',
         \A s \in Session : t = Allocate(s) /\ TakesPlace(s)' => TakesPlace(s)
  PROVE  Inv'
<1>0. /\ Uncommitted(t) /\ lock[d] = NoTx /\ lock'[d] = t
      /\ \A k \in Keys \ {d} : lock'[k] = lock[k]
      /\ \A s \in Session : Su(s)' = Su(s)
      /\ \A e \in Device \ {d} : Du(e)' = Du(e)
      /\ Du(d) = Dc(d) /\ t # NoTx
  BY Kinds DEF WritesDevice, Inv, Written
<1>1. /\ Committed' /\ \A s \in Session : Sc(s)' = Sc(s) /\ s # d
      /\ \A e \in Device : Dc(e)' = Dc(e)
  BY <1>0, CommittedStays, AllocatorAssumption
<1>2. \A s \in Session : lock'[s] = lock[s]
  BY <1>0, <1>1 DEF Keys
<1>3. \A e \in Device \ {d} : lock'[e] = lock[e]
  BY <1>0 DEF Keys
<1>4. \A j \in Tx : Keeps(j)
  BY <1>0, <1>1, Kinds DEF Keeps, Uncommitted
<1>5. ASSUME NEW s \in Session, lock[s] # NoTx PROVE SessionWritten(lock[s], s)'
  <2>1. PICK j \in Tx : lock[s] = j
    BY <1>5, Types DEF Inv
  <2>2. tx'[j] = tx[j] \/ tx[j].pc \notin {"device", "clean"} \/ lock'[tx[j].dev] = j
    BY <1>0 DEF Uncommitted
  <2>3. SessionWritten(j, s)'
    BY <1>4, <2>1, <2>2, SessionStays
  <2> QED BY <1>2, <2>1, <2>3
<1>6. ASSUME NEW e \in Device \ {d}, lock[e] # NoTx PROVE DeviceWritten(lock[e], e)'
  <2>1. PICK j \in Tx : lock[e] = j
    BY <1>6, Types DEF Inv
  <2>2. InHand(j, e) => InHand(j, e)'
    BY <1>0 DEF InHand, Uncommitted
  <2>3. Quarantining(j, e) =>
           \/ tx'[j].pc = "sessions"
           \/ \A s \in Session : Sc(s)'.state \in Live /\ Sc(s)'.device = e => lock'[s] = j
    BY <1>0, <1>1, <1>2 DEF Quarantining, Uncommitted
  <2>4. DeviceWritten(j, e)'
    BY <1>4, <2>1, <2>2, <2>3, DeviceStays
  <2> QED BY <1>3, <2>1, <2>4
<1>7. Written'
  <2>1. \A s \in Session : lock[s] = NoTx => Su(s)' = Sc(s)'
    BY <1>0, <1>1 DEF Inv, Written
  <2>2. \A e \in Device \ {d} : lock[e] = NoTx => Du(e)' = Dc(e)'
    BY <1>0, <1>1 DEF Inv, Written
  <2> QED BY <1>0, <1>2, <1>3, <1>5, <1>6, <2>1, <2>2 DEF Written
<1>8. GivenOnce'
  BY <1>0 DEF Inv, GivenOnce
<1>9. Orderly'
  <2>1. ASSUME NEW j \in Tx, j # t PROVE PlaceOK(j)'
    <3>1. Passive(j)
      BY <1>0, <1>4, <2>1 DEF Passive, Uncommitted
    <3>2. ASSUME Chosen(j) PROVE NotGiven(tx[j].dev)'
      <4>1. PICK e \in Device : tx[j].dev = e
        BY <3>2 DEF Chosen
      <4>2. tx'[j].dev = e /\ NotGiven(e)
        BY <1>0, <2>1, <3>2, <4>1 DEF Chosen, Uncommitted
      <4>3. NotGiven(e)'
        BY <1>0, <4>2 DEF NotGiven
      <4> QED BY <4>2, <4>3 DEF NotGiven
    <3> QED BY <1>1, <3>1, <3>2, PlaceStays
  <2> QED BY <2>1 DEF Orderly
<1>10. Capped'
  <2>1. ASSUME NEW s \in Session, t # Allocate(s), TakesPlace(s)' PROVE TakesPlace(s)
    BY <1>0, <2>1, Kinds DEF TakesPlace, Uncommitted
  <2> QED BY <1>0, <2>1, CappedStays
<1> QED BY <1>1, <1>7, <1>8, <1>9, <1>10 DEF Inv

-----------------------------------------------------------------------------
(* How the statements of the model fit these. *)

LEMMA TxTyped ==
  ASSUME TypeOK, NEW t \in Tx, NEW r \in Running, tx' = [tx EXCEPT ![t] = r]
  PROVE  /\ tx' \in [Tx -> Running] /\ tx'[t] = r
         /\ \A j \in Tx \ {t} : tx'[j] = tx[j]
  BY DEF TypeOK

(* Goes, with values: its arguments mention the state. *)
LEMMA Gone ==
  ASSUME TypeOK, NEW t \in Tx, NEW pc \in Place, NEW dev \in Device \cup {NoDevice},
         NEW row \in SUBSET Session, NEW todo \in SUBSET Session,
         Goes(t, pc, dev, row, todo)
  PROVE  /\ tx' \in [Tx -> Running]
         /\ tx'[t].pc = pc /\ tx'[t].dev = dev /\ tx'[t].row = row /\ tx'[t].todo = todo
         /\ \A j \in Tx \ {t} : tx'[j] = tx[j]
<1> DEFINE r == [pc |-> pc, dev |-> dev, row |-> row, todo |-> todo]
<1>1. r \in Running /\ r.pc = pc /\ r.dev = dev /\ r.row = row /\ r.todo = todo
  BY DEF Running
<1>2. tx' = [tx EXCEPT ![t] = r]
  BY DEF Goes
<1> HIDE DEF r
<1> QED BY <1>1, <1>2, TxTyped

LEMMA GoneTo ==
  ASSUME TypeOK, NEW t \in Tx, NEW pc \in Place, Goto(t, pc)
  PROVE  /\ tx' \in [Tx -> Running]
         /\ tx'[t].pc = pc /\ tx'[t].dev = tx[t].dev /\ tx'[t].row = tx[t].row
         /\ tx'[t].todo = tx[t].todo
         /\ \A j \in Tx \ {t} : tx'[j] = tx[j]
<1>1. tx[t].dev \in Device \cup {NoDevice} /\ tx[t].row \in SUBSET Session
      /\ tx[t].todo \in SUBSET Session
  BY Types
<1> QED BY <1>1, Gone DEF Goto

LEMMA Taking ==
  ASSUME TypeOK, NEW t \in Tx, NEW pc \in Place, NEW d \in Device \cup {NoDevice}, Take(t, pc, d)
  PROVE  /\ tx' \in [Tx -> Running]
         /\ tx'[t].pc = pc /\ tx'[t].dev = d /\ tx'[t].row = tx[t].row
         /\ tx'[t].todo = tx[t].todo
         /\ \A j \in Tx \ {t} : tx'[j] = tx[j]
<1>1. tx[t].row \in SUBSET Session /\ tx[t].todo \in SUBSET Session
  BY Types
<1> QED BY <1>1, Gone DEF Take

LEMMA SessionTyped ==
  ASSUME TypeOK, NEW t \in Tx, NEW s \in Session, NEW row \in SessionRow,
         WriteSession(t, s, row), lock[s] = NoTx,
         com' = com, queued' = queued, stranded' = stranded,
         tx' \in [Tx -> Running], \A j \in Tx \ {t} : tx'[j] = tx[j]
  PROVE  TypeOK' /\ WritesSession(t, s) /\ Su(s)' = row
<1>1. cur \in Rows /\ lock \in [Keys -> Tx \cup {NoTx}] /\ s \in Keys
  BY DEF TypeOK, Keys
<1>2. cur' \in Rows /\ cur'.devices = cur.devices /\ cur'.sessions = [cur.sessions EXCEPT ![s] = row]
  BY <1>1 DEF WriteSession, Rows
<1>3. Su(s)' = row /\ \A x \in Session \ {s} : Su(x)' = Su(x)
  BY <1>1, <1>2 DEF Su, Rows
<1>4. lock' \in [Keys -> Tx \cup {NoTx}] /\ lock'[s] = t /\ \A k \in Keys \ {s} : lock'[k] = lock[k]
  BY <1>1 DEF WriteSession
<1>5. TypeOK'
  BY <1>2, <1>4 DEF TypeOK, Keys
<1> QED BY <1>2, <1>3, <1>4, <1>5 DEF WritesSession, Uncommitted, Du

LEMMA DeviceTyped ==
  ASSUME TypeOK, NEW t \in Tx, NEW d \in Device, NEW row \in DeviceRow,
         WriteDevice(t, d, row), lock[d] = NoTx,
         com' = com, queued' = queued, stranded' = stranded,
         tx' \in [Tx -> Running], \A j \in Tx \ {t} : tx'[j] = tx[j]
  PROVE  TypeOK' /\ WritesDevice(t, d) /\ Du(d)' = row
<1>1. cur \in Rows /\ lock \in [Keys -> Tx \cup {NoTx}] /\ d \in Keys
  BY DEF TypeOK, Keys
<1>2. cur' \in Rows /\ cur'.sessions = cur.sessions /\ cur'.devices = [cur.devices EXCEPT ![d] = row]
  BY <1>1 DEF WriteDevice, Rows
<1>3. Du(d)' = row /\ \A e \in Device \ {d} : Du(e)' = Du(e)
  BY <1>1, <1>2 DEF Du, Rows
<1>4. lock' \in [Keys -> Tx \cup {NoTx}] /\ lock'[d] = t /\ \A k \in Keys \ {d} : lock'[k] = lock[k]
  BY <1>1 DEF WriteDevice
<1>5. TypeOK'
  BY <1>2, <1>4 DEF TypeOK, Keys
<1> QED BY <1>2, <1>3, <1>4, <1>5 DEF WritesDevice, Uncommitted, Su

LEMMA MoveTyped ==
  ASSUME TypeOK, NEW t \in Tx, UNCHANGED <<com, cur, lock, history>>,
         tx' \in [Tx -> Running], \A j \in Tx \ {t} : tx'[j] = tx[j]
  PROVE  /\ TypeOK' /\ Moves(t)
         /\ \A s \in Session : Su(s)' = Su(s)
  BY DEF TypeOK, Moves, Uncommitted, history, Su

(* The place of a transaction that is running is the one of its function. *)
LEMMA Placed ==
  /\ \A s \in Session : tx'[Allocate(s)].pc # "idle" /\ Allocating(Allocate(s), s)'
                        => PlaceOK(Allocate(s))'
  /\ \A s \in Session : tx'[Release(s)].pc # "idle" /\ Releasing(Release(s), s)'
                        => PlaceOK(Release(s))'
  /\ \A s \in Session : tx'[Attach(s)].pc # "idle" /\ Releasing(Attach(s), s)'
                        => PlaceOK(Attach(s))'
  /\ \A d \in Device : tx'[Quarantine(d)].pc # "idle" /\ Judging(Quarantine(d), d)'
                       => PlaceOK(Quarantine(d))'
  /\ \A k \in Tick : tx'[Reap(k)].pc # "idle" /\ Reaping(Reap(k))' => PlaceOK(Reap(k))'
<1>1. ASSUME NEW s \in Session, tx'[Allocate(s)].pc # "idle", Allocating(Allocate(s), s)'
      PROVE  PlaceOK(Allocate(s))'
  BY <1>1, Kinds, Distinct DEF PlaceOK
<1>2. ASSUME NEW s \in Session, tx'[Release(s)].pc # "idle", Releasing(Release(s), s)'
      PROVE  PlaceOK(Release(s))'
  BY <1>2, Kinds, Distinct DEF PlaceOK
<1>3. ASSUME NEW s \in Session, tx'[Attach(s)].pc # "idle", Releasing(Attach(s), s)'
      PROVE  PlaceOK(Attach(s))'
  BY <1>3, Kinds, Distinct DEF PlaceOK
<1>4. ASSUME NEW d \in Device, tx'[Quarantine(d)].pc # "idle", Judging(Quarantine(d), d)'
      PROVE  PlaceOK(Quarantine(d))'
  BY <1>4, Kinds, Distinct DEF PlaceOK
<1>5. ASSUME NEW k \in Tick, tx'[Reap(k)].pc # "idle", Reaping(Reap(k))' PROVE PlaceOK(Reap(k))'
  BY <1>5, Kinds, Distinct DEF PlaceOK
<1> QED BY <1>1, <1>2, <1>3, <1>4, <1>5

(* What the invariant says of each. *)
LEMMA Places ==
  ASSUME Inv
  PROVE  /\ \A s \in Session : /\ Allocating(Allocate(s), s)
                               /\ Releasing(Release(s), s) /\ Releasing(Attach(s), s)
         /\ \A d \in Device : Judging(Quarantine(d), d)
         /\ \A k \in Tick : Reaping(Reap(k))
         /\ \A t \in Tx, k \in Keys : tx[t].pc = "idle" => lock[k] # t
  BY Kinds DEF Inv, Orderly, PlaceOK, Keys

(* A device that may be picked is nobody's. *)
LEMMA Picked ==
  ASSUME Inv, NEW t \in Tx, NEW d \in Candidates(t)
  PROVE  /\ d \in Device /\ lock[d] = NoTx /\ SeenDevice(t, d) = Dc(d)
         /\ Dc(d).state = "READY" /\ Du(d) = Dc(d)
         /\ Reserved(Dc(d)) \in DeviceRow /\ NotGiven(d)
<1>1. d \in Device /\ Free(t, d) /\ SeenDevice(t, d).state = "READY"
      /\ SeenDevice(t, d).fence < MaxFence
  BY DEF Candidates
<1>2. lock[d] # t
  <2> SUFFICES ASSUME lock[d] = t PROVE FALSE
    OBVIOUS
  <2>1. DeviceWritten(t, d) /\ Du(d).state = "READY"
    BY <1>1, Kinds DEF Inv, Written, SeenDevice, Du
  <2> QED BY <2>1 DEF DeviceWritten, Reserving, Cleaning, Quarantining, InUse
<1>3. lock[d] = NoTx /\ SeenDevice(t, d) = Dc(d) /\ Du(d) = Dc(d) /\ Dc(d).state = "READY"
  BY <1>1, <1>2 DEF Free, SeenDevice, Inv, Written, Dc
<1>4. Reserved(Dc(d)) \in DeviceRow
  <2>1. Dc(d).fence \in Nat /\ Dc(d).fence + 1 \in 0..MaxFence
    BY <1>1, <1>3, Types, AllocatorAssumption DEF Inv
  <2> QED BY <2>1 DEF Reserved, DeviceRow
<1>5. ASSUME NEW x \in Session, Su(x).state \in Live, Su(x).device = d PROVE FALSE
  <2>1. ~(Sc(x).state \in Live /\ Sc(x).device = d)
    BY <1>1, <1>3 DEF Inv, Committed, LeaseOK
  <2>2. lock[x] # NoTx /\ SessionWritten(lock[x], x)
    BY <1>5, <2>1 DEF Inv, Written
  <2>3. lock[x] \in Tx
    BY <2>2, Types DEF Inv
  <2>4. Leasing(lock[x], x) \/ Activating(lock[x], x)
    BY <1>5, <2>2 DEF SessionWritten, Ending, Queueing, Live
  <2> QED BY <1>3, <1>5, <2>1, <2>2, <2>4 DEF Leasing, Activating, Live
<1> QED BY <1>1, <1>3, <1>4, <1>5 DEF NotGiven

-----------------------------------------------------------------------------
(* allocate_device. *)

LEMMA AllocateLockStep ==
  ASSUME Inv, NEW s \in Session, AllocateLock(s)
  PROVE  Inv'
<1> DEFINE t == Allocate(s)
<1>0. t \in Tx /\ TypeOK /\ OrgOf[s] \in Org /\ t # NoTx
  BY Kinds, AllocatorAssumption DEF Inv
<1> HIDE DEF t
<1>1. /\ tx[t].pc = "idle" /\ Sc(s).state = "NONE" /\ lock[OrgOf[s]] = NoTx
      /\ lock' = [lock EXCEPT ![OrgOf[s]] = t] /\ Goto(t, "count")
      /\ com' = com /\ cur' = cur /\ queued' = queued /\ stranded' = stranded
  BY DEF AllocateLock, At, t, history, Sc
<1>2. /\ tx' \in [Tx -> Running] /\ tx'[t].pc = "count"
      /\ \A j \in Tx \ {t} : tx'[j] = tx[j]
  BY <1>0, <1>1, GoneTo DEF Place
<1>3. /\ lock' \in [Keys -> Tx \cup {NoTx}] /\ lock'[OrgOf[s]] = t
      /\ \A k \in Keys \ {OrgOf[s]} : lock'[k] = lock[k]
  BY <1>0, <1>1 DEF TypeOK, Keys
<1>4. \A x \in Session \cup Device : lock'[x] = lock[x]
  BY <1>0, <1>3, AllocatorAssumption DEF Keys
<1>5. TypeOK'
  BY <1>0, <1>1, <1>2, <1>3 DEF TypeOK, Keys
<1>6. Uncommitted(t)
  BY <1>1, <1>2 DEF Uncommitted
<1>7. \A x \in Session : Su(x)' = Su(x) /\ Sc(x)' = Sc(x)
  BY <1>1 DEF Su, Sc
<1>8. \A d \in Device : Du(d)' = Du(d) /\ Dc(d)' = Dc(d)
  BY <1>1 DEF Du, Dc
<1>9. \A j \in Tx : Keeps(j)
  BY <1>0, <1>1, <1>3, <1>7, <1>8, Kinds DEF Keeps
<1>10. \A k \in Keys : lock[k] # t
  BY <1>0, <1>1, Places
<1>11. ASSUME NEW x \in Session, lock[x] # NoTx PROVE SessionWritten(lock[x], x)'
  <2>1. PICK j \in Tx : lock[x] = j
    BY <1>11, Types DEF Inv
  <2>2. j # t /\ tx'[j] = tx[j]
    BY <1>2, <1>10, <2>1 DEF Keys
  <2>3. SessionWritten(j, x)'
    BY <1>9, <2>1, <2>2, SessionStays
  <2> QED BY <1>4, <2>1, <2>3
<1>12. ASSUME NEW d \in Device, lock[d] # NoTx PROVE DeviceWritten(lock[d], d)'
  <2>1. PICK j \in Tx : lock[d] = j
    BY <1>12, Types DEF Inv
  <2>2. j # t /\ tx'[j] = tx[j]
    BY <1>2, <1>10, <2>1 DEF Keys
  <2>3. /\ InHand(j, d) => InHand(j, d)'
        /\ Quarantining(j, d) =>
           \/ tx'[j].pc = "sessions"
           \/ \A x \in Session : Sc(x)'.state \in Live /\ Sc(x)'.device = d => lock'[x] = j
    BY <1>4, <1>7, <2>2 DEF InHand, Quarantining
  <2>4. DeviceWritten(j, d)'
    BY <1>9, <2>1, <2>2, <2>3, DeviceStays
  <2> QED BY <1>4, <2>1, <2>4
<1>13. Written'
  <2>1. \A x \in Session : lock[x] = NoTx => Su(x)' = Sc(x)'
    BY <1>7 DEF Inv, Written
  <2>2. \A e \in Device : lock[e] = NoTx => Du(e)' = Dc(e)'
    BY <1>8 DEF Inv, Written
  <2> QED BY <1>4, <1>11, <1>12, <2>1, <2>2 DEF Written
<1>14. GivenOnce'
  BY <1>7 DEF Inv, GivenOnce
<1>15. PlaceOK(t)'
  <2>1. Allocating(t, s)'
    BY <1>1, <1>2, <1>3, <1>4, <1>7, <1>10 DEF Allocating, Keys
  <2> QED BY <1>2, <2>1, Placed DEF t
<1>16. ASSUME NEW j \in Tx, j # t PROVE PlaceOK(j)'
  <2>1. Passive(j)
    BY <1>2, <1>3, <1>9, <1>16 DEF Passive
  <2>2. Chosen(j) => NotGiven(tx[j].dev)'
    BY <1>2, <1>7, <1>16 DEF Chosen, NotGiven
  <2> QED BY <1>7, <2>1, <2>2, PlaceStays
<1>17. Capped'
  <2>1. ASSUME NEW x \in Session, TakesPlace(x)' PROVE TakesPlace(x)
    BY <1>2, <1>7, <2>1, Kinds DEF TakesPlace
  <2> QED BY <1>6, <2>1, CappedStays
<1> QED BY <1>5, <1>6, <1>13, <1>14, <1>15, <1>16, <1>17, CommittedStays DEF Inv, Orderly

(* Counting. *)
LEMMA Counts ==
  ASSUME NEW S \in SUBSET Session
  PROVE  /\ IsFiniteSet(S) /\ Cardinality(S) \in Nat
         /\ \A T \in SUBSET S : Cardinality(T) <= Cardinality(S)
<1>1. IsFiniteSet(S)
  BY AllocatorAssumption, FS_Subset
<1> QED BY <1>1, FS_Subset, FS_CardinalityType

LEMMA AllocateCountStep ==
  ASSUME Inv, NEW s \in Session, AllocateCount(s)
  PROVE  Inv'
<1> DEFINE t == Allocate(s)
           o == OrgOf[s]
<1>0. t \in Tx /\ TypeOK /\ o \in Org /\ MaxConcurrent[o] \in Nat
  BY Kinds, AllocatorAssumption DEF Inv
<1>a. \A x \in Session : t = Allocate(x) => x = s
  BY Kinds
<1> HIDE DEF t, o
<1>1. PICK pc \in {"queue", "pick"} :
        /\ tx[t].pc = "count" /\ Goto(t, pc) /\ UNCHANGED <<com, cur, lock, history>>
        /\ pc = "pick" => ~(Cardinality(LiveOf(t, o)) >= MaxConcurrent[o])
  BY DEF AllocateCount, At, t, o
<1>2. /\ tx' \in [Tx -> Running] /\ tx'[t].pc = pc /\ tx'[t].dev = tx[t].dev
      /\ \A j \in Tx \ {t} : tx'[j] = tx[j]
  BY <1>0, <1>1, GoneTo DEF Place
<1>3. TypeOK' /\ Moves(t)
  BY <1>0, <1>1, <1>2, MoveTyped
<1>4. Allocating(t, s)
  BY Places DEF t
<1>5. PlaceOK(t)'
  <2>1. Allocating(t, s)'
    BY <1>1, <1>2, <1>4 DEF Allocating, Sc
  <2> QED BY <1>1, <1>2, <2>1, Placed DEF t
<1>6. pc = "pick" => Cardinality(Direct(o)) < MaxConcurrent[o]
  <2>1. \A x \in Session : SeenSession(t, x) = Sc(x)
    BY <1>1, <1>4 DEF Allocating, SeenSession, Sc
  <2>2. Direct(o) \in SUBSET LiveOf(t, o) /\ LiveOf(t, o) \in SUBSET Session
    BY <2>1 DEF Direct, LiveOf
  <2>3. Cardinality(Direct(o)) <= Cardinality(LiveOf(t, o))
    BY <2>2, Counts
  <2>4. Cardinality(LiveOf(t, o)) \in Nat /\ Cardinality(Direct(o)) \in Nat
    BY <2>2, Counts
  <2> QED BY <1>0, <1>1, <2>3, <2>4
<1>7. \A x \in Session : t = Allocate(x) /\ TakesPlace(x)' =>
        TakesPlace(x) \/ Cardinality(Direct(OrgOf[x])) < MaxConcurrent[OrgOf[x]]
  BY <1>1, <1>2, <1>6, <1>a DEF TakesPlace, o
<1> QED BY <1>0, <1>1, <1>3, <1>5, <1>7, MoveFrame

LEMMA AllocatePickStep ==
  ASSUME Inv, NEW s \in Session, AllocatePick(s)
  PROVE  Inv'
<1> DEFINE t == Allocate(s)
<1>0. t \in Tx /\ TypeOK /\ t # NoTx
  BY Kinds DEF Inv
<1>a. \A x \in Session : t = Allocate(x) => x = s
  BY Kinds
<1>b. Allocating(t, s)
  BY Places
<1> HIDE DEF t
<1>1. tx[t].pc = "pick" /\ com' = com /\ queued' = queued /\ stranded' = stranded
  BY DEF AllocatePick, At, t, history
<1>2. CASE Goto(t, "queue") /\ UNCHANGED <<cur, lock>>
  <2>1. /\ tx' \in [Tx -> Running] /\ tx'[t].pc = "queue"
        /\ \A j \in Tx \ {t} : tx'[j] = tx[j]
    BY <1>0, <1>2, GoneTo DEF Place
  <2>2. TypeOK' /\ Moves(t)
    BY <1>0, <1>1, <1>2, <2>1, MoveTyped DEF history
  <2>3. Allocating(t, s)'
    BY <1>1, <1>2, <1>b, <2>1 DEF Allocating, Sc
  <2>4. PlaceOK(t)'
    BY <2>1, <2>3, Placed DEF t
  <2>5. \A x \in Session : t = Allocate(x) => ~TakesPlace(x)'
    BY <2>1 DEF TakesPlace
  <2> QED BY <1>0, <1>1, <2>2, <2>4, <2>5, MoveFrame
<1>3. ASSUME NEW d \in Candidates(t), WriteDevice(t, d, Reserved(SeenDevice(t, d))), Take(t, "insert", d)
      PROVE  Inv'
  <2>1. /\ d \in Device /\ lock[d] = NoTx /\ SeenDevice(t, d) = Dc(d)
        /\ Dc(d).state = "READY" /\ Du(d) = Dc(d)
        /\ Reserved(Dc(d)) \in DeviceRow /\ NotGiven(d)
    BY <1>0, Picked
  <2>2. /\ tx' \in [Tx -> Running] /\ tx'[t].pc = "insert" /\ tx'[t].dev = d
        /\ \A j \in Tx \ {t} : tx'[j] = tx[j]
    BY <1>0, <1>3, <2>1, Taking DEF Place
  <2>3. PICK row \in DeviceRow : row = Reserved(Dc(d))
    BY <2>1
  <2>4. TypeOK' /\ WritesDevice(t, d) /\ Du(d)' = row
    BY <1>0, <1>1, <1>3, <2>1, <2>2, <2>3, DeviceTyped
  <2>5. row.state = "RESERVED" /\ row.fence = Dc(d).fence + 1 /\ Dc(d)' = Dc(d)
    BY <1>1, <2>3 DEF Reserved, Dc
  <2>6. DeviceWritten(t, d)'
    BY <2>1, <2>2, <2>4, <2>5 DEF DeviceWritten, Reserving, InHand
  <2>7. /\ \A x \in Session : Su(x)' = Su(x) /\ lock'[x] = lock[x]
        /\ lock'[OrgOf[s]] = lock[OrgOf[s]] /\ lock'[d] = t
    BY <2>1, <2>4, AllocatorAssumption DEF WritesDevice, Keys
  <2>8. NotGiven(d)'
    BY <2>1, <2>7 DEF NotGiven
  <2>9. Chosen(t)'
    BY <2>1, <2>2, <2>4, <2>5, <2>7, <2>8 DEF Chosen, NotGiven, Du
  <2>10. Allocating(t, s)'
    BY <1>1, <1>b, <2>2, <2>7, <2>9 DEF Allocating, Sc
  <2>11. PlaceOK(t)'
    BY <2>2, <2>10, Placed DEF t
  <2>12. \A x \in Session : t = Allocate(x) /\ TakesPlace(x)' => TakesPlace(x)
    BY <1>1, <1>a DEF TakesPlace
  <2> QED BY <1>0, <1>1, <2>1, <2>4, <2>6, <2>11, <2>12, DeviceFrame
<1> QED BY <1>2, <1>3 DEF AllocatePick, t

(* A session that is not there yet is locked by nobody but its allocation. *)
LEMMA NotThere ==
  ASSUME Inv, NEW s \in Session, Sc(s).state = "NONE"
  PROVE  lock[s] \in {NoTx, Allocate(s)} /\ s \notin queued
<1>1. s \notin queued
  BY DEF Inv, Committed, SessionOK
<1>2. lock[s] # NoTx => SessionWritten(lock[s], s)
  BY DEF Inv, Written
<1> QED BY <1>1, <1>2 DEF SessionWritten, Ending, Activating, Leasing, Queueing, Live

LEMMA AllocateInsertStep ==
  ASSUME Inv, NEW s \in Session, AllocateInsert(s)
  PROVE  Inv'
<1> DEFINE t == Allocate(s)
<1>0. t \in Tx /\ TypeOK /\ t # NoTx
  BY Kinds DEF Inv
<1>a. \A x \in Session : t = Allocate(x) => x = s
  BY Kinds
<1>b. Allocating(t, s)
  BY Places
<1>c. \A d \in Device : t # Quarantine(d)
  BY Distinct
<1> HIDE DEF t
<1>1. tx[t].pc \in {"insert", "queue"} /\ com' = com /\ queued' = queued /\ stranded' = stranded
      /\ Goto(t, "commit")
  BY DEF AllocateInsert, At, t, history
<1>2. /\ tx' \in [Tx -> Running] /\ tx'[t].pc = "commit" /\ tx'[t].dev = tx[t].dev
      /\ \A j \in Tx \ {t} : tx'[j] = tx[j]
  BY <1>0, <1>1, GoneTo DEF Place
<1>3. lock[s] = NoTx /\ Sc(s).state = "NONE" /\ lock[OrgOf[s]] = t
  <2>1. lock[s] # t /\ Sc(s).state = "NONE" /\ lock[OrgOf[s]] = t
    BY <1>1, <1>b DEF Allocating
  <2> QED BY <2>1, NotThere DEF t
<1>4. ASSUME NEW row \in SessionRow, WriteSession(t, s, row), SessionWritten(t, s)',
             tx[t].pc = "insert" => /\ row.state = "ALLOCATING" /\ row.device = tx[t].dev
                                    /\ Chosen(t),
             tx[t].pc = "queue" => row.state = "QUEUED"
      PROVE  Inv'
  <2>1. TypeOK' /\ WritesSession(t, s) /\ Su(s)' = row
    BY <1>0, <1>1, <1>2, <1>3, <1>4, SessionTyped
  <2>2. lock'[s] = t /\ lock'[OrgOf[s]] = t
    BY <1>3, <2>1, AllocatorAssumption DEF WritesSession, Keys
  <2>3. Allocating(t, s)'
    BY <1>1, <1>2, <1>3, <2>2 DEF Allocating, Sc
  <2>4. PlaceOK(t)'
    BY <1>2, <2>3, Placed DEF t
  <2>5. t = Allocate(s) /\ TakesPlace(s)' => TakesPlace(s)
    BY <1>1, <1>2, <1>4, <2>1 DEF TakesPlace
  <2>6. Su(s)'.state \in Live => Chosen(t) /\ Su(s)'.device = tx[t].dev
    BY <1>1, <1>4, <2>1 DEF Live
  <2>7. tx[t].pc \in {"insert", "update"} => Su(s)'.state = "ALLOCATING" /\ Su(s)'.device = tx[t].dev
    BY <1>1, <1>4, <2>1
  <2> QED BY <1>0, <1>1, <1>4, <1>a, <2>1, <2>4, <2>5, <2>6, <2>7, SessionFrame
<1>5. CASE tx[t].pc = "insert" /\ WriteSession(t, s, Leased(tx[t].dev))
  <2>1. Chosen(t)
    BY <1>5, <1>b DEF Allocating
  <2>2. PICK d \in Device : /\ tx[t].dev = d /\ lock[d] = t /\ Du(d).state = "RESERVED"
    BY <2>1 DEF Chosen
  <2>3. PICK row \in SessionRow : /\ row = Leased(d) /\ row.state = "ALLOCATING"
                                  /\ row.device = d /\ row.fence = Du(d).fence
    <3>1. Du(d).fence \in 0..MaxFence
      BY <1>0, Types
    <3> DEFINE r == Leased(d)
    <3>2. r = [state |-> "ALLOCATING", device |-> d, fence |-> Du(d).fence]
      BY DEF Leased, Du
    <3> HIDE DEF r
    <3>3. r \in SessionRow /\ r.state = "ALLOCATING" /\ r.device = d /\ r.fence = Du(d).fence
      BY <3>1, <3>2 DEF SessionRow, Live
    <3> QED BY <3>3 DEF r
  <2>4. WriteSession(t, s, row)
    BY <1>5, <2>2, <2>3
  <2>5. TypeOK' /\ WritesSession(t, s) /\ Su(s)' = row
    BY <1>0, <1>1, <1>2, <1>3, <2>4, SessionTyped
  <2>6. lock'[d] = t /\ Du(d)' = Du(d) /\ Sc(s)' = Sc(s)
    BY <1>1, <2>2, <2>5, AllocatorAssumption DEF WritesSession, Keys, Sc
  <2>7. Leasing(t, s)'
    BY <1>3, <2>2, <2>3, <2>5, <2>6 DEF Leasing, t, Su, Du
  <2> QED BY <1>4, <1>5, <2>1, <2>2, <2>3, <2>4, <2>7 DEF SessionWritten
<1>6. CASE tx[t].pc = "queue" /\ WriteSession(t, s, [state |-> "QUEUED", device |-> NoDevice, fence |-> 0])
  <2>1. PICK row \in SessionRow : /\ row = [state |-> "QUEUED", device |-> NoDevice, fence |-> 0]
                                  /\ row.state = "QUEUED" /\ row.device = NoDevice
    <3>1. 0 \in 0..MaxFence
      BY AllocatorAssumption
    <3>2. [state |-> "QUEUED", device |-> NoDevice, fence |-> 0] \in SessionRow
      BY <3>1 DEF SessionRow
    <3> QED BY <3>2
  <2>2. WriteSession(t, s, row)
    BY <1>6, <2>1
  <2>3. TypeOK' /\ WritesSession(t, s) /\ Su(s)' = row
    BY <1>0, <1>1, <1>2, <1>3, <2>2, SessionTyped
  <2>4. Queueing(t, s)'
    BY <1>1, <1>3, <2>1, <2>3 DEF Queueing, t, Sc
  <2> QED BY <1>4, <1>6, <2>1, <2>2, <2>4 DEF SessionWritten
<1> QED BY <1>5, <1>6 DEF AllocateInsert, At, t

-----------------------------------------------------------------------------
(* release_device and session_activate. *)

(* A row whose state alone changes. *)
LEMMA StateSet ==
  /\ \A r \in SessionRow, v \in {"ENDED", "ACTIVE"} :
       /\ [r EXCEPT !.state = v] \in SessionRow /\ [r EXCEPT !.state = v].state = v
       /\ [r EXCEPT !.state = v].device = r.device /\ [r EXCEPT !.state = v].fence = r.fence
  /\ \A r \in DeviceRow, v \in {"READY", "SESSION_ACTIVE", "CLEANING", "QUARANTINED"} :
       /\ [r EXCEPT !.state = v] \in DeviceRow /\ [r EXCEPT !.state = v].state = v
       /\ [r EXCEPT !.state = v].fence = r.fence
  BY DEF SessionRow, DeviceRow, Live

LEMMA ReleaseSessionStep ==
  ASSUME Inv, NEW s \in Session, ReleaseSession(s)
  PROVE  Inv'
<1> DEFINE t == Release(s)
<1>0. t \in Tx /\ TypeOK /\ t # NoTx
  BY Kinds DEF Inv
<1>a. \A x \in Session : t # Allocate(x) /\ t # Attach(x)
  BY Distinct
<1> HIDE DEF t
<1>1. PICK row \in SessionRow, d \in Device \cup {NoDevice}, pc \in {"commit", "device"} :
        /\ tx[t].pc = "idle" /\ lock[s] = NoTx /\ Sc(s).state \in Live \cup {"QUEUED"}
        /\ WriteSession(t, s, row) /\ row.state = "ENDED"
        /\ row.device = Sc(s).device /\ row.fence = Sc(s).fence
        /\ d = Sc(s).device /\ pc = (IF d = NoDevice THEN "commit" ELSE "device")
        /\ Take(t, pc, d)
  <2>1. Sc(s) \in SessionRow /\ Sc(s).device \in Device \cup {NoDevice}
    BY <1>0, Types
  <2>2. PICK row \in SessionRow : /\ row = [Sc(s) EXCEPT !.state = "ENDED"] /\ row.state = "ENDED"
                                  /\ row.device = Sc(s).device /\ row.fence = Sc(s).fence
    BY ZenonT(40), <2>1, StateSet
  <2> QED BY <2>1, <2>2 DEF ReleaseSession, At, t, Sc
<1>2. com' = com /\ queued' = queued /\ stranded' = stranded
  BY DEF ReleaseSession, history
<1>3. /\ tx' \in [Tx -> Running] /\ tx'[t].pc = pc /\ tx'[t].dev = d
      /\ \A j \in Tx \ {t} : tx'[j] = tx[j]
  BY <1>0, <1>1, Taking DEF Place
<1>4. TypeOK' /\ WritesSession(t, s) /\ Su(s)' = row
  BY <1>0, <1>1, <1>2, <1>3, SessionTyped
<1>5. Sc(s)' = Sc(s) /\ lock'[s] = t
  BY <1>2, <1>4 DEF Sc, WritesSession
<1>6. d \in Device => pc = "device"
  BY <1>1, AllocatorAssumption
<1>7. SessionWritten(t, s)'
  BY <1>1, <1>3, <1>4, <1>5, <1>6, <1>a DEF SessionWritten, Ending
<1>8. pc = "device" => Sc(s).state \in Live /\ lock'[d] # t
  <2> SUFFICES ASSUME pc = "device" PROVE Sc(s).state \in Live /\ lock'[d] # t
    OBVIOUS
  <2>1. d \in Device /\ d # s
    BY <1>1, AllocatorAssumption
  <2>2. Sc(s).state \in Live
    BY <1>1, <2>1, AllocatorAssumption DEF Inv, Committed, SessionOK
  <2>3. lock[d] # t /\ lock'[d] = lock[d]
    BY <1>0, <1>1, <1>4, <2>1, Places DEF Keys, WritesSession
  <2> QED BY <2>2, <2>3
<1>9. PlaceOK(t)'
  <2>1. Releasing(t, s)'
    BY <1>1, <1>3, <1>5, <1>8 DEF Releasing
  <2> QED BY <1>3, <2>1, Placed DEF t
<1>10. Su(s)'.state \notin Live
  BY <1>1, <1>4 DEF Live
<1> QED BY <1>0, <1>1, <1>4, <1>7, <1>9, <1>10, <1>a, SessionFrame

LEMMA ActivateSessionStep ==
  ASSUME Inv, NEW s \in Session, ActivateSession(s)
  PROVE  Inv'
<1> DEFINE t == Attach(s)
<1>0. t \in Tx /\ TypeOK /\ t # NoTx
  BY Kinds DEF Inv
<1>a. \A x \in Session : t # Allocate(x)
  BY Distinct
<1> HIDE DEF t
<1>1. PICK row \in SessionRow, d \in Device :
        /\ tx[t].pc = "idle" /\ lock[s] = NoTx /\ Sc(s).state = "ALLOCATING"
        /\ WriteSession(t, s, row) /\ row.state = "ACTIVE"
        /\ row.device = Sc(s).device /\ row.fence = Sc(s).fence
        /\ d = Sc(s).device /\ Take(t, "device", d)
  <2>1. Sc(s) \in SessionRow /\ Sc(s).state = "ALLOCATING"
    BY <1>0, Types DEF ActivateSession, Sc
  <2>2. PICK row \in SessionRow : /\ row = [Sc(s) EXCEPT !.state = "ACTIVE"] /\ row.state = "ACTIVE"
                                  /\ row.device = Sc(s).device /\ row.fence = Sc(s).fence
    BY ZenonT(40), <2>1, StateSet
  <2>3. Sc(s).device \in Device
    BY <2>1 DEF Inv, Committed, SessionOK, Live
  <2> QED BY <2>1, <2>2, <2>3 DEF ActivateSession, At, t, Sc
<1>2. com' = com /\ queued' = queued /\ stranded' = stranded
  BY DEF ActivateSession, history
<1>3. /\ tx' \in [Tx -> Running] /\ tx'[t].pc = "device" /\ tx'[t].dev = d
      /\ \A j \in Tx \ {t} : tx'[j] = tx[j]
  BY <1>0, <1>1, Taking DEF Place
<1>4. TypeOK' /\ WritesSession(t, s) /\ Su(s)' = row
  BY <1>0, <1>1, <1>2, <1>3, SessionTyped
<1>5. Sc(s)' = Sc(s) /\ lock'[s] = t
  BY <1>2, <1>4 DEF Sc, WritesSession
<1>6. SessionWritten(t, s)'
  BY <1>1, <1>3, <1>4, <1>5 DEF SessionWritten, Activating, t
<1>7. lock'[d] # t
  <2>1. d \in Device /\ d # s
    BY <1>1, AllocatorAssumption
  <2> QED BY <1>0, <1>1, <1>4, <2>1, Places DEF Keys, WritesSession
<1>8. PlaceOK(t)'
  <2>1. Releasing(t, s)'
    BY <1>1, <1>3, <1>5, <1>7 DEF Releasing, Live
  <2> QED BY <1>3, <2>1, Placed DEF t
<1>9. Sc(s).state \in Live /\ Su(s)'.device = Sc(s).device
  BY <1>1, <1>4 DEF Live
<1> QED BY <1>0, <1>1, <1>4, <1>6, <1>8, <1>9, <1>a, SessionFrame

LEMMA ReleaseDeviceStep ==
  ASSUME Inv, NEW s \in Session, ReleaseDevice(s)
  PROVE  Inv'
<1> DEFINE t == Release(s)
<1>0. t \in Tx /\ TypeOK /\ t # NoTx
  BY Kinds DEF Inv
<1>a. \A x \in Session : t # Allocate(x) /\ t # Attach(x) /\ \A k : t # Reap(k)
  BY Distinct
<1>b. Releasing(t, s)
  BY Places
<1> HIDE DEF t
<1>1. /\ tx[t].pc = "device" /\ Free(t, tx[t].dev) /\ com' = com /\ queued' = queued
      /\ stranded' = stranded /\ Goto(t, "commit")
      /\ WriteDevice(t, tx[t].dev, [SeenDevice(t, tx[t].dev) EXCEPT !.state = "CLEANING"])
  BY DEF ReleaseDevice, At, history, t
<1>2. PICK d \in Device : /\ tx[t].dev = d /\ lock[d] = NoTx /\ lock[s] = t
                          /\ Sc(s).state \in Live /\ d = Sc(s).device
  BY <1>1, <1>b DEF Releasing, Free, Inv, Committed, SessionOK
<1>3. SeenDevice(t, d) = Dc(d) /\ Dc(d) \in DeviceRow
  BY <1>0, <1>2, Types DEF SeenDevice, Dc
<1>4. PICK row \in DeviceRow : /\ WriteDevice(t, d, row) /\ row.state = "CLEANING"
                               /\ row.fence = Dc(d).fence
  <2>1. PICK row \in DeviceRow : /\ row = [Dc(d) EXCEPT !.state = "CLEANING"]
                                 /\ row.state = "CLEANING" /\ row.fence = Dc(d).fence
    BY <1>3, StateSet
  <2> QED BY <1>1, <1>2, <1>3, <2>1
<1>5. /\ tx' \in [Tx -> Running] /\ tx'[t].pc = "commit"
      /\ \A j \in Tx \ {t} : tx'[j] = tx[j]
  BY <1>0, <1>1, GoneTo DEF Place
<1>6. TypeOK' /\ WritesDevice(t, d) /\ Du(d)' = row
  BY <1>0, <1>1, <1>2, <1>4, <1>5, DeviceTyped
<1>7. Su(s).state = "ENDED"
  <2>1. SessionWritten(t, s)
    BY <1>0, <1>2 DEF Inv, Written
  <2> QED BY <1>2, <1>a, <2>1 DEF SessionWritten, Ending, Activating, Leasing, Queueing
<1>8. /\ Su(s)' = Su(s) /\ Sc(s)' = Sc(s) /\ Dc(d)' = Dc(d) /\ lock'[s] = t
  BY <1>1, <1>2, <1>6, AllocatorAssumption DEF WritesDevice, Sc, Dc, Keys
<1>9. DeviceWritten(t, d)'
  BY <1>2, <1>4, <1>6, <1>7, <1>8 DEF DeviceWritten, Cleaning
<1>10. PlaceOK(t)'
  <2>1. Releasing(t, s)'
    BY <1>5 DEF Releasing
  <2> QED BY <1>5, <2>1, Placed DEF t
<1> QED BY <1>0, <1>1, <1>2, <1>6, <1>9, <1>10, <1>a, DeviceFrame

(* The fence of the session is the device's: the update never finds nothing. *)
LEMMA ActivateDeviceStep ==
  ASSUME Inv, NEW s \in Session, ActivateDevice(s)
  PROVE  Inv'
<1> DEFINE t == Attach(s)
<1>0. t \in Tx /\ TypeOK /\ t # NoTx
  BY Kinds DEF Inv
<1>a. \A x \in Session : t # Allocate(x) /\ \A k : t # Reap(k)
  BY Distinct
<1>b. Releasing(t, s)
  BY Places
<1> HIDE DEF t
<1>1. /\ tx[t].pc = "device" /\ Free(t, tx[t].dev) /\ com' = com /\ queued' = queued
      /\ stranded' = stranded /\ Goto(t, "commit")
      /\ SeenDevice(t, tx[t].dev).fence = Su(s).fence =>
           WriteDevice(t, tx[t].dev, [SeenDevice(t, tx[t].dev) EXCEPT !.state = "SESSION_ACTIVE"])
  BY DEF ActivateDevice, At, history, t, Su
<1>2. PICK d \in Device : /\ tx[t].dev = d /\ lock[d] = NoTx /\ lock[s] = t
                          /\ Sc(s).state \in Live /\ d = Sc(s).device
  BY <1>1, <1>b DEF Releasing, Free, Inv, Committed, SessionOK
<1>3. SeenDevice(t, d) = Dc(d) /\ Dc(d) \in DeviceRow /\ Dc(d).fence = Sc(s).fence
  BY <1>0, <1>2, Types DEF SeenDevice, Dc, Inv, Committed, LeaseOK
<1>4. SessionWritten(t, s)
  BY <1>0, <1>2 DEF Inv, Written
<1>5. CASE Activating(t, s)
  <2>1. Su(s).state = "ACTIVE" /\ Su(s).fence = Sc(s).fence
    BY <1>5 DEF Activating
  <2>2. PICK row \in DeviceRow : /\ WriteDevice(t, d, row) /\ row.state = "SESSION_ACTIVE"
                                 /\ row.fence = Dc(d).fence
    <3>1. PICK row \in DeviceRow : /\ row = [Dc(d) EXCEPT !.state = "SESSION_ACTIVE"]
                                   /\ row.state = "SESSION_ACTIVE" /\ row.fence = Dc(d).fence
      BY <1>3, StateSet
    <3> QED BY <1>1, <1>2, <1>3, <2>1, <3>1
  <2>3. /\ tx' \in [Tx -> Running] /\ tx'[t].pc = "commit"
        /\ \A j \in Tx \ {t} : tx'[j] = tx[j]
    BY <1>0, <1>1, GoneTo DEF Place
  <2>4. TypeOK' /\ WritesDevice(t, d) /\ Du(d)' = row
    BY <1>0, <1>1, <1>2, <2>2, <2>3, DeviceTyped
  <2>5. /\ Su(s)' = Su(s) /\ Sc(s)' = Sc(s) /\ Dc(d)' = Dc(d) /\ lock'[s] = t
    BY <1>1, <1>2, <2>4, AllocatorAssumption DEF WritesDevice, Sc, Dc, Keys
  <2>6. DeviceWritten(t, d)'
    BY <1>2, <2>1, <2>2, <2>4, <2>5 DEF DeviceWritten, InUse, t
  <2>7. Releasing(t, s)'
    BY <2>3 DEF Releasing
  <2>8. PlaceOK(t)'
    BY <2>3, <2>7, Placed DEF t
  <2> QED BY <1>0, <1>1, <1>2, <1>a, <2>4, <2>6, <2>8, DeviceFrame
<1> QED BY <1>4, <1>5, <1>a DEF SessionWritten, Ending, Leasing, Queueing, t

-----------------------------------------------------------------------------
(* quarantine_device. *)

LEMMA QuarantineRowStep ==
  ASSUME Inv, NEW d \in Device, QuarantineRow(d)
  PROVE  Inv'
<1> DEFINE t == Quarantine(d)
<1>0. t \in Tx /\ TypeOK /\ t # NoTx
  BY Kinds DEF Inv
<1>a. \A x \in Session : t # Allocate(x)
  BY Distinct
<1> HIDE DEF t
<1>1. /\ tx[t].pc = "idle" /\ lock[d] = NoTx /\ com' = com /\ queued' = queued
      /\ stranded' = stranded /\ Goto(t, "sessions")
      /\ WriteDevice(t, d, [Dc(d) EXCEPT !.state = "QUARANTINED"])
  BY DEF QuarantineRow, At, history, t, Dc
<1>2. PICK row \in DeviceRow : /\ row = [Dc(d) EXCEPT !.state = "QUARANTINED"]
                               /\ row.state = "QUARANTINED" /\ row.fence = Dc(d).fence
  BY <1>0, Types, StateSet
<1>3. /\ tx' \in [Tx -> Running] /\ tx'[t].pc = "sessions"
      /\ \A j \in Tx \ {t} : tx'[j] = tx[j]
  BY <1>0, <1>1, GoneTo DEF Place
<1>4. TypeOK' /\ WritesDevice(t, d) /\ Du(d)' = row
  BY <1>0, <1>1, <1>2, <1>3, DeviceTyped
<1>5. Dc(d)' = Dc(d) /\ lock'[d] = t /\ \A x \in Session : lock'[x] = lock[x]
  BY <1>1, <1>4, AllocatorAssumption DEF WritesDevice, Dc, Keys
<1>6. DeviceWritten(t, d)'
  BY <1>2, <1>3, <1>4, <1>5 DEF DeviceWritten, Quarantining, t
<1>7. PlaceOK(t)'
  <2>1. \A x \in Session : lock[x] # t
    BY <1>0, <1>1, Places DEF Keys
  <2>2. Judging(t, d)'
    BY <1>3, <1>5, <2>1 DEF Judging
  <2> QED BY <1>3, <2>2, Placed DEF t
<1> QED BY <1>0, <1>1, <1>4, <1>6, <1>7, <1>a, DeviceFrame

LEMMA QuarantineSessionsStep ==
  ASSUME Inv, NEW d \in Device, QuarantineSessions(d)
  PROVE  Inv'
<1> DEFINE t == Quarantine(d)
<1>0. t \in Tx /\ TypeOK /\ t # NoTx
  BY Kinds DEF Inv
<1>a. \A x \in Session : t # Allocate(x) /\ t # Attach(x)
  BY Distinct
<1>b. Judging(t, d)
  BY Places
<1>c. \A e \in Device : t = Quarantine(e) => e = d
  BY Kinds
<1> HIDE DEF t
<1>1. /\ tx[t].pc = "sessions" /\ com' = com /\ queued' = queued
      /\ stranded' = stranded /\ Goto(t, "commit")
  BY DEF QuarantineSessions, At, history, t
<1>2. /\ tx' \in [Tx -> Running] /\ tx'[t].pc = "commit"
      /\ \A j \in Tx \ {t} : tx'[j] = tx[j]
  BY <1>0, <1>1, GoneTo DEF Place
<1>3. lock[d] = t /\ \A x \in Session : lock[x] # t
  BY <1>1, <1>b DEF Judging
<1>4. CASE /\ UNCHANGED <<cur, lock>>
           /\ \A s \in Session : ~(Sc(s).device = d /\ Sc(s).state \in Live)
  <2>1. TypeOK' /\ Moves(t)
    BY <1>0, <1>1, <1>2, <1>4, MoveTyped DEF history
  <2>2. Judging(t, d)'
    BY <1>2, <1>3, <1>4 DEF Judging
  <2>3. PlaceOK(t)'
    BY <1>2, <2>2, Placed DEF t
  <2> QED BY <1>0, <1>1, <1>4, <1>a, <1>c, <2>1, <2>3, MoveFrame
<1>5. ASSUME NEW s \in Session, Sc(s).device = d, Sc(s).state \in Live \cup {"QUEUED"}, Free(t, s),
             WriteSession(t, s, [Sc(s) EXCEPT !.state = "ENDED"])
      PROVE  Inv'
  <2>1. PICK row \in SessionRow : /\ row = [Sc(s) EXCEPT !.state = "ENDED"] /\ row.state = "ENDED"
                                  /\ row.device = Sc(s).device /\ row.fence = Sc(s).fence
    <3>1. Sc(s) \in SessionRow
      BY <1>0, Types
    <3> QED BY ZenonT(40), <3>1, StateSet
  <2>2. lock[s] = NoTx
    BY <1>3, <1>5 DEF Free
  <2>3. TypeOK' /\ WritesSession(t, s) /\ Su(s)' = row
    BY <1>0, <1>1, <1>2, <1>5, <2>1, <2>2, SessionTyped
  <2>4. Sc(s)' = Sc(s) /\ lock'[d] = t
    BY <1>1, <1>3, <2>3, AllocatorAssumption DEF WritesSession, Sc, Keys
  <2>5. SessionWritten(t, s)'
    BY <1>5, <1>a, <2>1, <2>3, <2>4 DEF SessionWritten, Ending
  <2>6. Judging(t, d)'
    BY <1>2, <2>4 DEF Judging
  <2>7. PlaceOK(t)'
    BY <1>2, <2>6, Placed DEF t
  <2>8. Sc(s).state \in Live
    BY <1>5, AllocatorAssumption DEF Inv, Committed, SessionOK
  <2>9. \A x \in Session \ {s} : ~(Sc(x).state \in Live /\ Sc(x).device = d)
    BY <1>5, <2>8, OneLease
  <2>10. Su(s)'.state \notin Live
    BY <2>1, <2>3 DEF Live
  <2> QED BY <1>0, <1>1, <1>a, <1>c, <2>3, <2>5, <2>7, <2>9, <2>10, SessionFrame
<1>6. \/ /\ UNCHANGED <<cur, lock>>
         /\ \A s \in Session : ~(Sc(s).device = d /\ Sc(s).state \in Live)
      \/ \E s \in Session : /\ Sc(s).device = d /\ Sc(s).state \in Live \cup {"QUEUED"} /\ Free(t, s)
                            /\ WriteSession(t, s, [Sc(s) EXCEPT !.state = "ENDED"])
  BY DEF QuarantineSessions, t, Sc
<1> QED BY <1>4, <1>5, <1>6

-----------------------------------------------------------------------------
(* device_reset_complete is a transaction of its own: it writes and commits. *)

LEMMA ResetCompleteStep ==
  ASSUME Inv, NEW d \in Device, ResetComplete(d)
  PROVE  Inv'
<1>0. TypeOK /\ com \in Rows /\ cur \in Rows
  BY DEF Inv, TypeOK
<1>1. /\ lock[d] = NoTx /\ Dc(d).state = "CLEANING" /\ lock' = lock /\ tx' = tx
      /\ queued' = queued /\ stranded' = stranded
  BY DEF ResetComplete, Dc, history
<1>2. /\ com' \in Rows /\ com'.sessions = com.sessions
      /\ com'.devices = [com.devices EXCEPT ![d] = [com.devices[d] EXCEPT !.state = "READY"]]
  <2>1. com' = [com EXCEPT !.devices[d].state = "READY"]
    BY DEF ResetComplete
  <2>2. [com.devices[d] EXCEPT !.state = "READY"] \in DeviceRow
    BY <1>0, Types, StateSet DEF Dc
  <2> QED BY <1>0, <2>1, <2>2 DEF Rows
<1>3. /\ cur' \in Rows /\ cur'.sessions = cur.sessions
      /\ cur'.devices = [cur.devices EXCEPT ![d] = [cur.devices[d] EXCEPT !.state = "READY"]]
  <2>1. cur' = [cur EXCEPT !.devices[d].state = "READY"]
    BY DEF ResetComplete
  <2>2. [cur.devices[d] EXCEPT !.state = "READY"] \in DeviceRow
    BY <1>0, Types, StateSet DEF Du
  <2> QED BY <1>0, <2>1, <2>2 DEF Rows
<1>4. /\ \A e \in Device \ {d} : Dc(e)' = Dc(e) /\ Du(e)' = Du(e)
      /\ Dc(d)'.state = "READY" /\ Dc(d)'.fence = Dc(d).fence /\ Du(d)' = Dc(d)'
  <2>1. Du(d) = Dc(d) /\ Dc(d) \in DeviceRow
    BY <1>0, <1>1, Types DEF Inv, Written
  <2>2. Dc(d)' = [Dc(d) EXCEPT !.state = "READY"] /\ Du(d)' = [Du(d) EXCEPT !.state = "READY"]
    BY <1>0, <1>2, <1>3 DEF Rows, Dc, Du
  <2>3. \A e \in Device \ {d} : Dc(e)' = Dc(e) /\ Du(e)' = Du(e)
    BY <1>0, <1>2, <1>3 DEF Rows, Dc, Du
  <2> QED BY <2>1, <2>2, <2>3, StateSet
<1>5. \A s \in Session : Sc(s)' = Sc(s) /\ Su(s)' = Su(s)
  BY <1>2, <1>3 DEF Sc, Su
<1>6. TypeOK'
  BY <1>0, <1>1, <1>2, <1>3 DEF TypeOK
<1>7. Committed'
  <2>1. \A e \in Device : Dc(e)'.fence = Dc(e).fence
    BY <1>4
  <2>2. ASSUME NEW s \in Session PROVE SessionOK(s)'
    BY <1>1, <1>5, <2>1 DEF Inv, Committed, SessionOK, Sc, Dc
  <2>3. ASSUME NEW s \in Session PROVE LeaseOK(s)'
    <3>1. Sc(s).state \in Live => Sc(s).device \in Device /\ Sc(s).device # d
      BY <1>1 DEF Inv, Committed, SessionOK, LeaseOK
    <3> QED BY <1>4, <1>5, <3>1 DEF Inv, Committed, LeaseOK, Sc, Dc
  <2>4. ASSUME NEW e \in Device PROVE HeldOK(e)'
    BY <1>1, <1>4, <1>5 DEF Inv, Committed, HeldOK, Held
  <2>5. CommittedFences'
    BY <1>2 DEF Inv, Committed, CommittedFences
  <2> QED BY <2>2, <2>3, <2>4, <2>5 DEF Committed
<1>8. \A j \in Tx : Keeps(j) /\ Passive(j)
  BY <1>1, <1>4, <1>5, Kinds DEF Keeps, Passive
<1>9. ASSUME NEW s \in Session, lock[s] # NoTx PROVE SessionWritten(lock[s], s)'
  <2>1. PICK j \in Tx : lock[s] = j
    BY <1>9, Types DEF Inv
  <2>2. SessionWritten(j, s)'
    BY <1>1, <1>8, <2>1, SessionStays
  <2> QED BY <1>1, <2>1, <2>2
<1>10. ASSUME NEW e \in Device, lock[e] # NoTx PROVE DeviceWritten(lock[e], e)'
  <2>1. PICK j \in Tx : lock[e] = j
    BY <1>10, Types DEF Inv
  <2>2. /\ InHand(j, e) => InHand(j, e)'
        /\ Quarantining(j, e) =>
           \/ tx'[j].pc = "sessions"
           \/ \A s \in Session : Sc(s)'.state \in Live /\ Sc(s)'.device = e => lock'[s] = j
    BY <1>1, <1>5 DEF InHand, Quarantining
  <2>3. DeviceWritten(j, e)'
    BY <1>8, <2>1, <2>2, DeviceStays
  <2> QED BY <1>1, <2>1, <2>3
<1>11. Written'
  <2>1. \A s \in Session : lock[s] = NoTx => Su(s)' = Sc(s)'
    BY <1>5 DEF Inv, Written
  <2>2. \A e \in Device : lock[e] = NoTx => Du(e)' = Dc(e)'
    BY <1>4 DEF Inv, Written
  <2> QED BY <1>1, <1>9, <1>10, <2>1, <2>2 DEF Written
<1>12. GivenOnce'
  BY <1>5 DEF Inv, GivenOnce
<1>13. ASSUME NEW j \in Tx PROVE PlaceOK(j)'
  <2>1. Chosen(j) => NotGiven(tx[j].dev)'
    BY <1>1, <1>5 DEF Chosen, NotGiven
  <2> QED BY <1>5, <1>8, <2>1, PlaceStays
<1>14. Capped'
  <2>1. \A o : Direct(o)' = Direct(o)
    BY <1>1, <1>2 DEF Direct, Sc
  <2>2. \A s \in Session : TakesPlace(s)' => TakesPlace(s)
    BY <1>1, <1>5 DEF TakesPlace
  <2> QED BY <2>1, <2>2, AllocatorAssumption DEF Inv, Capped
<1> QED BY <1>6, <1>7, <1>11, <1>12, <1>13, <1>14 DEF Inv, Orderly

-----------------------------------------------------------------------------
(* reap: expire_sessions. *)

LEMMA ExpireStartStep ==
  ASSUME Inv, NEW k \in Tick, ExpireStart(k)
  PROVE  Inv'
<1> DEFINE t == Reap(k)
<1>0. t \in Tx /\ TypeOK /\ t # NoTx
  BY Kinds DEF Inv
<1>a. \A x \in Session : t # Allocate(x)
  BY Distinct
<1> HIDE DEF t
<1>1. PICK E \in SUBSET Session :
        /\ tx[t].pc = "idle" /\ UNCHANGED <<com, cur, lock, history>>
        /\ Goes(t, "expire", tx[t].dev, tx[t].row, E)
  BY DEF ExpireStart, At, t
<1>2. /\ tx' \in [Tx -> Running] /\ tx'[t].pc = "expire"
      /\ \A j \in Tx \ {t} : tx'[j] = tx[j]
  BY <1>0, <1>1, Types, Gone DEF Place
<1>3. TypeOK' /\ Moves(t)
  BY <1>0, <1>1, <1>2, MoveTyped
<1>4. PlaceOK(t)'
  <2>1. Reaping(t)'
    BY <1>2 DEF Reaping
  <2> QED BY <1>2, <2>1, Placed DEF t
<1> QED BY <1>0, <1>1, <1>3, <1>4, <1>a, MoveFrame

LEMMA ExpireSessionStep ==
  ASSUME Inv, NEW k \in Tick, NEW s \in Session, ExpireSession(k, s)
  PROVE  Inv'
<1> DEFINE t == Reap(k)
<1>0. t \in Tx /\ TypeOK /\ t # NoTx
  BY Kinds DEF Inv
<1>a. \A x \in Session : t # Allocate(x) /\ t # Attach(x)
  BY Distinct
<1>b. \A d \in Device : t # Quarantine(d)
  BY Distinct
<1> HIDE DEF t
<1>1. /\ tx[t].pc = "expire" /\ lock[s] = NoTx /\ com' = com /\ queued' = queued
      /\ stranded' = stranded
  BY DEF ExpireSession, At, t, history
<1>t. /\ tx[t].dev \in Device \cup {NoDevice} /\ tx[t].row \in SUBSET Session
      /\ tx[t].todo \ {s} \in SUBSET Session
      /\ Sc(s) \in SessionRow
  BY <1>0, Types
<1>2. CASE Sc(s).state \in Live
  <2>1. PICK d \in Device : Sc(s).device = d
    BY <1>2 DEF Inv, Committed, SessionOK
  <2>2. /\ WriteSession(t, s, [Sc(s) EXCEPT !.state = "ENDED"])
        /\ Goes(t, "clean", d, tx[t].row, tx[t].todo \ {s})
    BY <1>2, <2>1 DEF ExpireSession, Sc, t
  <2>3. PICK row \in SessionRow : /\ row = [Sc(s) EXCEPT !.state = "ENDED"] /\ row.state = "ENDED"
                                  /\ row.device = Sc(s).device /\ row.fence = Sc(s).fence
    BY ZenonT(40), <1>t, StateSet
  <2>4. /\ tx' \in [Tx -> Running] /\ tx'[t].pc = "clean" /\ tx'[t].dev = d
        /\ \A j \in Tx \ {t} : tx'[j] = tx[j]
    BY ZenonT(40), <1>0, <1>t, <2>2, Gone DEF Place
  <2>5. TypeOK' /\ WritesSession(t, s) /\ Su(s)' = row
    BY <1>0, <1>1, <2>2, <2>3, <2>4, SessionTyped
  <2>6. Sc(s)' = Sc(s) /\ lock'[s] = t /\ lock'[d] = lock[d]
    BY <1>1, <2>5, AllocatorAssumption DEF WritesSession, Sc, Keys
  <2>7. SessionWritten(t, s)'
    BY <1>2, <1>a, <2>1, <2>3, <2>4, <2>5, <2>6 DEF SessionWritten, Ending
  <2>8. lock[d] # t
    <3> SUFFICES ASSUME lock[d] = t PROVE FALSE
      OBVIOUS
    <3>1. DeviceWritten(t, d)
      BY <1>0 DEF Inv, Written
    <3>2. Dc(d).state # "READY"
      BY <1>2, <2>1 DEF Inv, Committed, LeaseOK
    <3>3. ~Cleaning(t, d)
      BY <1>0, <1>1, <1>2, <2>1, OneLease DEF Cleaning
    <3> QED BY <1>a, <1>b, <3>1, <3>2, <3>3 DEF DeviceWritten, Reserving, Quarantining, InUse
  <2>9. Reaping(t)'
    BY <1>2, <2>1, <2>3, <2>4, <2>5, <2>6, <2>8 DEF Reaping
  <2>10. PlaceOK(t)'
    BY <2>4, <2>9, Placed DEF t
  <2>11. Su(s)'.state \notin Live
    BY <2>3, <2>5 DEF Live
  <2> QED BY <1>0, <1>1, <1>a, <2>5, <2>7, <2>10, <2>11, SessionFrame
<1>3. CASE Sc(s).state \notin Live
  <2>1. /\ Goes(t, "expire", tx[t].dev, tx[t].row, tx[t].todo \ {s})
        /\ UNCHANGED <<com, cur, lock, history>>
    BY <1>3 DEF ExpireSession, Sc, t
  <2>2. /\ tx' \in [Tx -> Running] /\ tx'[t].pc = "expire"
        /\ \A j \in Tx \ {t} : tx'[j] = tx[j]
    BY ZenonT(40), <1>0, <1>t, <2>1, Gone DEF Place
  <2>3. TypeOK' /\ Moves(t)
    BY <1>0, <2>1, <2>2, MoveTyped
  <2>4. Reaping(t)'
    BY <2>2 DEF Reaping
  <2>5. PlaceOK(t)'
    BY <2>2, <2>4, Placed DEF t
  <2> QED BY <1>0, <1>1, <1>a, <2>3, <2>5, MoveFrame
<1> QED BY <1>2, <1>3

LEMMA ExpireCleanStep ==
  ASSUME Inv, NEW k \in Tick, ExpireClean(k)
  PROVE  Inv'
<1> DEFINE t == Reap(k)
<1>0. t \in Tx /\ TypeOK /\ t # NoTx
  BY Kinds DEF Inv
<1>a. \A x \in Session : t # Allocate(x)
  BY Distinct
<1>b. Reaping(t)
  BY Places
<1> HIDE DEF t
<1>1. /\ tx[t].pc = "clean" /\ Free(t, tx[t].dev) /\ com' = com /\ queued' = queued
      /\ stranded' = stranded /\ Goto(t, "expire")
      /\ WriteDevice(t, tx[t].dev, [SeenDevice(t, tx[t].dev) EXCEPT !.state = "CLEANING"])
  BY DEF ExpireClean, At, history, t
<1>2. PICK s \in Session : /\ lock[s] = t /\ Su(s).state = "ENDED"
                           /\ Sc(s).state \in Live /\ Sc(s).device = tx[t].dev
  BY <1>1, <1>b DEF Reaping
<1>3. PICK d \in Device : tx[t].dev = d /\ lock[d] = NoTx
  BY <1>1, <1>2, <1>b DEF Reaping, Free, Inv, Committed, SessionOK
<1>4. SeenDevice(t, d) = Dc(d) /\ Dc(d) \in DeviceRow
  BY <1>0, <1>3, Types DEF SeenDevice, Dc
<1>5. PICK row \in DeviceRow : /\ WriteDevice(t, d, row) /\ row.state = "CLEANING"
                               /\ row.fence = Dc(d).fence
  <2>1. PICK row \in DeviceRow : /\ row = [Dc(d) EXCEPT !.state = "CLEANING"]
                                 /\ row.state = "CLEANING" /\ row.fence = Dc(d).fence
    BY <1>4, StateSet
  <2> QED BY <1>1, <1>3, <1>4, <2>1
<1>6. /\ tx' \in [Tx -> Running] /\ tx'[t].pc = "expire"
      /\ \A j \in Tx \ {t} : tx'[j] = tx[j]
  BY <1>0, <1>1, GoneTo DEF Place
<1>7. TypeOK' /\ WritesDevice(t, d) /\ Du(d)' = row
  BY <1>0, <1>1, <1>3, <1>5, <1>6, DeviceTyped
<1>8. /\ Su(s)' = Su(s) /\ Sc(s)' = Sc(s) /\ Dc(d)' = Dc(d) /\ lock'[s] = t
  BY <1>1, <1>2, <1>7, AllocatorAssumption DEF WritesDevice, Sc, Dc, Keys
<1>9. DeviceWritten(t, d)'
  BY <1>2, <1>3, <1>5, <1>7, <1>8 DEF DeviceWritten, Cleaning
<1>10. PlaceOK(t)'
  <2>1. Reaping(t)'
    BY <1>6 DEF Reaping
  <2> QED BY <1>6, <2>1, Placed DEF t
<1> QED BY <1>0, <1>1, <1>3, <1>7, <1>9, <1>10, <1>a, DeviceFrame

-----------------------------------------------------------------------------
(* reap: promote_queued. *)

LEMMA PromoteStartStep ==
  ASSUME Inv, NEW k \in Tick, PromoteStart(k)
  PROVE  Inv'
<1> DEFINE t == Reap(k)
<1>0. t \in Tx /\ TypeOK /\ t # NoTx
  BY Kinds DEF Inv
<1>a. \A x \in Session : t # Allocate(x)
  BY Distinct
<1> HIDE DEF t
<1>1. PICK E \in SUBSET Session :
        /\ tx[t].pc = "expire" /\ UNCHANGED <<com, cur, lock, history>>
        /\ E = {s \in Session : SeenSession(t, s).state = "QUEUED"}
        /\ Goes(t, "promote", tx[t].dev, tx[t].row, E)
  BY DEF PromoteStart, At, t
<1>2. /\ tx' \in [Tx -> Running] /\ tx'[t].pc = "promote" /\ tx'[t].todo = E
      /\ \A j \in Tx \ {t} : tx'[j] = tx[j]
  BY ZenonT(40), <1>0, <1>1, Types, Gone DEF Place
<1>3. TypeOK' /\ Moves(t)
  BY <1>0, <1>1, <1>2, MoveTyped
<1>4. ASSUME NEW s \in E PROVE s \in queued /\ lock[s] # t
  <2>1. s \in Session /\ SeenSession(t, s).state = "QUEUED"
    BY <1>1
  <2>2. CASE lock[s] = t
    <3>1. SessionWritten(t, s) /\ Su(s).state = "QUEUED"
      BY <1>0, <2>1, <2>2 DEF Inv, Written, SeenSession, Su
    <3> QED BY <1>a, <2>1, <3>1 DEF SessionWritten, Ending, Activating, Leasing, Queueing
  <2>3. CASE lock[s] # t
    BY <2>1, <2>3 DEF SeenSession, Inv, Committed, SessionOK, Sc
  <2> QED BY <2>2, <2>3
<1>5. Reaping(t)'
  BY <1>1, <1>2, <1>4 DEF Reaping, history
<1>6. PlaceOK(t)'
  BY <1>2, <1>5, Placed DEF t
<1> QED BY <1>0, <1>1, <1>3, <1>6, <1>a, MoveFrame

LEMMA PromoteCountStep ==
  ASSUME Inv, NEW k \in Tick, NEW s \in Session, PromoteCount(k, s)
  PROVE  Inv'
<1> DEFINE t == Reap(k)
<1>0. t \in Tx /\ TypeOK /\ t # NoTx
  BY Kinds DEF Inv
<1>a. \A x \in Session : t # Allocate(x)
  BY Distinct
<1>b. Reaping(t)
  BY Places
<1> HIDE DEF t
<1>1. PICK pc \in {"promote", "pick"} :
        /\ tx[t].pc = "promote" /\ s \in tx[t].todo /\ UNCHANGED <<com, cur, lock, history>>
        /\ Goes(t, pc, tx[t].dev, {s}, tx[t].todo \ {s})
  BY DEF PromoteCount, At, t
<1>2. /\ tx' \in [Tx -> Running] /\ tx'[t].pc = pc
      /\ tx'[t].row = {s} /\ tx'[t].todo = tx[t].todo \ {s}
      /\ \A j \in Tx \ {t} : tx'[j] = tx[j]
  <2>1. tx[t].dev \in Device \cup {NoDevice} /\ {s} \in SUBSET Session
        /\ tx[t].todo \ {s} \in SUBSET Session /\ pc \in Place
    BY <1>0, Types DEF Place
  <2> QED BY <1>0, <1>1, <2>1, Gone
<1>3. TypeOK' /\ Moves(t)
  BY <1>0, <1>1, <1>2, MoveTyped
<1>4. Reaping(t)'
  BY <1>1, <1>2, <1>b DEF Reaping, history
<1>5. PlaceOK(t)'
  BY <1>1, <1>2, <1>4, Placed DEF t
<1> QED BY <1>0, <1>1, <1>3, <1>5, <1>a, MoveFrame

LEMMA PromotePickStep ==
  ASSUME Inv, NEW k \in Tick, PromotePick(k)
  PROVE  Inv'
<1> DEFINE t == Reap(k)
<1>0. t \in Tx /\ TypeOK /\ t # NoTx
  BY Kinds DEF Inv
<1>a. \A x \in Session : t # Allocate(x)
  BY Distinct
<1>b. Reaping(t)
  BY Places
<1> HIDE DEF t
<1>1. tx[t].pc = "pick" /\ com' = com /\ queued' = queued /\ stranded' = stranded
  BY DEF PromotePick, At, t, history
<1>2. CASE Goto(t, "promote") /\ UNCHANGED <<cur, lock>>
  <2>1. /\ tx' \in [Tx -> Running] /\ tx'[t].pc = "promote" /\ tx'[t].todo = tx[t].todo
        /\ \A j \in Tx \ {t} : tx'[j] = tx[j]
    BY <1>0, <1>2, GoneTo DEF Place
  <2>2. TypeOK' /\ Moves(t)
    BY <1>0, <1>1, <1>2, <2>1, MoveTyped DEF history
  <2>3. Reaping(t)'
    BY <1>1, <1>2, <1>b, <2>1 DEF Reaping
  <2>4. PlaceOK(t)'
    BY <2>1, <2>3, Placed DEF t
  <2> QED BY <1>0, <1>1, <1>a, <2>2, <2>4, MoveFrame
<1>3. ASSUME NEW d \in Candidates(t), WriteDevice(t, d, Reserved(SeenDevice(t, d))), Take(t, "update", d)
      PROVE  Inv'
  <2>1. /\ d \in Device /\ lock[d] = NoTx /\ SeenDevice(t, d) = Dc(d)
        /\ Dc(d).state = "READY" /\ Du(d) = Dc(d)
        /\ Reserved(Dc(d)) \in DeviceRow /\ NotGiven(d)
    BY <1>0, Picked
  <2>2. /\ tx' \in [Tx -> Running] /\ tx'[t].pc = "update" /\ tx'[t].dev = d
        /\ tx'[t].row = tx[t].row /\ tx'[t].todo = tx[t].todo
        /\ \A j \in Tx \ {t} : tx'[j] = tx[j]
    BY <1>0, <1>3, <2>1, Taking DEF Place
  <2>3. PICK row \in DeviceRow : row = Reserved(Dc(d))
    BY <2>1
  <2>4. TypeOK' /\ WritesDevice(t, d) /\ Du(d)' = row
    BY <1>0, <1>1, <1>3, <2>1, <2>2, <2>3, DeviceTyped
  <2>5. row.state = "RESERVED" /\ row.fence = Dc(d).fence + 1 /\ Dc(d)' = Dc(d)
    BY <1>1, <2>3 DEF Reserved, Dc
  <2>6. DeviceWritten(t, d)'
    BY <2>1, <2>2, <2>4, <2>5 DEF DeviceWritten, Reserving, InHand
  <2>7. lock'[d] = t /\ \A x \in Session : Su(x)' = Su(x) /\ lock'[x] = lock[x]
    BY <2>1, <2>4, AllocatorAssumption DEF WritesDevice, Keys
  <2>8. NotGiven(d)'
    BY <2>1, <2>7 DEF NotGiven
  <2>9. Chosen(t)'
    BY <2>1, <2>2, <2>4, <2>5, <2>7, <2>8 DEF Chosen, NotGiven, Du
  <2>10. tx[t].row \subseteq Session /\ tx[t].todo \subseteq Session
    BY <1>0, Types
  <2>11. Reaping(t)'
    BY <1>1, <1>b, <2>2, <2>7, <2>9, <2>10 DEF Reaping
  <2>12. PlaceOK(t)'
    BY <2>2, <2>11, Placed DEF t
  <2> QED BY <1>0, <1>1, <1>a, <2>1, <2>4, <2>6, <2>12, DeviceFrame
<1> QED BY <1>2, <1>3 DEF PromotePick, t

LEMMA PromoteUpdateStep ==
  ASSUME Inv, NEW k \in Tick, NEW s \in Session, PromoteUpdate(k, s)
  PROVE  Inv'
<1> DEFINE t == Reap(k)
<1>0. t \in Tx /\ TypeOK /\ t # NoTx
  BY Kinds DEF Inv
<1>a. \A x \in Session : t # Allocate(x)
  BY Distinct
<1>b. Reaping(t)
  BY Places
<1> HIDE DEF t
<1>1. /\ tx[t].pc = "update" /\ s \in tx[t].row /\ Free(t, s)
      /\ WriteSession(t, s, Leased(tx[t].dev)) /\ Goto(t, "promote")
      /\ com' = com /\ queued' = queued /\ stranded' = stranded
  BY DEF PromoteUpdate, At, t, history
<1>2. /\ tx' \in [Tx -> Running] /\ tx'[t].pc = "promote" /\ tx'[t].todo = tx[t].todo
      /\ \A j \in Tx \ {t} : tx'[j] = tx[j]
  BY <1>0, <1>1, GoneTo DEF Place
<1>3. lock[s] = NoTx /\ s \in queued /\ s \notin tx[t].todo /\ Chosen(t)
  BY <1>1, <1>b DEF Reaping, Free
<1>4. PICK d \in Device : tx[t].dev = d /\ lock[d] = t /\ Du(d).state = "RESERVED"
  BY <1>3 DEF Chosen
<1>5. PICK row \in SessionRow : /\ row = Leased(d) /\ row.state = "ALLOCATING"
                                /\ row.device = d /\ row.fence = Du(d).fence
  <2>1. Du(d).fence \in 0..MaxFence
    BY <1>0, Types
  <2> DEFINE r == Leased(d)
  <2>2. r = [state |-> "ALLOCATING", device |-> d, fence |-> Du(d).fence]
    BY DEF Leased, Du
  <2> HIDE DEF r
  <2>3. r \in SessionRow /\ r.state = "ALLOCATING" /\ r.device = d /\ r.fence = Du(d).fence
    BY <2>1, <2>2 DEF SessionRow, Live
  <2> QED BY <2>3 DEF r
<1>6. TypeOK' /\ WritesSession(t, s) /\ Su(s)' = row
  BY <1>0, <1>1, <1>2, <1>3, <1>4, <1>5, SessionTyped
<1>7. lock'[d] = t /\ Du(d)' = Du(d) /\ \A x \in Session \ {s} : lock'[x] = lock[x]
  BY <1>4, <1>6, AllocatorAssumption DEF WritesSession, Keys
<1>8. Leasing(t, s)'
  BY <1>1, <1>3, <1>4, <1>5, <1>6, <1>7 DEF Leasing, t, Su, Du
<1>9. tx[t].todo \subseteq Session
  BY <1>0, Types
<1>10. Reaping(t)'
  BY <1>1, <1>2, <1>3, <1>7, <1>9, <1>b DEF Reaping
<1>11. PlaceOK(t)'
  BY <1>2, <1>10, Placed DEF t
<1>12. Su(s)'.state = "ALLOCATING" /\ Su(s)'.device = tx[t].dev
  BY <1>4, <1>5, <1>6
<1>13. SessionWritten(t, s)'
  BY <1>8 DEF SessionWritten
<1> QED BY <1>0, <1>1, <1>3, <1>6, <1>11, <1>12, <1>13, <1>a, SessionFrame

LEMMA PromoteDoneStep ==
  ASSUME Inv, NEW k \in Tick, PromoteDone(k)
  PROVE  Inv'
<1> DEFINE t == Reap(k)
<1>0. t \in Tx /\ TypeOK /\ t # NoTx
  BY Kinds DEF Inv
<1>a. \A x \in Session : t # Allocate(x)
  BY Distinct
<1> HIDE DEF t
<1>1. tx[t].pc = "promote" /\ Goto(t, "commit") /\ UNCHANGED <<com, cur, lock, history>>
  BY DEF PromoteDone, At, t
<1>2. /\ tx' \in [Tx -> Running] /\ tx'[t].pc = "commit"
      /\ \A j \in Tx \ {t} : tx'[j] = tx[j]
  BY <1>0, <1>1, GoneTo DEF Place
<1>3. TypeOK' /\ Moves(t)
  BY <1>0, <1>1, <1>2, MoveTyped
<1>4. PlaceOK(t)'
  <2>1. Reaping(t)'
    BY <1>2 DEF Reaping
  <2> QED BY <1>2, <2>1, Placed DEF t
<1> QED BY <1>0, <1>1, <1>3, <1>4, <1>a, MoveFrame

-----------------------------------------------------------------------------
(* Transactions end. *)

LEMMA Ends ==
  ASSUME Inv, NEW t \in Tx, lock' = Unlocked(t), tx' = [tx EXCEPT ![t] = Idle]
  PROVE  /\ tx' \in [Tx -> Running] /\ lock' \in [Keys -> Tx \cup {NoTx}]
         /\ tx'[t].pc = "idle" /\ \A j \in Tx \ {t} : tx'[j] = tx[j]
         /\ \A k \in Keys : lock'[k] = IF lock[k] = t THEN NoTx ELSE lock[k]
         /\ \A k \in Keys : lock'[k] # t
         /\ PlaceOK(t)'
<1>1. TypeOK /\ t # NoTx /\ NoTx \notin Tx
  BY Kinds DEF Inv
<1>2. Idle \in Running /\ Idle.pc = "idle"
  BY DEF Idle, Running, Place
<1>3. tx' \in [Tx -> Running] /\ tx'[t] = Idle /\ \A j \in Tx \ {t} : tx'[j] = tx[j]
  <2>1. PICK r \in Running : r = Idle
    BY <1>2
  <2> QED BY <1>1, <2>1, TxTyped
<1>4. lock \in [Keys -> Tx \cup {NoTx}]
  BY <1>1 DEF TypeOK, Keys
<1>5. /\ lock' \in [Keys -> Tx \cup {NoTx}]
      /\ \A k \in Keys : lock'[k] = IF lock[k] = t THEN NoTx ELSE lock[k]
  BY <1>4 DEF Unlocked
<1>6. \A k \in Keys : lock'[k] # t
  BY <1>1, <1>5
<1>7. PlaceOK(t)'
  BY <1>2, <1>3, <1>6 DEF PlaceOK, Allocating, Releasing, Judging, Reaping, Keys
<1> QED BY <1>2, <1>3, <1>5, <1>6, <1>7

LEMMA RollbackStep ==
  ASSUME Inv, NEW t \in Tx, Rollback(t)
  PROVE  Inv'
<1>0. TypeOK /\ t # NoTx /\ NoTx \notin Tx
  BY Kinds DEF Inv
<1>1. /\ lock' = Unlocked(t) /\ tx' = [tx EXCEPT ![t] = Idle]
      /\ com' = com /\ queued' = queued /\ stranded' = stranded
      /\ cur' = [sessions |-> [s \in Session |->
                    IF lock[s] = t THEN com.sessions[s] ELSE cur.sessions[s]],
                 devices |-> [d \in Device |->
                    IF lock[d] = t THEN com.devices[d] ELSE cur.devices[d]]]
  BY DEF Rollback, history
<1>2. /\ tx' \in [Tx -> Running] /\ lock' \in [Keys -> Tx \cup {NoTx}]
      /\ tx'[t].pc = "idle" /\ \A j \in Tx \ {t} : tx'[j] = tx[j]
      /\ \A k \in Keys : lock'[k] = IF lock[k] = t THEN NoTx ELSE lock[k]
      /\ \A k \in Keys : lock'[k] # t
      /\ PlaceOK(t)'
  BY <1>1, Ends
<1>3. /\ \A s \in Session : Su(s)' = IF lock[s] = t THEN Sc(s) ELSE Su(s)
      /\ \A d \in Device : Du(d)' = IF lock[d] = t THEN Dc(d) ELSE Du(d)
  BY <1>1 DEF Su, Sc, Du, Dc
<1>4. TypeOK'
  <2>1. cur' \in Rows
    BY <1>0, <1>1 DEF TypeOK, Rows
  <2> QED BY <1>0, <1>1, <1>2, <2>1 DEF TypeOK, Keys
<1>5. Uncommitted(t)
  BY <1>1, <1>2 DEF Uncommitted
<1>6. /\ Committed' /\ \A s \in Session : Sc(s)' = Sc(s)
      /\ \A d \in Device : Dc(d)' = Dc(d)
  BY <1>5, CommittedStays
<1>7. \A j \in Tx \ {t} : Passive(j)
  BY <1>0, <1>1, <1>2, <1>3, <1>6 DEF Passive, Keeps, Keys
<1>8. ASSUME NEW s \in Session, lock'[s] # NoTx PROVE SessionWritten(lock[s], s)'
  <2>1. PICK j \in Tx \ {t} : lock[s] = j /\ lock'[s] = j
    BY <1>0, <1>2, <1>8, Types DEF Keys
  <2>2. SessionWritten(j, s)'
    BY <1>7, <2>1, SessionStays DEF Passive
  <2> QED BY <2>1, <2>2
<1>9. ASSUME NEW d \in Device, lock'[d] # NoTx PROVE DeviceWritten(lock[d], d)'
  <2>1. PICK j \in Tx \ {t} : lock[d] = j /\ lock'[d] = j
    BY <1>0, <1>2, <1>9, Types DEF Keys
  <2>2. /\ InHand(j, d) => InHand(j, d)'
        /\ Quarantining(j, d) =>
           \/ tx'[j].pc = "sessions"
           \/ \A s \in Session : Sc(s)'.state \in Live /\ Sc(s)'.device = d => lock'[s] = j
    BY <1>2, <1>6 DEF InHand, Quarantining, Keys
  <2>3. DeviceWritten(j, d)'
    BY <1>7, <2>1, <2>2, DeviceStays DEF Passive
  <2> QED BY <2>1, <2>3
<1>10. Written'
  <2>1. \A s \in Session : lock'[s] = NoTx => Su(s)' = Sc(s)'
    BY <1>2, <1>3, <1>6 DEF Inv, Written, Keys
  <2>2. \A d \in Device : lock'[d] = NoTx => Du(d)' = Dc(d)'
    BY <1>2, <1>3, <1>6 DEF Inv, Written, Keys
  <2> QED BY <1>8, <1>9, <2>1, <2>2 DEF Written
<1>11. ASSUME NEW s \in Session, NEW x \in Session, lock[s] = t, lock[x] # t, Sc(s).state \in Live,
              Su(x).state \in Live, Su(x).device = Sc(s).device
       PROVE  FALSE
  <2>1. s # x /\ Sc(s).device \in Device
    BY <1>11 DEF Inv, Committed, SessionOK
  <2>2. ~(Sc(x).state \in Live /\ Sc(x).device = Sc(s).device)
    BY <1>11, <2>1, OneLease
  <2>3. lock[x] # NoTx /\ SessionWritten(lock[x], x)
    BY <1>11, <2>2 DEF Inv, Written
  <2>4. Leasing(lock[x], x)
    BY <1>11, <2>2, <2>3 DEF SessionWritten, Ending, Queueing, Activating, Live
  <2>5. PICK d \in Device : d = Su(x).device /\ lock[d] # NoTx /\ Du(d).state = "RESERVED"
    BY <2>3, <2>4 DEF Leasing
  <2> QED BY <1>11, <2>5, ReservedWasReady
<1>12. GivenOnce'
  <2> SUFFICES ASSUME NEW s \in Session, NEW x \in Session, Su(s)'.state \in Live,
                      Su(x)'.state \in Live, Su(s)'.device = Su(x)'.device
               PROVE  s = x
    BY DEF GivenOnce
  <2>1. CASE lock[s] = t /\ lock[x] = t
    BY <1>3, <2>1, OneLease
  <2>2. CASE lock[s] = t /\ lock[x] # t
    BY <1>3, <1>11, <2>2
  <2>3. CASE lock[s] # t /\ lock[x] = t
    BY <1>3, <1>11, <2>3
  <2>4. CASE lock[s] # t /\ lock[x] # t
    BY <1>3, <2>4 DEF Inv, GivenOnce
  <2> QED BY <2>1, <2>2, <2>3, <2>4
<1>13. ASSUME NEW j \in Tx, j # t PROVE PlaceOK(j)'
  <2>1. ASSUME Chosen(j) PROVE NotGiven(tx[j].dev)'
    <3>1. PICK d \in Device : /\ tx[j].dev = d /\ lock[d] = j /\ Du(d).state = "RESERVED"
                              /\ NotGiven(d)
      BY <2>1 DEF Chosen
    <3>2. tx'[j].dev = d
      BY <1>2, <1>13, <3>1
    <3>3. \A s \in Session : ~(Sc(s).state \in Live /\ Sc(s).device = d)
      BY <1>0, <3>1, ReservedWasReady
    <3>4. \A s \in Session : ~(Su(s)'.state \in Live /\ Su(s)'.device = d)
      BY <1>3, <3>1, <3>3 DEF NotGiven
    <3> QED BY <3>2, <3>4 DEF NotGiven
  <2> QED BY <1>6, <1>7, <1>13, <2>1, PlaceStays
<1>14. Capped'
  <2>1. ASSUME NEW s \in Session, TakesPlace(s)' PROVE TakesPlace(s)
    <3>1. Allocate(s) # t /\ Allocate(s) \in Tx /\ tx'[Allocate(s)] = tx[Allocate(s)]
      BY <1>2, <2>1, Kinds DEF TakesPlace
    <3>2. tx[Allocate(s)].pc = "commit" => lock[s] = Allocate(s)
      BY Places DEF Allocating
    <3> QED BY <1>3, <2>1, <3>1, <3>2 DEF TakesPlace
  <2> QED BY <1>5, <2>1, CappedStays
<1> QED BY <1>2, <1>4, <1>6, <1>10, <1>12, <1>13, <1>14 DEF Inv, Orderly

(* What a commit changes. *)
LEMMA CommitShape ==
  ASSUME Inv, NEW t \in Tx, Commit(t)
  PROVE  /\ tx[t].pc = "commit" /\ lock' = Unlocked(t) /\ tx' = [tx EXCEPT ![t] = Idle]
         /\ \A s \in Session : Su(s)' = Su(s) /\ Sc(s)' = IF lock[s] = t THEN Su(s) ELSE Sc(s)
         /\ \A d \in Device : Du(d)' = Du(d) /\ Dc(d)' = IF lock[d] = t THEN Du(d) ELSE Dc(d)
         /\ \A s \in Session : s \in queued' <=> s \in queued \/ Sc(s)'.state = "QUEUED"
         /\ stranded' = stranded \cup Left(t)
         /\ TypeOK'
<1>1. /\ tx[t].pc = "commit" /\ lock' = Unlocked(t) /\ tx' = [tx EXCEPT ![t] = Idle] /\ cur' = cur
      /\ queued' = queued \cup {s \in Session : SeenSession(t, s).state = "QUEUED"}
      /\ stranded' = stranded \cup Left(t)
      /\ com' = [sessions |-> [s \in Session |-> SeenSession(t, s)],
                 devices |-> [d \in Device |-> SeenDevice(t, d)]]
  BY DEF Commit, At
<1>2. \A s \in Session : Su(s)' = Su(s) /\ Sc(s)' = SeenSession(t, s)
  BY <1>1 DEF Su, Sc
<1>3. \A d \in Device : Du(d)' = Du(d) /\ Dc(d)' = SeenDevice(t, d)
  BY <1>1 DEF Du, Dc
<1>4. \A s \in Session : SeenSession(t, s) = IF lock[s] = t THEN Su(s) ELSE Sc(s)
  BY DEF SeenSession, Su, Sc
<1>5. \A d \in Device : SeenDevice(t, d) = IF lock[d] = t THEN Du(d) ELSE Dc(d)
  BY DEF SeenDevice, Du, Dc
<1>6. TypeOK'
  <2>1. TypeOK
    BY DEF Inv
  <2>2. \A s \in Session : SeenSession(t, s) \in SessionRow
    BY <1>4, <2>1, Types
  <2>3. \A d \in Device : SeenDevice(t, d) \in DeviceRow
    BY <1>5, <2>1, Types
  <2>4. com' \in Rows
    BY <1>1, <2>2, <2>3 DEF Rows
  <2>5. tx' \in [Tx -> Running] /\ lock' \in [Keys -> Tx \cup {NoTx}]
    BY <1>1, Ends
  <2>6. Left(t) \subseteq Device
    BY DEF Left, Inv, Committed, SessionOK, Sc
  <2> QED BY <1>1, <2>1, <2>4, <2>5, <2>6 DEF TypeOK, Keys
<1> QED BY <1>1, <1>2, <1>3, <1>4, <1>5, <1>6

(* What t has written, as it commits. *)
LEMMA CommitSession ==
  ASSUME Inv, NEW t \in Tx, tx[t].pc = "commit", NEW s \in Session, lock[s] = t
  PROVE  /\ SessionWritten(t, s)
         /\ Su(s).state \in {"ENDED", "ACTIVE", "ALLOCATING", "QUEUED"}
         /\ Su(s).state = "QUEUED" => Queueing(t, s)
         /\ Su(s).state = "ACTIVE" => Activating(t, s)
         /\ Su(s).state = "ALLOCATING" => Leasing(t, s)
         /\ Su(s).state = "ENDED" => Ending(t, s)
         /\ Su(s).state # "ALLOCATING" /\ Sc(s).device \in Device => lock[Sc(s).device] = t
<1>1. SessionWritten(t, s)
  BY Kinds DEF Inv, Written
<1>2. Queueing(t, s) => Sc(s).device = NoDevice
  BY DEF Inv, Committed, SessionOK, Queueing
<1> QED BY <1>1, <1>2, AllocatorAssumption DEF SessionWritten, Ending, Activating, Leasing, Queueing

LEMMA CommitDevice ==
  ASSUME Inv, NEW t \in Tx, tx[t].pc = "commit", NEW d \in Device, lock[d] = t
  PROVE  /\ DeviceWritten(t, d) /\ Du(d).fence >= Dc(d).fence
         /\ Du(d).state = "RESERVED" =>
              /\ Dc(d).state = "READY" /\ Du(d).fence = Dc(d).fence + 1
              /\ \E s \in Session : lock[s] = t /\ Su(s).state = "ALLOCATING" /\ Su(s).device = d
         /\ Du(d).state = "SESSION_ACTIVE" =>
              \E s \in Session : lock[s] = t /\ Su(s).state = "ACTIVE" /\ Su(s).device = d
         /\ Du(d).state # "RESERVED" =>
              \A s \in Session : Sc(s).state \in Live /\ Sc(s).device = d => lock[s] = t
<1>1. DeviceWritten(t, d)
  BY Kinds DEF Inv, Written
<1>2. Dc(d).fence \in Nat
  BY Types DEF Inv
<1>3. CASE Reserving(t, d)
  <2>1. ~InHand(t, d)
    BY DEF InHand
  <2> QED BY <1>1, <1>2, <1>3, <2>1 DEF Reserving
<1>4. CASE Cleaning(t, d)
  <2>1. \A s \in Session : Sc(s).state \in Live /\ Sc(s).device = d => lock[s] = t
    BY <1>4, OneLease DEF Cleaning
  <2> QED BY <1>1, <1>2, <1>4, <2>1 DEF Cleaning
<1>5. CASE Quarantining(t, d)
  BY <1>1, <1>2, <1>5 DEF Quarantining
<1>6. CASE InUse(t, d)
  <2>1. PICK s \in Session : lock[s] = t /\ t = Attach(s) /\ Su(s).state = "ACTIVE" /\ Sc(s).device = d
    BY <1>6 DEF InUse
  <2>2. Activating(t, s)
    BY <2>1, CommitSession
  <2>3. Sc(s).state \in Live /\ Su(s).device = d
    BY <2>1, <2>2 DEF Activating, Live
  <2>4. \A x \in Session : Sc(x).state \in Live /\ Sc(x).device = d => lock[x] = t
    BY <2>1, <2>3, OneLease
  <2> QED BY <1>1, <1>2, <1>6, <2>1, <2>3, <2>4 DEF InUse
<1> QED BY <1>1, <1>3, <1>4, <1>5, <1>6 DEF DeviceWritten

(* What is committed is in order. *)
LEMMA CommitCommitted ==
  ASSUME Inv, NEW t \in Tx, Commit(t)
  PROVE  Committed'
<1>0. /\ tx[t].pc = "commit"
      /\ \A s \in Session : Su(s)' = Su(s) /\ Sc(s)' = IF lock[s] = t THEN Su(s) ELSE Sc(s)
      /\ \A d \in Device : Du(d)' = Du(d) /\ Dc(d)' = IF lock[d] = t THEN Du(d) ELSE Dc(d)
      /\ \A s \in Session : s \in queued' <=> s \in queued \/ Sc(s)'.state = "QUEUED"
      /\ stranded' = stranded \cup Left(t)
  BY CommitShape
<1>1. \A d \in Device : Dc(d)'.fence >= Dc(d).fence /\ Dc(d).fence \in Nat /\ Dc(d)'.fence \in Nat
  BY <1>0, CommitDevice, Types DEF Inv
<1>2. ASSUME NEW s \in Session PROVE SessionOK(s)'
  <2>1. SessionOK(s) /\ Sc(s).fence \in Nat
    BY Types DEF Inv, Committed
  <2>2. CASE lock[s] # t
    <3>1. Sc(s)' = Sc(s)
      BY <1>0, <2>2
    <3>2. Sc(s).device \in Device => Sc(s).fence <= Dc(Sc(s).device)'.fence
      <4> SUFFICES ASSUME NEW d \in Device, Sc(s).device = d PROVE Sc(s).fence <= Dc(d)'.fence
        BY <3>1 DEF Dc, Sc
      <4> QED BY <1>1, <2>1 DEF SessionOK
    <3> QED BY <1>0, <2>1, <3>1, <3>2 DEF SessionOK
  <2>3. CASE lock[s] = t
    <3>1. Sc(s)' = Su(s)
      BY <1>0, <2>3
    <3>2. /\ Su(s).state \in {"ENDED", "ACTIVE", "ALLOCATING", "QUEUED"}
          /\ Su(s).state = "QUEUED" => Su(s).device = NoDevice
          /\ Su(s).state = "ALLOCATING" => /\ Su(s).device \in Device /\ lock[Su(s).device] = t
                                           /\ Su(s).fence = Du(Su(s).device).fence
          /\ Su(s).state \in {"ACTIVE", "ENDED"} => /\ Su(s).device = Sc(s).device
                                                    /\ Su(s).fence = Sc(s).fence
          /\ Su(s).state = "ACTIVE" => Sc(s).state = "ALLOCATING"
      BY <1>0, <2>3, CommitSession DEF Queueing, Activating, Leasing, Ending
    <3>3. Su(s).fence \in Nat
      BY Types DEF Inv
    <3>4. ASSUME NEW d \in Device, Su(s).device = d PROVE Su(s).fence <= Dc(d)'.fence
      <4>1. CASE Su(s).state = "ALLOCATING"
        BY <1>0, <1>1, <3>2, <3>4, <4>1
      <4>2. CASE Su(s).state \in {"ACTIVE", "ENDED"}
        BY <1>1, <2>1, <3>2, <3>4, <4>2 DEF SessionOK
      <4> QED BY <3>2, <3>4, <4>1, <4>2, AllocatorAssumption
    <3>5. Sc(s)'.device \in Device => Sc(s)'.fence <= Dc(Sc(s).device)'.fence
      <4> SUFFICES ASSUME NEW d \in Device, Sc(s)'.device = d PROVE Sc(s)'.fence <= Dc(d)'.fence
        BY DEF Dc, Sc
      <4> QED BY <3>1, <3>4
    <3>6. Su(s).state \in Live => Su(s).device \in Device
      BY <2>1, <3>2 DEF SessionOK, Live
    <3> QED BY <1>0, <3>1, <3>2, <3>5, <3>6 DEF SessionOK
  <2> QED BY <2>2, <2>3
<1>3. ASSUME NEW s \in Session PROVE LeaseOK(s)'
  <2> SUFFICES ASSUME Sc(s)'.state \in Live, NEW d \in Device, Sc(s)'.device = d
               PROVE  /\ Dc(d)'.fence = Sc(s)'.fence
                      /\ Dc(d)'.state = IF Sc(s)'.state = "ACTIVE" THEN "SESSION_ACTIVE" ELSE "RESERVED"
    BY <1>2 DEF LeaseOK, SessionOK, Sc, Dc
  <2>1. CASE lock[s] # t
    <3>1. Sc(s)' = Sc(s) /\ LeaseOK(s)
      BY <1>0, <2>1 DEF Inv, Committed
    <3>2. Dc(d).state \in Held
      BY <3>1 DEF LeaseOK, Held
    <3>3. lock[d] # t
      BY <1>0, <2>1, <3>1, <3>2, CommitDevice DEF Held
    <3> QED BY <1>0, <3>1, <3>3 DEF LeaseOK
  <2>2. CASE lock[s] = t /\ Su(s).state = "ALLOCATING"
    <3>1. Leasing(t, s) /\ Sc(s)' = Su(s)
      BY <1>0, <2>2, CommitSession
    <3> QED BY <1>0, <3>1 DEF Leasing
  <2>3. CASE lock[s] = t /\ Su(s).state # "ALLOCATING"
    <3>1. Activating(t, s) /\ Sc(s)' = Su(s) /\ Su(s).state = "ACTIVE"
      BY <1>0, <2>3, CommitSession DEF Live
    <3>2. Sc(s).device = d /\ Sc(s).state = "ALLOCATING" /\ lock[d] = t /\ Su(s).fence = Sc(s).fence
      BY <1>0, <3>1 DEF Activating
    <3>3. Dc(d).state = "RESERVED" /\ Dc(d).fence = Sc(s).fence
      BY <3>2 DEF Inv, Committed, LeaseOK, Live
    <3>4. DeviceWritten(t, d)
      BY <1>0, <3>2, CommitDevice
    <3>5. InUse(t, d)
      <4>1. ~Cleaning(t, d)
        <5> SUFFICES ASSUME Cleaning(t, d) PROVE FALSE
          OBVIOUS
        <5>1. PICK x \in Session : /\ lock[x] = t /\ Su(x).state = "ENDED"
                                   /\ Sc(x).state \in Live /\ Sc(x).device = d
          BY DEF Cleaning
        <5>2. x = s
          BY <3>2, <5>1, OneLease DEF Live
        <5> QED BY <3>1, <5>1, <5>2
      <4>2. ~Quarantining(t, d)
        BY <3>1, Distinct DEF Quarantining, Activating
      <4> QED BY <3>3, <3>4, <4>1, <4>2 DEF DeviceWritten, Reserving
    <3> QED BY <1>0, <3>1, <3>2, <3>3, <3>5 DEF InUse
  <2> QED BY <2>1, <2>2, <2>3
<1>4. ASSUME NEW d \in Device PROVE HeldOK(d)'
  <2> SUFFICES ASSUME Dc(d)'.state \in Held, d \notin stranded'
               PROVE  \E s \in Session : Sc(s)'.state \in Live /\ Sc(s)'.device = d
    BY DEF HeldOK
  <2>1. CASE lock[d] = t
    <3>1. Dc(d)' = Du(d)
      BY <1>0, <2>1
    <3>2. PICK s \in Session : lock[s] = t /\ Su(s).state \in {"ALLOCATING", "ACTIVE"} /\ Su(s).device = d
      BY <1>0, <2>1, <3>1, CommitDevice DEF Held
    <3> QED BY <1>0, <3>2 DEF Live
  <2>2. CASE lock[d] # t
    <3>1. Dc(d)' = Dc(d) /\ d \notin stranded
      BY <1>0, <2>2
    <3>2. PICK s \in Session : Sc(s).state \in Live /\ Sc(s).device = d
      BY <3>1 DEF Inv, Committed, HeldOK
    <3>3. CASE lock[s] # t
      BY <1>0, <3>2, <3>3
    <3>4. CASE lock[s] = t
      <4>1. Su(s).state = "ALLOCATING" /\ Leasing(t, s)
        BY <1>0, <2>2, <3>2, <3>4, CommitSession
      <4>2. Su(s).device # d
        BY <2>2, <4>1 DEF Leasing
      <4>3. d \in Left(t)
        BY <3>2, <3>4, <4>1, <4>2 DEF Left, Sc, Su, Live
      <4> QED BY <1>0, <4>3
    <3> QED BY <3>3, <3>4
  <2> QED BY <2>1, <2>2
<1>5. ASSUME NEW s \in Session, NEW x \in Session, lock[s] = t, Su(s).state = "ALLOCATING"
      PROVE  ~(Sc(x).device = Su(s).device /\ Sc(x).fence = Su(s).fence)
  <2>1. PICK d \in Device : /\ Su(s).device = d /\ lock[d] = t
                            /\ Du(d).state = "RESERVED" /\ Du(d).fence = Su(s).fence
    BY <1>0, <1>5, CommitSession DEF Leasing
  <2>2. Du(d).fence = Dc(d).fence + 1 /\ Dc(d).fence \in Nat /\ Sc(x).fence \in Nat
    BY <1>0, <1>1, <2>1, CommitDevice, Types DEF Inv
  <2>3. Sc(x).device = d => Sc(x).fence <= Dc(d).fence
    BY DEF Inv, Committed, SessionOK
  <2> QED BY <2>1, <2>2, <2>3
<1>6. ASSUME NEW s \in Session, ~(lock[s] = t /\ Su(s).state = "ALLOCATING"), Sc(s)'.device # NoDevice
      PROVE  Sc(s)'.device = Sc(s).device /\ Sc(s)'.fence = Sc(s).fence
  BY <1>0, <1>6, CommitSession DEF Queueing, Activating, Ending
<1>7. ASSUME NEW s \in Session, NEW x \in Session, Sc(s)'.device # NoDevice,
             Sc(s)'.device = Sc(x)'.device, Sc(s)'.fence = Sc(x)'.fence
      PROVE  s = x
  <2>1. CASE /\ lock[s] = t /\ Su(s).state = "ALLOCATING"
             /\ lock[x] = t /\ Su(x).state = "ALLOCATING"
    BY <1>0, <1>7, <2>1 DEF Inv, GivenOnce, Live
  <2>2. CASE lock[s] = t /\ Su(s).state = "ALLOCATING" /\ ~(lock[x] = t /\ Su(x).state = "ALLOCATING")
    <3>1. Sc(x)'.device = Sc(x).device /\ Sc(x)'.fence = Sc(x).fence
      BY <1>6, <1>7, <2>2
    <3> QED BY <1>0, <1>5, <1>7, <2>2, <3>1
  <2>3. CASE lock[x] = t /\ Su(x).state = "ALLOCATING" /\ ~(lock[s] = t /\ Su(s).state = "ALLOCATING")
    <3>1. Sc(s)'.device = Sc(s).device /\ Sc(s)'.fence = Sc(s).fence
      BY <1>6, <1>7, <2>3
    <3> QED BY <1>0, <1>5, <1>7, <2>3, <3>1
  <2>4. CASE /\ ~(lock[s] = t /\ Su(s).state = "ALLOCATING")
             /\ ~(lock[x] = t /\ Su(x).state = "ALLOCATING")
    <3>1. /\ Sc(s).device # NoDevice /\ Sc(s).device = Sc(x).device /\ Sc(s).fence = Sc(x).fence
      BY <1>6, <1>7, <2>4
    <3> QED BY <3>1 DEF Inv, Committed, CommittedFences, Sc
  <2> QED BY <2>1, <2>2, <2>3, <2>4
<1>8. CommittedFences'
  BY <1>7 DEF CommittedFences, Sc
<1> QED BY <1>2, <1>3, <1>4, <1>8 DEF Committed

LEMMA CommitStep ==
  ASSUME Inv, NEW t \in Tx, Commit(t)
  PROVE  Inv'
<1>0. /\ tx[t].pc = "commit" /\ lock' = Unlocked(t) /\ tx' = [tx EXCEPT ![t] = Idle]
      /\ \A s \in Session : Su(s)' = Su(s) /\ Sc(s)' = IF lock[s] = t THEN Su(s) ELSE Sc(s)
      /\ \A d \in Device : Du(d)' = Du(d) /\ Dc(d)' = IF lock[d] = t THEN Du(d) ELSE Dc(d)
      /\ \A s \in Session : s \in queued' <=> s \in queued \/ Sc(s)'.state = "QUEUED"
      /\ TypeOK' /\ t # NoTx /\ NoTx \notin Tx
  BY CommitShape, Kinds
<1>1. /\ tx'[t].pc = "idle" /\ \A j \in Tx \ {t} : tx'[j] = tx[j]
      /\ \A k \in Keys : lock'[k] = IF lock[k] = t THEN NoTx ELSE lock[k]
      /\ \A k \in Keys : lock'[k] # t
      /\ PlaceOK(t)'
  BY <1>0, Ends
<1>2. queued \subseteq Session /\ queued \subseteq queued'
  BY <1>0 DEF Inv, TypeOK
<1>3. \A j \in Tx \ {t} : Passive(j)
  BY <1>0, <1>1, <1>2 DEF Passive, Keeps, Keys
<1>4. ASSUME NEW s \in Session, lock'[s] # NoTx PROVE SessionWritten(lock[s], s)'
  <2>1. PICK j \in Tx \ {t} : lock[s] = j /\ lock'[s] = j
    BY <1>0, <1>1, <1>4, Types DEF Keys, Inv
  <2>2. SessionWritten(j, s)'
    BY <1>3, <2>1, SessionStays DEF Passive
  <2> QED BY <2>1, <2>2
<1>5. ASSUME NEW d \in Device, lock'[d] # NoTx PROVE DeviceWritten(lock[d], d)'
  <2>1. PICK j \in Tx \ {t} : lock[d] = j /\ lock'[d] = j
    BY <1>0, <1>1, <1>5, Types DEF Keys, Inv
  <2>2. InHand(j, d) => InHand(j, d)'
    BY <1>1 DEF InHand
  <2>3. ASSUME Quarantining(j, d), tx'[j].pc # "sessions",
               NEW s \in Session, Sc(s)'.state \in Live, Sc(s)'.device = d
        PROVE  lock'[s] = j
    <3>1. \A x \in Session : Sc(x).state \in Live /\ Sc(x).device = d => lock[x] = j
      BY <1>1, <2>3 DEF Quarantining
    <3>2. CASE lock[s] # t
      BY <1>0, <1>1, <2>3, <3>1, <3>2 DEF Keys
    <3>3. CASE lock[s] = t
      <4>1. Activating(t, s) \/ Leasing(t, s)
        BY <1>0, <2>3, <3>3, CommitSession DEF Live
      <4> QED BY <1>0, <2>1, <2>3, <3>1, <3>3, <4>1 DEF Activating, Leasing, Live
    <3> QED BY <3>2, <3>3
  <2>4. DeviceWritten(j, d)'
    BY <1>3, <2>1, <2>2, <2>3, DeviceStays DEF Passive
  <2> QED BY <2>1, <2>4
<1>6. Written'
  <2>1. \A s \in Session : lock'[s] = NoTx => Su(s)' = Sc(s)'
    BY <1>0, <1>1 DEF Inv, Written, Keys
  <2>2. \A d \in Device : lock'[d] = NoTx => Du(d)' = Dc(d)'
    BY <1>0, <1>1 DEF Inv, Written, Keys
  <2> QED BY <1>4, <1>5, <2>1, <2>2 DEF Written
<1>7. GivenOnce'
  BY <1>0 DEF Inv, GivenOnce
<1>8. ASSUME NEW j \in Tx, j # t PROVE PlaceOK(j)'
  <2>1. Chosen(j) => NotGiven(tx[j].dev)'
    BY <1>0, <1>1, <1>8 DEF Chosen, NotGiven
  <2>2. ASSUME NEW s \in Session, j = Allocate(s), lock[s] # j, Sc(s).state = "NONE"
        PROVE  Sc(s)'.state = "NONE"
    BY <1>0, <1>8, <2>2, NotThere
  <2> QED BY <1>3, <1>8, <2>1, <2>2, PlaceStays
<1>9. ASSUME NEW s \in Session, Sc(s)'.state \in Live, s \notin queued'
      PROVE  \/ Sc(s).state \in Live /\ s \notin queued
             \/ t = Allocate(s) /\ TakesPlace(s)
  <2>1. s \notin queued
    BY <1>2, <1>9
  <2>2. CASE lock[s] # t
    BY <1>0, <1>9, <2>1, <2>2
  <2>3. CASE lock[s] = t
    <3>1. Activating(t, s) \/ (Leasing(t, s) /\ Su(s).state = "ALLOCATING")
      BY <1>0, <1>9, <2>3, CommitSession DEF Live
    <3> QED BY <1>0, <2>1, <3>1 DEF Activating, Leasing, Live, TakesPlace
  <2> QED BY <2>2, <2>3
<1>10. Capped'
  <2>1. ASSUME NEW o \in Org
        PROVE  \/ Direct(o)' \in SUBSET Direct(o)
               \/ \E s \in Session : /\ t = Allocate(s) /\ TakesPlace(s) /\ OrgOf[s] = o
                                     /\ Direct(o)' \in SUBSET (Direct(o) \cup {s})
    <3>1. \A x : x \in Direct(o)' => x \in Session /\ x \notin queued' /\ OrgOf[x] = o /\ Sc(x)'.state \in Live
      BY DEF Direct
    <3>2. \A x : x \in Session /\ x \notin queued /\ OrgOf[x] = o /\ Sc(x).state \in Live => x \in Direct(o)
      BY DEF Direct
    <3>3. CASE \E s \in Session : t = Allocate(s) /\ TakesPlace(s) /\ OrgOf[s] = o
      <4>1. PICK s \in Session : t = Allocate(s) /\ TakesPlace(s) /\ OrgOf[s] = o
        BY <3>3
      <4>2. \A x \in Session : t = Allocate(x) => x = s
        BY <4>1, Kinds
      <4> QED BY <1>9, <3>1, <3>2, <4>1, <4>2
    <3>4. CASE ~\E s \in Session : t = Allocate(s) /\ TakesPlace(s) /\ OrgOf[s] = o
      BY <1>9, <3>1, <3>2, <3>4
    <3> QED BY <3>3, <3>4
  <2>2. ASSUME NEW o \in Org
        PROVE  /\ Direct(o) \in SUBSET Session /\ IsFiniteSet(Direct(o)) /\ Cardinality(Direct(o)) \in Nat
               /\ MaxConcurrent[o] \in Nat /\ Cardinality(Direct(o)) <= MaxConcurrent[o]
               /\ Direct(o)' \in SUBSET Session /\ Cardinality(Direct(o)') \in Nat
    <3>1. Direct(o) \in SUBSET Session /\ Direct(o)' \in SUBSET Session
      BY DEF Direct
    <3> QED BY <3>1, Counts, AllocatorAssumption DEF Inv, Capped
  <2>3. ASSUME NEW o \in Org, Direct(o)' \in SUBSET Direct(o)
        PROVE  Cardinality(Direct(o)') <= Cardinality(Direct(o))
    BY <2>2, <2>3, Counts
  <2>4. ASSUME NEW o \in Org PROVE Cardinality(Direct(o)') <= MaxConcurrent[o]
    <3>1. CASE Direct(o)' \in SUBSET Direct(o)
      BY <2>2, <2>3, <3>1
    <3>2. ASSUME NEW s \in Session, t = Allocate(s), TakesPlace(s), OrgOf[s] = o,
                 Direct(o)' \in SUBSET (Direct(o) \cup {s})
          PROVE  Cardinality(Direct(o)') <= MaxConcurrent[o]
      <4>1. Cardinality(Direct(o)) < MaxConcurrent[o]
        BY <3>2 DEF Inv, Capped
      <4>2. Cardinality(Direct(o) \cup {s}) <= Cardinality(Direct(o)) + 1
        <5>1. IsFiniteSet(Direct(o)) /\ Cardinality(Direct(o)) \in Nat
          BY <2>2
        <5>2. Cardinality(Direct(o) \cup {s}) =
                IF s \in Direct(o) THEN Cardinality(Direct(o)) ELSE Cardinality(Direct(o)) + 1
          BY <5>1, FS_AddElement
        <5> QED BY <5>1, <5>2
      <4>3. /\ Cardinality(Direct(o)') <= Cardinality(Direct(o) \cup {s})
            /\ Cardinality(Direct(o) \cup {s}) \in Nat
        <5>1. Direct(o) \cup {s} \in SUBSET Session
          BY <2>2
        <5> QED BY <3>2, <5>1, Counts
      <4> QED BY <2>2, <4>1, <4>2, <4>3
    <3> QED BY <2>1, <3>1, <3>2
  <2>5. ASSUME NEW x \in Session, TakesPlace(x)'
        PROVE  Cardinality(Direct(OrgOf[x])') < MaxConcurrent[OrgOf[x]]
    <3>1. OrgOf[x] \in Org
      BY AllocatorAssumption
    <3>2. Allocate(x) # t /\ Allocate(x) \in Tx /\ tx'[Allocate(x)] = tx[Allocate(x)]
      BY <1>1, <2>5, Kinds DEF TakesPlace
    <3>3. TakesPlace(x)
      BY <1>0, <2>5, <3>2 DEF TakesPlace
    <3>4. lock[OrgOf[x]] = Allocate(x)
      BY <3>3, Places DEF Allocating, TakesPlace
    <3>5. \A s \in Session : t = Allocate(s) => lock[OrgOf[s]] = t
      BY <1>0, Places DEF Allocating
    <3>6. Direct(OrgOf[x])' \in SUBSET Direct(OrgOf[x])
      BY <2>1, <3>1, <3>2, <3>4, <3>5
    <3>7. Cardinality(Direct(OrgOf[x])) < MaxConcurrent[OrgOf[x]]
      BY <3>3 DEF Inv, Capped
    <3> QED BY <2>2, <2>3, <3>1, <3>6, <3>7
  <2> QED BY <2>4, <2>5 DEF Capped
<1> QED BY <1>0, <1>1, <1>6, <1>7, <1>8, <1>10, CommitCommitted DEF Inv, Orderly

-----------------------------------------------------------------------------
LEMMA InitOK ==
  ASSUME Init
  PROVE  Inv
<1>1. TypeOK
  <2>1. 0 \in 0..MaxFence
    BY AllocatorAssumption
  <2>2. com \in Rows
    BY <2>1 DEF Init, Rows, SessionRow, DeviceRow
  <2>3. Idle \in Running
    BY DEF Idle, Running, Place
  <2> QED BY <2>2, <2>3 DEF Init, TypeOK
<1>2. /\ \A s \in Session : /\ Sc(s).state = "NONE" /\ Sc(s).device = NoDevice /\ Su(s) = Sc(s)
                            /\ lock[s] = NoTx
      /\ \A d \in Device : Dc(d).state = "READY" /\ Du(d) = Dc(d) /\ lock[d] = NoTx
      /\ \A k \in Keys : lock[k] = NoTx
      /\ \A t \in Tx : tx[t].pc = "idle"
      /\ queued = {}
  BY DEF Init, Sc, Su, Dc, Du, Idle, Keys
<1>3. Committed
  BY <1>2, AllocatorAssumption DEF Committed, SessionOK, LeaseOK, HeldOK, Held, CommittedFences, Live, Sc
<1>4. Written
  BY <1>2 DEF Written
<1>5. GivenOnce
  BY <1>2 DEF GivenOnce, Live
<1>6. Orderly
  BY <1>2, Kinds DEF Orderly, PlaceOK, Allocating, Releasing, Judging, Reaping, Keys
<1>7. Capped
  <2>1. \A o : Direct(o) = {}
    BY <1>2 DEF Direct, Live
  <2>2. \A s \in Session : ~TakesPlace(s)
    BY <1>2, Kinds DEF TakesPlace
  <2> QED BY <2>1, <2>2, FS_EmptySet, AllocatorAssumption DEF Capped
<1> QED BY <1>1, <1>3, <1>4, <1>5, <1>6, <1>7 DEF Inv

LEMMA StutterOK ==
  ASSUME Inv, UNCHANGED vars
  PROVE  Inv'
<1>1. com' = com /\ cur' = cur /\ lock' = lock /\ tx' = tx /\ queued' = queued /\ stranded' = stranded
  BY DEF vars, history
<1>2. \A s \in Session : Su(s)' = Su(s) /\ Sc(s)' = Sc(s)
  BY <1>1 DEF Su, Sc
<1>3. \A d \in Device : Du(d)' = Du(d) /\ Dc(d)' = Dc(d)
  BY <1>1 DEF Du, Dc
<1>4. \A t : Uncommitted(t)
  BY <1>1 DEF Uncommitted
<1>5. \A j \in Tx : Passive(j) /\ Keeps(j)
  BY <1>1, <1>2, <1>3 DEF Passive, Keeps
<1>6. TypeOK'
  BY <1>1 DEF Inv, TypeOK
<1>7. ASSUME NEW s \in Session, lock[s] # NoTx PROVE SessionWritten(lock[s], s)'
  <2>1. PICK j \in Tx : lock[s] = j
    BY <1>7, Types DEF Inv
  <2>2. SessionWritten(j, s)'
    BY <1>1, <1>5, <2>1, SessionStays
  <2> QED BY <1>1, <2>1, <2>2
<1>8. ASSUME NEW d \in Device, lock[d] # NoTx PROVE DeviceWritten(lock[d], d)'
  <2>1. PICK j \in Tx : lock[d] = j
    BY <1>8, Types DEF Inv
  <2>2. /\ InHand(j, d) => InHand(j, d)'
        /\ Quarantining(j, d) =>
           \/ tx'[j].pc = "sessions"
           \/ \A s \in Session : Sc(s)'.state \in Live /\ Sc(s)'.device = d => lock'[s] = j
    BY <1>1, <1>2 DEF InHand, Quarantining
  <2>3. DeviceWritten(j, d)'
    BY <1>5, <2>1, <2>2, DeviceStays
  <2> QED BY <1>1, <2>1, <2>3
<1>9. Written'
  <2>1. \A s \in Session : lock[s] = NoTx => Su(s)' = Sc(s)'
    BY <1>2 DEF Inv, Written
  <2>2. \A d \in Device : lock[d] = NoTx => Du(d)' = Dc(d)'
    BY <1>3 DEF Inv, Written
  <2> QED BY <1>1, <1>7, <1>8, <2>1, <2>2 DEF Written
<1>10. GivenOnce'
  BY <1>2 DEF Inv, GivenOnce
<1>11. ASSUME NEW j \in Tx PROVE PlaceOK(j)'
  <2>1. Chosen(j) => NotGiven(tx[j].dev)'
    BY <1>1, <1>2 DEF Chosen, NotGiven
  <2> QED BY <1>2, <1>5, <2>1, PlaceStays
<1>12. Capped'
  <2>1. \A s \in Session : TakesPlace(s)' => TakesPlace(s)
    BY <1>1, <1>2 DEF TakesPlace
  <2> QED BY <1>4, <2>1, CappedStays
<1> QED BY <1>4, <1>6, <1>9, <1>10, <1>11, <1>12, CommittedStays DEF Inv, Orderly

LEMMA StepOK ==
  ASSUME Inv, [Next]_vars
  PROVE  Inv'
<1>1. ASSUME NEW s \in Session, AllocateLock(s) \/ AllocateCount(s) \/ AllocatePick(s) \/ AllocateInsert(s)
      PROVE  Inv'
  BY <1>1, AllocateLockStep, AllocateCountStep, AllocatePickStep, AllocateInsertStep
<1>2. ASSUME NEW s \in Session,
             ReleaseSession(s) \/ ReleaseDevice(s) \/ ActivateSession(s) \/ ActivateDevice(s)
      PROVE  Inv'
  BY <1>2, ReleaseSessionStep, ReleaseDeviceStep, ActivateSessionStep, ActivateDeviceStep
<1>3. ASSUME NEW s \in Session, NEW k \in Tick,
             ExpireSession(k, s) \/ PromoteCount(k, s) \/ PromoteUpdate(k, s)
      PROVE  Inv'
  BY <1>3, ExpireSessionStep, PromoteCountStep, PromoteUpdateStep
<1>4. ASSUME NEW d \in Device, QuarantineRow(d) \/ QuarantineSessions(d) \/ ResetComplete(d)
      PROVE  Inv'
  BY <1>4, QuarantineRowStep, QuarantineSessionsStep, ResetCompleteStep
<1>5. ASSUME NEW k \in Tick, \/ ExpireStart(k) \/ ExpireClean(k)
                             \/ PromoteStart(k) \/ PromotePick(k) \/ PromoteDone(k)
      PROVE  Inv'
  BY <1>5, ExpireStartStep, ExpireCleanStep, PromoteStartStep, PromotePickStep, PromoteDoneStep
<1>6. ASSUME NEW t \in Tx, Commit(t) \/ Rollback(t) PROVE Inv'
  BY <1>6, CommitStep, RollbackStep
<1>7. CASE UNCHANGED vars
  BY <1>7, StutterOK
<1> QED BY <1>1, <1>2, <1>3, <1>4, <1>5, <1>6, <1>7 DEF Next

(* The inductive invariant holds of every interleaving of the statements:    *)
(* what is committed is in order, and every row that a transaction has       *)
(* written is there for a reason that will make its commit be in order too.  *)
THEOREM Invariance == Spec => []Inv
<1>1. Init => Inv
  BY InitOK
<1>2. Inv /\ [Next]_vars => Inv'
  BY StepOK
<1> QED BY <1>1, <1>2, PTL DEF Spec

(* The rows, the locks and the places of the transactions keep their types. *)
THEOREM TypeCorrect == Spec => []TypeOK
<1>1. Inv => TypeOK
  BY DEF Inv
<1> QED BY <1>1, Invariance, PTL

(* allocate_device, release_device, session_activate, quarantine_device,     *)
(* expire_sessions and promote_queued write the two rows of a lease in       *)
(* separate statements: whatever their interleaving and whichever of them is *)
(* rolled back, the rows agree in every committed state, and a held device   *)
(* without a session is one an overlapping tick left behind.                 *)
THEOREM CustodyIsCommitted == Spec => []CommittedCustody
<1>1. ASSUME Inv PROVE CommittedCustody
  <2>1. ASSUME NEW s \in Session, com.sessions[s].state \in Live
        PROVE  /\ com.devices[com.sessions[s].device].fence = com.sessions[s].fence
               /\ com.devices[com.sessions[s].device].state =
                    IF com.sessions[s].state = "ACTIVE" THEN "SESSION_ACTIVE" ELSE "RESERVED"
    BY <1>1, <2>1 DEF Inv, Committed, LeaseOK, Sc, Dc
  <2>2. ASSUME NEW d \in Device, com.devices[d].state \in {"RESERVED", "SESSION_ACTIVE"}
        PROVE  \/ d \in stranded
               \/ \E s \in Session : com.sessions[s].state \in Live /\ com.sessions[s].device = d
    BY <1>1, <2>2 DEF Inv, Committed, HeldOK, Held, Sc, Dc
  <2> QED BY <2>1, <2>2 DEF CommittedCustody
<1> QED BY <1>1, Invariance, PTL

(* The increment of the fence and the copy of it into the session's row are  *)
(* two statements of one transaction: no two sessions are ever given the     *)
(* same device under the same fence.                                         *)
THEOREM FencesAreUnique == Spec => []CommittedFences
<1>1. Inv => CommittedFences
  BY DEF Inv, Committed
<1> QED BY <1>1, Invariance, PTL

(* The unique index sessions_one_live_per_device refuses nothing: FOR UPDATE *)
(* SKIP LOCKED of a READY row is enough.                                     *)
THEOREM BackstopIsIdle == Spec => []BackstopNeverFires
<1>1. ASSUME Inv, NEW t \in Tx, Chosen(t), NEW s PROVE ~Taken(s, tx[t].dev)
  <2>1. PICK d \in Device : tx[t].dev = d /\ lock[d] = t /\ Du(d).state = "RESERVED" /\ NotGiven(d)
    BY <1>1 DEF Chosen
  <2>2. \A x \in Session : ~(Sc(x).state \in Live /\ Sc(x).device = d)
    BY <1>1, <2>1, Kinds, ReservedWasReady
  <2> QED BY <2>1, <2>2 DEF Taken, NotGiven, Sc, Su
<1>2. ASSUME Inv PROVE BackstopNeverFires
  <2>1. ASSUME NEW s \in Session, At(Allocate(s), "insert") PROVE ~Taken(s, tx[Allocate(s)].dev)
    <3>1. Chosen(Allocate(s)) /\ Allocate(s) \in Tx
      BY <1>2, <2>1, Places, Kinds DEF Allocating, At
    <3> QED BY <1>1, <1>2, <3>1
  <2>2. ASSUME NEW k \in Tick, At(Reap(k), "update"), NEW s \in tx[Reap(k)].row
        PROVE  ~Taken(s, tx[Reap(k)].dev)
    <3>1. Chosen(Reap(k)) /\ Reap(k) \in Tx
      BY <1>2, <2>2, Places, Kinds DEF Reaping, At
    <3> QED BY <1>1, <1>2, <3>1
  <2> QED BY <2>1, <2>2 DEF BackstopNeverFires
<1> QED BY <1>2, Invariance, PTL

(* The lock that allocate_device takes on the organisation's row makes the   *)
(* cap exact for what it admits: an organisation above its cap has a session *)
(* that promote_queued placed.                                               *)
THEOREM CapIsExact == Spec => []OnlyThePromotedPassTheCap
<1>1. ASSUME Inv PROVE OnlyThePromotedPassTheCap
  <2> SUFFICES ASSUME NEW o \in Org,
                      {s \in Session : OrgOf[s] = o /\ com.sessions[s].state \in Live} \cap queued = {}
               PROVE  ~(Cardinality({s \in Session : OrgOf[s] = o /\ com.sessions[s].state \in Live})
                          > MaxConcurrent[o])
    BY DEF OnlyThePromotedPassTheCap
  <2>1. {s \in Session : OrgOf[s] = o /\ com.sessions[s].state \in Live} = Direct(o)
    BY DEF Direct, Sc
  <2>2. Cardinality(Direct(o)) <= MaxConcurrent[o] /\ MaxConcurrent[o] \in Nat
    BY <1>1, AllocatorAssumption DEF Inv, Capped
  <2>3. Cardinality(Direct(o)) \in Nat
    <3>1. Direct(o) \in SUBSET Session
      BY DEF Direct
    <3> QED BY <3>1, Counts
  <2> QED BY <2>1, <2>2, <2>3
<1> QED BY <1>1, Invariance, PTL

-----------------------------------------------------------------------------
(* What a step publishes. *)

(* Of what is committed, a commit and a confirmed reset change something. *)
LEMMA Publishes ==
  ASSUME Inv, Next
  PROVE  \/ \E t \in Tx : Commit(t)
         \/ \E d \in Device : ResetComplete(d)
         \/ com' = com /\ stranded' = stranded
<1>1. ASSUME NEW s \in Session,
             \/ AllocateLock(s) \/ AllocateCount(s) \/ AllocatePick(s) \/ AllocateInsert(s)
             \/ ReleaseSession(s) \/ ReleaseDevice(s) \/ ActivateSession(s) \/ ActivateDevice(s)
             \/ \E k \in Tick : ExpireSession(k, s) \/ PromoteCount(k, s) \/ PromoteUpdate(k, s)
      PROVE  com' = com /\ stranded' = stranded
  BY <1>1 DEF AllocateLock, AllocateCount, AllocatePick, AllocateInsert, ReleaseSession,
              ReleaseDevice, ActivateSession, ActivateDevice, ExpireSession, PromoteCount,
              PromoteUpdate, history
<1>2. ASSUME NEW d \in Device, QuarantineRow(d) \/ QuarantineSessions(d) PROVE com' = com /\ stranded' = stranded
  BY <1>2 DEF QuarantineRow, QuarantineSessions, history
<1>3. ASSUME NEW k \in Tick, \/ ExpireStart(k) \/ ExpireClean(k)
                             \/ PromoteStart(k) \/ PromotePick(k) \/ PromoteDone(k)
      PROVE  com' = com /\ stranded' = stranded
  BY <1>3 DEF ExpireStart, ExpireClean, PromoteStart, PromotePick, PromoteDone, history
<1>4. ASSUME NEW t \in Tx, Rollback(t) PROVE com' = com /\ stranded' = stranded
  BY <1>4 DEF Rollback, history
<1> QED BY <1>1, <1>2, <1>3, <1>4 DEF Next

(* A confirmed reset changes the state of the one device. *)
LEMMA ResetShape ==
  ASSUME Inv, NEW d \in Device, ResetComplete(d)
  PROVE  /\ com'.sessions = com.sessions
         /\ \A e \in Device \ {d} : Dc(e)' = Dc(e)
         /\ Dc(d).state = "CLEANING" /\ Dc(d)'.state = "READY" /\ Dc(d)'.fence = Dc(d).fence
<1>1. com \in Rows /\ com' = [com EXCEPT !.devices[d].state = "READY"] /\ Dc(d).state = "CLEANING"
  BY DEF Inv, TypeOK, ResetComplete, Dc
<1>2. Dc(d) \in DeviceRow
  BY <1>1 DEF Rows, Dc
<1> QED BY <1>1, <1>2 DEF Rows, DeviceRow, Dc

(* A commit takes a session out of ENDED only if it is the commit of a tick  *)
(* of the reaper, whose cursor held the session from when it was queued.     *)
THEOREM EndedStaysEnded == Spec => OnlyAPromotionRevives
<1> DEFINE A == \A s \in Session : com.sessions[s].state = "ENDED" /\ com'.sessions[s].state # "ENDED"
                  => s \in queued /\ \E k \in Tick : At(Reap(k), "commit")
<1>1. ASSUME Inv, NEW t \in Tx, Commit(t), NEW s \in Session,
             com.sessions[s].state = "ENDED", com'.sessions[s].state # "ENDED"
      PROVE  s \in queued /\ \E k \in Tick : At(Reap(k), "commit")
  <2>1. tx[t].pc = "commit" /\ Sc(s)' = (IF lock[s] = t THEN Su(s) ELSE Sc(s))
    BY <1>1, CommitShape
  <2>2. lock[s] = t /\ Sc(s).state = "ENDED"
    BY <1>1, <2>1 DEF Sc
  <2>3. Leasing(t, s)
    BY <1>1, <2>1, <2>2, CommitSession DEF SessionWritten, Ending, Activating, Queueing, Live
  <2> QED BY <2>1, <2>2, <2>3 DEF Leasing, At
<1>2. ASSUME Inv, Next, \A t \in Tx : ~Commit(t) PROVE com'.sessions = com.sessions
  BY <1>2, Publishes, ResetShape
<1>3. Inv /\ [Next]_vars => [A]_vars
  BY <1>1, <1>2
<1> QED BY <1>3, Invariance, PTL DEF Spec, OnlyAPromotionRevives

-----------------------------------------------------------------------------
(* The refinement of Lease. *)

Move(d) ==
  \/ LeaseOf(d)' = LeaseOf(d)
  \/ LeaseOf(d)' \in Abstract!Moves(LeaseOf(d))

(* A lease, read off the rows. *)
LEMMA LeaseRead ==
  ASSUME NEW r, NEW s
  PROVE  /\ r.state = "READY" => LeaseRow(r, s) = [state |-> "free", fence |-> r.fence, holder |-> NoDevice]
         /\ r.state = "CLEANING" => LeaseRow(r, s) = [state |-> "dirty", fence |-> r.fence, holder |-> NoDevice]
         /\ r.state = "QUARANTINED" => LeaseRow(r, s) = [state |-> "judged", fence |-> r.fence, holder |-> NoDevice]
         /\ r.state \in Held => LeaseRow(r, s) = [state |-> "leased", fence |-> r.fence, holder |-> s]
<1>1. /\ LeaseState["READY"] = "free" /\ LeaseState["CLEANING"] = "dirty"
      /\ LeaseState["QUARANTINED"] = "judged"
      /\ LeaseState["RESERVED"] = "leased" /\ LeaseState["SESSION_ACTIVE"] = "leased"
  BY DEF LeaseState
<1> QED BY <1>1 DEF LeaseRow, Held

(* The same of a device that is not stranded, before a step and after it. *)
LEMMA LeaseIs ==
  ASSUME NEW d \in Device
  PROVE  /\ d \notin stranded => LeaseOf(d) = LeaseRow(Dc(d), HolderOf(d))
         /\ d \notin stranded' => LeaseOf(d)' = LeaseRow(Dc(d)', HolderOf(d)')
         /\ d \in stranded => LeaseOf(d) = [state |-> "judged", fence |-> Dc(d).fence, holder |-> NoDevice]
         /\ d \in stranded' =>
              LeaseOf(d)' = [state |-> "judged", fence |-> Dc(d)'.fence, holder |-> NoDevice]
  BY DEF LeaseOf, Dc, LeaseRow

(* Only a held device has a holder to speak of. *)
LEMMA SameLease ==
  ASSUME TypeOK, NEW d \in Device, d \notin stranded, d \notin stranded', Dc(d)' = Dc(d),
         Dc(d).state \in Held => HolderOf(d)' = HolderOf(d)
  PROVE  LeaseOf(d)' = LeaseOf(d)
<1>1. CASE Dc(d).state \in Held
  BY <1>1, LeaseIs
<1>2. CASE Dc(d).state \notin Held
  <2>1. Dc(d).state \in {"READY", "CLEANING", "QUARANTINED"}
    BY <1>2, Types DEF Held
  <2> QED BY <2>1, LeaseIs, LeaseRead
<1> QED BY <1>1, <1>2

(* The holder is the one live session of the device. *)
LEMMA HolderIs ==
  ASSUME Inv, NEW s \in Session, NEW d \in Device, Sc(s).state \in Live, Sc(s).device = d
  PROVE  HolderOf(d) = s
<1>1. \A x \in Session : Sc(x).state \in Live /\ Sc(x).device = d <=> x = s
  BY OneLease
<1>2. \A x \in Session : com.sessions[x].state \in Live /\ com.sessions[x].device = d <=> x = s
  BY <1>1 DEF Sc
<1> QED BY <1>2, Zenon DEF HolderOf

LEMMA HolderBecomes ==
  ASSUME Inv', NEW s \in Session, NEW d \in Device, Sc(s)'.state \in Live, Sc(s)'.device = d
  PROVE  HolderOf(d)' = s
<1>1. ASSUME NEW x \in Session, Sc(x)'.state \in Live, Sc(x)'.device = d PROVE x = s
  <2>1. LeaseOK(s)' /\ LeaseOK(x)' /\ CommittedFences'
    BY DEF Inv, Committed
  <2>2. Sc(x)'.fence = Sc(s)'.fence
    BY <1>1, <2>1 DEF LeaseOK
  <2> QED BY <1>1, <2>1, <2>2, AllocatorAssumption DEF CommittedFences, Sc
<1>2. \A x \in Session : com'.sessions[x].state \in Live /\ com'.sessions[x].device = d <=> x = s
  BY <1>1 DEF Sc
<1>3. HolderOf(d)' = CHOOSE x \in Session : com'.sessions[x].state \in Live /\ com'.sessions[x].device = d
  BY DEF HolderOf, Live
<1> QED BY <1>2, <1>3, Zenon

(* The device of a row that t did not write keeps its lease. *)
LEMMA CommitLeaves ==
  ASSUME Inv, Inv', NEW t \in Tx, Commit(t), NEW d \in Device \ stranded', lock[d] # t
  PROVE  LeaseOf(d)' = LeaseOf(d)
<1>1. Dc(d)' = Dc(d)
  BY CommitShape
<1>2. CASE Dc(d).state \in Held
  <2>1. PICK s \in Session : Sc(s).state \in Live /\ Sc(s).device = d
    BY <1>2, CommitShape DEF Inv, Committed, HeldOK
  <2>2. lock[s] # t
    <3>1. SUFFICES ASSUME lock[s] = t PROVE FALSE
      OBVIOUS
    <3>2. Leasing(t, s)
      BY <2>1, <3>1, CommitShape, CommitSession DEF SessionWritten, Queueing, Live
    <3>3. Su(s).state \in Live /\ Su(s).device # d
      BY <3>2 DEF Leasing, Live
    <3>4. d \in Left(t)
      BY <2>1, <3>1, <3>3 DEF Left, Sc, Su
    <3> QED BY <3>4, CommitShape
  <2>3. Sc(s)' = Sc(s)
    BY <2>2, CommitShape
  <2>4. HolderOf(d) = s /\ HolderOf(d)' = s
    BY <2>1, <2>3, HolderIs, HolderBecomes
  <2> QED BY <1>1, <2>4, CommitShape, SameLease DEF Inv
<1>3. CASE Dc(d).state \notin Held
  BY <1>1, <1>3, CommitShape, SameLease DEF Inv
<1> QED BY <1>2, <1>3

(* Nothing but these moves. *)
LEMMA Moving ==
  ASSUME NEW d \in Device, NEW r, LeaseOf(d) = r,
         \/ /\ r.state = "free"
            /\ \/ \E s \in Session : LeaseOf(d)' = [state |-> "leased", fence |-> r.fence + 1, holder |-> s]
               \/ LeaseOf(d)' = [state |-> "judged", fence |-> r.fence, holder |-> NoDevice]
         \/ /\ r.state = "leased"
            /\ \/ LeaseOf(d)' = [state |-> "dirty", fence |-> r.fence, holder |-> NoDevice]
               \/ LeaseOf(d)' = [state |-> "judged", fence |-> r.fence, holder |-> NoDevice]
         \/ /\ r.state = "dirty"
            /\ \/ LeaseOf(d)' = [state |-> "free", fence |-> r.fence, holder |-> NoDevice]
               \/ LeaseOf(d)' = [state |-> "judged", fence |-> r.fence, holder |-> NoDevice]
  PROVE  Move(d)
<1>1. \A t, s : /\ Abstract!Becomes(r, t) = [state |-> t, fence |-> r.fence, holder |-> NoDevice]
                /\ Abstract!Granted(r, s) = [state |-> "leased", fence |-> r.fence + 1, holder |-> s]
  BY DEF Abstract!Becomes, Abstract!Granted
<1>2. r.state = "free" =>
        /\ \A s \in Session : Abstract!Granted(r, s) \in Abstract!Moves(r)
        /\ Abstract!Becomes(r, "judged") \in Abstract!Moves(r)
  BY DEF Abstract!Moves
<1>3. r.state = "leased" =>
        Abstract!Becomes(r, "dirty") \in Abstract!Moves(r) /\ Abstract!Becomes(r, "judged") \in Abstract!Moves(r)
  BY DEF Abstract!Moves
<1>4. r.state = "dirty" =>
        Abstract!Becomes(r, "free") \in Abstract!Moves(r) /\ Abstract!Becomes(r, "judged") \in Abstract!Moves(r)
  BY DEF Abstract!Moves
<1> QED BY <1>1, <1>2, <1>3, <1>4 DEF Move

(* The device of a row that t wrote moves as the reason for it says. *)
LEMMA CommitMoves ==
  ASSUME Inv, Inv', NEW t \in Tx, Commit(t), NEW d \in Device \ stranded', lock[d] = t
  PROVE  Move(d)
<1>1. /\ tx[t].pc = "commit" /\ Dc(d)' = Du(d) /\ d \notin stranded /\ d \notin stranded'
      /\ \A s \in Session : lock[s] = t => Sc(s)' = Su(s)
  BY CommitShape
<1>2. DeviceWritten(t, d)
  BY <1>1, CommitDevice
<1>3. \A s \in Session : Sc(s).state \in Live /\ Sc(s).device = d => Dc(d).state \in Held
  BY DEF Inv, Committed, LeaseOK, Held
<1> DEFINE r == LeaseOf(d)
<1>4. CASE Reserving(t, d)
  <2>1. PICK s \in Session : lock[s] = t /\ Su(s).state = "ALLOCATING" /\ Su(s).device = d
    BY <1>1, <1>4 DEF Reserving, InHand
  <2>2. HolderOf(d)' = s
    BY <1>1, <2>1, HolderBecomes DEF Live
  <2>3. r = [state |-> "free", fence |-> Dc(d).fence, holder |-> NoDevice]
    BY <1>1, <1>4, LeaseIs, LeaseRead DEF Reserving
  <2>4. LeaseOf(d)' = [state |-> "leased", fence |-> Dc(d).fence + 1, holder |-> s]
    BY <1>1, <1>4, <2>2, LeaseIs, LeaseRead DEF Reserving, Held
  <2> QED BY <2>3, <2>4, Moving
<1>5. CASE Cleaning(t, d)
  <2>1. r.state = "leased" /\ r.fence = Dc(d).fence
    BY <1>1, <1>3, <1>5, LeaseIs, LeaseRead DEF Cleaning
  <2>2. LeaseOf(d)' = [state |-> "dirty", fence |-> Dc(d).fence, holder |-> NoDevice]
    BY <1>1, <1>5, LeaseIs, LeaseRead DEF Cleaning
  <2> QED BY <2>1, <2>2, Moving
<1>6. CASE Quarantining(t, d)
  <2>1. LeaseOf(d)' = [state |-> "judged", fence |-> Dc(d).fence, holder |-> NoDevice]
    BY <1>1, <1>6, LeaseIs, LeaseRead DEF Quarantining
  <2>2. r.fence = Dc(d).fence /\ \/ r.state \in {"free", "leased", "dirty"}
                                 \/ r = [state |-> "judged", fence |-> Dc(d).fence, holder |-> NoDevice]
    BY <1>1, LeaseIs, LeaseRead, Types DEF Inv, Held
  <2> QED BY <2>1, <2>2, Moving DEF Move
<1>7. CASE InUse(t, d)
  <2>1. PICK s \in Session : lock[s] = t /\ Su(s).state = "ACTIVE" /\ Sc(s).device = d
    BY <1>7 DEF InUse
  <2>2. Sc(s).state \in Live /\ Su(s).device = d
    BY <1>1, <2>1, CommitSession DEF Activating, Live
  <2>3. HolderOf(d) = s /\ HolderOf(d)' = s
    BY <1>1, <2>1, <2>2, HolderIs, HolderBecomes DEF Live
  <2>4. r = [state |-> "leased", fence |-> Dc(d).fence, holder |-> s]
    BY <1>1, <1>3, <2>1, <2>2, <2>3, LeaseIs, LeaseRead
  <2>5. LeaseOf(d)' = [state |-> "leased", fence |-> Dc(d).fence, holder |-> s]
    BY <1>1, <1>7, <2>3, LeaseIs, LeaseRead DEF InUse, Held
  <2> QED BY <2>4, <2>5 DEF Move
<1> QED BY <1>2, <1>4, <1>5, <1>6, <1>7 DEF DeviceWritten

(* A stranded device: what it was when its session went, or judged; and with *)
(* no session for it.                                                        *)
Abandoned ==
  \A d \in stranded :
    /\ Dc(d).state \in Held \cup {"QUARANTINED"}
    /\ \A s \in Session : ~(Sc(s).state \in Live /\ Sc(s).device = d)

(* A device that t takes its session away from, t has not written. *)
LEMMA LeftAlone ==
  ASSUME Inv, NEW t \in Tx, Commit(t), NEW d \in Left(t)
  PROVE  /\ d \in Device /\ lock[d] # t /\ Dc(d).state \in Held
         /\ \A s \in Session : ~(Sc(s)'.state \in Live /\ Sc(s)'.device = d)
<1>1. PICK s \in Session : /\ lock[s] = t /\ Sc(s).state \in Live /\ Sc(s).device = d
                           /\ Su(s).state \in Live /\ Su(s).device # d
  BY DEF Left, Sc, Su
<1>2. tx[t].pc = "commit"
  BY CommitShape
<1>3. d \in Device /\ Dc(d).state \in Held
  BY <1>1 DEF Inv, Committed, SessionOK, LeaseOK, Held
<1>4. Leasing(t, s)
  BY <1>1, <1>2, CommitSession DEF Activating, Live
<1>5. lock[d] # t
  <2>1. SUFFICES ASSUME lock[d] = t PROVE FALSE
    OBVIOUS
  <2>2. DeviceWritten(t, d)
    BY <1>2, <1>3, <2>1, CommitDevice
  <2>3. ~Reserving(t, d)
    BY <1>3 DEF Reserving, Held
  <2>4. ~Cleaning(t, d)
    BY <1>1, OneLease DEF Cleaning, Live
  <2>5. ~Quarantining(t, d) /\ ~InUse(t, d)
    BY <1>1, <1>4, Distinct, Kinds DEF Leasing, Quarantining, InUse, Live
  <2> QED BY <2>2, <2>3, <2>4, <2>5 DEF DeviceWritten
<1>6. ASSUME NEW x \in Session, Sc(x)'.state \in Live, Sc(x)'.device = d PROVE FALSE
  <2>1. CASE lock[x] # t
    <3>1. Sc(x)' = Sc(x)
      BY <2>1, CommitShape
    <3> QED BY <1>1, <1>6, <2>1, <3>1, OneLease
  <2>2. CASE lock[x] = t
    <3>1. Sc(x)' = Su(x)
      BY <2>2, CommitShape
    <3>2. Activating(t, x) \/ Leasing(t, x)
      BY <1>2, <1>6, <2>2, <3>1, CommitSession DEF Live
    <3>3. ~Leasing(t, x)
      BY <1>5, <1>6, <3>1 DEF Leasing
    <3>4. ~Activating(t, x)
      BY <1>1, <1>6, <3>1, OneLease DEF Activating, Live
    <3> QED BY <3>2, <3>3, <3>4
  <2> QED BY <2>1, <2>2
<1> QED BY <1>3, <1>5, <1>6

(* Nothing but a judgement befalls it. *)
LEMMA StrandedStays ==
  ASSUME Inv, Abandoned, NEW t \in Tx, Commit(t), NEW d \in stranded
  PROVE  /\ Dc(d)'.state \in Held \cup {"QUARANTINED"} /\ Dc(d)'.fence = Dc(d).fence
         /\ \A s \in Session : ~(Sc(s)'.state \in Live /\ Sc(s)'.device = d)
<1>0. d \in Device /\ tx[t].pc = "commit"
  BY CommitShape DEF Inv, TypeOK
<1>1. Dc(d).state # "READY" /\ \A s \in Session : ~(Sc(s).state \in Live /\ Sc(s).device = d)
  BY DEF Abandoned, Held
<1>2. ASSUME NEW x \in Session, Sc(x)'.state \in Live, Sc(x)'.device = d PROVE FALSE
  <2>1. lock[x] = t /\ Sc(x)' = Su(x)
    BY <1>1, <1>2, CommitShape
  <2>2. Activating(t, x) \/ Leasing(t, x)
    BY <1>0, <1>2, <2>1, CommitSession DEF Live
  <2>3. ~Activating(t, x)
    BY <1>1, <1>2, <2>1 DEF Activating, Live
  <2>4. ~Leasing(t, x)
    <3>1. SUFFICES ASSUME Leasing(t, x) PROVE FALSE
      OBVIOUS
    <3>2. lock[d] = t /\ Du(d).state = "RESERVED"
      BY <1>2, <2>1, <3>1 DEF Leasing
    <3>3. Dc(d).state = "READY"
      BY <1>0, <3>2, CommitDevice
    <3> QED BY <1>1, <3>3
  <2> QED BY <2>2, <2>3, <2>4
<1>3. CASE lock[d] = t
  <2>1. DeviceWritten(t, d) /\ Dc(d)' = Du(d)
    BY <1>0, <1>3, CommitDevice, CommitShape
  <2>2. ~Reserving(t, d) /\ ~Cleaning(t, d)
    BY <1>1 DEF Reserving, Cleaning
  <2>3. ~InUse(t, d)
    BY <1>0, <1>1, CommitSession DEF InUse, Activating, Live
  <2> QED BY <1>2, <2>1, <2>2, <2>3 DEF DeviceWritten, Quarantining
<1>4. CASE lock[d] # t
  BY <1>0, <1>2, <1>4, CommitShape DEF Abandoned
<1> QED BY <1>2, <1>3, <1>4

LEMMA AbandonedStays ==
  ASSUME Inv, Abandoned, [Next]_vars
  PROVE  Abandoned'
<1>1. ASSUME NEW t \in Tx, Commit(t) PROVE Abandoned'
  <2> SUFFICES ASSUME NEW d \in stranded'
               PROVE  /\ Dc(d)'.state \in Held \cup {"QUARANTINED"}
                      /\ \A s \in Session : ~(Sc(s)'.state \in Live /\ Sc(s)'.device = d)
    BY DEF Abandoned
  <2>1. CASE d \in stranded
    BY <1>1, <2>1, StrandedStays
  <2>2. CASE d \in Left(t)
    <3>1. Dc(d)' = Dc(d)
      BY <1>1, <2>2, LeftAlone, CommitShape
    <3> QED BY <1>1, <2>2, <3>1, LeftAlone
  <2> QED BY <1>1, <2>1, <2>2, CommitShape
<1>2. ASSUME NEW d \in Device, ResetComplete(d) PROVE Abandoned'
  <2>1. stranded' = stranded /\ \A s \in Session : Sc(s)' = Sc(s)
    BY <1>2, ResetShape DEF ResetComplete, history, Sc
  <2>2. d \notin stranded
    BY <1>2, ResetShape DEF Abandoned, Held
  <2>3. \A e \in stranded : Dc(e)' = Dc(e)
    BY <1>2, <2>2, ResetShape DEF Inv, TypeOK
  <2> QED BY <2>1, <2>3 DEF Abandoned
<1>3. CASE com' = com /\ stranded' = stranded
  BY <1>3 DEF Abandoned, Sc, Dc
<1> QED BY <1>1, <1>2, <1>3, Publishes DEF vars, history

(* With the stranded ones, every device moves as Lease allows. *)
LEMMA CommitPromised ==
  ASSUME Inv, Inv', Abandoned, NEW t \in Tx, Commit(t), NEW d \in Device
  PROVE  Move(d)
<1>1. CASE d \notin stranded'
  BY <1>1, CommitLeaves, CommitMoves DEF Move
<1>2. CASE d \in stranded
  <2>1. d \in stranded' /\ Dc(d)'.fence = Dc(d).fence
    BY <1>2, CommitShape, StrandedStays
  <2> QED BY <1>2, <2>1, LeaseIs DEF Move
<1>3. CASE d \in Left(t) /\ d \notin stranded
  <2>1. Dc(d)' = Dc(d) /\ Dc(d).state \in Held /\ d \in stranded'
    BY <1>3, LeftAlone, CommitShape
  <2>2. LeaseOf(d).state = "leased" /\ LeaseOf(d).fence = Dc(d).fence
    BY <1>3, <2>1, LeaseIs, LeaseRead
  <2>3. LeaseOf(d)' = [state |-> "judged", fence |-> Dc(d).fence, holder |-> NoDevice]
    BY <2>1, LeaseIs
  <2> QED BY <2>2, <2>3, Moving
<1> QED BY <1>1, <1>2, <1>3, CommitShape

(* A confirmed reset frees its device, and is nothing to the others. *)
LEMMA ResetMoves ==
  ASSUME Inv, Abandoned, NEW d \in Device, ResetComplete(d), NEW e \in Device
  PROVE  Move(e)
<1>1. HolderOf(e)' = HolderOf(e) /\ stranded' = stranded
  BY ResetShape DEF HolderOf, ResetComplete, history
<1>2. CASE e = d
  <2>1. d \notin stranded
    BY ResetShape DEF Abandoned, Held
  <2>2. LeaseOf(d) = [state |-> "dirty", fence |-> Dc(d).fence, holder |-> NoDevice]
    BY <2>1, ResetShape, LeaseIs, LeaseRead
  <2>3. LeaseOf(d)' = [state |-> "free", fence |-> Dc(d).fence, holder |-> NoDevice]
    BY <1>1, <2>1, ResetShape, LeaseIs, LeaseRead
  <2> QED BY <1>2, <2>2, <2>3, Moving
<1>3. CASE e # d
  <2>1. Dc(e)' = Dc(e)
    BY <1>3, ResetShape
  <2> QED BY <1>1, <2>1, SameLease, LeaseIs DEF Inv, Move
<1> QED BY <1>2, <1>3

(* A holder holds one device. *)
LEMMA OneDevice ==
  ASSUME Inv', NEW d \in Device, NEW e \in Device, LeaseOf(d)'.holder = LeaseOf(e)'.holder
  PROVE  d = e \/ LeaseOf(d)'.holder = NoDevice
<1>1. ASSUME NEW c \in Device, NEW s, LeaseOf(c)'.holder = s, s # NoDevice
      PROVE  Sc(s)'.device = c
  <2>1. c \notin stranded' /\ Dc(c)'.state \in {"READY", "CLEANING", "QUARANTINED"} \cup Held
    <3>1. Dc(c)' \in DeviceRow
      BY DEF Inv, TypeOK, Rows, Dc
    <3> QED BY <1>1, <3>1, LeaseIs DEF DeviceRow, Held
  <2>2. Dc(c)'.state \in Held /\ HolderOf(c)' = s
    BY <1>1, <2>1, LeaseIs, LeaseRead
  <2>3. PICK x \in Session : Sc(x)'.state \in Live /\ Sc(x)'.device = c
    BY <2>1, <2>2 DEF Inv, Committed, HeldOK, Live, Held
  <2> QED BY <2>2, <2>3, HolderBecomes
<1> QED BY <1>1

LEMMA InitLease ==
  ASSUME Init
  PROVE  Abstract!Init /\ Abandoned
<1>1. \A d \in Device : LeaseOf(d) = [state |-> "free", fence |-> 0, holder |-> NoDevice]
  <2> SUFFICES ASSUME NEW d \in Device
               PROVE  LeaseOf(d) = [state |-> "free", fence |-> 0, holder |-> NoDevice]
    OBVIOUS
  <2>1. d \notin stranded /\ Dc(d) = [state |-> "READY", fence |-> 0]
    BY DEF Init, Dc
  <2> QED BY <2>1, LeaseIs, LeaseRead
<1>2. stranded = {}
  BY DEF Init
<1> QED BY <1>1, <1>2 DEF Abstract!Init, Abandoned

(* Statement by statement, over any interleaving and with any transaction    *)
(* rolled back anywhere, what is committed takes the steps of Lease and no   *)
(* others: a device goes from free to one holder at the next fence, from it  *)
(* to dirty or judged, and back to free by a confirmed reset.  A device that *)
(* an overlapping tick left behind counts as judged: nothing the functions   *)
(* do gives it to anyone, cleans it or frees it.                             *)
THEOREM CommitsImplementLease == Spec => CommitsKeepLease
<1> DEFINE lease == [d \in Device |-> LeaseOf(d)]
<1>1. ASSUME Inv, Inv', Abandoned, [Next]_vars PROVE [Abstract!Next]_lease
  <2>1. ASSUME \A d \in Device : Move(d) PROVE Abstract!Next
    BY <1>1, <2>1, OneDevice DEF Abstract!Next, Move
  <2>2. ASSUME NEW t \in Tx, Commit(t) PROVE Abstract!Next
    BY <1>1, <2>1, <2>2, CommitPromised
  <2>3. ASSUME NEW d \in Device, ResetComplete(d) PROVE Abstract!Next
    BY <1>1, <2>1, <2>3, ResetMoves
  <2>4. CASE com' = com /\ stranded' = stranded
    BY <2>4 DEF LeaseOf, LeaseRow, HolderOf
  <2> QED BY <1>1, <2>2, <2>3, <2>4, Publishes DEF vars, history
<1>2. Spec => []Abandoned
  <2>1. Init => Abandoned
    BY InitLease
  <2>2. Inv /\ Abandoned /\ [Next]_vars => Abandoned'
    BY AbandonedStays
  <2> QED BY <2>1, <2>2, Invariance, PTL DEF Spec
<1>3. Spec => [][Abstract!Next]_lease
  BY <1>1, <1>2, Invariance, PTL DEF Spec
<1>4. Spec => Abstract!Init
  BY InitLease DEF Spec
<1> QED BY <1>3, <1>4, PTL DEF CommitsKeepLease, Abstract!Spec

=============================================================================
