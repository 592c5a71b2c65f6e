---------------------------- MODULE FleetProofs ----------------------------
(***************************************************************************)
(* Proofs about Fleet, for every fleet, cap, budget and set of features.   *)
(*                                                                         *)
(* The argument is by rows.  RowOK is what a single device row may be, and *)
(* a step keeps it if what the step does to each row keeps it.  MildRow is *)
(* what a step that is not about a lease may do to a row, whoever takes    *)
(* it, and CalmRow what one may do that settles nothing the device owes    *)
(* the pool either: such steps compose, and leave leases, fences and       *)
(* judgements alone.  The few steps that are about a lease are treated one *)
(* by one, and each says which moves of Lease its devices make.            *)
(***************************************************************************)
EXTENDS Fleet, FiniteSetTheorems, TLAPS

(* What a device row may be: typed; offered for a reset only within its     *)
(* budget; quarantined by somebody, and by its host only with a state to go *)
(* back to; never in, or on its way back to, the pool with a tenant's data  *)
(* on it, unless a registration lost track of it.                           *)
RowOK(r) ==
  /\ r \in DeviceRow
  /\ ~r.escalated => r.attempts < MaxResetAttempts
  /\ r.orphan => r.state \in Leased
  /\ r.state = "ABSENT" => ~r.used
  /\ r.state = "QUARANTINED" => r.source # "none"
  /\ r.state = "QUARANTINED" /\ r.source = "host" => r.from # "none"
  /\ r.used /\ ~r.lost =>
       /\ r.state \notin {"READY", "OFFLINE"}
       /\ r.state = "QUARANTINED" /\ r.source = "host" => r.from \notin {"READY", "OFFLINE"}

(* Held by the cascade of its host. *)
HeldRow(r) == r.state = "QUARANTINED" /\ r.source = "host"

(* Quarantined by a person or by a health check. *)
JudgedRow(r) == r.state = "QUARANTINED" /\ r.source \in {"operator", "health"}

(* Leased to a session that will give it back. *)
LetRow(r) == r.state \in Leased /\ ~r.orphan

(* What is owed to a device before the pool may have it, wherever its host  *)
(* has put it meanwhile.                                                    *)
Owes(r) ==
  IF LetRow(r) THEN "lease"
  ELSE IF JudgedRow(r) \/ r.state \in Leased THEN "judgement"
  ELSE IF r.state = "CLEANING" \/ (r.state = "QUARANTINED" /\ r.from = "CLEANING")
       THEN "reset"
  ELSE IF r.state = "PREPARING" \/ (r.state = "QUARANTINED" /\ r.from = "PREPARING")
       THEN "recovery"
  ELSE "nothing"

(* What a step that is not about a lease may do to a row. *)
MildRow(r, q) ==
  /\ q.fence = r.fence /\ q.orphan = r.orphan
  /\ r.state \in Leased => q.state = r.state
  /\ r.state \notin Leased => q.state \notin Leased
  /\ JudgedRow(r) => JudgedRow(q) /\ q.source = r.source

(* What one may do that settles nothing either. *)
CalmRow(r, q) == MildRow(r, q) /\ Owes(q) = Owes(r)

-----------------------------------------------------------------------------
(* One row at a time. *)

(* A calm step after a calm step is calm. *)
LEMMA CalmRowTrans ==
  ASSUME NEW p, NEW q, NEW r, CalmRow(p, q), CalmRow(q, r)
  PROVE  CalmRow(p, r)
BY DEF CalmRow, MildRow, JudgedRow

LEMMA CalmRowRefl == \A r : CalmRow(r, r)
BY DEF CalmRow, MildRow

LEMMA MildRowRefl == \A r : MildRow(r, r)
BY DEF MildRow

(* The end of a lease leaves a row that is not yet in the pool. *)
LEMMA CleanRowOK ==
  ASSUME NEW r, RowOK(r)
  PROVE  /\ RowOK(CleanRow(r)) /\ CleanRow(r).state = "CLEANING"
         /\ CleanRow(r).fence = r.fence /\ ~CleanRow(r).orphan
<1> DEFINE q == CleanRow(r)
<1>1. q \in DeviceRow
  BY DEF RowOK, CleanRow, DeviceRow, DeviceState
<1>2. /\ q.state = "CLEANING" /\ q.fence = r.fence /\ q.orphan = FALSE
      /\ q.escalated = r.escalated /\ q.attempts = r.attempts
  BY DEF RowOK, CleanRow, DeviceRow
<1>3. RowOK(q)
  <2> HIDE DEF q
  <2> QED BY <1>1, <1>2 DEF RowOK
<1> QED BY <1>2, <1>3

(* A write that only renews the age of a reset. *)
LEMMA TouchRowOK ==
  ASSUME NEW r, RowOK(r)
  PROVE  /\ RowOK(TouchRow(r)) /\ CalmRow(r, TouchRow(r))
         /\ HeldRow(TouchRow(r)) => HeldRow(r)
         /\ TouchRow(r).state = r.state /\ TouchRow(r).source = r.source
         /\ TouchRow(r).from = r.from /\ TouchRow(r).fence = r.fence
         /\ TouchRow(r).used = r.used /\ TouchRow(r).lost = r.lost
         /\ TouchRow(r).escalated = r.escalated /\ TouchRow(r).attempts = r.attempts
         /\ TouchRow(r).orphan = r.orphan
<1> DEFINE age == IF r.age = "young" THEN "renewed" ELSE "young"
           w == [r EXCEPT !.age = age]
<1>1. age \in Age
  BY DEF Age
<1> HIDE DEF age
<1>2. w \in DeviceRow
  BY <1>1 DEF RowOK, DeviceRow
<1>3. /\ w.state = r.state /\ w.source = r.source /\ w.from = r.from
      /\ w.fence = r.fence /\ w.used = r.used /\ w.lost = r.lost
      /\ w.escalated = r.escalated /\ w.attempts = r.attempts /\ w.orphan = r.orphan
  BY DEF RowOK, DeviceRow
<1>4. TouchRow(r) = r \/ TouchRow(r) = w
  BY DEF TouchRow, age
<1> HIDE DEF w
<1>5. RowOK(w) /\ CalmRow(r, w) /\ (HeldRow(w) => HeldRow(r))
  BY <1>2, <1>3 DEF RowOK, CalmRow, MildRow, Owes, LetRow, JudgedRow, HeldRow, Leased
<1> QED BY <1>3, <1>4, <1>5, CalmRowRefl

(* The cascade remembers what each device was doing. *)
LEMMA CollapseRowOK ==
  ASSUME NEW r, RowOK(r)
  PROVE  RowOK(CollapseRow(r)) /\ CalmRow(r, CollapseRow(r))
<1> DEFINE q == CollapseRow(r)
<1> SUFFICES RowOK(q) /\ CalmRow(r, q)
  OBVIOUS
<1>1. CASE r.state \notin Collapsible
  BY <1>1, CalmRowRefl DEF CollapseRow
<1>2. CASE r.state \in Collapsible
  <2>1. q = [r EXCEPT !.from = r.state, !.state = "QUARANTINED", !.source = "host",
                      !.age = "young"]
    BY <1>2 DEF CollapseRow
  <2>2. q \in DeviceRow
    BY <1>2, <2>1 DEF DeviceRow, RowOK, DeviceState, Collapsible, Age
  <2>3. /\ q.from = r.state /\ q.state = "QUARANTINED" /\ q.source = "host"
        /\ q.fence = r.fence /\ q.used = r.used /\ q.lost = r.lost
        /\ q.escalated = r.escalated /\ q.attempts = r.attempts /\ q.orphan = r.orphan
    BY <2>1 DEF RowOK, DeviceRow
  <2> HIDE DEF q
  <2> QED
    BY <1>2, <2>2, <2>3 DEF RowOK, CalmRow, MildRow, Owes, LetRow, JudgedRow, Collapsible, Leased
<1> QED BY <1>1, <1>2

(* A host that comes back leaves none of its devices held. *)
LEMMA RestoreRowOK ==
  ASSUME NEW r, RowOK(r)
  PROVE  RowOK(RestoreRow(r)) /\ CalmRow(r, RestoreRow(r)) /\ ~HeldRow(RestoreRow(r))
<1> DEFINE q == RestoreRow(r)
<1> SUFFICES RowOK(q) /\ CalmRow(r, q) /\ ~HeldRow(q)
  OBVIOUS
<1>1. CASE ~HeldRow(r)
  BY <1>1, CalmRowRefl DEF RestoreRow, HeldRow
<1>2. CASE HeldRow(r)
  <2>1. q = [r EXCEPT !.state = r.from, !.from = "none", !.source = "none"]
    BY <1>2 DEF RestoreRow, HeldRow, RowOK
  <2>2. r.from \in Collapsible
    BY <1>2 DEF RowOK, HeldRow, DeviceRow
  <2>3. q \in DeviceRow
    BY <2>1, <2>2 DEF DeviceRow, RowOK, DeviceState, Collapsible
  <2>4. /\ q.from = "none" /\ q.state = r.from /\ q.source = "none"
        /\ q.fence = r.fence /\ q.used = r.used /\ q.lost = r.lost
        /\ q.escalated = r.escalated /\ q.attempts = r.attempts /\ q.orphan = r.orphan
    BY <2>1 DEF RowOK, DeviceRow
  <2> HIDE DEF q
  <2> QED
    BY <1>2, <2>2, <2>3, <2>4 DEF RowOK, CalmRow, MildRow, Owes, LetRow, JudgedRow, HeldRow,
                                  Collapsible, Leased
<1> QED BY <1>1, <1>2

(* A quarantine of the device's own. *)
LEMMA HoldRowOK ==
  ASSUME NEW r, RowOK(r), NEW by \in {"operator", "health"}
  PROVE  /\ RowOK(HoldRow(r, by)) /\ JudgedRow(HoldRow(r, by))
         /\ HoldRow(r, by).source = by /\ HoldRow(r, by).fence = r.fence
         /\ HoldRow(r, by).orphan = FALSE
<1> DEFINE q == HoldRow(r, by)
<1> SUFFICES /\ RowOK(q) /\ JudgedRow(q)
             /\ q.source = by /\ q.fence = r.fence /\ q.orphan = FALSE
  OBVIOUS
<1>1. q \in DeviceRow
  BY DEF RowOK, HoldRow, DeviceRow, DeviceState, Age
<1>2. /\ q.state = "QUARANTINED" /\ q.fence = r.fence /\ q.source = by /\ q.from = "none"
      /\ q.escalated = r.escalated /\ q.attempts = r.attempts /\ q.orphan = FALSE
  BY DEF RowOK, HoldRow, DeviceRow
<1> HIDE DEF q
<1> QED BY <1>1, <1>2 DEF RowOK, JudgedRow

(* A recovery that failed or ran out of time. *)
LEMMA FailRowOK ==
  ASSUME NEW r, RowOK(r), r.state = "PREPARING"
  PROVE  LET q == HoldRow(r, "health")
         IN  RowOK(q) /\ MildRow(r, q) /\ JudgedRow(q) /\ ~HeldRow(q)
<1> DEFINE q == HoldRow(r, "health")
<1>1. /\ RowOK(q) /\ JudgedRow(q)
      /\ q.source = "health" /\ q.fence = r.fence /\ q.orphan = FALSE
  BY HoldRowOK
<1> HIDE DEF q
<1>2. r.orphan = FALSE
  BY DEF RowOK, DeviceRow, Leased
<1>3. MildRow(r, q) /\ ~HeldRow(q)
  BY <1>1, <1>2 DEF MildRow, JudgedRow, HeldRow, Leased
<1> QED BY <1>1, <1>3 DEF q

(* An operator's fresh budget. *)
LEMMA ZeroBudgetOK ==
  ASSUME NEW r, RowOK(r)
  PROVE  /\ RowOK(ZeroBudget(r)) /\ CalmRow(r, ZeroBudget(r))
         /\ HeldRow(ZeroBudget(r)) => HeldRow(r)
<1> DEFINE q == ZeroBudget(r)
<1> SUFFICES RowOK(q) /\ CalmRow(r, q) /\ (HeldRow(q) => HeldRow(r))
  OBVIOUS
<1>0. 0 \in 0..MaxResetAttempts
  BY FleetAssumption
<1>1. q \in DeviceRow
  BY <1>0 DEF RowOK, ZeroBudget, DeviceRow, Age
<1>2. /\ q.attempts = 0 /\ q.state = r.state /\ q.source = r.source /\ q.from = r.from
      /\ q.fence = r.fence /\ q.used = r.used /\ q.lost = r.lost /\ q.orphan = r.orphan
  BY DEF RowOK, ZeroBudget, DeviceRow
<1> HIDE DEF q
<1> QED BY <1>1, <1>2, FleetAssumption DEF RowOK, CalmRow, MildRow, Owes, LetRow, Leased,
                                           JudgedRow, HeldRow

(* A lease moves the fence on by one. *)
LEMMA ReserveRowOK ==
  ASSUME NEW r, RowOK(r), r.fence < MaxFence
  PROVE  /\ RowOK(ReserveRow(r)) /\ ReserveRow(r).state = "RESERVED"
         /\ ReserveRow(r).fence = r.fence + 1 /\ ReserveRow(r).orphan = r.orphan
<1> DEFINE q == ReserveRow(r)
<1> SUFFICES RowOK(q) /\ q.state = "RESERVED" /\ q.fence = r.fence + 1 /\ q.orphan = r.orphan
  OBVIOUS
<1>0. 0 \in 0..MaxResetAttempts /\ r.fence + 1 \in 0..MaxFence
  BY FleetAssumption DEF RowOK, DeviceRow
<1>1. q \in DeviceRow
  BY <1>0 DEF RowOK, ReserveRow, DeviceRow, DeviceState
<1>2. /\ q.state = "RESERVED" /\ q.fence = r.fence + 1
      /\ q.escalated = r.escalated /\ q.attempts = r.attempts /\ q.orphan = r.orphan
  BY DEF RowOK, ReserveRow, DeviceRow
<1> HIDE DEF q
<1> QED BY <1>1, <1>2 DEF RowOK, Leased

(* A confirmed reset, or a healthy recovery, is what makes a row clean. *)
LEMMA ResetRowOK ==
  ASSUME NEW r, RowOK(r), r.state \in {"CLEANING", "PREPARING"}
  PROVE  /\ RowOK(ResetRow(r)) /\ MildRow(r, ResetRow(r)) /\ ~HeldRow(ResetRow(r))
         /\ ResetRow(r).state = "READY"
<1> DEFINE q == ResetRow(r)
<1> SUFFICES RowOK(q) /\ MildRow(r, q) /\ ~HeldRow(q) /\ q.state = "READY"
  OBVIOUS
<1>0. 0 \in 0..MaxResetAttempts
  BY FleetAssumption
<1>1. q \in DeviceRow
  BY <1>0 DEF RowOK, ResetRow, DeviceRow, DeviceState, Age
<1>2. /\ q.attempts = 0 /\ q.state = "READY" /\ q.fence = r.fence /\ q.used = FALSE
      /\ q.orphan = r.orphan
  BY DEF RowOK, ResetRow, DeviceRow
<1> HIDE DEF q
<1> QED BY <1>1, <1>2, FleetAssumption DEF RowOK, MildRow, JudgedRow, HeldRow, Leased

(* An authorised recovery moves the fence on by one. *)
LEMMA PrepareRowOK ==
  ASSUME NEW r, RowOK(r), r.fence < MaxFence, r.state \notin Leased
  PROVE  /\ RowOK(PrepareRow(r)) /\ PrepareRow(r).state = "PREPARING"
         /\ PrepareRow(r).fence = r.fence + 1
<1> DEFINE q == PrepareRow(r)
<1> SUFFICES RowOK(q) /\ q.state = "PREPARING" /\ q.fence = r.fence + 1
  OBVIOUS
<1>0. 0 \in 0..MaxResetAttempts /\ r.fence + 1 \in 0..MaxFence
  BY FleetAssumption DEF RowOK, DeviceRow
<1>1. q \in DeviceRow
  BY <1>0 DEF RowOK, PrepareRow, DeviceRow, DeviceState
<1>2. /\ q.attempts = 0 /\ q.state = "PREPARING" /\ q.fence = r.fence + 1
      /\ q.orphan = r.orphan
  BY DEF RowOK, PrepareRow, DeviceRow
<1> HIDE DEF q
<1> QED BY <1>1, <1>2, FleetAssumption DEF RowOK

(* The budget is spent one attempt at a time, and the last one escalates. *)
LEMMA StallRowOK ==
  ASSUME NEW r, RowOK(r), ~r.escalated
  PROVE  /\ RowOK(StallRow(r)) /\ CalmRow(r, StallRow(r))
         /\ HeldRow(StallRow(r)) => HeldRow(r)
         /\ StallRow(r).state = r.state
<1> DEFINE q == StallRow(r)
<1> SUFFICES RowOK(q) /\ CalmRow(r, q) /\ (HeldRow(q) => HeldRow(r)) /\ q.state = r.state
  OBVIOUS
<1>1. r \in DeviceRow /\ r.attempts \in Nat /\ r.attempts < MaxResetAttempts
  BY FleetAssumption DEF RowOK, DeviceRow
<1>2. r.attempts + 1 \in 0..MaxResetAttempts
  BY <1>1, FleetAssumption
<1>3. (r.attempts + 1 >= MaxResetAttempts) \in BOOLEAN
  OBVIOUS
<1>4. q \in DeviceRow
  BY <1>1, <1>2, <1>3, Zenon DEF StallRow, DeviceRow, Age
<1>5. /\ q.attempts = r.attempts + 1 /\ q.state = r.state /\ q.source = r.source
      /\ q.from = r.from /\ q.fence = r.fence /\ q.used = r.used /\ q.lost = r.lost
      /\ q.orphan = r.orphan /\ q.escalated = (r.attempts + 1 >= MaxResetAttempts)
  BY <1>1 DEF StallRow, DeviceRow
<1>6. ~q.escalated => q.attempts < MaxResetAttempts
  <2>1. ~q.escalated => ~(r.attempts + 1 >= MaxResetAttempts)
    BY <1>5, Zenon
  <2>2. ~(r.attempts + 1 >= MaxResetAttempts) => q.attempts < MaxResetAttempts
    BY <1>1, <1>5, FleetAssumption
  <2> QED BY <2>1, <2>2
<1> HIDE DEF q
<1> QED BY <1>4, <1>5, <1>6 DEF RowOK, CalmRow, MildRow, Owes, LetRow, Leased, JudgedRow, HeldRow

(* A beat moves a device only between READY and OFFLINE. *)
LEMMA AwayRowOK ==
  ASSUME NEW r, RowOK(r), NEW isAway \in BOOLEAN
  PROVE  /\ RowOK(AwayRow(r, isAway)) /\ CalmRow(r, AwayRow(r, isAway))
         /\ HeldRow(AwayRow(r, isAway)) => HeldRow(r)
<1> DEFINE q == AwayRow(r, isAway)
           Kept(x, st) == /\ x.state = st /\ x.source = r.source /\ x.from = r.from
                          /\ x.fence = r.fence /\ x.used = r.used /\ x.lost = r.lost
                          /\ x.escalated = r.escalated /\ x.attempts = r.attempts
                          /\ x.orphan = r.orphan
<1> SUFFICES RowOK(q) /\ CalmRow(r, q) /\ (HeldRow(q) => HeldRow(r))
  OBVIOUS
<1>1. CASE isAway /\ r.state = "READY"
  <2>1. q = [r EXCEPT !.state = "OFFLINE", !.away = TRUE]
    BY <1>1 DEF AwayRow
  <2>2. q \in DeviceRow
    BY <2>1 DEF DeviceRow, RowOK, DeviceState
  <2>3. Kept(q, "OFFLINE")
    BY <2>1 DEF RowOK, DeviceRow
  <2> HIDE DEF q
  <2> QED BY <1>1, <2>2, <2>3 DEF RowOK, CalmRow, MildRow, Owes, LetRow, JudgedRow, HeldRow,
                                  Leased
<1>2. CASE ~isAway /\ r.away /\ r.state = "OFFLINE"
  <2>1. q = [r EXCEPT !.state = "READY", !.away = FALSE, !.forgotten = FALSE]
    BY <1>2 DEF AwayRow
  <2>2. q \in DeviceRow
    BY <2>1 DEF DeviceRow, RowOK, DeviceState
  <2>3. Kept(q, "READY")
    BY <2>1 DEF RowOK, DeviceRow
  <2> HIDE DEF q
  <2> QED BY <1>2, <2>2, <2>3 DEF RowOK, CalmRow, MildRow, Owes, LetRow, JudgedRow, HeldRow,
                                  Leased
<1>3. CASE ~(isAway /\ r.state = "READY") /\ ~(~isAway /\ r.away /\ r.state = "OFFLINE")
  BY <1>3, CalmRowRefl DEF AwayRow
<1> QED BY <1>1, <1>2, <1>3

(* A registration moves only what is in nobody's hands, and never a         *)
(* judgement or what the cascade holds.                                     *)
LEMMA UpsertRowOK ==
  ASSUME NEW r, RowOK(r), NEW schedulable \in BOOLEAN, NEW isAway \in BOOLEAN
  PROVE  /\ RowOK(UpsertRow(r, schedulable, isAway))
         /\ CalmRow(r, UpsertRow(r, schedulable, isAway))
         /\ HeldRow(UpsertRow(r, schedulable, isAway)) => HeldRow(r)
<1> DEFINE q == UpsertRow(r, schedulable, isAway)
           new == IF schedulable /\ ~isAway THEN "READY" ELSE "OFFLINE"
           held == r.state = "QUARANTINED" /\ r.from # "none"
           keeps == \/ r.state = "QUARANTINED" /\ r.source \in {"operator", "health"}
                    \/ held
                    \/ r.state \in {"RESERVED", "SESSION_ACTIVE", "CLEANING", "PREPARING"}
           st == IF keeps THEN r.state ELSE new
           aw == IF held THEN r.away ELSE isAway
           fg == IF isAway THEN r.forgotten ELSE FALSE
           u == TouchRow(r)
<1> SUFFICES RowOK(q) /\ CalmRow(r, q) /\ (HeldRow(q) => HeldRow(r))
  OBVIOUS
<1>1. q = [u EXCEPT !.state = st, !.away = aw, !.forgotten = fg, !.listed = TRUE]
  BY DEF UpsertRow
<1>2. new \in {"READY", "OFFLINE"}
  OBVIOUS
<1>3. st \in DeviceState
  BY DEF RowOK, DeviceRow, DeviceState
<1>4. aw \in BOOLEAN /\ fg \in BOOLEAN
  <2>1. r.away \in BOOLEAN /\ r.forgotten \in BOOLEAN
    BY DEF RowOK, DeviceRow
  <2> QED BY <2>1, Zenon
<1>5. keeps \/ r.state \in {"ABSENT", "READY", "OFFLINE"}
  BY DEF RowOK, DeviceRow, DeviceState
<1>6. st = r.state \/ (st = new /\ r.state \in {"ABSENT", "READY", "OFFLINE"})
  BY <1>5
<1>9. /\ u \in DeviceRow /\ u.source = r.source /\ u.from = r.from
      /\ u.fence = r.fence /\ u.used = r.used /\ u.lost = r.lost
      /\ u.escalated = r.escalated /\ u.attempts = r.attempts /\ u.orphan = r.orphan
  BY TouchRowOK DEF RowOK
<1> HIDE DEF new, keeps, st, aw, fg, u
<1>7. q \in DeviceRow
  BY <1>1, <1>3, <1>4, <1>9 DEF DeviceRow
<1>8. /\ q.state = st /\ q.source = r.source /\ q.from = r.from
      /\ q.fence = r.fence /\ q.used = r.used /\ q.lost = r.lost
      /\ q.escalated = r.escalated /\ q.attempts = r.attempts /\ q.orphan = r.orphan
  BY <1>1, <1>9 DEF DeviceRow
<1> HIDE DEF q
<1> QED BY <1>2, <1>6, <1>7, <1>8 DEF RowOK, CalmRow, MildRow, Owes, LetRow, JudgedRow,
                                      HeldRow, Leased

(* Nothing is settled, or the device is out of the pool. *)
DropsRow(r, q) ==
  \/ Owes(q) = Owes(r)
  \/ q.state = "OFFLINE" /\ r.state \notin Leased /\ ~JudgedRow(r)

(* A withdrawal moves only READY devices and those the cascade holds, and   *)
(* of the latter it keeps a note.                                           *)
LEMMA WithdrawRowOK ==
  ASSUME NEW r, RowOK(r)
  PROVE  /\ RowOK(WithdrawRow(r)) /\ MildRow(r, WithdrawRow(r))
         /\ HeldRow(WithdrawRow(r)) => HeldRow(r)
         /\ DropsRow(r, WithdrawRow(r))
<1> DEFINE q == WithdrawRow(r)
           goes == \/ r.state = "READY"
                   \/ r.state = "QUARANTINED" /\ r.source \notin {"operator", "health"}
           note == r.lost \/ (r.state = "QUARANTINED" /\ r.from # "none")
<1> SUFFICES RowOK(q) /\ MildRow(r, q) /\ (HeldRow(q) => HeldRow(r)) /\ DropsRow(r, q)
  OBVIOUS
<1>1. CASE goes
  <2>1. q = [r EXCEPT !.state = "OFFLINE", !.listed = FALSE, !.lost = note]
    BY <1>1 DEF WithdrawRow
  <2>2. note \in BOOLEAN
    OBVIOUS
  <2>3. q \in DeviceRow
    <3> HIDE DEF note
    <3> QED BY <2>1, <2>2 DEF RowOK, DeviceRow, DeviceState
  <2>4. /\ q.state = "OFFLINE" /\ q.source = r.source /\ q.from = r.from
        /\ q.fence = r.fence /\ q.used = r.used /\ q.lost = note
        /\ q.escalated = r.escalated /\ q.attempts = r.attempts /\ q.orphan = r.orphan
    <3> HIDE DEF note
    <3> QED BY <2>1 DEF RowOK, DeviceRow
  <2>5. r.state = "READY" \/ HeldRow(r)
    BY <1>1 DEF RowOK, DeviceRow, HeldRow
  <2>6. r.used => q.lost
    BY <2>4, <2>5 DEF RowOK, HeldRow
  <2> HIDE DEF q, note, goes
  <2> QED BY <2>3, <2>4, <2>5, <2>6 DEF RowOK, MildRow, DropsRow, Owes, LetRow, JudgedRow,
                                        HeldRow, Leased
<1>2. CASE ~goes
  <2>1. q = [r EXCEPT !.listed = FALSE]
    BY <1>2 DEF WithdrawRow
  <2>2. q \in DeviceRow
    BY <2>1 DEF RowOK, DeviceRow
  <2>3. /\ q.state = r.state /\ q.source = r.source /\ q.from = r.from
        /\ q.fence = r.fence /\ q.used = r.used /\ q.lost = r.lost
        /\ q.escalated = r.escalated /\ q.attempts = r.attempts /\ q.orphan = r.orphan
    BY <2>1 DEF RowOK, DeviceRow
  <2> HIDE DEF q
  <2> QED BY <2>2, <2>3 DEF RowOK, MildRow, DropsRow, Owes, LetRow, JudgedRow, HeldRow, Leased
<1> QED BY <1>1, <1>2

(* Forgetting a device, or restoring it, changes whether it is shown. *)
LEMMA ShowRowOK ==
  ASSUME NEW r, RowOK(r), NEW hide \in BOOLEAN
  PROVE  /\ RowOK([r EXCEPT !.forgotten = hide]) /\ CalmRow(r, [r EXCEPT !.forgotten = hide])
         /\ HeldRow([r EXCEPT !.forgotten = hide]) => HeldRow(r)
<1> DEFINE q == [r EXCEPT !.forgotten = hide]
<1> SUFFICES RowOK(q) /\ CalmRow(r, q) /\ (HeldRow(q) => HeldRow(r))
  OBVIOUS
<1>1. q \in DeviceRow
  BY DEF RowOK, DeviceRow
<1>2. /\ q.state = r.state /\ q.source = r.source /\ q.from = r.from
      /\ q.fence = r.fence /\ q.used = r.used /\ q.lost = r.lost
      /\ q.escalated = r.escalated /\ q.attempts = r.attempts /\ q.orphan = r.orphan
  BY DEF RowOK, DeviceRow
<1> HIDE DEF q
<1> QED BY <1>1, <1>2 DEF RowOK, CalmRow, MildRow, Owes, LetRow, Leased, JudgedRow, HeldRow

-----------------------------------------------------------------------------
(* Whole databases. *)

(* Every row is as it may be. *)
Rows(b) == b \in Database /\ \A d \in Device : RowOK(b.devices[d])

(* What a step that is not about a lease may do to a database. *)
Calm(b, c) ==
  /\ Rows(c)
  /\ c.sessions = b.sessions
  /\ \A d \in Device : CalmRow(b.devices[d], c.devices[d])

(* What one may do that settles something. *)
Mild(b, c) ==
  /\ Rows(c)
  /\ c.sessions = b.sessions
  /\ \A d \in Device : MildRow(b.devices[d], c.devices[d])

LEMMA CalmIsMild ==
  ASSUME NEW b, NEW c, Calm(b, c)
  PROVE  Mild(b, c)
BY DEF Calm, Mild, CalmRow

LEMMA CalmRefl == \A b : Rows(b) => Calm(b, b)
BY CalmRowRefl DEF Calm

LEMMA CalmTrans ==
  ASSUME NEW a, NEW b, NEW c, Calm(a, b), Calm(b, c)
  PROVE  Calm(a, c)
BY CalmRowTrans DEF Calm

(* A write to the table of devices. *)
LEMMA SetDevices ==
  ASSUME NEW b, Rows(b), NEW f, f \in [Device -> DeviceRow],
         \A d \in Device : RowOK(f[d])
  PROVE  LET c == [b EXCEPT !.devices = f]
         IN  /\ Rows(c) /\ c.devices = f
             /\ c.hosts = b.hosts /\ c.sessions = b.sessions /\ c.asked = b.asked
<1> DEFINE c == [b EXCEPT !.devices = f]
<1>1. c \in Database
  BY DEF Rows, Database
<1>2. /\ c.devices = f
      /\ c.hosts = b.hosts /\ c.sessions = b.sessions /\ c.asked = b.asked
  BY DEF Rows, Database
<1> HIDE DEF c
<1>3. Rows(c)
  BY <1>1, <1>2 DEF Rows
<1> QED BY <1>2, <1>3 DEF c

(* A write to the table of devices that is about no lease. *)
LEMMA CalmDevices ==
  ASSUME NEW b, Rows(b), NEW f, f \in [Device -> DeviceRow],
         \A d \in Device : RowOK(f[d]) /\ CalmRow(b.devices[d], f[d]),
         NEW c, c = [b EXCEPT !.devices = f]
  PROVE  Calm(b, c) /\ c.devices = f /\ c.hosts = b.hosts
BY SetDevices DEF Calm

LEMMA MildDevices ==
  ASSUME NEW b, Rows(b), NEW f, f \in [Device -> DeviceRow],
         \A d \in Device : RowOK(f[d]) /\ MildRow(b.devices[d], f[d]),
         NEW c, c = [b EXCEPT !.devices = f]
  PROVE  Mild(b, c) /\ c.devices = f /\ c.hosts = b.hosts
BY SetDevices DEF Mild

(* A write to the row of one host. *)
LEMMA SetHost ==
  ASSUME NEW b, Rows(b), NEW c, c \in Database,
         c.devices = b.devices, c.sessions = b.sessions
  PROVE  Calm(b, c)
BY CalmRowRefl DEF Calm, Rows

(* Collapse and Restore, whatever they are told of the host. *)
LEMMA CollapseOK ==
  ASSUME NEW b, Rows(b), NEW h
  PROVE  /\ Calm(b, Collapse(b, h)) /\ Collapse(b, h).hosts = b.hosts
         /\ \A d \in Device : HeldRow(Collapse(b, h).devices[d]) =>
              HeldRow(b.devices[d]) \/ HostOf[d] = h
<1> DEFINE f == [d \in Device |->
                   IF HostOf[d] = h THEN CollapseRow(b.devices[d]) ELSE b.devices[d]]
<1>1. \A d \in Device : RowOK(f[d]) /\ CalmRow(b.devices[d], f[d])
  BY CollapseRowOK, CalmRowRefl DEF Rows
<1>2. f \in [Device -> DeviceRow]
  BY <1>1 DEF RowOK
<1>3. Collapse(b, h) = [b EXCEPT !.devices = f]
  BY DEF Collapse
<1>4. Calm(b, Collapse(b, h)) /\ Collapse(b, h).devices = f /\ Collapse(b, h).hosts = b.hosts
  <2> HIDE DEF f
  <2> QED BY <1>1, <1>2, <1>3, CalmDevices
<1> QED BY <1>4

LEMMA RestoreOK ==
  ASSUME NEW b, Rows(b), NEW h
  PROVE  /\ Calm(b, Restore(b, h)) /\ Restore(b, h).hosts = b.hosts
         /\ \A d \in Device : HeldRow(Restore(b, h).devices[d]) =>
              HeldRow(b.devices[d]) /\ HostOf[d] # h
<1> DEFINE f == [d \in Device |->
                   IF HostOf[d] = h THEN RestoreRow(b.devices[d]) ELSE b.devices[d]]
<1>1. \A d \in Device : RowOK(f[d]) /\ CalmRow(b.devices[d], f[d])
                        /\ (HeldRow(f[d]) => HeldRow(b.devices[d]) /\ HostOf[d] # h)
  BY RestoreRowOK, CalmRowRefl DEF Rows
<1>2. f \in [Device -> DeviceRow]
  BY <1>1 DEF RowOK
<1>3. Restore(b, h) = [b EXCEPT !.devices = f]
  BY DEF Restore
<1>4. Calm(b, Restore(b, h)) /\ Restore(b, h).devices = f /\ Restore(b, h).hosts = b.hosts
  <2> HIDE DEF f
  <2> QED BY <1>1, <1>2, <1>3, CalmDevices
<1> QED BY <1>1, <1>4

(* HeldIn read row by row: RowOK already says that a held row has a state   *)
(* to go back to.                                                           *)
LEMMA HeldByHost ==
  ASSUME NEW b, Rows(b),
         \A d \in Device : HeldRow(b.devices[d]) => b.hosts[HostOf[d]].state # "UP"
  PROVE  HeldIn(b)
BY DEF HeldIn, HeldRow, Rows, RowOK

LEMMA HostsHold ==
  ASSUME NEW b, HeldIn(b)
  PROVE  \A d \in Device : HeldRow(b.devices[d]) => b.hosts[HostOf[d]].state # "UP"
BY DEF HeldIn, HeldRow

(* No new row is held, and no host that was out is back. *)
LEMMA HeldKept ==
  ASSUME NEW b, HeldIn(b), NEW c, Rows(c),
         \A d \in Device : HeldRow(c.devices[d]) => HeldRow(b.devices[d]),
         \A h \in Host : b.hosts[h].state # "UP" => c.hosts[h].state # "UP"
  PROVE  HeldIn(c)
BY HeldByHost, HostsHold, FleetAssumption

(* A write to a host's row alone. *)
LEMMA HostRowOK ==
  ASSUME NEW b, Rows(b), NEW h \in Host, NEW x, x \in HostRow
  PROVE  LET c == [b EXCEPT !.hosts[h] = x]
         IN  /\ Calm(b, c) /\ c.devices = b.devices /\ c.sessions = b.sessions
             /\ c.asked = b.asked /\ c.hosts[h] = x
             /\ \A g \in Host : g # h => c.hosts[g] = b.hosts[g]
<1> DEFINE c == [b EXCEPT !.hosts[h] = x]
<1>1. c \in Database
  BY DEF Rows, Database
<1>2. /\ c.devices = b.devices /\ c.sessions = b.sessions
      /\ c.asked = b.asked /\ c.hosts = [b.hosts EXCEPT ![h] = x]
  BY DEF Rows, Database
<1>3. b.hosts \in [Host -> HostRow]
  BY DEF Rows, Database
<1> HIDE DEF c
<1>4. Calm(b, c)
  BY <1>1, <1>2, SetHost
<1>5. c.hosts[h] = x /\ \A g \in Host : g # h => c.hosts[g] = b.hosts[g]
  BY <1>2, <1>3
<1> QED BY <1>2, <1>4, <1>5 DEF c

(* quarantine_host takes the host out with every device the cascade takes. *)
LEMMA QuarantineHostOK ==
  ASSUME NEW b, Rows(b), NEW h \in Host,
         NEW by \in {"none", "reaper", "operator"}
  PROVE  LET c == QuarantineHost(b, h, by)
         IN  /\ Calm(b, c) /\ c.hosts[h].state = "QUARANTINED"
             /\ \A g \in Host : g # h => c.hosts[g] = b.hosts[g]
             /\ HeldIn(b) => HeldIn(c)
<1> DEFINE x == [b.hosts[h] EXCEPT !.state = "QUARANTINED", !.source = by]
           a == [b EXCEPT !.hosts[h] = x]
           c == Collapse(a, h)
<1>1. QuarantineHost(b, h, by) = c
  BY DEF QuarantineHost, Rows, Database
<1>2. x \in HostRow /\ x.state = "QUARANTINED"
  BY DEF Rows, Database, HostRow
<1> HIDE DEF x
<1>3. /\ Calm(b, a) /\ a.devices = b.devices /\ a.hosts[h] = x
      /\ \A g \in Host : g # h => a.hosts[g] = b.hosts[g]
  BY <1>2, HostRowOK
<1> HIDE DEF a
<1>4. /\ Calm(a, c) /\ c.hosts = a.hosts
      /\ \A d \in Device : HeldRow(c.devices[d]) => HeldRow(a.devices[d]) \/ HostOf[d] = h
  BY <1>3, CollapseOK DEF Calm
<1> HIDE DEF c
<1>5. Calm(b, c) /\ c.hosts[h].state = "QUARANTINED"
  BY <1>2, <1>3, <1>4, CalmTrans
<1>6. ASSUME HeldIn(b) PROVE HeldIn(c)
  <2>1. \A d \in Device : HeldRow(c.devices[d]) => c.hosts[HostOf[d]].state # "UP"
    BY <1>2, <1>3, <1>4, <1>6, HostsHold, FleetAssumption
  <2> QED BY <1>5, <2>1, HeldByHost DEF Calm
<1> QED BY <1>1, <1>3, <1>4, <1>5, <1>6

(* mark_host_down takes the same devices. *)
LEMMA MarkHostDownOK ==
  ASSUME NEW b, Rows(b), NEW h \in Host
  PROVE  Calm(b, MarkHostDown(b, h)) /\ (HeldIn(b) => HeldIn(MarkHostDown(b, h)))
<1> DEFINE x == [b.hosts[h] EXCEPT !.state = "DOWN"]
           a == [b EXCEPT !.hosts[h] = x]
           c == Collapse(a, h)
<1>1. MarkHostDown(b, h) = c
  BY DEF MarkHostDown, Rows, Database
<1>2. x \in HostRow /\ x.state = "DOWN"
  BY DEF Rows, Database, HostRow
<1> HIDE DEF x
<1>3. /\ Calm(b, a) /\ a.devices = b.devices /\ a.hosts[h] = x
      /\ \A g \in Host : g # h => a.hosts[g] = b.hosts[g]
  BY <1>2, HostRowOK
<1> HIDE DEF a
<1>4. /\ Calm(a, c) /\ c.hosts = a.hosts
      /\ \A d \in Device : HeldRow(c.devices[d]) => HeldRow(a.devices[d]) \/ HostOf[d] = h
  BY <1>3, CollapseOK DEF Calm
<1> HIDE DEF c
<1>5. Calm(b, c)
  BY <1>3, <1>4, CalmTrans
<1>6. ASSUME HeldIn(b) PROVE HeldIn(c)
  <2>1. \A d \in Device : HeldRow(c.devices[d]) => c.hosts[HostOf[d]].state # "UP"
    BY <1>2, <1>3, <1>4, <1>6, HostsHold, FleetAssumption
  <2> QED BY <1>5, <2>1, HeldByHost DEF Calm
<1> QED BY <1>1, <1>5, <1>6

(* A host that returns to service, and everything it held with it. *)
LEMMA ReturnOK ==
  ASSUME NEW b, Rows(b), NEW h \in Host, NEW x, x \in HostRow
  PROVE  LET c == Restore([b EXCEPT !.hosts[h] = x], h)
         IN  Calm(b, c) /\ (HeldIn(b) => HeldIn(c))
<1> DEFINE a == [b EXCEPT !.hosts[h] = x]
           c == Restore(a, h)
<1>1. /\ Calm(b, a) /\ a.devices = b.devices
      /\ \A g \in Host : g # h => a.hosts[g] = b.hosts[g]
  BY HostRowOK
<1> HIDE DEF a
<1>2. /\ Calm(a, c) /\ c.hosts = a.hosts
      /\ \A d \in Device : HeldRow(c.devices[d]) => HeldRow(a.devices[d]) /\ HostOf[d] # h
  BY <1>1, RestoreOK DEF Calm
<1> HIDE DEF c
<1>3. Calm(b, c)
  BY <1>1, <1>2, CalmTrans
<1>4. ASSUME HeldIn(b) PROVE HeldIn(c)
  <2>1. \A d \in Device : HeldRow(c.devices[d]) => c.hosts[HostOf[d]].state # "UP"
    BY <1>1, <1>2, <1>4, HostsHold, FleetAssumption
  <2> QED BY <1>3, <2>1, HeldByHost DEF Calm
<1> QED BY <1>3, <1>4 DEF a, c

LEMMA LiftQuarantineOK ==
  ASSUME NEW b, Rows(b), NEW h \in Host, NEW by
  PROVE  Calm(b, LiftQuarantine(b, h, by)) /\ (HeldIn(b) => HeldIn(LiftQuarantine(b, h, by)))
<1> DEFINE x == [b.hosts[h] EXCEPT !.state = "UP", !.source = "none"]
<1>1. CASE b.hosts[h].state = "QUARANTINED" /\ b.hosts[h].source = by
  <2>1. LiftQuarantine(b, h, by) = Restore([b EXCEPT !.hosts[h] = x], h)
    BY <1>1 DEF LiftQuarantine, Rows, Database
  <2>2. x \in HostRow
    BY DEF Rows, Database, HostRow
  <2> HIDE DEF x
  <2> QED BY <2>1, <2>2, ReturnOK
<1>2. CASE ~(b.hosts[h].state = "QUARANTINED" /\ b.hosts[h].source = by)
  BY <1>2, CalmRefl DEF LiftQuarantine
<1> QED BY <1>1, <1>2

LEMMA LiftHostDownOK ==
  ASSUME NEW b, Rows(b), NEW h \in Host
  PROVE  Calm(b, LiftHostDown(b, h)) /\ (HeldIn(b) => HeldIn(LiftHostDown(b, h)))
<1> DEFINE x == [b.hosts[h] EXCEPT !.state = "UP"]
<1>1. CASE b.hosts[h].state = "DOWN"
  <2>1. LiftHostDown(b, h) = Restore([b EXCEPT !.hosts[h] = x], h)
    BY <1>1 DEF LiftHostDown, Rows, Database
  <2>2. x \in HostRow
    BY DEF Rows, Database, HostRow
  <2> HIDE DEF x
  <2> QED BY <2>1, <2>2, ReturnOK
<1>2. CASE b.hosts[h].state # "DOWN"
  BY <1>2, CalmRefl DEF LiftHostDown
<1> QED BY <1>1, <1>2

(* The writes of a registration and of a beat to the table of devices. *)
LEMMA UpsertOK ==
  ASSUME NEW b, Rows(b), NEW h, NEW L, NEW S, NEW A
  PROVE  Calm(b, Upsert(b, h, L, S, A)) /\ (HeldIn(b) => HeldIn(Upsert(b, h, L, S, A)))
<1> DEFINE c == Upsert(b, h, L, S, A)
           f == [d \in Device |-> IF HostOf[d] = h /\ d \in L THEN UpsertRow(b.devices[d], d \in S, d \in A) ELSE b.devices[d]]
<1>1. \A d \in Device : RowOK(f[d]) /\ CalmRow(b.devices[d], f[d])
                        /\ (HeldRow(f[d]) => HeldRow(b.devices[d]))
  <2> SUFFICES ASSUME NEW d \in Device
               PROVE  /\ RowOK(f[d]) /\ CalmRow(b.devices[d], f[d])
                      /\ HeldRow(f[d]) => HeldRow(b.devices[d])
    OBVIOUS
  <2> DEFINE q == UpsertRow(b.devices[d], d \in S, d \in A)
  <2>1. (d \in S) \in BOOLEAN /\ (d \in A) \in BOOLEAN
    OBVIOUS
  <2>2. RowOK(b.devices[d])
    BY DEF Rows
  <2>3. RowOK(q) /\ CalmRow(b.devices[d], q) /\ (HeldRow(q) => HeldRow(b.devices[d]))
    BY <2>1, <2>2, UpsertRowOK, Zenon
  <2> HIDE DEF q
  <2>4. f[d] = IF HostOf[d] = h /\ d \in L THEN q ELSE b.devices[d]
    BY DEF q
  <2> QED BY <2>2, <2>3, <2>4, CalmRowRefl, Zenon
<1>2. f \in [Device -> DeviceRow]
  BY <1>1 DEF RowOK
<1>3. c = [b EXCEPT !.devices = f]
  BY DEF Upsert
<1> HIDE DEF c, f
<1>4. Calm(b, c) /\ c.devices = f /\ c.hosts = b.hosts
  BY <1>1, <1>2, <1>3, CalmDevices
<1>5. HeldIn(b) => HeldIn(c)
  BY <1>1, <1>4, HeldKept DEF Calm
<1> QED BY <1>4, <1>5 DEF c

LEMMA WithdrawOK ==
  ASSUME NEW b, Rows(b), NEW h, NEW L
  PROVE  /\ Mild(b, Withdraw(b, h, L)) /\ (HeldIn(b) => HeldIn(Withdraw(b, h, L)))
         /\ \A d \in Device : DropsRow(b.devices[d], Withdraw(b, h, L).devices[d])
<1> DEFINE c == Withdraw(b, h, L)
           f == [d \in Device |-> IF HostOf[d] = h /\ d \notin L THEN WithdrawRow(b.devices[d]) ELSE b.devices[d]]
<1>1. \A d \in Device : RowOK(f[d]) /\ MildRow(b.devices[d], f[d])
                        /\ (HeldRow(f[d]) => HeldRow(b.devices[d]))
                        /\ DropsRow(b.devices[d], f[d])
  BY WithdrawRowOK, MildRowRefl DEF Rows, DropsRow
<1>2. f \in [Device -> DeviceRow]
  BY <1>1 DEF RowOK
<1>3. c = [b EXCEPT !.devices = f]
  BY DEF Withdraw
<1> HIDE DEF c, f
<1>4. Mild(b, c) /\ c.devices = f /\ c.hosts = b.hosts
  BY <1>1, <1>2, <1>3, MildDevices
<1>5. HeldIn(b) => HeldIn(c)
  BY <1>1, <1>4, HeldKept DEF Mild
<1> QED BY <1>1, <1>4, <1>5 DEF c

LEMMA ApplyAwayOK ==
  ASSUME NEW b, Rows(b), NEW h, NEW A
  PROVE  Calm(b, ApplyAway(b, h, A)) /\ (HeldIn(b) => HeldIn(ApplyAway(b, h, A)))
<1> DEFINE c == ApplyAway(b, h, A)
           f == [d \in Device |-> IF HostOf[d] = h THEN AwayRow(b.devices[d], d \in A) ELSE b.devices[d]]
<1>1. \A d \in Device : RowOK(f[d]) /\ CalmRow(b.devices[d], f[d])
                        /\ (HeldRow(f[d]) => HeldRow(b.devices[d]))
  <2> SUFFICES ASSUME NEW d \in Device
               PROVE  /\ RowOK(f[d]) /\ CalmRow(b.devices[d], f[d])
                      /\ HeldRow(f[d]) => HeldRow(b.devices[d])
    OBVIOUS
  <2> DEFINE q == AwayRow(b.devices[d], d \in A)
  <2>1. (d \in A) \in BOOLEAN
    OBVIOUS
  <2>2. RowOK(b.devices[d])
    BY DEF Rows
  <2>3. RowOK(q) /\ CalmRow(b.devices[d], q) /\ (HeldRow(q) => HeldRow(b.devices[d]))
    BY <2>1, <2>2, AwayRowOK, Zenon
  <2> HIDE DEF q
  <2>4. f[d] = IF HostOf[d] = h THEN q ELSE b.devices[d]
    BY DEF q
  <2> QED BY <2>2, <2>3, <2>4, CalmRowRefl, Zenon
<1>2. f \in [Device -> DeviceRow]
  BY <1>1 DEF RowOK
<1>3. c = [b EXCEPT !.devices = f]
  BY DEF ApplyAway
<1> HIDE DEF c, f
<1>4. Calm(b, c) /\ c.devices = f /\ c.hosts = b.hosts
  BY <1>1, <1>2, <1>3, CalmDevices
<1>5. HeldIn(b) => HeldIn(c)
  BY <1>1, <1>4, HeldKept DEF Calm
<1> QED BY <1>4, <1>5 DEF c

LEMMA ReconcileOK ==
  ASSUME NEW b, Rows(b), NEW T
  PROVE  /\ Calm(b, Reconcile(b, T)) /\ (HeldIn(b) => HeldIn(Reconcile(b, T)))
         /\ Reconcile(b, T).hosts = b.hosts
         /\ \A d \in Device : Reconcile(b, T).devices[d].state = b.devices[d].state
<1> DEFINE c == Reconcile(b, T)
           f == [d \in Device |-> IF d \in T THEN TouchRow(b.devices[d]) ELSE b.devices[d]]
<1>1. \A d \in Device : RowOK(f[d]) /\ CalmRow(b.devices[d], f[d])
                        /\ (HeldRow(f[d]) => HeldRow(b.devices[d]))
                        /\ f[d].state = b.devices[d].state
  BY TouchRowOK, CalmRowRefl DEF Rows
<1>2. f \in [Device -> DeviceRow]
  BY <1>1 DEF RowOK
<1>3. c = [b EXCEPT !.devices = f]
  BY DEF Reconcile
<1> HIDE DEF c, f
<1>4. Calm(b, c) /\ c.devices = f /\ c.hosts = b.hosts
  BY <1>1, <1>2, <1>3, CalmDevices
<1>5. HeldIn(b) => HeldIn(c)
  BY <1>1, <1>4, HeldKept DEF Calm
<1> QED BY <1>1, <1>4, <1>5 DEF c

(* The reaper's writes to the table of devices. *)
LEMMA CountStalledResetsOK ==
  ASSUME NEW b, Rows(b), NEW D,
         \A d \in D : ~b.devices[d].escalated
  PROVE  /\ Calm(b, CountStalledResets(b, D)) /\ (HeldIn(b) => HeldIn(CountStalledResets(b, D)))
         /\ \A d \in Device : CountStalledResets(b, D).devices[d].state = b.devices[d].state
<1> DEFINE c == CountStalledResets(b, D)
           f == [d \in Device |-> IF d \in D THEN StallRow(b.devices[d]) ELSE b.devices[d]]
<1>1. \A d \in Device : RowOK(f[d]) /\ CalmRow(b.devices[d], f[d])
                        /\ (HeldRow(f[d]) => HeldRow(b.devices[d]))
                        /\ f[d].state = b.devices[d].state
  BY StallRowOK, CalmRowRefl DEF Rows
<1>2. f \in [Device -> DeviceRow]
  BY <1>1 DEF RowOK
<1>3. c = [b EXCEPT !.devices = f]
  BY DEF CountStalledResets
<1> HIDE DEF c, f
<1>4. Calm(b, c) /\ c.devices = f /\ c.hosts = b.hosts
  BY <1>1, <1>2, <1>3, CalmDevices
<1>5. HeldIn(b) => HeldIn(c)
  BY <1>1, <1>4, HeldKept DEF Calm
<1> QED BY <1>1, <1>4, <1>5 DEF c

LEMMA ExpireStalledRecoveriesOK ==
  ASSUME NEW b, Rows(b), NEW D,
         \A d \in D : b.devices[d].state = "PREPARING"
  PROVE  LET c == ExpireStalledRecoveries(b, D)
         IN  /\ Mild(b, c) /\ (HeldIn(b) => HeldIn(c))
             /\ \A d \in Device : /\ d \in D => JudgedRow(c.devices[d])
                                  /\ d \notin D => c.devices[d] = b.devices[d]
<1> DEFINE c == ExpireStalledRecoveries(b, D)
           f == [d \in Device |-> IF d \in D THEN HoldRow(b.devices[d], "health") ELSE b.devices[d]]
<1>1. \A d \in Device : RowOK(f[d]) /\ MildRow(b.devices[d], f[d])
                        /\ (HeldRow(f[d]) => HeldRow(b.devices[d]))
                        /\ (d \in D => JudgedRow(f[d])) /\ (d \notin D => f[d] = b.devices[d])
  <2> SUFFICES ASSUME NEW d \in Device, d \in D
               PROVE  /\ RowOK(f[d]) /\ MildRow(b.devices[d], f[d])
                      /\ ~HeldRow(f[d]) /\ JudgedRow(f[d])
    BY MildRowRefl DEF Rows
  <2> QED BY FailRowOK DEF Rows
<1>2. f \in [Device -> DeviceRow]
  BY <1>1 DEF RowOK
<1>3. c = [b EXCEPT !.devices = f]
  BY DEF ExpireStalledRecoveries
<1> HIDE DEF c, f
<1>4. Mild(b, c) /\ c.devices = f /\ c.hosts = b.hosts
  BY <1>1, <1>2, <1>3, MildDevices
<1>5. HeldIn(b) => HeldIn(c)
  BY <1>1, <1>4, HeldKept DEF Mild
<1> QED BY <1>1, <1>4, <1>5 DEF c

(* The host sweep: quarantine_host for each silent host. *)
LEMMA SweepHostsOK ==
  ASSUME NEW b, Rows(b), NEW H, H \subseteq Host
  PROVE  /\ Calm(b, SweepHosts(b, H)) /\ (HeldIn(b) => HeldIn(SweepHosts(b, H)))
         /\ \A d \in Device : SweepHosts(b, H).devices[d].state = "READY" =>
              b.devices[d].state = "READY"
<1> DEFINE c == SweepHosts(b, H)
           g == [h \in Host |-> IF h \in H
                   THEN [b.hosts[h] EXCEPT !.state = "QUARANTINED", !.source = "reaper"]
                   ELSE b.hosts[h]]
           f == [d \in Device |-> IF HostOf[d] \in H
                   THEN CollapseRow(b.devices[d]) ELSE b.devices[d]]
<1>0. \A d \in Device : f[d].state = "READY" => b.devices[d].state = "READY"
  <2>1. \A r : RowOK(r) => CollapseRow(r).state # "READY"
    BY DEF RowOK, DeviceRow, CollapseRow, Collapsible
  <2> QED BY <2>1 DEF Rows
<1>1. \A d \in Device : RowOK(f[d]) /\ CalmRow(b.devices[d], f[d])
                        /\ (HeldRow(f[d]) => HeldRow(b.devices[d]) \/ HostOf[d] \in H)
  BY CollapseRowOK, CalmRowRefl DEF Rows
<1>2. f \in [Device -> DeviceRow]
  BY <1>1 DEF RowOK
<1>3. /\ g \in [Host -> HostRow]
      /\ \A h \in Host : /\ h \in H => g[h].state = "QUARANTINED"
                         /\ h \notin H => g[h] = b.hosts[h]
  <2>1. \A h \in Host : b.hosts[h] \in HostRow
    BY DEF Rows, Database
  <2>2. \A x \in HostRow :
          /\ [x EXCEPT !.state = "QUARANTINED", !.source = "reaper"] \in HostRow
          /\ [x EXCEPT !.state = "QUARANTINED", !.source = "reaper"].state = "QUARANTINED"
    BY DEF HostRow
  <2> QED BY <2>1, <2>2
<1>4. c = [b EXCEPT !.asked = @ \ ({"sweep"} \X H), !.hosts = g, !.devices = f]
  BY DEF SweepHosts
<1> HIDE DEF c, f, g
<1>5. c \in Database /\ c.devices = f /\ c.hosts = g /\ c.sessions = b.sessions
  BY <1>2, <1>3, <1>4 DEF Rows, Database
<1>6. Calm(b, c)
  BY <1>1, <1>5 DEF Calm, Rows
<1>7. ASSUME HeldIn(b) PROVE HeldIn(c)
  <2>1. \A d \in Device : HeldRow(c.devices[d]) => c.hosts[HostOf[d]].state # "UP"
    BY <1>1, <1>3, <1>5, <1>7, HostsHold, FleetAssumption
  <2> QED BY <1>6, <2>1, HeldByHost DEF Calm
<1> QED BY <1>0, <1>5, <1>6, <1>7 DEF c

(* A write to one device row. *)
LEMMA SetRow ==
  ASSUME NEW b, Rows(b), NEW d \in Device, NEW q, RowOK(q)
  PROVE  LET c == [b EXCEPT !.devices[d] = q]
         IN  /\ Rows(c) /\ c.devices = [b.devices EXCEPT ![d] = q]
             /\ c.hosts = b.hosts /\ c.sessions = b.sessions /\ c.asked = b.asked
<1> DEFINE f == [b.devices EXCEPT ![d] = q]
<1>1. [b EXCEPT !.devices[d] = q] = [b EXCEPT !.devices = f]
  BY DEF Rows, Database
<1>2. f \in [Device -> DeviceRow] /\ \A e \in Device : RowOK(f[e])
  BY DEF Rows, RowOK, Database
<1> HIDE DEF f
<1>3. LET c == [b EXCEPT !.devices = f]
      IN  /\ Rows(c) /\ c.devices = f
          /\ c.hosts = b.hosts /\ c.sessions = b.sessions /\ c.asked = b.asked
  BY <1>2, SetDevices
<1> QED BY <1>1, <1>3 DEF f

(* One that is about no lease. *)
LEMMA CalmSetRow ==
  ASSUME NEW b, Rows(b), NEW d \in Device, NEW q, RowOK(q),
         CalmRow(b.devices[d], q), HeldRow(q) => HeldRow(b.devices[d]),
         NEW c, c = [b EXCEPT !.devices[d] = q]
  PROVE  Calm(b, c) /\ (HeldIn(b) => HeldIn(c))
<1>1. /\ Rows(c) /\ c.devices = [b.devices EXCEPT ![d] = q]
      /\ c.hosts = b.hosts /\ c.sessions = b.sessions
  BY SetRow
<1>2. \A e \in Device : /\ CalmRow(b.devices[e], c.devices[e])
                        /\ HeldRow(c.devices[e]) => HeldRow(b.devices[e])
  BY <1>1, CalmRowRefl DEF Rows, Database
<1>3. Calm(b, c)
  BY <1>1, <1>2 DEF Calm
<1> QED BY <1>1, <1>2, <1>3, HeldKept

LEMMA MildSetRow ==
  ASSUME NEW b, Rows(b), NEW d \in Device, NEW q, RowOK(q),
         MildRow(b.devices[d], q), HeldRow(q) => HeldRow(b.devices[d]),
         NEW c, c = [b EXCEPT !.devices[d] = q]
  PROVE  Mild(b, c) /\ (HeldIn(b) => HeldIn(c))
<1>1. /\ Rows(c) /\ c.devices = [b.devices EXCEPT ![d] = q]
      /\ c.hosts = b.hosts /\ c.sessions = b.sessions
  BY SetRow
<1>2. \A e \in Device : /\ MildRow(b.devices[e], c.devices[e])
                        /\ HeldRow(c.devices[e]) => HeldRow(b.devices[e])
  BY <1>1, MildRowRefl DEF Rows, Database
<1>3. Mild(b, c)
  BY <1>1, <1>2 DEF Mild
<1> QED BY <1>1, <1>2, <1>3, HeldKept

(* What a worker's report does, where it is accepted. *)
LEMMA DeviceResetCompleteOK ==
  ASSUME NEW b, Rows(b), NEW d \in Device, b.devices[d].state = "CLEANING"
  PROVE  LET c == DeviceResetComplete(b, d)
         IN  /\ Mild(b, c) /\ (HeldIn(b) => HeldIn(c))
             /\ c.devices[d].state = "READY"
             /\ \A e \in Device : e # d => c.devices[e] = b.devices[e]
<1> DEFINE q == ResetRow(b.devices[d])
           c == DeviceResetComplete(b, d)
<1>1. c = [b EXCEPT !.devices[d] = q]
  BY DEF DeviceResetComplete
<1>2. RowOK(q) /\ MildRow(b.devices[d], q) /\ ~HeldRow(q) /\ q.state = "READY"
  BY ResetRowOK DEF Rows
<1> HIDE DEF q, c
<1>3. Mild(b, c) /\ (HeldIn(b) => HeldIn(c))
  BY <1>1, <1>2, MildSetRow
<1>4. c.devices = [b.devices EXCEPT ![d] = q]
  BY <1>1, <1>2, SetRow
<1>5. c.devices[d] = q /\ \A e \in Device : e # d => c.devices[e] = b.devices[e]
  BY <1>4 DEF Rows, Database
<1> QED BY <1>2, <1>3, <1>5 DEF c

LEMMA FinishDeviceRecoveryOK ==
  ASSUME NEW b, Rows(b), NEW d \in Device, b.devices[d].state = "PREPARING",
         NEW ok \in BOOLEAN
  PROVE  LET c == FinishDeviceRecovery(b, d, ok)
         IN  /\ Mild(b, c) /\ (HeldIn(b) => HeldIn(c))
             /\ c.devices[d].state = "READY" \/ JudgedRow(c.devices[d])
             /\ \A e \in Device : e # d => c.devices[e] = b.devices[e]
<1> DEFINE q == IF ok THEN ResetRow(b.devices[d]) ELSE HoldRow(b.devices[d], "health")
           c == FinishDeviceRecovery(b, d, ok)
<1>1. c = [b EXCEPT !.devices[d] = q]
  BY DEF FinishDeviceRecovery
<1>2. /\ RowOK(q) /\ MildRow(b.devices[d], q) /\ ~HeldRow(q)
      /\ q.state = "READY" \/ JudgedRow(q)
  BY ResetRowOK, FailRowOK DEF Rows
<1> HIDE DEF q, c
<1>3. Mild(b, c) /\ (HeldIn(b) => HeldIn(c))
  BY <1>1, <1>2, MildSetRow
<1>4. c.devices = [b.devices EXCEPT ![d] = q]
  BY <1>1, <1>2, SetRow
<1>5. c.devices[d] = q /\ \A e \in Device : e # d => c.devices[e] = b.devices[e]
  BY <1>4 DEF Rows, Database
<1> QED BY <1>2, <1>3, <1>5 DEF c

-----------------------------------------------------------------------------
(* The inductive invariant, and the steps that are about a lease. *)

(* A session that has yet to be given a device has none. *)
Unserved(b) ==
  \A s \in Session : b.sessions[s].state \in {"NONE", "QUEUED"} => b.sessions[s].device = NoDevice

Inv(b) ==
  /\ Rows(b) /\ HeldIn(b) /\ CustodyIn(b) /\ FencesIn(b) /\ Unserved(b)

(* No judgement on a device is lifted. *)
Stands(b, c) ==
  \A d \in Device : JudgedRow(b.devices[d]) =>
    JudgedRow(c.devices[d]) /\ c.devices[d].source = b.devices[d].source

LEMMA StandsTrans ==
  ASSUME NEW a, NEW b, NEW c, Stands(a, b), Stands(b, c)
  PROVE  Stands(a, c)
BY DEF Stands

(* A mild step keeps every lease, every fence and every judgement. *)
LEMMA MildInv ==
  ASSUME NEW b, Inv(b), NEW c, Mild(b, c), HeldIn(c)
  PROVE  Inv(c) /\ Stands(b, c)
<1>1. /\ c.sessions = b.sessions /\ Rows(c)
      /\ \A d \in Device : MildRow(b.devices[d], c.devices[d])
  BY DEF Mild
<1>2. CustodyIn(c)
  BY <1>1 DEF Inv, CustodyIn, MildRow, Leased
<1>3. b.sessions \in [Session -> SessionRow]
  BY DEF Inv, Rows, Database
<1>4. FencesIn(c)
  BY <1>1, <1>3 DEF Inv, FencesIn, MildRow, SessionRow
<1>5. Unserved(c)
  BY <1>1 DEF Inv, Unserved
<1>6. Stands(b, c)
  BY <1>1 DEF Stands, MildRow
<1> QED BY <1>1, <1>2, <1>4, <1>5, <1>6 DEF Inv

(* The two rows of a lease are each other's only match. *)
LEMMA OneLease ==
  ASSUME NEW b, Inv(b), NEW s \in Session, NEW t \in Session,
         b.sessions[s].state \in Live, b.sessions[t].state \in Live,
         b.sessions[s].device = b.sessions[t].device
  PROVE  s = t
<1>1. b.sessions[s].device \in Device /\ b.sessions[s].fence = b.sessions[t].fence
  BY DEF Inv, CustodyIn
<1>2. b.sessions[s].device # NoDevice
  BY <1>1, FleetAssumption
<1> QED BY <1>1, <1>2 DEF Inv, FencesIn

(* The sessions of p are given the devices of p, and nothing else changes. *)
Gives(b, c, p) ==
  /\ \A s \in DOMAIN p : /\ c.sessions[s].state \in Live /\ c.sessions[s].device = p[s]
                         /\ b.sessions[s].state \notin Live
                         /\ b.devices[p[s]].state = "READY"
                         /\ c.devices[p[s]].fence = b.devices[p[s]].fence + 1
  /\ \A s \in Session \ DOMAIN p : c.sessions[s] = b.sessions[s]
  /\ \A d \in Device : (\A s \in DOMAIN p : p[s] # d) => c.devices[d] = b.devices[d]

(* allocate_device and promote_queued: READY devices, each to one session   *)
(* that had none, at a fence nobody has seen.                               *)
LEMMA ReserveOK ==
  ASSUME NEW b, Inv(b), NEW p, DOMAIN p \subseteq Session,
         \A s \in DOMAIN p :
            /\ p[s] \in Device /\ b.devices[p[s]].state = "READY"
            /\ b.devices[p[s]].fence < MaxFence
            /\ b.sessions[s].state \in {"NONE", "QUEUED"},
         \A s, t \in DOMAIN p : p[s] = p[t] => s = t
  PROVE  /\ Inv(Reserve(b, p)) /\ Stands(b, Reserve(b, p))
         /\ Gives(b, Reserve(b, p), p)
<1> DEFINE c == Reserve(b, p)
           taken(d) == \E s \in DOMAIN p : p[s] = d
           f == [d \in Device |-> IF taken(d) THEN ReserveRow(b.devices[d]) ELSE b.devices[d]]
           g == [s \in Session |-> IF s \in DOMAIN p
                   THEN [b.sessions[s] EXCEPT !.state = "ALLOCATING", !.device = p[s],
                           !.fence = b.devices[p[s]].fence + 1]
                   ELSE b.sessions[s]]
<1>1. \A d \in Device : taken(d) =>
        /\ b.devices[d].state = "READY" /\ b.devices[d].fence \in 0..MaxFence
        /\ RowOK(f[d]) /\ f[d].state = "RESERVED" /\ f[d].fence = b.devices[d].fence + 1
        /\ ~f[d].orphan
  <2> SUFFICES ASSUME NEW d \in Device, taken(d)
               PROVE  LET q == ReserveRow(b.devices[d])
                      IN  /\ b.devices[d].state = "READY" /\ b.devices[d].fence \in 0..MaxFence
                          /\ RowOK(q) /\ q.state = "RESERVED"
                          /\ q.fence = b.devices[d].fence + 1 /\ ~q.orphan
    OBVIOUS
  <2>1. /\ RowOK(b.devices[d]) /\ b.devices[d].state = "READY"
        /\ b.devices[d].fence < MaxFence
    BY DEF Inv, Rows
  <2>2. ~b.devices[d].orphan /\ b.devices[d].fence \in 0..MaxFence
    BY <2>1 DEF RowOK, DeviceRow, Leased
  <2> QED BY <2>1, <2>2, ReserveRowOK
<1>2. \A d \in Device : ~taken(d) => f[d] = b.devices[d]
  OBVIOUS
<1>3. /\ \A d \in Device : RowOK(f[d])
      /\ f \in [Device -> DeviceRow]
  BY <1>1, <1>2 DEF Inv, Rows, RowOK
<1>6. b.sessions \in [Session -> SessionRow]
  BY DEF Inv, Rows, Database
<1>4. \A s \in DOMAIN p : /\ taken(p[s]) /\ p[s] \in Device
                          /\ g[s].state = "ALLOCATING" /\ g[s].device = p[s]
                          /\ g[s].fence = b.devices[p[s]].fence + 1
  <2> SUFFICES ASSUME NEW s \in DOMAIN p
               PROVE  /\ taken(p[s]) /\ p[s] \in Device
                      /\ g[s].state = "ALLOCATING" /\ g[s].device = p[s]
                      /\ g[s].fence = b.devices[p[s]].fence + 1
    OBVIOUS
  <2>1. taken(p[s]) /\ p[s] \in Device
    OBVIOUS
  <2>2. s \in Session /\ b.sessions[s] \in SessionRow
    BY <1>6
  <2>3. g[s] = [b.sessions[s] EXCEPT !.state = "ALLOCATING", !.device = p[s],
                  !.fence = b.devices[p[s]].fence + 1]
    BY <2>2
  <2>4. /\ g[s].state = "ALLOCATING" /\ g[s].device = p[s]
        /\ g[s].fence = b.devices[p[s]].fence + 1
    <3> HIDE DEF g, taken
    <3> QED BY <2>2, <2>3 DEF SessionRow
  <2> QED BY <2>1, <2>4
<1>5. \A s \in Session \ DOMAIN p : g[s] = b.sessions[s]
  OBVIOUS
<1>7. g \in [Session -> SessionRow]
  <2>1. \A s \in DOMAIN p : b.devices[p[s]].fence + 1 \in 0..MaxFence
    BY FleetAssumption DEF Inv, Rows, RowOK, DeviceRow
  <2>2. \A x \in SessionRow, e \in Device, n \in 0..MaxFence :
          [x EXCEPT !.state = "ALLOCATING", !.device = e, !.fence = n] \in SessionRow
    BY DEF SessionRow, SessionState
  <2>3. ASSUME NEW s \in Session PROVE g[s] \in SessionRow
    <3>1. CASE s \in DOMAIN p
      BY <1>6, <2>1, <2>2, <3>1
    <3>2. CASE s \notin DOMAIN p
      BY <1>6, <3>2
    <3> QED BY <3>1, <3>2
  <2> QED BY <2>3
<1>8. c = [b EXCEPT !.devices = f, !.sessions = g]
  BY DEF Reserve
<1> HIDE DEF c, f, g
<1>9. c \in Database /\ c.devices = f /\ c.sessions = g /\ c.hosts = b.hosts
  BY <1>3, <1>7, <1>8 DEF Inv, Rows, Database
<1>10. Rows(c)
  BY <1>3, <1>9 DEF Rows
<1>11. \A d \in Device : JudgedRow(b.devices[d]) \/ HeldRow(f[d]) => ~taken(d)
  BY <1>1 DEF JudgedRow, HeldRow
<1>12. HeldIn(c)
  BY <1>2, <1>9, <1>10, <1>11, HeldKept DEF Inv
<1>13. Stands(b, c)
  BY <1>2, <1>9, <1>11 DEF Stands
<1>14. CustodyIn(c)
  <2>1. ASSUME NEW s \in Session, g[s].state \in Live
        PROVE  /\ g[s].device \in Device /\ ~f[g[s].device].orphan
               /\ f[g[s].device].fence = g[s].fence
               /\ f[g[s].device].state = IF g[s].state = "ACTIVE"
                                         THEN "SESSION_ACTIVE" ELSE "RESERVED"
    <3>1. CASE s \in DOMAIN p
      BY <1>1, <1>4, <3>1
    <3>2. CASE s \notin DOMAIN p
      <4>1. /\ g[s] = b.sessions[s] /\ b.sessions[s].device \in Device
            /\ ~b.devices[b.sessions[s].device].orphan
            /\ b.devices[b.sessions[s].device].fence = b.sessions[s].fence
            /\ b.devices[b.sessions[s].device].state =
                 IF b.sessions[s].state = "ACTIVE" THEN "SESSION_ACTIVE" ELSE "RESERVED"
        BY <1>5, <2>1, <3>2 DEF Inv, CustodyIn
      <4>2. ~taken(b.sessions[s].device)
        BY <1>1, <4>1
      <4> QED BY <1>2, <4>1, <4>2
    <3> QED BY <3>1, <3>2
  <2>2. ASSUME NEW d \in Device, f[d].state \in Leased, ~f[d].orphan
        PROVE  \E s \in Session : g[s].state \in Live /\ g[s].device = d
    <3>1. CASE taken(d)
      BY <1>4, <3>1 DEF Live
    <3>2. CASE ~taken(d)
      <4>1. PICK s \in Session : b.sessions[s].state \in Live /\ b.sessions[s].device = d
        BY <1>2, <2>2, <3>2 DEF Inv, CustodyIn
      <4>2. s \notin DOMAIN p
        BY <4>1 DEF Live
      <4> QED BY <1>5, <4>1, <4>2
    <3> QED BY <3>1, <3>2
  <2> QED BY <1>9, <2>1, <2>2 DEF CustodyIn
<1>15. FencesIn(c)
  <2>1. \A d \in Device : b.devices[d].fence \in Nat /\ f[d].fence \in Nat
                          /\ b.devices[d].fence <= f[d].fence
    <3>1. \A d \in Device : b.devices[d].fence \in Nat
      BY DEF Inv, Rows, RowOK, DeviceRow
    <3> QED BY <1>1, <1>2, <3>1
  <2>2. \A s \in Session : b.sessions[s].fence \in Nat
                           /\ b.sessions[s].device \in Device \cup {NoDevice}
    BY <1>6 DEF SessionRow
  <2>3. ASSUME NEW s \in Session, g[s].device # NoDevice
        PROVE  g[s].fence <= f[g[s].device].fence
    <3>1. CASE s \in DOMAIN p
      BY <1>1, <1>4, <2>1, <3>1
    <3>2. CASE s \notin DOMAIN p
      <4>1. b.sessions[s].device \in Device
            /\ b.sessions[s].fence <= b.devices[b.sessions[s].device].fence
        BY <1>5, <2>2, <2>3, <3>2 DEF Inv, FencesIn
      <4> QED BY <1>5, <2>1, <2>2, <3>2, <4>1
    <3> QED BY <3>1, <3>2
  <2>4. ASSUME NEW s \in Session, NEW t \in Session, s \in DOMAIN p, t \notin DOMAIN p,
               g[s].device = g[t].device
        PROVE  g[s].fence # g[t].fence
    <3>1. b.sessions[t].device = p[s] /\ p[s] \in Device /\ p[s] # NoDevice
      BY <1>4, <1>5, <2>4, FleetAssumption
    <3>2. b.sessions[t].fence <= b.devices[p[s]].fence
      BY <3>1 DEF Inv, FencesIn
    <3> QED BY <1>4, <1>5, <2>1, <2>2, <2>4, <3>1, <3>2
  <2>5. ASSUME NEW s \in Session, NEW t \in Session, g[s].device # NoDevice,
               g[s].device = g[t].device, g[s].fence = g[t].fence
        PROVE  s = t
    <3>1. CASE s \in DOMAIN p /\ t \in DOMAIN p
      BY <1>4, <2>5, <3>1
    <3>2. CASE s \notin DOMAIN p /\ t \notin DOMAIN p
      BY <1>5, <2>5, <3>2 DEF Inv, FencesIn
    <3> QED BY <2>4, <2>5, <3>1, <3>2
  <2> QED BY <1>9, <2>3, <2>5 DEF FencesIn
<1>16. Unserved(c)
  BY <1>4, <1>5, <1>9 DEF Inv, Unserved
<1>18. Gives(b, c, p)
  <2>1. \A s \in DOMAIN p : /\ c.sessions[s].state \in Live /\ c.sessions[s].device = p[s]
                            /\ b.sessions[s].state \notin Live
                            /\ b.devices[p[s]].state = "READY"
                            /\ c.devices[p[s]].fence = b.devices[p[s]].fence + 1
    BY <1>1, <1>4, <1>9 DEF Live
  <2>2. \A d \in Device : (\A s \in DOMAIN p : p[s] # d) => c.devices[d] = b.devices[d]
    BY <1>2, <1>9
  <2> QED BY <1>5, <1>9, <2>1, <2>2 DEF Gives
<1> QED BY <1>10, <1>12, <1>13, <1>14, <1>15, <1>16, <1>18 DEF Inv, c

(* What ending some sessions does to the table of sessions. *)
Ending(x, S) ==
  [s \in Session |-> IF s \in S THEN [x[s] EXCEPT !.state = "ENDED"] ELSE x[s]]

LEMMA EndedRows ==
  ASSUME NEW x \in [Session -> SessionRow], NEW S, NEW y, y = Ending(x, S)
  PROVE  /\ y \in [Session -> SessionRow]
         /\ \A s \in Session : y[s].device = x[s].device /\ y[s].fence = x[s].fence
         /\ \A s \in Session : s \notin S => y[s] = x[s]
         /\ \A s \in Session : s \in S => y[s].state = "ENDED"
<1>1. \A s \in Session : x[s] \in SessionRow
  OBVIOUS
<1>2. \A r \in SessionRow :
        LET q == [r EXCEPT !.state = "ENDED"]
        IN  q \in SessionRow /\ q.state = "ENDED" /\ q.device = r.device /\ q.fence = r.fence
  BY DEF SessionRow, SessionState
<1> QED BY <1>1, <1>2 DEF Ending

(* The sessions of S end, and the devices of D, which are those the live    *)
(* ones among them hold, stop being leased.                                 *)
Ends(b, c, S, D) ==
  /\ c.hosts = b.hosts /\ c.sessions = Ending(b.sessions, S)
  /\ \A s \in S : b.sessions[s].state \in Live \cup {"QUEUED"}
  /\ \A s \in Session : b.sessions[s].state \in Live =>
       (s \in S <=> b.sessions[s].device \in D)
  /\ \A d \in Device :
       /\ d \in D => /\ c.devices[d].state \notin Leased /\ ~HeldRow(c.devices[d])
                     /\ ~JudgedRow(b.devices[d])
                     /\ c.devices[d].fence = b.devices[d].fence
       /\ d \notin D => c.devices[d] = b.devices[d]

(* By release_device, by the reaper, or by a quarantine of the device. *)
LEMMA EndLeases ==
  ASSUME NEW b, Inv(b), NEW c, Rows(c), NEW S, S \subseteq Session,
         NEW D, D \subseteq Device, Ends(b, c, S, D)
  PROVE  Inv(c) /\ Stands(b, c)
<1>1. b.sessions \in [Session -> SessionRow]
  BY DEF Inv, Rows, Database
<1>2. /\ \A s \in Session : /\ c.sessions[s].device = b.sessions[s].device
                            /\ c.sessions[s].fence = b.sessions[s].fence
      /\ \A s \in Session : s \notin S => c.sessions[s] = b.sessions[s]
      /\ \A s \in Session : s \in S => c.sessions[s].state = "ENDED"
  BY <1>1, EndedRows DEF Ends
<1>3. HeldIn(c)
  BY HeldKept DEF Inv, Ends
<1>4. Stands(b, c)
  BY DEF Stands, Ends
<1>5. CustodyIn(c)
  <2>1. ASSUME NEW s \in Session, c.sessions[s].state \in Live
        PROVE  /\ c.sessions[s].device \in Device
               /\ ~c.devices[c.sessions[s].device].orphan
               /\ c.devices[c.sessions[s].device].fence = c.sessions[s].fence
               /\ c.devices[c.sessions[s].device].state =
                    IF c.sessions[s].state = "ACTIVE" THEN "SESSION_ACTIVE" ELSE "RESERVED"
    <3>1. s \notin S /\ c.sessions[s] = b.sessions[s]
      BY <1>2, <2>1 DEF Live
    <3>2. b.sessions[s].device \in Device /\ b.sessions[s].device \notin D
      BY <2>1, <3>1 DEF Inv, CustodyIn, Ends
    <3> QED BY <2>1, <3>1, <3>2 DEF Inv, CustodyIn, Ends
  <2>2. ASSUME NEW d \in Device, c.devices[d].state \in Leased, ~c.devices[d].orphan
        PROVE  \E s \in Session : c.sessions[s].state \in Live /\ c.sessions[s].device = d
    <3>1. d \notin D /\ b.devices[d].state \in Leased /\ ~b.devices[d].orphan
      BY <2>2 DEF Ends
    <3>2. PICK s \in Session : b.sessions[s].state \in Live /\ b.sessions[s].device = d
      BY <3>1 DEF Inv, CustodyIn
    <3> QED BY <1>2, <3>1, <3>2 DEF Ends
  <2> QED BY <2>1, <2>2 DEF CustodyIn
<1>6. FencesIn(c)
  <2>1. \A d \in Device : c.devices[d].fence = b.devices[d].fence
    BY DEF Ends
  <2>2. \A s \in Session : b.sessions[s].device \in Device \cup {NoDevice}
    BY <1>1 DEF SessionRow
  <2> QED BY <1>2, <2>1, <2>2 DEF Inv, FencesIn
<1>7. Unserved(c)
  BY <1>2 DEF Inv, Unserved, Ends
<1> QED BY <1>3, <1>4, <1>5, <1>6, <1>7 DEF Inv

(* The sessions of S end, their devices await a reset, nothing else changes. *)
Cleans(b, c, S) ==
  /\ \A s \in Session \ S : c.sessions[s] = b.sessions[s]
  /\ \A s \in S : b.sessions[s].state \in Live => b.sessions[s].device \in Device
  /\ \A d \in Device :
       /\ (\E s \in S : b.sessions[s].device = d) =>
            /\ LetRow(b.devices[d]) /\ c.devices[d].state = "CLEANING"
            /\ c.devices[d].fence = b.devices[d].fence
       /\ (\A s \in S : b.sessions[s].device # d) => c.devices[d] = b.devices[d]

LEMMA EndSessionsOK ==
  ASSUME NEW b, Inv(b), NEW S, S \subseteq Session,
         \A s \in S : b.sessions[s].state \in Live \cup {"QUEUED"}
  PROVE  /\ Inv(EndSessions(b, S)) /\ Stands(b, EndSessions(b, S))
         /\ Cleans(b, EndSessions(b, S), S)
<1> DEFINE c == EndSessions(b, S)
           D == {d \in Device : \E s \in S : b.sessions[s].device = d}
           f == [d \in Device |-> IF \E s \in S : b.sessions[s].device = d
                   THEN CleanRow(b.devices[d]) ELSE b.devices[d]]
           g == Ending(b.sessions, S)
<1>1. b.sessions \in [Session -> SessionRow]
  BY DEF Inv, Rows, Database
<1>2. g \in [Session -> SessionRow] /\ \A s \in Session : s \notin S => g[s] = b.sessions[s]
  BY <1>1, EndedRows
<1>3. \A d \in Device : RowOK(f[d])
  BY CleanRowOK DEF Inv, Rows
<1>4. f \in [Device -> DeviceRow]
  BY <1>3 DEF RowOK
<1>5. c = [b EXCEPT !.devices = f, !.sessions = g]
  BY DEF EndSessions, Ending
<1>6. c \in Database /\ c.devices = f /\ c.sessions = g /\ c.hosts = b.hosts
  <2> HIDE DEF f, g, c
  <2> QED BY <1>2, <1>4, <1>5 DEF Inv, Rows, Database
<1>7. Rows(c)
  <2> HIDE DEF f, g, c
  <2> QED BY <1>3, <1>6 DEF Rows
<1>8. \A d \in D : \E s \in S : b.sessions[s].state \in Live /\ b.sessions[s].device = d
  BY FleetAssumption DEF Inv, Unserved
<1>9. \A d \in D : LetRow(b.devices[d])
  BY <1>8 DEF Inv, CustodyIn, Leased, Live, LetRow
<1>10. \A d \in Device :
         /\ d \in D => f[d].state = "CLEANING" /\ f[d].fence = b.devices[d].fence
         /\ d \notin D => f[d] = b.devices[d]
  BY CleanRowOK DEF Inv, Rows
<1>11. \A d \in Device :
         /\ d \in D => /\ c.devices[d].state \notin Leased /\ ~HeldRow(c.devices[d])
                       /\ ~JudgedRow(b.devices[d])
                       /\ c.devices[d].fence = b.devices[d].fence
         /\ d \notin D => c.devices[d] = b.devices[d]
  <2> HIDE DEF c, f, g, D
  <2> QED BY <1>6, <1>9, <1>10 DEF Leased, LetRow, HeldRow, JudgedRow
<1>12. \A s \in Session : b.sessions[s].state \in Live => (s \in S <=> b.sessions[s].device \in D)
  <2> SUFFICES ASSUME NEW s \in Session, b.sessions[s].state \in Live
               PROVE  s \in S <=> b.sessions[s].device \in D
    OBVIOUS
  <2>1. b.sessions[s].device \in Device
    BY DEF Inv, CustodyIn
  <2>2. s \in S => b.sessions[s].device \in D
    BY <2>1
  <2>3. ASSUME b.sessions[s].device \in D PROVE s \in S
    BY <1>8, <2>3, OneLease
  <2> QED BY <2>2, <2>3
<1>13. Inv(c) /\ Stands(b, c)
  <2>1. c.sessions = g
    BY <1>6
  <2>2. D \subseteq Device
    OBVIOUS
  <2> HIDE DEF c, f, D
  <2>3. Ends(b, c, S, D)
    BY <1>6, <1>11, <1>12, <2>1 DEF Ends
  <2> QED BY <1>7, <2>2, <2>3, EndLeases
<1>14. Cleans(b, c, S)
  <2>1. \A d \in Device : d \in D <=> \E s \in S : b.sessions[s].device = d
    OBVIOUS
  <2>2. \A s \in Session \ S : g[s] = b.sessions[s]
    BY <1>2
  <2>3. \A s \in S : b.sessions[s].state \in Live => b.sessions[s].device \in Device
    BY DEF Inv, CustodyIn
  <2> HIDE DEF c, f, g, D
  <2> QED BY <1>6, <1>9, <1>10, <2>1, <2>2, <2>3 DEF Cleans
<1> QED BY <1>13, <1>14

(* quarantine_device: whoever holds it loses it, and a judgement is made. *)
LEMMA QuarantineDeviceOK ==
  ASSUME NEW b, Inv(b), NEW d \in Device, b.devices[d].state # "QUARANTINED"
  PROVE  LET c == QuarantineDevice(b, d)
         IN  /\ Inv(c) /\ Stands(b, c)
             /\ JudgedRow(c.devices[d]) /\ c.devices[d].fence = b.devices[d].fence
             /\ \A e \in Device : e # d => c.devices[e] = b.devices[e]
             /\ \A s \in Session : b.sessions[s].device # d => c.sessions[s] = b.sessions[s]
<1> DEFINE c == QuarantineDevice(b, d)
           S == {s \in Session : /\ b.sessions[s].device = d
                                 /\ b.sessions[s].state \in Live \cup {"QUEUED"}}
           q == HoldRow(b.devices[d], "operator")
           g == Ending(b.sessions, S)
           a == [b EXCEPT !.devices[d] = q]
<1>1. b.sessions \in [Session -> SessionRow]
  BY DEF Inv, Rows, Database
<1>2. g \in [Session -> SessionRow]
  BY <1>1, EndedRows
<1>3. RowOK(q) /\ JudgedRow(q) /\ q.source = "operator" /\ q.fence = b.devices[d].fence
  BY HoldRowOK DEF Inv, Rows
<1>4. /\ Rows(a) /\ a.devices = [b.devices EXCEPT ![d] = q]
      /\ a.hosts = b.hosts /\ a.sessions = b.sessions
  <2> HIDE DEF q
  <2> QED BY <1>3, SetRow DEF Inv
<1>5. c = [a EXCEPT !.sessions = g]
  BY DEF QuarantineDevice, Inv, Rows, Database, Ending
<1> HIDE DEF q, g, a, c
<1>6. c \in Database /\ c.devices = a.devices /\ c.sessions = g /\ c.hosts = b.hosts
  BY <1>2, <1>4, <1>5 DEF Rows, Database
<1>7. Rows(c)
  BY <1>4, <1>6 DEF Rows
<1>8. b.devices \in [Device -> DeviceRow]
  BY DEF Inv, Rows, Database
<1>9. \A e \in Device :
         /\ e \in {d} => /\ c.devices[e].state \notin Leased /\ ~HeldRow(c.devices[e])
                         /\ ~JudgedRow(b.devices[e])
                         /\ c.devices[e].fence = b.devices[e].fence
         /\ e \notin {d} => c.devices[e] = b.devices[e]
  BY <1>3, <1>4, <1>6, <1>8 DEF Leased, HeldRow, JudgedRow
<1>10. \A s \in Session : b.sessions[s].state \in Live =>
         (s \in S <=> b.sessions[s].device \in {d})
  OBVIOUS
<1>11. S \subseteq Session /\ \A s \in S : b.sessions[s].state \in Live \cup {"QUEUED"}
  OBVIOUS
<1>12. c.sessions = Ending(b.sessions, S)
  BY <1>6 DEF g
<1> HIDE DEF S
<1>13. Inv(c) /\ Stands(b, c)
  <2>1. Ends(b, c, S, {d})
    BY <1>6, <1>9, <1>10, <1>11, <1>12 DEF Ends
  <2> QED BY <1>7, <1>11, <2>1, EndLeases
<1>14. /\ JudgedRow(c.devices[d]) /\ c.devices[d].fence = b.devices[d].fence
       /\ \A e \in Device : e # d => c.devices[e] = b.devices[e]
  BY <1>3, <1>4, <1>6, <1>8, <1>9
<1>15. \A s \in Session : b.sessions[s].device # d => c.sessions[s] = b.sessions[s]
  BY <1>1, <1>12, EndedRows DEF S
<1> QED BY <1>13, <1>14, <1>15 DEF c

(* promote_queued takes the sessions of S for waiting ones: what a live one  *)
(* among them holds is left with nobody to give it back.                    *)
Recalls(b, c, S) ==
  /\ \A s \in Session \ S : c.sessions[s] = b.sessions[s]
  /\ \A s \in S : c.sessions[s].state = "QUEUED"
  /\ \A d \in Device :
       /\ c.devices[d].fence = b.devices[d].fence /\ c.devices[d].state = b.devices[d].state
       /\ (\E s \in S : b.sessions[s].state \in Live /\ b.sessions[s].device = d) =>
            LetRow(b.devices[d]) /\ c.devices[d].orphan
       /\ (\A s \in S : ~(b.sessions[s].state \in Live /\ b.sessions[s].device = d)) =>
            c.devices[d] = b.devices[d]

LEMMA RecallOK ==
  ASSUME NEW b, Inv(b), NEW S, S \subseteq Session
  PROVE  /\ Inv(Recall(b, S)) /\ Stands(b, Recall(b, S))
         /\ Recalls(b, Recall(b, S), S)
<1> DEFINE c == Recall(b, S)
           lost(d) == \E s \in S : b.sessions[s].state \in Live /\ b.sessions[s].device = d
           f == [d \in Device |-> IF lost(d)
                   THEN [b.devices[d] EXCEPT !.orphan = TRUE] ELSE b.devices[d]]
           g == [s \in Session |-> IF s \in S
                   THEN [b.sessions[s] EXCEPT !.state = "QUEUED", !.device = NoDevice,
                                              !.fence = 0]
                   ELSE b.sessions[s]]
<1>1. b.sessions \in [Session -> SessionRow] /\ b.devices \in [Device -> DeviceRow]
  BY DEF Inv, Rows, Database
<1>2. \A s \in S : /\ g[s] \in SessionRow /\ g[s].state = "QUEUED"
                   /\ g[s].device = NoDevice
  <2>1. \A x \in SessionRow :
          LET y == [x EXCEPT !.state = "QUEUED", !.device = NoDevice, !.fence = 0]
          IN  y \in SessionRow /\ y.state = "QUEUED" /\ y.device = NoDevice
    <3>1. 0 \in 0..MaxFence
      BY FleetAssumption
    <3> QED BY <3>1 DEF SessionRow, SessionState
  <2> QED BY <1>1, <2>1
<1>3. \A s \in Session \ S : g[s] = b.sessions[s]
  OBVIOUS
<1>4. \A d \in Device : lost(d) => LetRow(b.devices[d])
  <2>1. \A s \in Session : b.sessions[s].state \in Live => LetRow(b.devices[b.sessions[s].device])
    BY DEF Inv, CustodyIn, LetRow, Leased
  <2> QED BY <2>1
<1>5. \A r : RowOK(r) /\ LetRow(r) =>
        LET x == [r EXCEPT !.orphan = TRUE]
        IN  /\ RowOK(x) /\ x.orphan /\ x.state = r.state /\ x.fence = r.fence
            /\ x.source = r.source
  <2> SUFFICES ASSUME NEW r, RowOK(r), LetRow(r)
               PROVE  LET x == [r EXCEPT !.orphan = TRUE]
                      IN  /\ RowOK(x) /\ x.orphan /\ x.state = r.state /\ x.fence = r.fence
                          /\ x.source = r.source
    OBVIOUS
  <2> DEFINE x == [r EXCEPT !.orphan = TRUE]
  <2>1. x \in DeviceRow
    BY DEF RowOK, DeviceRow
  <2>2. /\ x.orphan = TRUE /\ x.state = r.state /\ x.source = r.source /\ x.from = r.from
        /\ x.fence = r.fence /\ x.used = r.used /\ x.lost = r.lost
        /\ x.escalated = r.escalated /\ x.attempts = r.attempts
    BY DEF RowOK, DeviceRow
  <2>3. RowOK(x)
    <3> HIDE DEF x
    <3> QED BY <2>1, <2>2 DEF RowOK, LetRow
  <2> QED BY <2>2, <2>3
<1>6. \A d \in Device :
        /\ RowOK(f[d]) /\ f[d].fence = b.devices[d].fence /\ f[d].state = b.devices[d].state
        /\ f[d].source = b.devices[d].source
        /\ lost(d) => f[d].orphan
        /\ ~lost(d) => f[d] = b.devices[d]
  BY <1>4, <1>5 DEF Inv, Rows
<1>7. f \in [Device -> DeviceRow] /\ g \in [Session -> SessionRow]
  BY <1>1, <1>2, <1>3, <1>6 DEF RowOK
<1>8. c = [b EXCEPT !.sessions = g, !.devices = f]
  BY DEF Recall
<1>9. \A d \in Device : lost(d) <=>
        \E s \in S : b.sessions[s].state \in Live /\ b.sessions[s].device = d
  OBVIOUS
<1> HIDE DEF c, f, g, lost
<1>10. c \in Database /\ c.devices = f /\ c.sessions = g /\ c.hosts = b.hosts
  BY <1>7, <1>8 DEF Inv, Rows, Database
<1>11. Rows(c)
  BY <1>6, <1>10 DEF Rows
<1>12. HeldIn(c) /\ Stands(b, c)
  <2>1. \A d \in Device : HeldRow(c.devices[d]) => HeldRow(b.devices[d])
    BY <1>6, <1>10 DEF HeldRow
  <2>2. HeldIn(c)
    BY <1>10, <1>11, <2>1, HeldKept DEF Inv
  <2> QED BY <1>6, <1>10, <2>2 DEF Stands, JudgedRow
<1>13. CustodyIn(c)
  <2>1. ASSUME NEW s \in Session, c.sessions[s].state \in Live
        PROVE  /\ s \notin S /\ c.sessions[s] = b.sessions[s]
               /\ c.sessions[s].device \in Device
               /\ c.devices[c.sessions[s].device] = b.devices[c.sessions[s].device]
    <3>1. s \notin S /\ c.sessions[s] = b.sessions[s]
      BY <1>2, <1>3, <1>10, <2>1 DEF Live
    <3>2. b.sessions[s].device \in Device
      BY <2>1, <3>1 DEF Inv, CustodyIn
    <3>3. ~lost(b.sessions[s].device)
      BY <1>9, <2>1, <3>1, <3>2, OneLease
    <3> QED BY <1>6, <1>10, <3>1, <3>2, <3>3
  <2>2. ASSUME NEW d \in Device, c.devices[d].state \in Leased, ~c.devices[d].orphan
        PROVE  \E s \in Session : c.sessions[s].state \in Live /\ c.sessions[s].device = d
    <3>1. ~lost(d) /\ c.devices[d] = b.devices[d]
      BY <1>6, <1>10, <2>2
    <3>2. PICK s \in Session : b.sessions[s].state \in Live /\ b.sessions[s].device = d
      BY <2>2, <3>1 DEF Inv, CustodyIn
    <3>3. s \notin S
      BY <1>9, <3>1, <3>2
    <3> QED BY <1>3, <1>10, <3>2, <3>3
  <2> QED BY <2>1, <2>2 DEF Inv, CustodyIn
<1>14. FencesIn(c)
  <2>1. \A s \in Session : c.sessions[s].device # NoDevice =>
          /\ c.sessions[s] = b.sessions[s] /\ b.sessions[s].device \in Device
    BY <1>1, <1>2, <1>3, <1>10 DEF SessionRow
  <2> QED BY <1>6, <1>10, <2>1 DEF Inv, FencesIn
<1>15. Unserved(c)
  BY <1>2, <1>3, <1>10 DEF Inv, Unserved
<1>16. Recalls(b, c, S)
  BY <1>2, <1>3, <1>4, <1>6, <1>9, <1>10 DEF Recalls
<1> QED BY <1>11, <1>12, <1>13, <1>14, <1>15, <1>16 DEF Inv, c

(* allocate_device, when the request has to wait. *)
LEMMA AllocateQueuedOK ==
  ASSUME NEW b, Inv(b), NEW s \in Session, b.sessions[s].state = "NONE"
  PROVE  LET c == AllocateQueued(b, s)
         IN  /\ Inv(c) /\ Stands(b, c) /\ c.devices = b.devices
             /\ \A t \in Session : t # s => c.sessions[t] = b.sessions[t]
<1> DEFINE c == AllocateQueued(b, s)
           q == [state |-> "QUEUED", device |-> NoDevice, fence |-> 0, waited |-> TRUE]
<1>1. q \in SessionRow
  BY FleetAssumption DEF SessionRow, SessionState
<1>2. c \in Database /\ c.devices = b.devices /\ c.hosts = b.hosts
      /\ c.sessions = [b.sessions EXCEPT ![s] = q]
  BY <1>1 DEF AllocateQueued, Inv, Rows, Database
<1>3. b.sessions \in [Session -> SessionRow]
  BY DEF Inv, Rows, Database
<1>4. /\ \A t \in Session : t # s => c.sessions[t] = b.sessions[t]
      /\ c.sessions[s].state = "QUEUED" /\ c.sessions[s].device = NoDevice
  BY <1>2, <1>3
<1> HIDE DEF c
<1>5. Rows(c) /\ HeldIn(c) /\ Stands(b, c)
  BY <1>2 DEF Inv, Rows, HeldIn, Stands
<1>6. CustodyIn(c)
  <2>1. \A t \in Session : c.sessions[t].state \in Live => t # s
    BY <1>4 DEF Live
  <2>2. \A t \in Session : b.sessions[t].state \in Live => t # s
    BY DEF Live
  <2> QED BY <1>2, <1>4, <2>1, <2>2 DEF Inv, CustodyIn
<1>7. FencesIn(c)
  BY <1>2, <1>4 DEF Inv, FencesIn
<1>8. Unserved(c)
  BY <1>4 DEF Inv, Unserved
<1> QED BY <1>2, <1>4, <1>5, <1>6, <1>7, <1>8 DEF Inv, c

(* A session becomes ACTIVE: every lease stays where it is. *)
Attaches(b, c, s) ==
  /\ \A d \in Device : c.devices[d].fence = b.devices[d].fence
  /\ \A d \in Device : d # b.sessions[s].device => c.devices[d] = b.devices[d]
  /\ \A t \in Session : /\ c.sessions[t].device = b.sessions[t].device
                        /\ b.sessions[t].state \in Live => c.sessions[t].state \in Live

(* session_activate and session_attach, on both rows of the lease. *)
LEMMA AttachOK ==
  ASSUME NEW b, Inv(b), NEW s \in Session, b.sessions[s].state = "ALLOCATING"
  PROVE  Inv(Attach(b, s)) /\ Stands(b, Attach(b, s)) /\ Attaches(b, Attach(b, s), s)
<1> DEFINE e == b.sessions[s].device
           q == [b.sessions[s] EXCEPT !.state = "ACTIVE"]
           f == [d \in Device |-> IF d = e /\ b.devices[d].fence = b.sessions[s].fence
                   THEN [b.devices[d] EXCEPT !.state = "SESSION_ACTIVE"] ELSE b.devices[d]]
           c == Attach(b, s)
<1>1. b.sessions \in [Session -> SessionRow] /\ b.devices \in [Device -> DeviceRow]
  BY DEF Inv, Rows, Database
<1>2. /\ q \in SessionRow /\ q.state = "ACTIVE"
      /\ q.device = e /\ q.fence = b.sessions[s].fence
  BY <1>1 DEF SessionRow, SessionState
<1>3. /\ e \in Device /\ b.devices[e].fence = b.sessions[s].fence
      /\ b.devices[e].state = "RESERVED" /\ ~b.devices[e].orphan
  BY DEF Inv, CustodyIn, Live
<1>4. \A r : RowOK(r) /\ r.state = "RESERVED" =>
        LET x == [r EXCEPT !.state = "SESSION_ACTIVE"]
        IN  /\ RowOK(x) /\ x.state = "SESSION_ACTIVE"
            /\ x.fence = r.fence /\ x.orphan = r.orphan
  <2> SUFFICES ASSUME NEW r, RowOK(r), r.state = "RESERVED"
               PROVE  LET x == [r EXCEPT !.state = "SESSION_ACTIVE"]
                      IN  /\ RowOK(x) /\ x.state = "SESSION_ACTIVE"
            /\ x.fence = r.fence /\ x.orphan = r.orphan
    OBVIOUS
  <2> DEFINE x == [r EXCEPT !.state = "SESSION_ACTIVE"]
  <2>1. x \in DeviceRow
    BY DEF RowOK, DeviceRow, DeviceState
  <2>2. /\ x.state = "SESSION_ACTIVE" /\ x.fence = r.fence
        /\ x.escalated = r.escalated /\ x.attempts = r.attempts
        /\ x.orphan = r.orphan
    BY DEF RowOK, DeviceRow
  <2>3. RowOK(x)
    <3> HIDE DEF x
    <3> QED BY <2>1, <2>2 DEF RowOK, Leased
  <2> QED BY <2>2, <2>3
<1>5. /\ \A d \in Device : RowOK(f[d]) /\ f[d].fence = b.devices[d].fence
      /\ \A d \in Device : d # e => f[d] = b.devices[d]
      /\ f[e].state = "SESSION_ACTIVE" /\ ~f[e].orphan
  BY <1>3, <1>4 DEF Inv, Rows
<1>6. f \in [Device -> DeviceRow]
  BY <1>5 DEF RowOK
<1>7. c = [b EXCEPT !.sessions[s] = q, !.devices = f]
  BY <1>1 DEF Inv, Rows, Database, Attach
<1> HIDE DEF q, f, c
<1>8. c \in Database /\ c.devices = f /\ c.hosts = b.hosts
      /\ c.sessions = [b.sessions EXCEPT ![s] = q]
  <2>1. b \in Database
    BY DEF Inv, Rows
  <2>2. c = [hosts |-> b.hosts, devices |-> f,
             sessions |-> [b.sessions EXCEPT ![s] = q], asked |-> b.asked]
    BY <1>7, <2>1 DEF Database
  <2>3. [b.sessions EXCEPT ![s] = q] \in [Session -> SessionRow]
    BY <1>1, <1>2
  <2>4. c.devices = f /\ c.hosts = b.hosts /\ c.sessions = [b.sessions EXCEPT ![s] = q]
    BY <2>2
  <2>5. b.hosts \in [Host -> HostRow] /\ b.asked \in SUBSET Request
    BY <2>1 DEF Database
  <2>6. c \in Database
    BY <1>6, <2>2, <2>3, <2>5, Zenon DEF Database
  <2> QED BY <2>4, <2>6
<1>9. /\ \A t \in Session : t # s => c.sessions[t] = b.sessions[t]
      /\ c.sessions[s] = q
  BY <1>1, <1>8
<1>10. Rows(c)
  BY <1>5, <1>8 DEF Rows
<1>11. HeldIn(c) /\ Stands(b, c)
  <2>1. \A d \in Device : HeldRow(f[d]) \/ JudgedRow(b.devices[d]) => f[d] = b.devices[d]
    BY <1>3, <1>5 DEF HeldRow, JudgedRow
  <2>2. \A d \in Device : HeldRow(c.devices[d]) => HeldRow(b.devices[d])
    BY <1>8, <2>1
  <2>3. HeldIn(c)
    BY <1>8, <1>10, <2>2, HeldKept DEF Inv
  <2>4. Stands(b, c)
    BY <1>8, <2>1 DEF Stands
  <2> QED BY <2>3, <2>4
<1>12. CustodyIn(c)
  <2>1. ASSUME NEW t \in Session, c.sessions[t].state \in Live, t # s
        PROVE  b.sessions[t].device \in Device /\ b.sessions[t].device # e
    <3>1. b.sessions[t].state \in Live /\ b.sessions[s].state \in Live
      BY <1>9, <2>1 DEF Live
    <3> QED BY <2>1, <3>1, OneLease DEF Inv, CustodyIn
  <2>2. ASSUME NEW t \in Session, c.sessions[t].state \in Live
        PROVE  /\ c.sessions[t].device \in Device /\ ~f[c.sessions[t].device].orphan
               /\ f[c.sessions[t].device].fence = c.sessions[t].fence
               /\ f[c.sessions[t].device].state =
                    IF c.sessions[t].state = "ACTIVE" THEN "SESSION_ACTIVE" ELSE "RESERVED"
    <3>1. CASE t = s
      BY <1>2, <1>3, <1>5, <1>9, <3>1
    <3>2. CASE t # s
      BY <1>5, <1>9, <2>1, <2>2, <3>2 DEF Inv, CustodyIn
    <3> QED BY <3>1, <3>2
  <2>3. ASSUME NEW d \in Device, f[d].state \in Leased, ~f[d].orphan
        PROVE  \E t \in Session : c.sessions[t].state \in Live /\ c.sessions[t].device = d
    <3>1. CASE d = e
      BY <1>2, <1>9, <3>1 DEF Live
    <3>2. CASE d # e
      <4>1. PICK t \in Session : b.sessions[t].state \in Live /\ b.sessions[t].device = d
        BY <1>5, <2>3, <3>2 DEF Inv, CustodyIn
      <4> QED BY <1>9, <3>2, <4>1
    <3> QED BY <3>1, <3>2
  <2> QED BY <1>8, <2>2, <2>3 DEF CustodyIn
<1>13. FencesIn(c)
  <2>1. \A t \in Session : /\ c.sessions[t].device = b.sessions[t].device
                           /\ c.sessions[t].fence = b.sessions[t].fence
                           /\ b.sessions[t].device \in Device \cup {NoDevice}
    BY <1>1, <1>2, <1>9 DEF SessionRow
  <2> QED BY <1>5, <1>8, <2>1 DEF Inv, FencesIn
<1>14. Unserved(c)
  BY <1>2, <1>9 DEF Inv, Unserved
<1>16. Attaches(b, c, s)
  BY <1>2, <1>5, <1>8, <1>9 DEF Attaches, Live
<1> QED BY <1>10, <1>11, <1>12, <1>13, <1>14, <1>16 DEF Inv, c

(* release_device_quarantine: the one way out of a judgement. *)
LEMMA ReleaseDeviceQuarantineOK ==
  ASSUME NEW b, Inv(b), NEW d \in Device, b.devices[d].state = "QUARANTINED",
         b.devices[d].fence < MaxFence
  PROVE  LET c == ReleaseDeviceQuarantine(b, d)
         IN  /\ Inv(c)
             /\ c.devices[d].state = "PREPARING" /\ c.devices[d].fence > b.devices[d].fence
             /\ c.devices[d].fence = b.devices[d].fence + 1 /\ c.sessions = b.sessions
             /\ \A e \in Device : e # d => c.devices[e] = b.devices[e]
<1> DEFINE c == ReleaseDeviceQuarantine(b, d)
           q == PrepareRow(b.devices[d])
<1>1. RowOK(q) /\ q.state = "PREPARING" /\ q.fence = b.devices[d].fence + 1
  BY PrepareRowOK DEF Inv, Rows, Leased
<1>2. c = [b EXCEPT !.devices[d] = q]
  BY DEF ReleaseDeviceQuarantine
<1> HIDE DEF q
<1>3. /\ Rows(c) /\ c.devices = [b.devices EXCEPT ![d] = q]
      /\ c.hosts = b.hosts /\ c.sessions = b.sessions
  BY <1>1, <1>2, SetRow DEF Inv
<1> HIDE DEF c
<1>4. /\ c.devices[d] = q
      /\ \A e \in Device : e # d => c.devices[e] = b.devices[e]
  BY <1>3 DEF Inv, Rows, Database
<1>5. \A e \in Device : b.devices[e].fence \in Nat
  BY DEF Inv, Rows, RowOK, DeviceRow
<1>6. HeldIn(c)
  <2>1. \A e \in Device : HeldRow(c.devices[e]) => HeldRow(b.devices[e])
    BY <1>1, <1>4 DEF HeldRow
  <2> QED BY <1>3, <2>1, HeldKept DEF Inv
<1>7. CustodyIn(c)
  <2>1. \A s \in Session : b.sessions[s].state \in Live =>
          b.sessions[s].device \in Device /\ b.sessions[s].device # d
    BY DEF Inv, CustodyIn
  <2> QED BY <1>1, <1>3, <1>4, <2>1 DEF Inv, CustodyIn, Leased
<1>8. FencesIn(c)
  <2>1. \A s \in Session : b.sessions[s].device \in Device \cup {NoDevice}
                           /\ b.sessions[s].fence \in Nat
    BY DEF Inv, Rows, Database, SessionRow
  <2>2. \A e \in Device : c.devices[e].fence \in Nat /\ b.devices[e].fence <= c.devices[e].fence
    BY <1>1, <1>4, <1>5
  <2>3. \A s \in Session : b.sessions[s].device # NoDevice =>
          b.sessions[s].fence <= c.devices[b.sessions[s].device].fence
    BY <1>5, <2>1, <2>2 DEF Inv, FencesIn
  <2> QED BY <1>3, <2>3 DEF Inv, FencesIn
<1>9. Unserved(c)
  BY <1>3 DEF Inv, Unserved
<1>10. q.fence > b.devices[d].fence
  BY <1>1, <1>5
<1> QED BY <1>1, <1>3, <1>4, <1>6, <1>7, <1>8, <1>9, <1>10 DEF Inv, c

-----------------------------------------------------------------------------
(* Steps that are not about a lease, composed. *)

Safe(b, c) == Calm(b, c) /\ (HeldIn(b) => HeldIn(c))

LEMMA SafeTrans ==
  ASSUME NEW a, NEW b, NEW c, Safe(a, b), Safe(b, c)
  PROVE  Safe(a, c)
BY CalmTrans DEF Safe

LEMMA SafeRefl ==
  ASSUME NEW b, Rows(b)
  PROVE  Safe(b, b)
BY CalmRefl DEF Safe

LEMMA SafeRows ==
  ASSUME NEW b, NEW c, Safe(b, c)
  PROVE  Rows(c)
BY DEF Safe, Calm

LEMMA SafeInv ==
  ASSUME NEW b, Inv(b), NEW c, Safe(b, c)
  PROVE  Inv(c) /\ Stands(b, c)
BY CalmIsMild, MildInv DEF Safe, Inv

(* A request noted or served: no row changes. *)
LEMMA AskedOK ==
  ASSUME NEW b, Rows(b), NEW A, A \in SUBSET Request,
         NEW c, c = [b EXCEPT !.asked = A]
  PROVE  Safe(b, c) /\ c.devices = b.devices /\ c.hosts = b.hosts /\ c.sessions = b.sessions
<1>1. c \in Database /\ c.devices = b.devices /\ c.sessions = b.sessions /\ c.hosts = b.hosts
  BY DEF Rows, Database
<1>2. Calm(b, c)
  BY <1>1, SetHost
<1>3. HeldIn(b) => HeldIn(c)
  BY <1>1 DEF HeldIn
<1> QED BY <1>1, <1>2, <1>3 DEF Safe

(* A host row written without a change of its state. *)
LEMMA HostColumnOK ==
  ASSUME NEW b, Rows(b), NEW h \in Host, NEW x, x \in HostRow,
         x.state = b.hosts[h].state
  PROVE  Safe(b, [b EXCEPT !.hosts[h] = x])
<1> DEFINE c == [b EXCEPT !.hosts[h] = x]
<1>1. /\ Calm(b, c) /\ c.devices = b.devices /\ c.hosts[h] = x
      /\ \A g \in Host : g # h => c.hosts[g] = b.hosts[g]
  BY HostRowOK
<1> HIDE DEF c
<1>2. \A g \in Host : c.hosts[g].state = b.hosts[g].state
  BY <1>1
<1>3. HeldIn(b) => HeldIn(c)
  BY <1>1, <1>2, FleetAssumption DEF HeldIn
<1> QED BY <1>1, <1>3 DEF Safe, c

-----------------------------------------------------------------------------
(* The promise of Lease, device by device. *)

(* The ways a lease may go without a new fence. *)
Goes(x, y) ==
  \/ x = "free" /\ y \in {"out", "judged"}
  \/ x = "leased" /\ y \in {"dirty", "held dirty", "judged"}
  \/ x = "dirty" /\ y \in {"free", "held dirty", "judged", "out"}
  \/ x = "preparing" /\ y \in {"free", "held preparing", "judged", "out"}
  \/ x = "held dirty" /\ y \in {"dirty", "out"}
  \/ x = "held preparing" /\ y \in {"preparing", "out"}
  \/ x = "out" /\ y \in {"free", "judged"}

LEMMA MovesAre ==
  ASSUME NEW f \in Nat, NEW h
  PROVE  /\ \A x, y : Goes(x, y) =>
              [state |-> y, fence |-> f, holder |-> NoDevice]
                \in Abstract!Moves([state |-> x, fence |-> f, holder |-> h])
         /\ \A s \in Session : [state |-> "leased", fence |-> f + 1, holder |-> s]
              \in Abstract!Moves([state |-> "free", fence |-> f, holder |-> h])
         /\ \A x \in {"held dirty", "held preparing", "judged", "out"} :
              [state |-> "preparing", fence |-> f + 1, holder |-> NoDevice]
                \in Abstract!Moves([state |-> x, fence |-> f, holder |-> h])
<1> DEFINE r(x) == [state |-> x, fence |-> f, holder |-> h]
<1>1. \A x, y : Abstract!Becomes(r(x), y) = [state |-> y, fence |-> f, holder |-> NoDevice]
  BY DEF Abstract!Becomes
<1>2. \A x : Abstract!Authorised(r(x)) = [state |-> "preparing", fence |-> f + 1, holder |-> NoDevice]
  BY DEF Abstract!Authorised
<1>3. \A x, s : Abstract!Granted(r(x), s) = [state |-> "leased", fence |-> f + 1, holder |-> s]
  BY DEF Abstract!Granted
<1>4. \A x : r(x).state = x
  OBVIOUS
<1> HIDE DEF r
<1>5. ASSUME NEW x, NEW y, Goes(x, y)
      PROVE  Abstract!Becomes(r(x), y) \in Abstract!Moves(r(x))
  BY <1>4, <1>5 DEF Abstract!Moves, Goes
<1>6. ASSUME NEW x, x = "free", NEW s \in Session
      PROVE  Abstract!Granted(r(x), s) \in Abstract!Moves(r(x))
  <2>1. Abstract!Granted(r(x), s) \in {Abstract!Granted(r(x), t) : t \in Session}
    OBVIOUS
  <2>2. r(x).state = "free"
    BY <1>4, <1>6
  <2> HIDE DEF r
  <2> QED BY <2>1, <2>2, Zenon DEF Abstract!Moves
<1>7. ASSUME NEW x \in {"held dirty", "held preparing", "judged", "out"}
      PROVE  Abstract!Authorised(r(x)) \in Abstract!Moves(r(x))
  BY <1>4, <1>7 DEF Abstract!Moves
<1> QED BY <1>1, <1>2, <1>3, <1>5, <1>6, <1>7 DEF r

(* The lease of a row and what is owed to its device. *)
LEMMA StateOf ==
  ASSUME NEW r, RowOK(r)
  PROVE  /\ LetRow(r) <=> LeaseState(r) = "leased"
         /\ r.orphan => LeaseState(r) = "judged"
         /\ r.state = "READY" => LeaseState(r) = "free"
         /\ r.state = "CLEANING" => LeaseState(r) = "dirty"
         /\ r.state = "PREPARING" => LeaseState(r) = "preparing"
         /\ r.state = "QUARANTINED" => LeaseState(r) \in {"held dirty", "held preparing", "judged", "out"}
         /\ r.state = "OFFLINE" => LeaseState(r) = "out"
         /\ Owes(r) = "lease" => LeaseState(r) = "leased"
         /\ Owes(r) = "judgement" => LeaseState(r) = "judged"
         /\ Owes(r) = "reset" => LeaseState(r) \in {"dirty", "held dirty"}
         /\ Owes(r) = "recovery" => LeaseState(r) \in {"preparing", "held preparing"}
         /\ Owes(r) = "nothing" => LeaseState(r) \in {"free", "out"}
         /\ Owes(r) \in {"lease", "judgement", "reset", "recovery", "nothing"}
<1>1. r.state \in DeviceState /\ (r.state = "QUARANTINED" => JudgedRow(r) \/ HeldRow(r))
  BY DEF RowOK, DeviceRow, JudgedRow, HeldRow
<1>2. r.state = "READY" => LeaseState(r) = "free"
  BY DEF LeaseState, Leased
<1>3. LetRow(r) => LeaseState(r) = "leased"
  BY DEF LeaseState, Leased, LetRow
<1>11. r.state \in Leased /\ ~LetRow(r) <=> r.orphan
  BY DEF RowOK, DeviceRow, LetRow
<1>12. r.orphan => LeaseState(r) = "judged"
  BY <1>11 DEF LeaseState, Leased
<1>4. r.state = "CLEANING" => LeaseState(r) = "dirty"
  BY DEF LeaseState, Leased
<1>5. r.state = "PREPARING" => LeaseState(r) = "preparing"
  BY DEF LeaseState, Leased
<1>6. JudgedRow(r) => LeaseState(r) = "judged"
  BY DEF LeaseState, Leased, JudgedRow
<1>7. HeldRow(r) /\ r.from = "CLEANING" => LeaseState(r) = "held dirty"
  BY DEF LeaseState, Leased, HeldRow
<1>8. HeldRow(r) /\ r.from = "PREPARING" => LeaseState(r) = "held preparing"
  BY DEF LeaseState, Leased, HeldRow
<1>9. HeldRow(r) /\ r.from \notin {"CLEANING", "PREPARING"} => LeaseState(r) = "out"
  BY DEF LeaseState, Leased, HeldRow
<1>10. r.state \in {"OFFLINE", "ABSENT"} => LeaseState(r) = "out"
  BY DEF LeaseState, Leased
<1> QED BY <1>1, <1>2, <1>3, <1>4, <1>5, <1>6, <1>7, <1>8, <1>9, <1>10, <1>11, <1>12
        DEF Owes, LetRow, Leased, JudgedRow, HeldRow, DeviceState

LEMMA HolderNone ==
  ASSUME NEW b, Inv(b), NEW d \in Device, ~LetRow(b.devices[d])
  PROVE  HolderOf(b, d) = NoDevice
<1>1. {s \in Session : b.sessions[s].state \in Live /\ b.sessions[s].device = d} = {}
  BY DEF Inv, CustodyIn, Leased, LetRow
<1> QED BY <1>1 DEF HolderOf

LEMMA HolderIs ==
  ASSUME NEW b, Inv(b), NEW s \in Session, b.sessions[s].state \in Live
  PROVE  HolderOf(b, b.sessions[s].device) = s
<1> DEFINE live == {t \in Session : b.sessions[t].state \in Live
                                   /\ b.sessions[t].device = b.sessions[s].device}
<1>1. live = {s}
  BY OneLease
<1> QED BY <1>1 DEF HolderOf

(* A device is moved the way its lease may move, or not at all. *)
PromisedAt(b, c, d) ==
  \/ LeaseOf(c)[d] = LeaseOf(b)[d]
  \/ LeaseOf(c)[d] \in Abstract!Moves(LeaseOf(b)[d])

Promised(b, c) == \A d \in Device : PromisedAt(b, c, d)

LEMMA LeaseRow ==
  ASSUME NEW b, Inv(b), NEW d \in Device
  PROVE  /\ LeaseOf(b)[d] = [state |-> LeaseState(b.devices[d]),
                             fence |-> b.devices[d].fence, holder |-> HolderOf(b, d)]
         /\ b.devices[d].fence \in Nat /\ RowOK(b.devices[d])
<1>1. RowOK(b.devices[d]) /\ b.devices[d].fence \in Nat
  BY FleetAssumption DEF Inv, Rows, RowOK, DeviceRow
<1> QED BY <1>1, Zenon DEF LeaseOf

(* By the states before and after, where nobody holds the device after. *)
LEMMA ByState ==
  ASSUME NEW b, Inv(b), NEW c, Inv(c), NEW d \in Device,
         c.devices[d].fence = b.devices[d].fence, ~LetRow(c.devices[d]),
         \/ LeaseState(c.devices[d]) = LeaseState(b.devices[d])
         \/ Goes(LeaseState(b.devices[d]), LeaseState(c.devices[d]))
  PROVE  PromisedAt(b, c, d)
<1> DEFINE x == LeaseState(b.devices[d])
           y == LeaseState(c.devices[d])
           f == b.devices[d].fence
<1>1. HolderOf(c, d) = NoDevice
  BY HolderNone
<1>2. /\ LeaseOf(b)[d] = [state |-> x, fence |-> f, holder |-> HolderOf(b, d)]
      /\ LeaseOf(c)[d] = [state |-> y, fence |-> f, holder |-> NoDevice]
      /\ f \in Nat
  BY <1>1, LeaseRow
<1>3. CASE y = x
  <2>1. ~LetRow(b.devices[d])
    BY <1>3, LeaseRow, StateOf
  <2>2. HolderOf(b, d) = NoDevice
    BY <2>1, HolderNone
  <2> HIDE DEF x, y, f
  <2> QED BY <1>2, <1>3, <2>2 DEF PromisedAt
<1>4. CASE Goes(x, y)
  <2> HIDE DEF x, y, f
  <2> QED BY <1>2, <1>4, MovesAre DEF PromisedAt
<1> QED BY <1>3, <1>4

(* By its holder, where one session holds it before and after. *)
LEMMA ByHolder ==
  ASSUME NEW b, Inv(b), NEW c, Inv(c), NEW d \in Device, NEW s \in Session,
         b.sessions[s].state \in Live, b.sessions[s].device = d,
         c.sessions[s].state \in Live, c.sessions[s].device = d,
         c.devices[d].fence = b.devices[d].fence
  PROVE  PromisedAt(b, c, d)
<1>1. HolderOf(b, d) = s /\ HolderOf(c, d) = s
  BY HolderIs
<1>2. LetRow(b.devices[d]) /\ LetRow(c.devices[d])
  BY DEF Inv, CustodyIn, Leased, LetRow
<1>3. LeaseState(b.devices[d]) = "leased" /\ LeaseState(c.devices[d]) = "leased"
  BY <1>2, LeaseRow, StateOf
<1>4. /\ LeaseOf(b)[d] = [state |-> "leased", fence |-> b.devices[d].fence, holder |-> s]
      /\ LeaseOf(c)[d] = [state |-> "leased", fence |-> b.devices[d].fence, holder |-> s]
  BY <1>1, <1>3, LeaseRow
<1> QED BY <1>4, Zenon DEF PromisedAt

(* A lease that begins. *)
LEMMA ByGrant ==
  ASSUME NEW b, Inv(b), NEW c, Inv(c), NEW d \in Device, NEW s \in Session,
         b.devices[d].state = "READY",
         c.sessions[s].state \in Live, c.sessions[s].device = d,
         c.devices[d].fence = b.devices[d].fence + 1
  PROVE  PromisedAt(b, c, d)
<1> DEFINE f == b.devices[d].fence
<1>1. HolderOf(c, d) = s
  BY HolderIs
<1>2. LetRow(c.devices[d])
  BY DEF Inv, CustodyIn, Leased, LetRow
<1>3. LeaseState(b.devices[d]) = "free" /\ LeaseState(c.devices[d]) = "leased"
  BY <1>2, LeaseRow, StateOf
<1>4. /\ LeaseOf(b)[d] = [state |-> "free", fence |-> f, holder |-> HolderOf(b, d)]
      /\ LeaseOf(c)[d] = [state |-> "leased", fence |-> f + 1, holder |-> s]
      /\ f \in Nat
  BY <1>1, <1>3, LeaseRow
<1> HIDE DEF f
<1> QED BY <1>4, MovesAre DEF PromisedAt

(* A recovery that is authorised. *)
LEMMA ByRecovery ==
  ASSUME NEW b, Inv(b), NEW c, Inv(c), NEW d \in Device,
         b.devices[d].state = "QUARANTINED", c.devices[d].state = "PREPARING",
         c.devices[d].fence = b.devices[d].fence + 1
  PROVE  PromisedAt(b, c, d)
<1> DEFINE f == b.devices[d].fence
           x == LeaseState(b.devices[d])
<1>1. HolderOf(c, d) = NoDevice
  BY HolderNone DEF Leased, LetRow
<1>2. /\ x \in {"held dirty", "held preparing", "judged", "out"}
      /\ LeaseState(c.devices[d]) = "preparing"
  BY LeaseRow, StateOf
<1>3. /\ LeaseOf(b)[d] = [state |-> x, fence |-> f, holder |-> HolderOf(b, d)]
      /\ LeaseOf(c)[d] = [state |-> "preparing", fence |-> f + 1, holder |-> NoDevice]
      /\ f \in Nat
  BY <1>1, <1>2, LeaseRow
<1> HIDE DEF f, x
<1> QED BY <1>2, <1>3, MovesAre DEF PromisedAt

(* A step that settles nothing for the device moves it at most between its   *)
(* host's being in and out of service.                                       *)
LEMMA ByOwing ==
  ASSUME NEW b, Inv(b), NEW c, Inv(c), NEW d \in Device,
         c.devices[d].fence = b.devices[d].fence,
         Owes(c.devices[d]) = Owes(b.devices[d]),
         \A s \in Session : b.sessions[s].state \in Live /\ b.sessions[s].device = d =>
           c.sessions[s].state \in Live /\ c.sessions[s].device = d
  PROVE  PromisedAt(b, c, d)
<1>1. RowOK(b.devices[d]) /\ RowOK(c.devices[d])
  BY LeaseRow
<1>2. CASE LetRow(b.devices[d])
  <2>1. PICK s \in Session : b.sessions[s].state \in Live /\ b.sessions[s].device = d
    BY <1>2 DEF Inv, CustodyIn, LetRow
  <2> QED BY <2>1, ByHolder
<1>3. CASE ~LetRow(b.devices[d])
  <2>1. Owes(b.devices[d]) # "lease" /\ ~LetRow(c.devices[d])
    BY <1>1, <1>3, StateOf DEF Owes
  <2>2. \/ LeaseState(c.devices[d]) = LeaseState(b.devices[d])
        \/ Goes(LeaseState(b.devices[d]), LeaseState(c.devices[d]))
    <3> DEFINE x == LeaseState(b.devices[d])
               y == LeaseState(c.devices[d])
    <3> SUFFICES y = x \/ Goes(x, y)
      OBVIOUS
    <3>1. \/ x = "judged" /\ y = "judged"
          \/ x \in {"dirty", "held dirty"} /\ y \in {"dirty", "held dirty"}
          \/ x \in {"preparing", "held preparing"} /\ y \in {"preparing", "held preparing"}
          \/ x \in {"free", "out"} /\ y \in {"free", "out"}
      BY <1>1, <2>1, StateOf
    <3> HIDE DEF x, y
    <3> QED BY <3>1 DEF Goes
  <2> QED BY <2>1, <2>2, ByState
<1> QED BY <1>2, <1>3

LEMMA SafePromised ==
  ASSUME NEW b, Inv(b), NEW c, Inv(c), Safe(b, c)
  PROVE  Promised(b, c)
<1> SUFFICES ASSUME NEW d \in Device PROVE PromisedAt(b, c, d)
  BY DEF Promised
<1>1. /\ c.sessions = b.sessions /\ Owes(c.devices[d]) = Owes(b.devices[d])
      /\ c.devices[d].fence = b.devices[d].fence
  BY DEF Safe, Calm, CalmRow, MildRow
<1> QED BY <1>1, ByOwing

(* A device whose row a step leaves alone, and its session's too. *)
LEMMA ByRest ==
  ASSUME NEW b, Inv(b), NEW c, Inv(c), NEW d \in Device,
         c.devices[d] = b.devices[d],
         \A s \in Session : b.sessions[s].state \in Live /\ b.sessions[s].device = d =>
           c.sessions[s].state \in Live /\ c.sessions[s].device = d
  PROVE  PromisedAt(b, c, d)
BY ByOwing

-----------------------------------------------------------------------------
(* The actions. *)

LEMMA GivesPromised ==
  ASSUME NEW b, Inv(b), NEW c, Inv(c), NEW p, DOMAIN p \subseteq Session, Gives(b, c, p)
  PROVE  Promised(b, c)
<1> SUFFICES ASSUME NEW d \in Device PROVE PromisedAt(b, c, d)
  BY DEF Promised
<1>1. CASE \E s \in DOMAIN p : p[s] = d
  BY <1>1, ByGrant DEF Gives
<1>2. CASE \A s \in DOMAIN p : p[s] # d
  BY <1>2, ByRest DEF Gives
<1> QED BY <1>1, <1>2

LEMMA CreateSessionOK ==
  ASSUME Inv(db), NEW s \in Session, CreateSession(s)
  PROVE  Inv(db') /\ Stands(db, db') /\ Promised(db, db')
<1>1. CASE db' = AllocateQueued(db, s)
  <2>1. /\ Inv(db') /\ Stands(db, db') /\ db'.devices = db.devices
        /\ \A t \in Session : t # s => db'.sessions[t] = db.sessions[t]
    BY <1>1, AllocateQueuedOK DEF CreateSession
  <2>2. db.sessions[s].state \notin Live
    BY DEF CreateSession, Live
  <2>3. ASSUME NEW d \in Device PROVE PromisedAt(db, db', d)
    BY <2>1, <2>2, ByRest
  <2> QED BY <2>1, <2>3 DEF Promised
<1>2. CASE /\ UnderCap(db, OrgOf[s])
           /\ \E d \in ReadyFor(db, s) :
                /\ db.devices[d].fence < MaxFence
                /\ db' = Reserve(db, [t \in {s} |-> d])
  <2>1. PICK d \in ReadyFor(db, s) :
             /\ db.devices[d].fence < MaxFence
             /\ db' = Reserve(db, [t \in {s} |-> d])
    BY <1>2
  <2>2. d \in Device /\ db.devices[d].state = "READY"
    BY FleetAssumption DEF ReadyFor
  <2> DEFINE p == [t \in {s} |-> d]
  <2>3. DOMAIN p = {s} /\ p[s] = d
    OBVIOUS
  <2>4. db.sessions[s].state \in {"NONE", "QUEUED"}
    BY DEF CreateSession
  <2> HIDE DEF p
  <2>5. Inv(Reserve(db, p)) /\ Stands(db, Reserve(db, p)) /\ Gives(db, Reserve(db, p), p)
    BY <2>1, <2>2, <2>3, <2>4, ReserveOK
  <2>8. Promised(db, Reserve(db, p))
    BY <2>3, <2>5, GivesPromised
  <2> QED BY <2>1, <2>5, <2>8 DEF p
<1> QED BY <1>1, <1>2 DEF CreateSession

LEMMA ReleaseDeviceOK ==
  ASSUME Inv(db), NEW s \in Session, ReleaseDevice(s)
  PROVE  Inv(db') /\ Stands(db, db') /\ Promised(db, db')
<1>1. \A t \in {s} : db.sessions[t].state \in Live \cup {"QUEUED"}
  BY DEF ReleaseDevice
<1>2. Inv(db') /\ Stands(db, db') /\ Cleans(db, db', {s})
  BY <1>1, EndSessionsOK DEF ReleaseDevice
<1>3. ASSUME NEW d \in Device PROVE PromisedAt(db, db', d)
  <2>1. CASE db.sessions[s].device = d
    <3>1. /\ LetRow(db.devices[d]) /\ db'.devices[d].state = "CLEANING"
          /\ db'.devices[d].fence = db.devices[d].fence
      BY <1>2, <2>1 DEF Cleans
    <3>2. LeaseState(db.devices[d]) = "leased" /\ LeaseState(db'.devices[d]) = "dirty"
      BY <1>2, <3>1, LeaseRow, StateOf
    <3> QED BY <1>2, <3>1, <3>2, ByState DEF Goes, Leased, LetRow
  <2>2. CASE db.sessions[s].device # d
    BY <1>2, <2>2, ByRest DEF Cleans
  <2> QED BY <2>1, <2>2
<1> QED BY <1>2, <1>3 DEF Promised

LEMMA SessionAttachOK ==
  ASSUME Inv(db), NEW s \in Session, NEW f, SessionAttach(s, f)
  PROVE  Inv(db') /\ Stands(db, db') /\ Promised(db, db')
<1>1. Inv(db') /\ Stands(db, db') /\ Attaches(db, db', s)
  BY AttachOK DEF SessionAttach
<1>2. ASSUME NEW d \in Device PROVE PromisedAt(db, db', d)
  <2>1. CASE d = db.sessions[s].device
    <3>1. db.sessions[s].state \in Live
      BY DEF SessionAttach, Live
    <3>2. /\ db'.sessions[s].state \in Live /\ db'.sessions[s].device = d
          /\ db'.devices[d].fence = db.devices[d].fence
      BY <1>1, <2>1, <3>1 DEF Attaches
    <3> QED BY <1>1, <2>1, <3>1, <3>2, ByHolder
  <2>2. CASE d # db.sessions[s].device
    <3>1. /\ db'.devices[d] = db.devices[d]
          /\ \A t \in Session : db.sessions[t].state \in Live /\ db.sessions[t].device = d =>
               db'.sessions[t].state \in Live /\ db'.sessions[t].device = d
      BY <1>1, <2>2 DEF Attaches
    <3> QED BY <1>1, <3>1, ByRest
  <2> QED BY <2>1, <2>2
<1> QED BY <1>1, <1>2 DEF Promised

LEMMA ReportsOK ==
  ASSUME Inv(db), NEW h \in Host, NEW d \in Device, NEW f,
         ReportReset(h, d, f) \/ \E ok \in BOOLEAN : ReportRecovery(h, d, f, ok)
  PROVE  Inv(db') /\ Stands(db, db') /\ Promised(db, db')
<1>1. Rows(db)
  BY DEF Inv
<1>2. \/ db.devices[d].state = "CLEANING" /\ db' = DeviceResetComplete(db, d)
      \/ /\ db.devices[d].state = "PREPARING"
         /\ \E ok \in BOOLEAN : db' = FinishDeviceRecovery(db, d, ok)
  BY DEF ReportReset, ReportRecovery, ResetAccepted, RecoveryAccepted
<1>3. /\ Mild(db, db') /\ HeldIn(db')
      /\ \A e \in Device : e # d => db'.devices[e] = db.devices[e]
      /\ db.devices[d].state \in {"CLEANING", "PREPARING"}
      /\ db'.devices[d].state = "READY" \/ JudgedRow(db'.devices[d])
  BY <1>1, <1>2, DeviceResetCompleteOK, FinishDeviceRecoveryOK DEF Inv
<1>4. Inv(db') /\ Stands(db, db')
  BY <1>3, MildInv
<1>5. ASSUME NEW e \in Device PROVE PromisedAt(db, db', e)
  <2>1. db'.sessions = db.sessions /\ db'.devices[e].fence = db.devices[e].fence
    BY <1>3 DEF Mild, MildRow
  <2>2. CASE e # d
    BY <1>3, <1>4, <2>1, <2>2, ByRest
  <2>3. CASE e = d
    <3>1. /\ LeaseState(db.devices[d]) \in {"dirty", "preparing"}
          /\ LeaseState(db'.devices[d]) \in {"free", "judged"}
          /\ ~LetRow(db'.devices[d])
      <4>1. RowOK(db.devices[d]) /\ RowOK(db'.devices[d])
        BY <1>4, LeaseRow
      <4>2. JudgedRow(db'.devices[d]) => Owes(db'.devices[d]) = "judgement"
        BY DEF Owes, LetRow, JudgedRow, Leased
      <4> QED BY <1>3, <4>1, <4>2, StateOf DEF JudgedRow, LetRow, Leased
    <3> QED BY <1>4, <2>1, <2>3, <3>1, ByState DEF Goes
  <2> QED BY <2>2, <2>3
<1> QED BY <1>4, <1>5 DEF Promised

LEMMA HeartbeatOK ==
  ASSUME Inv(db), NEW h \in Host, NEW A, NEW T, Heartbeat(h, A, T)
  PROVE  Inv(db') /\ Stands(db, db') /\ Promised(db, db')
<1> DEFINE x == [db.hosts[h] EXCEPT !.quiet = 0]
           heard == [db EXCEPT !.hosts[h] = x]
           lifted == CASE heard.hosts[h].state = "DOWN" /\ ~heard.hosts[h].stopping
                            -> LiftHostDown(heard, h)
                       [] heard.hosts[h].state = "QUARANTINED"
                            -> ClearSilenceQuarantine(heard, h)
                       [] OTHER -> heard
           agreed == Reconcile(lifted, T)
<1>1. Rows(db)
  BY DEF Inv
<1>2. heard = [db EXCEPT !.hosts[h].quiet = 0]
  BY <1>1 DEF Rows, Database
<1>3. db' = agreed \/ db' = ApplyAway(agreed, h, A)
  BY <1>2 DEF Heartbeat
<1>4. x \in HostRow /\ x.state = db.hosts[h].state
  BY <1>1 DEF Rows, Database, HostRow
<1> HIDE DEF x
<1>5. Safe(db, heard)
  BY <1>1, <1>4, HostColumnOK
<1> HIDE DEF heard
<1>6. Rows(heard)
  BY <1>5, SafeRows
<1>7. Safe(heard, LiftHostDown(heard, h))
  BY <1>6, LiftHostDownOK DEF Safe
<1>8. Safe(heard, ClearSilenceQuarantine(heard, h))
  BY <1>6, LiftQuarantineOK DEF Safe, ClearSilenceQuarantine
<1>9. Safe(heard, lifted)
  BY <1>6, <1>7, <1>8, SafeRefl
<1> HIDE DEF lifted
<1>10. Safe(lifted, agreed)
  BY <1>9, SafeRows, ReconcileOK DEF Safe
<1> HIDE DEF agreed
<1>11. Safe(agreed, ApplyAway(agreed, h, A))
  BY <1>10, SafeRows, ApplyAwayOK DEF Safe
<1>12. Safe(db, db')
  BY <1>3, <1>5, <1>9, <1>10, <1>11, SafeTrans
<1> QED BY <1>12, SafeInv, SafePromised

(* The row of a host refreshed by its own registration. *)
LEMMA WelcomeOK ==
  ASSUME NEW b, Rows(b), NEW h \in Host
  PROVE  Safe(b, Welcome(b, h))
<1> DEFINE before == b.hosts[h]
           x == [before EXCEPT !.quiet = 0, !.retired = FALSE]
           seen == [b EXCEPT !.hosts[h] = x]
           lifted == IF before.state = "DOWN" THEN LiftHostDown(seen, h) ELSE seen
           cleared == IF before.state = "QUARANTINED" /\ before.source = "reaper"
                      THEN ClearSilenceQuarantine(lifted, h) ELSE lifted
           back == IF before.retired /\ before.state = "QUARANTINED" /\ before.source = "operator"
                   THEN ReleaseHostQuarantine(cleared, h) ELSE cleared
<1>1. Welcome(b, h) = back
  BY DEF Welcome
<1>2. x \in HostRow /\ x.state = b.hosts[h].state
  <2> DEFINE y == [before EXCEPT !.quiet = 0]
  <2>1. y \in HostRow /\ y.state = b.hosts[h].state
    BY DEF Rows, Database, HostRow
  <2>2. x = [y EXCEPT !.retired = FALSE]
    OBVIOUS
  <2> HIDE DEF y, x
  <2> QED BY <2>1, <2>2 DEF HostRow
<1> HIDE DEF x
<1>3. Safe(b, seen)
  BY <1>2, HostColumnOK
<1> HIDE DEF seen
<1>4. Safe(seen, lifted)
  <2>1. Rows(seen)
    BY <1>3, SafeRows
  <2>2. Safe(seen, LiftHostDown(seen, h))
    BY <2>1, LiftHostDownOK DEF Safe
  <2> QED BY <2>1, <2>2, SafeRefl
<1> HIDE DEF lifted
<1>5. Safe(lifted, cleared)
  <2>1. Rows(lifted)
    BY <1>4, SafeRows
  <2>2. Safe(lifted, ClearSilenceQuarantine(lifted, h))
    BY <2>1, LiftQuarantineOK DEF Safe, ClearSilenceQuarantine
  <2> QED BY <2>1, <2>2, SafeRefl
<1> HIDE DEF cleared
<1>6. Safe(cleared, back)
  <2>1. Rows(cleared)
    BY <1>5, SafeRows
  <2>2. Safe(cleared, ReleaseHostQuarantine(cleared, h))
    BY <2>1, LiftQuarantineOK DEF Safe, ReleaseHostQuarantine
  <2> QED BY <2>1, <2>2, SafeRefl
<1> HIDE DEF back
<1> QED BY <1>1, <1>3, <1>4, <1>5, <1>6, SafeTrans

LEMMA RequarantineOK ==
  ASSUME NEW b, Rows(b), NEW h \in Host
  PROVE  Safe(b, Requarantine(b, h))
<1> DEFINE src == IF b.hosts[h].source = "reaper" THEN "reaper" ELSE "operator"
<1>1. src \in {"none", "reaper", "operator"}
  OBVIOUS
<1>2. Safe(b, QuarantineHost(b, h, src))
  BY <1>1, QuarantineHostOK DEF Safe
<1> QED BY <1>2, SafeRefl DEF Requarantine

LEMMA RegisterOK ==
  ASSUME Inv(db), NEW h \in Host, NEW L, NEW S, NEW A, Register(h, L, S, A)
  PROVE  Inv(db') /\ Stands(db, db') /\ Promised(db, db')
<1> DEFINE back == Welcome(db, h)
           upserted == Upsert(back, h, L, S, A)
           held == Requarantine(upserted, h)
<1>1. db' = Withdraw(held, h, L)
  BY DEF Register
<1>2. Safe(db, back)
  BY WelcomeOK DEF Inv
<1> HIDE DEF back
<1>3. Safe(back, upserted)
  BY <1>2, SafeRows, UpsertOK DEF Safe
<1> HIDE DEF upserted
<1>4. Safe(upserted, held)
  BY <1>3, SafeRows, RequarantineOK
<1> HIDE DEF held
<1>5. Safe(db, held) /\ Inv(held) /\ Stands(db, held)
  BY <1>2, <1>3, <1>4, SafeTrans, SafeInv
<1>6. /\ Inv(db') /\ Stands(held, db') /\ Mild(held, db')
      /\ \A d \in Device : DropsRow(held.devices[d], db'.devices[d])
  BY <1>1, <1>5, WithdrawOK, MildInv DEF Inv
<1>7. ASSUME NEW d \in Device PROVE PromisedAt(db, db', d)
  <2>1. /\ db'.sessions = db.sessions /\ db'.devices[d].fence = db.devices[d].fence
        /\ Owes(held.devices[d]) = Owes(db.devices[d])
    BY <1>5, <1>6 DEF Safe, Calm, CalmRow, Mild, MildRow
  <2>2. CASE Owes(db'.devices[d]) = Owes(held.devices[d])
    BY <1>6, <2>1, <2>2, ByOwing
  <2>3. CASE /\ db'.devices[d].state = "OFFLINE"
             /\ held.devices[d].state \notin Leased /\ ~JudgedRow(held.devices[d])
    <3>1. RowOK(db.devices[d]) /\ RowOK(db'.devices[d])
      BY <1>6, LeaseRow
    <3>2. Owes(db.devices[d]) \notin {"lease", "judgement"}
      BY <2>1, <2>3 DEF Owes, LetRow
    <3>3. /\ LeaseState(db.devices[d]) \in
               {"free", "dirty", "held dirty", "preparing", "held preparing", "out"}
          /\ LeaseState(db'.devices[d]) = "out" /\ ~LetRow(db'.devices[d])
      BY <2>3, <3>1, <3>2, StateOf DEF LetRow, Leased
    <3> QED BY <1>6, <2>1, <3>3, ByState DEF Goes
  <2> QED BY <1>6, <2>2, <2>3 DEF DropsRow
<1> QED BY <1>5, <1>6, <1>7, StandsTrans DEF Promised

(* The columns of a host row that say nothing of whether it is in service. *)
LEMMA HostColumns ==
  ASSUME NEW x, x \in HostRow
  PROVE  /\ \A v \in BOOLEAN : /\ [x EXCEPT !.stopping = v] \in HostRow
                               /\ [x EXCEPT !.stopping = v].state = x.state
         /\ \A v \in BOOLEAN : /\ [x EXCEPT !.retired = v] \in HostRow
                               /\ [x EXCEPT !.retired = v].state = x.state
         /\ x.quiet < 2 => /\ [x EXCEPT !.quiet = x.quiet + 1] \in HostRow
                           /\ [x EXCEPT !.quiet = x.quiet + 1].state = x.state
<1>1. ASSUME NEW v \in BOOLEAN
      PROVE  [x EXCEPT !.stopping = v] \in HostRow /\ [x EXCEPT !.stopping = v].state = x.state
  BY DEF HostRow
<1>2. ASSUME NEW v \in BOOLEAN
      PROVE  [x EXCEPT !.retired = v] \in HostRow /\ [x EXCEPT !.retired = v].state = x.state
  BY DEF HostRow
<1>3. ASSUME x.quiet < 2
      PROVE  /\ [x EXCEPT !.quiet = x.quiet + 1] \in HostRow
             /\ [x EXCEPT !.quiet = x.quiet + 1].state = x.state
  BY <1>3 DEF HostRow
<1> QED BY <1>1, <1>2, <1>3

LEMMA StopRetireQuietOK ==
  ASSUME NEW b, Rows(b), NEW h \in Host
  PROVE  /\ \A v \in BOOLEAN : Safe(b, [b EXCEPT !.hosts[h].stopping = v])
         /\ \A v \in BOOLEAN : Safe(b, [b EXCEPT !.hosts[h].retired = v])
         /\ b.hosts[h].quiet < 2 => Safe(b, [b EXCEPT !.hosts[h].quiet = @ + 1])
<1> DEFINE x == b.hosts[h]
<1>1. x \in HostRow
  BY DEF Rows, Database
<1>2. ASSUME NEW v \in BOOLEAN
      PROVE  Safe(b, [b EXCEPT !.hosts[h].stopping = v])
  <2> DEFINE y == [x EXCEPT !.stopping = v]
  <2>1. y \in HostRow /\ y.state = b.hosts[h].state
    BY <1>1, HostColumns
  <2>2. [b EXCEPT !.hosts[h].stopping = v] = [b EXCEPT !.hosts[h] = y]
    OBVIOUS
  <2> HIDE DEF y
  <2> QED BY <2>1, <2>2, HostColumnOK
<1>3. ASSUME NEW v \in BOOLEAN
      PROVE  Safe(b, [b EXCEPT !.hosts[h].retired = v])
  <2> DEFINE y == [x EXCEPT !.retired = v]
  <2>1. y \in HostRow /\ y.state = b.hosts[h].state
    BY <1>1, HostColumns
  <2>2. [b EXCEPT !.hosts[h].retired = v] = [b EXCEPT !.hosts[h] = y]
    OBVIOUS
  <2> HIDE DEF y
  <2> QED BY <2>1, <2>2, HostColumnOK
<1>4. ASSUME b.hosts[h].quiet < 2
      PROVE  Safe(b, [b EXCEPT !.hosts[h].quiet = @ + 1])
  <2> DEFINE y == [x EXCEPT !.quiet = x.quiet + 1]
  <2>1. y \in HostRow /\ y.state = b.hosts[h].state
    BY <1>1, <1>4, HostColumns
  <2>2. [b EXCEPT !.hosts[h].quiet = @ + 1] = [b EXCEPT !.hosts[h] = y]
    OBVIOUS
  <2> HIDE DEF y
  <2> QED BY <2>1, <2>2, HostColumnOK
<1> QED BY <1>2, <1>3, <1>4

LEMMA ServedOK ==
  ASSUME Rows(db), NEW r
  PROVE  /\ Safe(db, Served(r)) /\ Served(r).devices = db.devices
         /\ Served(r).sessions = db.sessions
         /\ r \in Request => Safe(db, Asked(r))
<1>1. db.asked \in SUBSET Request
  BY DEF Rows, Database
<1>2. db.asked \ {r} \in SUBSET Request /\ (r \in Request => db.asked \cup {r} \in SUBSET Request)
  BY <1>1
<1> QED BY <1>2, AskedOK DEF Served, Asked

(* The operator's requests about a host. *)
LEMMA OperatorHostOK ==
  ASSUME Inv(db), NEW h \in Host,
         \/ OperatorAsksDrain(h) \/ DrainHost(h) \/ ResumeHost(h)
         \/ StopRequested(h) \/ StopTaken(h) \/ StopOver(h)
         \/ OperatorAsksRetire(h) \/ RetireHost(h) \/ RestoreHost(h)
  PROVE  Inv(db') /\ Stands(db, db') /\ Promised(db, db')
<1> SUFFICES Safe(db, db')
  BY SafeInv, SafePromised
<1>1. Rows(db)
  BY DEF Inv
<1>2. CASE OperatorAsksDrain(h)
  <2>1. <<"drain", h>> \in Request
    BY DEF Request
  <2> QED BY <1>1, <1>2, <2>1, ServedOK DEF OperatorAsksDrain
<1>3. CASE OperatorAsksRetire(h)
  <2>1. <<"retire", h>> \in Request
    BY DEF Request
  <2> QED BY <1>1, <1>3, <2>1, ServedOK DEF OperatorAsksRetire
<1>4. CASE DrainHost(h)
  <2> DEFINE a == Served(<<"drain", h>>)
  <2>1. Safe(db, a)
    BY <1>1, ServedOK
  <2> HIDE DEF a
  <2>2. Safe(a, QuarantineHost(a, h, "operator"))
    BY <2>1, SafeRows, QuarantineHostOK DEF Safe
  <2>3. db' = QuarantineHost(a, h, "operator")
    BY <1>4 DEF DrainHost, a
  <2> QED BY <2>1, <2>2, <2>3, SafeTrans
<1>5. CASE ResumeHost(h)
  BY <1>1, <1>5, LiftQuarantineOK DEF ResumeHost, ReleaseHostQuarantine, Safe
<1>6. CASE StopRequested(h)
  BY <1>1, <1>6, StopRetireQuietOK DEF StopRequested
<1>7. CASE StopTaken(h)
  BY <1>1, <1>7, MarkHostDownOK DEF StopTaken, Safe
<1>8. CASE StopOver(h)
  BY <1>1, <1>8, StopRetireQuietOK DEF StopOver
<1>9. CASE RetireHost(h)
  <2> DEFINE a == Served(<<"retire", h>>)
             c == QuarantineHost(a, h, "operator")
  <2>1. Safe(db, a)
    BY <1>1, ServedOK
  <2>2. db' = [c EXCEPT !.hosts[h].retired = TRUE]
    BY <1>9 DEF RetireHost
  <2> HIDE DEF a
  <2>3. Safe(a, c)
    BY <2>1, SafeRows, QuarantineHostOK DEF Safe
  <2> HIDE DEF c
  <2>4. Safe(c, db')
    BY <2>2, <2>3, SafeRows, StopRetireQuietOK
  <2> QED BY <2>1, <2>3, <2>4, SafeTrans
<1>10. CASE RestoreHost(h)
  <2> DEFINE a == [db EXCEPT !.hosts[h].retired = FALSE]
  <2>1. Safe(db, a)
    BY <1>1, StopRetireQuietOK
  <2>2. db' = ReleaseHostQuarantine(a, h)
    BY <1>10 DEF RestoreHost
  <2> HIDE DEF a
  <2>3. Safe(a, db')
    BY <2>1, <2>2, SafeRows, LiftQuarantineOK DEF ReleaseHostQuarantine, Safe
  <2> QED BY <2>1, <2>3, SafeTrans
<1> QED BY <1>2, <1>3, <1>4, <1>5, <1>6, <1>7, <1>8, <1>9, <1>10

(* The operator's requests about a device, but for the release. *)
LEMMA OperatorDeviceOK ==
  ASSUME Inv(db), NEW d \in Device,
         \/ OperatorQuarantine(d) \/ OperatorAsksRelease(d) \/ ClearResetEscalation(d)
         \/ ForgetDevice(d) \/ RestoreDevice(d)
  PROVE  Inv(db') /\ Stands(db, db') /\ Promised(db, db')
<1>1. Rows(db) /\ RowOK(db.devices[d])
  BY DEF Inv, Rows
<1>2. CASE OperatorQuarantine(d)
  <2>1. db.devices[d].state # "QUARANTINED"
    BY <1>2 DEF OperatorQuarantine
  <2>2. /\ Inv(db') /\ Stands(db, db')
        /\ JudgedRow(db'.devices[d]) /\ db'.devices[d].fence = db.devices[d].fence
        /\ \A e \in Device : e # d => db'.devices[e] = db.devices[e]
        /\ \A s \in Session : db.sessions[s].device # d => db'.sessions[s] = db.sessions[s]
    BY <1>2, <2>1, QuarantineDeviceOK DEF OperatorQuarantine
  <2>3. PromisedAt(db, db', d)
    <3>1. RowOK(db'.devices[d]) /\ Owes(db'.devices[d]) = "judgement"
      BY <2>2, LeaseRow DEF Owes, LetRow, JudgedRow, Leased
    <3>2. LeaseState(db'.devices[d]) = "judged" /\ ~LetRow(db'.devices[d])
      BY <2>2, <3>1, StateOf DEF JudgedRow, LetRow, Leased
    <3>4. LeaseState(db.devices[d]) \in
            {"free", "leased", "judged", "dirty", "preparing", "out"}
      <4>1. db.devices[d].state \in
              Leased \cup {"READY", "CLEANING", "PREPARING", "OFFLINE", "ABSENT"}
        BY <1>1, <2>1 DEF RowOK, DeviceRow, DeviceState, Leased
      <4>2. db.devices[d].state \in {"OFFLINE", "ABSENT"} => Owes(db.devices[d]) = "nothing"
        BY DEF Owes, LetRow, JudgedRow, Leased
      <4>3. db.devices[d].state \in Leased => Owes(db.devices[d]) \in {"lease", "judgement"}
        BY DEF Owes
      <4> QED BY <1>1, <4>1, <4>2, <4>3, StateOf
    <3> QED BY <2>2, <3>2, <3>4, ByState DEF Goes
  <2>4. ASSUME NEW e \in Device, e # d PROVE PromisedAt(db, db', e)
    BY <2>2, <2>4, ByRest
  <2> QED BY <2>2, <2>3, <2>4 DEF Promised
<1>3. CASE OperatorAsksRelease(d)
  <2>1. <<"release", d>> \in Request
    BY DEF Request
  <2> QED BY <1>1, <1>3, <2>1, ServedOK, SafeInv, SafePromised DEF OperatorAsksRelease
<1>4. ASSUME NEW q, RowOK(q), CalmRow(db.devices[d], q), HeldRow(q) => HeldRow(db.devices[d]),
             db' = [db EXCEPT !.devices[d] = q]
      PROVE  Inv(db') /\ Stands(db, db') /\ Promised(db, db')
  <2>1. Safe(db, db')
    BY <1>1, <1>4, CalmSetRow DEF Safe
  <2> QED BY <2>1, SafeInv, SafePromised
<1>5. CASE ClearResetEscalation(d)
  <2>1. db' = [db EXCEPT !.devices[d] = ZeroBudget(db.devices[d])]
    BY <1>5 DEF ClearResetEscalation
  <2> QED BY <1>1, <1>4, <2>1, ZeroBudgetOK
<1>6. ASSUME NEW hide \in BOOLEAN, db' = [db EXCEPT !.devices[d].forgotten = hide]
      PROVE  Inv(db') /\ Stands(db, db') /\ Promised(db, db')
  <2> DEFINE q == [db.devices[d] EXCEPT !.forgotten = hide]
  <2>1. db' = [db EXCEPT !.devices[d] = q]
    BY <1>6
  <2>2. RowOK(q) /\ CalmRow(db.devices[d], q) /\ (HeldRow(q) => HeldRow(db.devices[d]))
    BY <1>1, ShowRowOK
  <2> HIDE DEF q
  <2> QED BY <1>4, <2>1, <2>2
<1>7. CASE ForgetDevice(d) \/ RestoreDevice(d)
  BY <1>6, <1>7 DEF ForgetDevice, RestoreDevice
<1> QED BY <1>2, <1>3, <1>5, <1>7

(* What a step may do to a judgement at all: leave it, or recover the device *)
(* at a new fence.                                                           *)
Respects(b, c) ==
  \A d \in Device : JudgedRow(b.devices[d]) =>
    \/ JudgedRow(c.devices[d]) /\ c.devices[d].source = b.devices[d].source
    \/ c.devices[d].state = "PREPARING" /\ c.devices[d].fence > b.devices[d].fence

LEMMA OperatorReleaseOK ==
  ASSUME Inv(db), NEW d \in Device, OperatorRelease(d)
  PROVE  Inv(db') /\ Respects(db, db') /\ Promised(db, db')
<1> DEFINE a == Served(<<"release", d>>)
<1>1. Safe(db, a) /\ a.devices = db.devices /\ a.sessions = db.sessions
  BY ServedOK DEF Inv
<1>2. db' = IF db.devices[d].state = "QUARANTINED" THEN ReleaseDeviceQuarantine(a, d) ELSE a
  BY DEF OperatorRelease
<1> HIDE DEF a
<1>3. Inv(a) /\ Stands(db, a)
  BY <1>1, SafeInv
<1>4. CASE db.devices[d].state # "QUARANTINED"
  BY <1>1, <1>2, <1>3, <1>4, SafePromised DEF Stands, Respects
<1>5. CASE db.devices[d].state = "QUARANTINED"
  <2>1. db.devices[d].fence < MaxFence
    BY <1>5 DEF OperatorRelease
  <2>2. /\ Inv(db')
        /\ db'.devices[d].state = "PREPARING" /\ db'.devices[d].fence > db.devices[d].fence
        /\ db'.devices[d].fence = db.devices[d].fence + 1 /\ db'.sessions = db.sessions
        /\ \A e \in Device : e # d => db'.devices[e] = db.devices[e]
    BY <1>1, <1>2, <1>3, <1>5, <2>1, ReleaseDeviceQuarantineOK
  <2>3. PromisedAt(db, db', d)
    BY <1>5, <2>2, ByRecovery
  <2>4. ASSUME NEW e \in Device, e # d PROVE PromisedAt(db, db', e)
    BY <2>2, <2>4, ByRest
  <2> QED BY <2>2, <2>3, <2>4 DEF Respects, Promised
<1> QED BY <1>4, <1>5

(* The recoveries of R fail; for the other devices nothing is settled. *)
Settles(b, c, R) ==
  /\ c.sessions = b.sessions
  /\ \A d \in Device :
       /\ c.devices[d].fence = b.devices[d].fence
       /\ d \in R => b.devices[d].state = "PREPARING" /\ Owes(c.devices[d]) = "judgement"
       /\ d \notin R => Owes(c.devices[d]) = Owes(b.devices[d])

(* Two rounds of ends, the promotions, then the stalled: each device makes   *)
(* one move, for a device that is given was READY before the tick, and one   *)
(* that a second promotion leaves behind was leased.                         *)
LEMMA TickPromised ==
  ASSUME NEW a, Inv(a), NEW x, NEW b, Inv(b), NEW m, NEW r, NEW c, Inv(c),
         NEW E, E \subseteq Session, NEW I, I \subseteq Session, NEW R,
         NEW p, DOMAIN p \subseteq Session,
         Cleans(a, x, E), Cleans(x, b, I), Recalls(b, m, DOMAIN p), Gives(m, r, p),
         Settles(r, c, R)
  PROVE  Promised(a, c)
<1> SUFFICES ASSUME NEW d \in Device PROVE PromisedAt(a, c, d)
  BY DEF Promised
<1> DEFINE lost == \E s \in DOMAIN p : b.sessions[s].state \in Live /\ b.sessions[s].device = d
<1>1. RowOK(a.devices[d]) /\ RowOK(b.devices[d]) /\ RowOK(c.devices[d])
  BY LeaseRow
<1>2. CASE (\E s \in E : a.sessions[s].device = d) \/ (\E s \in I : x.sessions[s].device = d)
  <2>1. /\ LetRow(a.devices[d]) /\ b.devices[d].state = "CLEANING"
        /\ b.devices[d].fence = a.devices[d].fence
    BY <1>2 DEF Cleans, LetRow, Leased
  <2>2. m.devices[d] = b.devices[d]
    BY <2>1 DEF Recalls, LetRow, Leased
  <2>3. r.devices[d] = b.devices[d]
    BY <2>1, <2>2 DEF Gives
  <2>4. Owes(c.devices[d]) = "reset" /\ c.devices[d].fence = a.devices[d].fence
    BY <2>1, <2>3 DEF Settles, Owes, LetRow, Leased, JudgedRow
  <2>5. /\ LeaseState(a.devices[d]) = "leased"
        /\ LeaseState(c.devices[d]) \in {"dirty", "held dirty"}
        /\ ~LetRow(c.devices[d])
    BY <1>1, <2>1, <2>4, StateOf DEF Owes
  <2> QED BY <2>4, <2>5, ByState DEF Goes
<1>3. CASE (\A s \in E : a.sessions[s].device # d) /\ (\A s \in I : x.sessions[s].device # d)
  <2>1. /\ b.devices[d] = a.devices[d]
        /\ \A s \in Session : a.sessions[s].device = d => b.sessions[s] = a.sessions[s]
    BY <1>3 DEF Cleans
  <2>2. CASE lost
    <3>1. LetRow(a.devices[d]) /\ m.devices[d].orphan /\ m.devices[d].state = a.devices[d].state
          /\ m.devices[d].fence = a.devices[d].fence
      BY <2>1, <2>2 DEF Recalls
    <3>2. r.devices[d] = m.devices[d]
      BY <3>1 DEF Gives, LetRow, Leased
    <3>3. d \notin R /\ Owes(c.devices[d]) = "judgement"
          /\ c.devices[d].fence = a.devices[d].fence
      BY <3>1, <3>2 DEF Settles, Owes, LetRow, Leased
    <3>4. /\ LeaseState(a.devices[d]) = "leased" /\ LeaseState(c.devices[d]) = "judged"
          /\ ~LetRow(c.devices[d])
      BY <1>1, <3>1, <3>3, StateOf DEF Owes
    <3> QED BY <3>3, <3>4, ByState DEF Goes
  <2>3. CASE ~lost
    <3>1. m.devices[d] = a.devices[d]
      BY <2>1, <2>3 DEF Recalls
    <3>2. CASE \E s \in DOMAIN p : p[s] = d
      <4>1. PICK s \in DOMAIN p : p[s] = d
        BY <3>2
      <4>2. /\ a.devices[d].state = "READY" /\ r.devices[d].fence = a.devices[d].fence + 1
            /\ r.sessions[s].state \in Live /\ r.sessions[s].device = d
        BY <3>1, <4>1 DEF Gives
      <4> QED BY <4>2, ByGrant DEF Settles
    <3>3. CASE \A s \in DOMAIN p : p[s] # d
      <4>1. r.devices[d] = a.devices[d]
        BY <3>1, <3>3 DEF Gives
      <4>2. \A s \in Session : a.sessions[s].state \in Live /\ a.sessions[s].device = d =>
              c.sessions[s].state \in Live /\ c.sessions[s].device = d
        BY <2>1, <2>3 DEF Recalls, Gives, Settles
      <4>3. CASE d \notin R
        BY <4>1, <4>2, <4>3, ByOwing DEF Settles
      <4>4. CASE d \in R
        <5>1. /\ a.devices[d].state = "PREPARING" /\ Owes(c.devices[d]) = "judgement"
              /\ c.devices[d].fence = a.devices[d].fence
          BY <4>1, <4>4 DEF Settles
        <5>2. /\ LeaseState(a.devices[d]) = "preparing" /\ LeaseState(c.devices[d]) = "judged"
              /\ ~LetRow(c.devices[d])
          BY <1>1, <5>1, StateOf DEF Owes
        <5> QED BY <5>1, <5>2, ByState DEF Goes
      <4> QED BY <4>3, <4>4
    <3> QED BY <3>2, <3>3
  <2> QED BY <2>2, <2>3
<1> QED BY <1>2, <1>3

(* One tick of the reaper. *)
LEMMA TickOK ==
  ASSUME Inv(db),
         \E E \in SUBSET LiveSessions(db) :
         \E I \in SUBSET ((LiveSessions(db) \cap WebDriver) \ E) :
         \E p \in PromoteQueued(Ended(E, I), E \cup I) :
         \E D \in SUBSET Overdue(E, I, p), R \in SUBSET Recovering(E, I, p) :
           Reap(E, I, p, D, R)
  PROVE  /\ Inv(db') /\ Stands(db, db') /\ Promised(db, db')
         /\ \A d \in Device : db'.devices[d].state = "READY" => db.devices[d].state = "READY"
<1>0. PICK E \in SUBSET LiveSessions(db) :
        \E I \in SUBSET ((LiveSessions(db) \cap WebDriver) \ E) :
        \E p \in PromoteQueued(Ended(E, I), E \cup I) :
        \E D \in SUBSET Overdue(E, I, p), R \in SUBSET Recovering(E, I, p) :
          Reap(E, I, p, D, R)
  OBVIOUS
<1>1. PICK I \in SUBSET ((LiveSessions(db) \cap WebDriver) \ E) :
        \E p \in PromoteQueued(Ended(E, I), E \cup I) :
        \E D \in SUBSET Overdue(E, I, p), R \in SUBSET Recovering(E, I, p) :
          Reap(E, I, p, D, R)
  BY <1>0
<1>2. PICK p \in PromoteQueued(Ended(E, I), E \cup I) :
        \E D \in SUBSET Overdue(E, I, p), R \in SUBSET Recovering(E, I, p) :
          Reap(E, I, p, D, R)
  BY <1>1
<1>3. PICK D \in SUBSET Overdue(E, I, p), R \in SUBSET Recovering(E, I, p) :
        Reap(E, I, p, D, R)
  BY <1>2
<1> DEFINE expired == EndSessions(db, E)
           ended == EndSessions(expired, I)
           waiting == Recall(ended, DOMAIN p)
           promoted == Reserve(waiting, p)
           counted == CountStalledResets(promoted, D)
           failed == ExpireStalledRecoveries(counted, R)
<1>4. Ended(E, I) = ended /\ Promoted(E, I, p) = promoted
  BY DEF Ended, Promoted, ExpireSessions, ExpireIdleWebDriverSessions
<1>5. PICK H \in {{}, Swept(db)} : db' = SweepHosts(failed, H)
  BY <1>3, <1>4 DEF Reap
<1>6. /\ \A d \in D : ~promoted.devices[d].escalated
      /\ \A d \in R : d \in Device /\ promoted.devices[d].state = "PREPARING"
      /\ p \in PromoteQueued(ended, E \cup I) /\ H \subseteq Host
  BY <1>3, <1>4, <1>5 DEF Overdue, MayStall, Recovering, Swept
<1>7. /\ Inv(expired) /\ Stands(db, expired)
      /\ Cleans(db, expired, E)
  <2>1. E \subseteq Session /\ \A s \in E : db.sessions[s].state \in Live \cup {"QUEUED"}
    BY DEF LiveSessions
  <2> QED BY <2>1, EndSessionsOK
<1> HIDE DEF expired
<1>8. Inv(ended) /\ Stands(expired, ended) /\ Cleans(expired, ended, I)
  <2>1. I \subseteq Session /\ \A s \in I : expired.sessions[s].state \in Live \cup {"QUEUED"}
    BY <1>7 DEF LiveSessions, Cleans
  <2> QED BY <1>7, <2>1, EndSessionsOK
<1> HIDE DEF ended
<1>19. /\ DOMAIN p \subseteq Session
       /\ \A s \in DOMAIN p : /\ p[s] \in Device /\ ended.devices[p[s]].state = "READY"
                              /\ ended.devices[p[s]].fence < MaxFence
       /\ \A s, t \in DOMAIN p : p[s] = p[t] => s = t
  BY <1>6 DEF PromoteQueued, InHand
<1>20. Inv(waiting) /\ Stands(ended, waiting) /\ Recalls(ended, waiting, DOMAIN p)
  BY <1>8, <1>19, RecallOK
<1> HIDE DEF waiting
<1>9. Inv(promoted) /\ Stands(waiting, promoted) /\ Gives(waiting, promoted, p)
  <2>1. \A s \in DOMAIN p : /\ p[s] \in Device /\ waiting.devices[p[s]].state = "READY"
                            /\ waiting.devices[p[s]].fence < MaxFence
                            /\ waiting.sessions[s].state \in {"NONE", "QUEUED"}
    BY <1>19, <1>20 DEF Recalls
  <2> QED BY <1>19, <1>20, <2>1, ReserveOK
<1> HIDE DEF promoted
<1>10. Safe(promoted, counted) /\ \A d \in Device : counted.devices[d].state = promoted.devices[d].state
  BY <1>6, <1>9, CountStalledResetsOK DEF Inv, Safe
<1> HIDE DEF counted
<1>11. /\ Inv(failed) /\ Stands(promoted, failed) /\ Mild(counted, failed)
       /\ \A d \in Device : /\ d \in R => JudgedRow(failed.devices[d])
                            /\ d \notin R => failed.devices[d] = counted.devices[d]
  <2>1. Inv(counted) /\ Stands(promoted, counted)
    BY <1>9, <1>10, SafeInv
  <2>2. \A d \in R : counted.devices[d].state = "PREPARING"
    BY <1>6, <1>10
  <2>3. /\ Mild(counted, failed) /\ (HeldIn(counted) => HeldIn(failed))
        /\ \A d \in Device : /\ d \in R => JudgedRow(failed.devices[d])
                             /\ d \notin R => failed.devices[d] = counted.devices[d]
    BY <2>1, <2>2, ExpireStalledRecoveriesOK DEF Inv
  <2>4. Inv(failed) /\ Stands(counted, failed)
    BY <2>1, <2>3, MildInv DEF Inv
  <2> QED BY <2>1, <2>3, <2>4, StandsTrans
<1> HIDE DEF failed
<1>12. /\ Safe(failed, db')
       /\ \A d \in Device : db'.devices[d].state = "READY" => failed.devices[d].state = "READY"
  BY <1>5, <1>6, <1>11, SweepHostsOK DEF Safe, Inv
<1>13. Inv(db') /\ Stands(promoted, db')
  BY <1>11, <1>12, SafeInv, StandsTrans
<1>14. Stands(db, db')
  BY <1>7, <1>8, <1>9, <1>13, <1>20, StandsTrans
<1>15. Settles(promoted, db', R)
  <2>1. /\ db'.sessions = promoted.sessions
        /\ \A d \in Device : db'.devices[d].fence = promoted.devices[d].fence
    BY <1>10, <1>11, <1>12 DEF Safe, Calm, CalmRow, Mild, MildRow
  <2>2. ASSUME NEW d \in Device PROVE Owes(db'.devices[d]) = Owes(failed.devices[d])
    BY <1>12 DEF Safe, Calm, CalmRow
  <2>3. ASSUME NEW d \in Device PROVE Owes(counted.devices[d]) = Owes(promoted.devices[d])
    BY <1>10 DEF Safe, Calm, CalmRow
  <2>4. \A d \in Device : d \in R => Owes(failed.devices[d]) = "judgement"
    BY <1>11 DEF Owes, LetRow, JudgedRow, Leased
  <2> QED BY <1>6, <1>11, <2>1, <2>2, <2>3, <2>4 DEF Settles
<1>16. E \subseteq Session /\ I \subseteq Session
  BY DEF LiveSessions
<1>17. Promised(db, db')
  BY <1>7, <1>8, <1>9, <1>13, <1>15, <1>16, <1>19, <1>20, TickPromised
<1>18. ASSUME NEW d \in Device, db'.devices[d].state = "READY" PROVE db.devices[d].state = "READY"
  <2>1. promoted.devices[d].state = "READY"
    BY <1>10, <1>11, <1>12, <1>18 DEF JudgedRow
  <2>2. ended.devices[d].state = "READY"
    BY <1>9, <1>20, <2>1 DEF Gives, Recalls
  <2> QED BY <1>7, <1>8, <2>2 DEF Cleans
<1> QED BY <1>13, <1>14, <1>17, <1>18

(* The sweep's reading, which writes no row. *)
LEMMA ReaperOK ==
  ASSUME Inv(db), Reaper
  PROVE  /\ Inv(db') /\ Stands(db, db') /\ Promised(db, db')
         /\ \A d \in Device : db'.devices[d].state = "READY" => db.devices[d].state = "READY"
<1>1. CASE SweepReads
  <2> DEFINE A == db.asked \cup ({"sweep"} \X Silent(db))
  <2>1. Rows(db) /\ A \in SUBSET Request /\ db' = [db EXCEPT !.asked = A]
    BY <1>1 DEF SweepReads, Silent, Request, Inv, Rows, Database
  <2> HIDE DEF A
  <2>2. Safe(db, db') /\ db'.devices = db.devices
    BY <2>1, AskedOK
  <2> QED BY <2>2, SafeInv, SafePromised
<1>2. CASE ~SweepReads
  BY <1>2, TickOK DEF Reaper
<1> QED BY <1>1, <1>2

-----------------------------------------------------------------------------
(* What a host gives while it is out of service. *)

Shut(b, c) ==
  \A d \in Device :
    /\ b.hosts[HostOf[d]].state # "UP" /\ c.hosts[HostOf[d]].state # "UP"
    /\ b.devices[d].state # "READY" /\ c.devices[d].state = "READY"
    => \/ b.devices[d].state \in {"CLEANING", "PREPARING"}
       \/ b.devices[d].state = "OFFLINE" /\ b.devices[d].away

(* The rows of the other hosts stay as they are. *)
Apart(b, c, h) == \A d \in Device : HostOf[d] # h => c.devices[d] = b.devices[d]

(* Nothing becomes READY that was not. *)
LEMMA ShutRows ==
  ASSUME NEW b, NEW c,
         \A d \in Device : c.devices[d].state = "READY" => b.devices[d].state = "READY"
  PROVE  Shut(b, c)
BY DEF Shut

(* The table of devices written whole. *)
LEMMA DevicesOf ==
  ASSUME NEW b, Rows(b), NEW f
  PROVE  [b EXCEPT !.devices = f].devices = f /\ [b EXCEPT !.devices = f].hosts = b.hosts
BY DEF Rows, Database

(* A host that is given back is in service. *)
LEMMA ReturnOpens ==
  ASSUME NEW b, Rows(b), NEW h \in Host, NEW x, x \in HostRow, x.state = "UP"
  PROVE  LET c == Restore([b EXCEPT !.hosts[h] = x], h)
         IN  c.hosts[h].state = "UP" /\ Apart(b, c, h)
<1> DEFINE a == [b EXCEPT !.hosts[h] = x]
           f == [d \in Device |->
                   IF HostOf[d] = h THEN RestoreRow(a.devices[d]) ELSE a.devices[d]]
<1>1. Calm(b, a) /\ a.devices = b.devices /\ a.hosts[h] = x
  BY HostRowOK
<1>2. Restore(a, h) = [a EXCEPT !.devices = f]
  BY DEF Restore
<1> HIDE DEF a
<1>3. Restore(a, h).devices = f /\ Restore(a, h).hosts = a.hosts
  BY <1>1, <1>2, DevicesOf DEF Calm
<1> QED BY <1>1, <1>3 DEF Apart, a

(* What lifting does: the host is back, or the database is as it was. *)
Lifts(b, c, h) ==
  \/ c.hosts[h].state = "UP" /\ Apart(b, c, h)
  \/ c = b

LEMMA LiftOpens ==
  ASSUME NEW b, Rows(b), NEW h \in Host
  PROVE  /\ \A by : Lifts(b, LiftQuarantine(b, h, by), h)
         /\ Lifts(b, LiftHostDown(b, h), h)
         /\ b.hosts[h].state = "DOWN" => LiftHostDown(b, h).hosts[h].state = "UP"
<1>1. ASSUME NEW by PROVE Lifts(b, LiftQuarantine(b, h, by), h)
  <2> DEFINE x == [b.hosts[h] EXCEPT !.state = "UP", !.source = "none"]
             c == LiftQuarantine(b, h, by)
  <2>1. CASE b.hosts[h].state = "QUARANTINED" /\ b.hosts[h].source = by
    <3>1. c = Restore([b EXCEPT !.hosts[h] = x], h)
      BY <2>1 DEF LiftQuarantine, Rows, Database
    <3>2. x \in HostRow /\ x.state = "UP"
      BY DEF Rows, Database, HostRow
    <3> HIDE DEF x, c
    <3>3. c.hosts[h].state = "UP" /\ Apart(b, c, h)
      BY <3>1, <3>2, ReturnOpens
    <3> QED BY <3>3 DEF Lifts, c
  <2>2. CASE ~(b.hosts[h].state = "QUARANTINED" /\ b.hosts[h].source = by)
    BY <2>2 DEF LiftQuarantine, Lifts
  <2> QED BY <2>1, <2>2
<1>2. /\ Lifts(b, LiftHostDown(b, h), h)
      /\ b.hosts[h].state = "DOWN" => LiftHostDown(b, h).hosts[h].state = "UP"
  <2> DEFINE x == [b.hosts[h] EXCEPT !.state = "UP"]
             c == LiftHostDown(b, h)
  <2>1. CASE b.hosts[h].state = "DOWN"
    <3>1. c = Restore([b EXCEPT !.hosts[h] = x], h)
      BY <2>1 DEF LiftHostDown, Rows, Database
    <3>2. x \in HostRow /\ x.state = "UP"
      BY DEF Rows, Database, HostRow
    <3> HIDE DEF x, c
    <3>3. c.hosts[h].state = "UP" /\ Apart(b, c, h)
      BY <3>1, <3>2, ReturnOpens
    <3> QED BY <3>3 DEF Lifts, c
  <2>2. CASE b.hosts[h].state # "DOWN"
    BY <2>2 DEF LiftHostDown, Lifts
  <2> QED BY <2>1, <2>2
<1> QED BY <1>1, <1>2

(* quarantine_host and mark_host_down leave the host no READY device. *)
LEMMA TakenOut ==
  ASSUME NEW b, Rows(b), NEW h \in Host
  PROVE  /\ \A by : /\ Apart(b, QuarantineHost(b, h, by), h)
                    /\ \A d \in Device : HostOf[d] = h =>
                         QuarantineHost(b, h, by).devices[d].state # "READY"
         /\ Apart(b, MarkHostDown(b, h), h)
         /\ \A d \in Device : HostOf[d] = h => MarkHostDown(b, h).devices[d].state # "READY"
<1>1. ASSUME NEW x
      PROVE  LET c == Collapse([b EXCEPT !.hosts = x], h)
             IN  Apart(b, c, h) /\ \A d \in Device : HostOf[d] = h => c.devices[d].state # "READY"
  <2> DEFINE a == [b EXCEPT !.hosts = x]
             f == [d \in Device |->
                     IF HostOf[d] = h THEN CollapseRow(a.devices[d]) ELSE a.devices[d]]
  <2>1. a.devices = b.devices
    BY DEF Rows, Database
  <2>2. Collapse(a, h).devices = f
    BY DEF Collapse, Rows, Database
  <2> HIDE DEF a
  <2>3. ASSUME NEW d \in Device PROVE CollapseRow(b.devices[d]).state # "READY"
    BY DEF Rows, RowOK, DeviceRow, CollapseRow, Collapsible
  <2>4. Apart(b, Collapse(a, h), h)
    BY <2>1, <2>2 DEF Apart
  <2>5. \A d \in Device : HostOf[d] = h => Collapse(a, h).devices[d].state # "READY"
    BY <2>1, <2>2, <2>3
  <2> QED BY <2>4, <2>5 DEF a
<1>2. ASSUME NEW by
      PROVE  \E x : QuarantineHost(b, h, by) = Collapse([b EXCEPT !.hosts = x], h)
  <2> DEFINE x == [b.hosts EXCEPT ![h] = [b.hosts[h] EXCEPT !.state = "QUARANTINED", !.source = by]]
  <2>1. QuarantineHost(b, h, by) = Collapse([b EXCEPT !.hosts = x], h)
    BY DEF QuarantineHost, Rows, Database
  <2> HIDE DEF x
  <2> QED BY <2>1
<1>3. \E x : MarkHostDown(b, h) = Collapse([b EXCEPT !.hosts = x], h)
  <2> DEFINE x == [b.hosts EXCEPT ![h] = [b.hosts[h] EXCEPT !.state = "DOWN"]]
  <2>1. MarkHostDown(b, h) = Collapse([b EXCEPT !.hosts = x], h)
    BY DEF MarkHostDown, Rows, Database
  <2> HIDE DEF x
  <2> QED BY <2>1
<1> QED BY <1>1, <1>2, <1>3

(* The writes of a registration and of a beat to the table of devices. *)
LEMMA UpsertOpens ==
  ASSUME NEW b, Rows(b), NEW h, NEW L, NEW S, NEW A
  PROVE  Upsert(b, h, L, S, A).hosts = b.hosts /\ Apart(b, Upsert(b, h, L, S, A), h)
<1> DEFINE f == [d \in Device |-> IF HostOf[d] = h /\ d \in L
                   THEN UpsertRow(b.devices[d], d \in S, d \in A) ELSE b.devices[d]]
<1>1. Upsert(b, h, L, S, A).devices = f /\ Upsert(b, h, L, S, A).hosts = b.hosts
  BY DevicesOf DEF Upsert
<1>2. \A d \in Device : HostOf[d] # h => f[d] = b.devices[d]
  OBVIOUS
<1> HIDE DEF f
<1> QED BY <1>1, <1>2 DEF Apart

LEMMA WithdrawOpens ==
  ASSUME NEW b, Rows(b), NEW h, NEW L
  PROVE  /\ Withdraw(b, h, L).hosts = b.hosts /\ Apart(b, Withdraw(b, h, L), h)
         /\ \A d \in Device : Withdraw(b, h, L).devices[d].state = "READY" =>
              b.devices[d].state = "READY"
<1> DEFINE f == [d \in Device |-> IF HostOf[d] = h /\ d \notin L
                   THEN WithdrawRow(b.devices[d]) ELSE b.devices[d]]
<1>1. Withdraw(b, h, L).devices = f /\ Withdraw(b, h, L).hosts = b.hosts
  BY DevicesOf DEF Withdraw
<1>2. ASSUME NEW r, RowOK(r), WithdrawRow(r).state = "READY"
      PROVE  r.state = "READY"
  BY <1>2 DEF RowOK, DeviceRow, WithdrawRow
<1>3. \A d \in Device : /\ HostOf[d] # h => f[d] = b.devices[d]
                        /\ f[d].state = "READY" => b.devices[d].state = "READY"
  BY <1>2 DEF Rows
<1> HIDE DEF f
<1> QED BY <1>1, <1>3 DEF Apart

LEMMA AwayOpens ==
  ASSUME NEW b, Rows(b), NEW h, NEW A
  PROVE  LET c == ApplyAway(b, h, A)
         IN  /\ c.hosts = b.hosts /\ Apart(b, c, h)
             /\ \A d \in Device : c.devices[d].state = "READY" =>
                  \/ b.devices[d].state = "READY"
                  \/ b.devices[d].state = "OFFLINE" /\ b.devices[d].away
<1> DEFINE f == [d \in Device |-> IF HostOf[d] = h
                   THEN AwayRow(b.devices[d], d \in A) ELSE b.devices[d]]
           c == ApplyAway(b, h, A)
<1>1. c.devices = f /\ c.hosts = b.hosts
  BY DevicesOf DEF ApplyAway
<1>2. ASSUME NEW r, RowOK(r), NEW isAway \in BOOLEAN, AwayRow(r, isAway).state = "READY"
      PROVE  r.state = "READY" \/ (r.state = "OFFLINE" /\ r.away)
  <2>1. CASE isAway /\ r.state = "READY"
    BY <2>1
  <2>2. CASE ~isAway /\ r.away /\ r.state = "OFFLINE"
    BY <2>2
  <2>3. CASE ~(isAway /\ r.state = "READY") /\ ~(~isAway /\ r.away /\ r.state = "OFFLINE")
    BY <1>2, <2>3 DEF AwayRow
  <2> QED BY <2>1, <2>2, <2>3
<1>3. ASSUME NEW d \in Device
      PROVE  /\ HostOf[d] # h => f[d] = b.devices[d]
             /\ f[d].state = "READY" =>
                  \/ b.devices[d].state = "READY"
                  \/ b.devices[d].state = "OFFLINE" /\ b.devices[d].away
  <2> DEFINE q == AwayRow(b.devices[d], d \in A)
  <2>1. (d \in A) \in BOOLEAN /\ RowOK(b.devices[d])
    BY DEF Rows
  <2>2. q.state = "READY" =>
          \/ b.devices[d].state = "READY"
          \/ b.devices[d].state = "OFFLINE" /\ b.devices[d].away
    BY <1>2, <2>1, Zenon
  <2>3. f[d] = IF HostOf[d] = h THEN q ELSE b.devices[d]
    OBVIOUS
  <2> HIDE DEF q, f
  <2> QED BY <2>2, <2>3
<1> HIDE DEF f, c
<1> QED BY <1>1, <1>3 DEF Apart, c

(* A registration finds its host back in service, or changes no row of it. *)
LEMMA WelcomeOpens ==
  ASSUME NEW b, Rows(b), NEW h \in Host
  PROVE  LET c == Welcome(b, h)
         IN  /\ Apart(b, c, h)
             /\ c.hosts[h].state = "UP" \/ c.hosts[h].state = "QUARANTINED"
<1> DEFINE x == [b.hosts[h] EXCEPT !.quiet = 0, !.retired = FALSE]
           seen == [b EXCEPT !.hosts[h] = x]
<1>1. x \in HostRow /\ x.state = b.hosts[h].state /\ b.hosts[h].state \in {"UP", "QUARANTINED", "DOWN"}
  <2> DEFINE y == [b.hosts[h] EXCEPT !.quiet = 0]
  <2>1. y \in HostRow /\ y.state = b.hosts[h].state /\ b.hosts[h].state \in {"UP", "QUARANTINED", "DOWN"}
    BY DEF Rows, Database, HostRow
  <2>2. x = [y EXCEPT !.retired = FALSE]
    OBVIOUS
  <2> HIDE DEF y, x
  <2> QED BY <2>1, <2>2 DEF HostRow
<1>2. \/ b.hosts[h].state = "DOWN" /\ Welcome(b, h) = LiftHostDown(seen, h)
      \/ b.hosts[h].state # "DOWN" /\ \E by : Welcome(b, h) = LiftQuarantine(seen, h, by)
      \/ b.hosts[h].state # "DOWN" /\ Welcome(b, h) = seen
  BY DEF Welcome, ClearSilenceQuarantine, ReleaseHostQuarantine
<1> HIDE DEF x
<1>3. /\ Rows(seen) /\ seen.devices = b.devices
      /\ seen.hosts[h].state = b.hosts[h].state
  BY <1>1, HostRowOK DEF Calm
<1> HIDE DEF seen
<1>4. CASE b.hosts[h].state = "DOWN" /\ Welcome(b, h) = LiftHostDown(seen, h)
  <2>1. Lifts(seen, Welcome(b, h), h) /\ Welcome(b, h).hosts[h].state = "UP"
    BY <1>3, <1>4, LiftOpens
  <2> QED BY <1>3, <2>1 DEF Lifts, Apart
<1>5. CASE b.hosts[h].state # "DOWN" /\ \E by : Welcome(b, h) = LiftQuarantine(seen, h, by)
  <2>1. Lifts(seen, Welcome(b, h), h)
    BY <1>3, <1>5, LiftOpens
  <2> QED BY <1>1, <1>3, <1>5, <2>1 DEF Lifts, Apart
<1>6. CASE b.hosts[h].state # "DOWN" /\ Welcome(b, h) = seen
  BY <1>1, <1>3, <1>6 DEF Apart
<1> QED BY <1>2, <1>4, <1>5, <1>6

LEMMA RegisterShut ==
  ASSUME Inv(db), NEW h \in Host, NEW L, NEW S, NEW A, Register(h, L, S, A)
  PROVE  Shut(db, db')
<1> DEFINE back == Welcome(db, h)
           upserted == Upsert(back, h, L, S, A)
           held == Requarantine(upserted, h)
<1>1. db' = Withdraw(held, h, L)
  BY DEF Register
<1>2. /\ Apart(db, back, h) /\ Rows(back)
      /\ back.hosts[h].state = "UP" \/ back.hosts[h].state = "QUARANTINED"
  BY WelcomeOpens, WelcomeOK, SafeRows DEF Inv
<1> HIDE DEF back
<1>3. Rows(upserted) /\ upserted.hosts = back.hosts /\ Apart(back, upserted, h)
  BY <1>2, UpsertOpens, UpsertOK DEF Calm
<1> HIDE DEF upserted
<1>4. Rows(held) /\ Apart(upserted, held, h)
  BY <1>3, TakenOut, RequarantineOK, SafeRows DEF Requarantine, Apart
<1>5. CASE back.hosts[h].state = "UP"
  <2>1. held.hosts[h].state = "UP"
    BY <1>3, <1>5 DEF Requarantine
  <2> HIDE DEF held
  <2>2. Withdraw(held, h, L).hosts = held.hosts /\ Apart(held, Withdraw(held, h, L), h)
    BY <1>4, WithdrawOpens
  <2>3. db'.hosts[h].state = "UP" /\ Apart(held, db', h)
    BY <1>1, <2>1, <2>2
  <2> QED BY <1>2, <1>3, <1>4, <2>3 DEF Apart, Shut
<1>6. CASE back.hosts[h].state = "QUARANTINED"
  <2>1. \A d \in Device : HostOf[d] = h => held.devices[d].state # "READY"
    BY <1>3, <1>6, TakenOut DEF Requarantine
  <2> HIDE DEF held
  <2>2. /\ Apart(held, Withdraw(held, h, L), h)
        /\ \A d \in Device : Withdraw(held, h, L).devices[d].state = "READY" =>
             held.devices[d].state = "READY"
    BY <1>4, WithdrawOpens
  <2>3. /\ Apart(held, db', h)
        /\ \A d \in Device : HostOf[d] = h => db'.devices[d].state # "READY"
    BY <1>1, <2>1, <2>2
  <2> QED BY <1>2, <1>3, <1>4, <2>3 DEF Apart, Shut
<1> QED BY <1>2, <1>5, <1>6

(* A reconciling beat writes nothing that makes a device READY or away. *)
LEMMA TouchedAway ==
  ASSUME NEW b, Rows(b), NEW T
  PROVE  \A d \in Device : Reconcile(b, T).devices[d].away = b.devices[d].away
<1>1. Reconcile(b, T).devices =
        [d \in Device |-> IF d \in T THEN TouchRow(b.devices[d]) ELSE b.devices[d]]
  BY DevicesOf DEF Reconcile
<1>2. \A r : RowOK(r) => TouchRow(r).away = r.away
  BY DEF RowOK, DeviceRow, TouchRow
<1> QED BY <1>1, <1>2 DEF Rows

LEMMA HeartbeatShut ==
  ASSUME Inv(db), NEW h \in Host, NEW A, NEW T, Heartbeat(h, A, T)
  PROVE  Shut(db, db')
<1> DEFINE x == [db.hosts[h] EXCEPT !.quiet = 0]
           heard == [db EXCEPT !.hosts[h] = x]
           lifted == CASE heard.hosts[h].state = "DOWN" /\ ~heard.hosts[h].stopping
                            -> LiftHostDown(heard, h)
                       [] heard.hosts[h].state = "QUARANTINED"
                            -> ClearSilenceQuarantine(heard, h)
                       [] OTHER -> heard
           agreed == Reconcile(lifted, T)
<1>1. Rows(db)
  BY DEF Inv
<1>2. heard = [db EXCEPT !.hosts[h].quiet = 0]
  BY <1>1 DEF Rows, Database
<1>3. db' = agreed \/ db' = ApplyAway(agreed, h, A)
  BY <1>2 DEF Heartbeat
<1>4. x \in HostRow /\ x.state = db.hosts[h].state
  BY <1>1 DEF Rows, Database, HostRow
<1> HIDE DEF x
<1>5. Rows(heard) /\ heard.devices = db.devices
  BY <1>1, <1>4, HostRowOK DEF Calm
<1> HIDE DEF heard
<1>6. Lifts(heard, lifted, h)
  <2>1. Lifts(heard, heard, h)
    BY DEF Lifts
  <2>2. Lifts(heard, LiftHostDown(heard, h), h) /\ Lifts(heard, ClearSilenceQuarantine(heard, h), h)
    BY <1>5, LiftOpens DEF ClearSilenceQuarantine
  <2> QED BY <2>1, <2>2
<1>7. Rows(lifted)
  <2>1. Rows(LiftHostDown(heard, h)) /\ Rows(ClearSilenceQuarantine(heard, h))
    BY <1>5, LiftHostDownOK, LiftQuarantineOK DEF Calm, ClearSilenceQuarantine
  <2> QED BY <1>5, <2>1
<1> HIDE DEF lifted
<1>8. /\ Rows(agreed) /\ agreed.hosts = lifted.hosts
      /\ \A d \in Device : /\ agreed.devices[d].state = lifted.devices[d].state
                           /\ agreed.devices[d].away = lifted.devices[d].away
  BY <1>7, ReconcileOK, TouchedAway DEF Calm
<1> HIDE DEF agreed
<1>11. /\ db'.hosts = lifted.hosts
       /\ \A d \in Device : /\ db'.devices[d].state = "READY" =>
                               \/ lifted.devices[d].state = "READY"
                               \/ lifted.devices[d].state = "OFFLINE" /\ lifted.devices[d].away
                            /\ HostOf[d] # h /\ db'.devices[d].state = "READY" =>
                                 lifted.devices[d].state = "READY"
  <2>1. CASE db' = agreed
    BY <1>8, <2>1
  <2>2. CASE db' = ApplyAway(agreed, h, A)
    <3>1. /\ db'.hosts = agreed.hosts /\ Apart(agreed, db', h)
          /\ \A d \in Device : db'.devices[d].state = "READY" =>
               \/ agreed.devices[d].state = "READY"
               \/ agreed.devices[d].state = "OFFLINE" /\ agreed.devices[d].away
      BY <1>8, <2>2, AwayOpens
    <3> QED BY <1>8, <3>1 DEF Apart
  <2> QED BY <1>3, <2>1, <2>2
<1>9. CASE lifted.hosts[h].state = "UP" /\ Apart(heard, lifted, h)
  BY <1>5, <1>9, <1>11 DEF Apart, Shut
<1>10. CASE lifted = heard
  BY <1>5, <1>10, <1>11 DEF Shut
<1> QED BY <1>6, <1>9, <1>10 DEF Lifts

(* A lease that begins, ends or is taken up makes no device READY. *)
LEMMA TenantShut ==
  ASSUME Inv(db), Tenant
  PROVE  Shut(db, db')
<1>1. ASSUME NEW s \in Session, CreateSession(s) PROVE Shut(db, db')
  <2>1. CASE db' = AllocateQueued(db, s)
    <3>1. db'.devices = db.devices
      BY <1>1, <2>1, AllocateQueuedOK DEF CreateSession
    <3> QED BY <3>1, ShutRows
  <2>2. CASE \E d \in ReadyFor(db, s) : db' = Reserve(db, [t \in {s} |-> d])
    <3>1. PICK d \in ReadyFor(db, s) : db' = Reserve(db, [t \in {s} |-> d])
      BY <2>2
    <3> DEFINE p == [t \in {s} |-> d]
               f == [e \in Device |-> IF \E t \in DOMAIN p : p[t] = e
                       THEN ReserveRow(db.devices[e]) ELSE db.devices[e]]
    <3>2. db'.devices = f
      BY <3>1 DEF Reserve, Inv, Rows, Database
    <3>3. \A e \in Device : ReserveRow(db.devices[e]).state = "RESERVED"
      BY DEF ReserveRow, Inv, Rows, RowOK, DeviceRow
    <3> QED BY <3>2, <3>3, ShutRows
  <2> QED BY <1>1, <2>1, <2>2 DEF CreateSession
<1>2. ASSUME NEW s \in Session, ReleaseDevice(s) PROVE Shut(db, db')
  <2>1. \A t \in {s} : db.sessions[t].state \in Live \cup {"QUEUED"}
    BY <1>2 DEF ReleaseDevice
  <2>2. Cleans(db, db', {s})
    BY <1>2, <2>1, EndSessionsOK DEF ReleaseDevice
  <2> QED BY <2>2, ShutRows DEF Cleans
<1>3. ASSUME NEW s \in Session, NEW f, SessionAttach(s, f) PROVE Shut(db, db')
  <2>1. Inv(db') /\ Attaches(db, db', s)
    BY <1>3, AttachOK DEF SessionAttach
  <2>2. db.sessions[s].state \in Live
    BY <1>3 DEF SessionAttach, Live
  <2>3. db'.sessions[s].state \in Live /\ db'.sessions[s].device = db.sessions[s].device
    BY <2>1, <2>2 DEF Attaches
  <2>4. db'.devices[db.sessions[s].device].state # "READY"
    BY <2>1, <2>3 DEF Inv, CustodyIn
  <2>5. \A d \in Device : d # db.sessions[s].device => db'.devices[d] = db.devices[d]
    BY <2>1 DEF Attaches
  <2> QED BY <2>4, <2>5, ShutRows
<1> QED BY <1>1, <1>2, <1>3 DEF Tenant

(* A report makes only the device it is about READY. *)
LEMMA ReportsShut ==
  ASSUME Inv(db), NEW h \in Host, NEW d \in Device, NEW f,
         ReportReset(h, d, f) \/ \E ok \in BOOLEAN : ReportRecovery(h, d, f, ok)
  PROVE  Shut(db, db')
<1>1. Rows(db)
  BY DEF Inv
<1>2. \/ db.devices[d].state = "CLEANING" /\ db' = DeviceResetComplete(db, d)
      \/ /\ db.devices[d].state = "PREPARING"
         /\ \E ok \in BOOLEAN : db' = FinishDeviceRecovery(db, d, ok)
  BY DEF ReportReset, ReportRecovery, ResetAccepted, RecoveryAccepted
<1>3. /\ \A e \in Device : e # d => db'.devices[e] = db.devices[e]
      /\ db.devices[d].state \in {"CLEANING", "PREPARING"}
  BY <1>1, <1>2, DeviceResetCompleteOK, FinishDeviceRecoveryOK
<1> QED BY <1>3 DEF Shut

LEMMA OperatorHostShut ==
  ASSUME Inv(db), NEW h \in Host,
         \/ OperatorAsksDrain(h) \/ DrainHost(h) \/ ResumeHost(h)
         \/ StopRequested(h) \/ StopTaken(h) \/ StopOver(h)
         \/ OperatorAsksRetire(h) \/ RetireHost(h) \/ RestoreHost(h)
  PROVE  Shut(db, db')
<1>1. Rows(db)
  BY DEF Inv
<1>2. CASE OperatorAsksDrain(h) \/ OperatorAsksRetire(h) \/ StopRequested(h) \/ StopOver(h)
  <2>1. db'.devices = db.devices
    BY <1>1, <1>2 DEF OperatorAsksDrain, OperatorAsksRetire, StopRequested, StopOver, Asked,
                      Rows, Database
  <2> QED BY <2>1, ShutRows
<1>3. CASE StopTaken(h)
  <2>1. /\ Apart(db, db', h)
        /\ \A d \in Device : HostOf[d] = h => db'.devices[d].state # "READY"
    BY <1>1, <1>3, TakenOut DEF StopTaken
  <2> QED BY <2>1, ShutRows DEF Apart
<1>4. CASE DrainHost(h) \/ RetireHost(h)
  <2> DEFINE c(r) == QuarantineHost(Served(r), h, "operator")
  <2>1. PICK r : db'.devices = c(r).devices
    <3>1. CASE DrainHost(h)
      BY <3>1 DEF DrainHost
    <3>2. CASE RetireHost(h)
      <4>1. db' = [c(<<"retire", h>>) EXCEPT !.hosts[h].retired = TRUE]
        BY <3>2 DEF RetireHost
      <4>2. Rows(c(<<"retire", h>>))
        BY <1>1, ServedOK, SafeRows, QuarantineHostOK DEF Calm
      <4> HIDE DEF c
      <4>3. db'.devices = c(<<"retire", h>>).devices
        BY <4>1, <4>2 DEF Rows, Database
      <4> QED BY <4>3
    <3> QED BY <1>4, <3>1, <3>2
  <2>2. Rows(Served(r)) /\ Served(r).devices = db.devices
    BY <1>1, ServedOK, SafeRows
  <2>3. /\ Apart(Served(r), c(r), h)
        /\ \A d \in Device : HostOf[d] = h => c(r).devices[d].state # "READY"
    BY <2>2, TakenOut
  <2> HIDE DEF c
  <2> QED BY <2>1, <2>2, <2>3, ShutRows DEF Apart
<1>5. CASE ResumeHost(h)
  <2>1. Lifts(db, db', h)
    BY <1>1, <1>5, LiftOpens DEF ResumeHost, ReleaseHostQuarantine
  <2> QED BY <2>1 DEF Lifts, Apart, Shut
<1>6. CASE RestoreHost(h)
  <2> DEFINE a == [db EXCEPT !.hosts[h].retired = FALSE]
  <2>1. Rows(a) /\ a.devices = db.devices
    BY <1>1, StopRetireQuietOK, SafeRows DEF Rows, Database
  <2>2. db' = LiftQuarantine(a, h, "operator")
    BY <1>6 DEF RestoreHost, ReleaseHostQuarantine
  <2> HIDE DEF a
  <2>3. Lifts(a, db', h)
    BY <2>1, <2>2, LiftOpens
  <2> QED BY <2>1, <2>3 DEF Lifts, Apart, Shut
<1> QED BY <1>2, <1>3, <1>4, <1>5, <1>6

LEMMA OperatorDeviceShut ==
  ASSUME Inv(db), NEW d \in Device,
         \/ OperatorQuarantine(d) \/ OperatorAsksRelease(d) \/ OperatorRelease(d)
         \/ ClearResetEscalation(d) \/ ForgetDevice(d) \/ RestoreDevice(d)
  PROVE  Shut(db, db')
<1>1. Rows(db) /\ RowOK(db.devices[d]) /\ db.devices \in [Device -> DeviceRow]
  BY DEF Inv, Rows, Database
<1>2. CASE OperatorQuarantine(d)
  <2>1. /\ JudgedRow(db'.devices[d])
        /\ \A e \in Device : e # d => db'.devices[e] = db.devices[e]
    BY <1>2, QuarantineDeviceOK DEF OperatorQuarantine
  <2> QED BY <2>1, ShutRows DEF JudgedRow
<1>3. CASE OperatorAsksRelease(d)
  <2>1. db'.devices = db.devices
    BY <1>1, <1>3 DEF OperatorAsksRelease, Asked, Rows, Database
  <2> QED BY <2>1, ShutRows
<1>4. CASE OperatorRelease(d)
  <2> DEFINE a == Served(<<"release", d>>)
  <2>1. Inv(a) /\ a.devices = db.devices
    BY <1>1, ServedOK, SafeInv
  <2>2. db' = IF db.devices[d].state = "QUARANTINED" THEN ReleaseDeviceQuarantine(a, d) ELSE a
    BY <1>4 DEF OperatorRelease
  <2> HIDE DEF a
  <2>3. CASE db.devices[d].state # "QUARANTINED"
    BY <2>1, <2>2, <2>3, ShutRows
  <2>4. CASE db.devices[d].state = "QUARANTINED"
    <3>1. db.devices[d].fence < MaxFence
      BY <1>4, <2>4 DEF OperatorRelease
    <3>2. /\ db'.devices[d].state = "PREPARING"
          /\ \A e \in Device : e # d => db'.devices[e] = db.devices[e]
      BY <2>1, <2>2, <2>4, <3>1, ReleaseDeviceQuarantineOK
    <3> QED BY <3>2, ShutRows
  <2> QED BY <2>3, <2>4
<1>5. ASSUME NEW q, q.state = db.devices[d].state, db' = [db EXCEPT !.devices[d] = q]
      PROVE  Shut(db, db')
  <2>1. db'.devices = [db.devices EXCEPT ![d] = q]
    BY <1>1, <1>5 DEF Rows, Database
  <2>2. \A e \in Device : db'.devices[e].state = db.devices[e].state
    BY <1>1, <1>5, <2>1
  <2> QED BY <2>2, ShutRows
<1>6. CASE ClearResetEscalation(d)
  <2>1. ZeroBudget(db.devices[d]).state = db.devices[d].state
    BY <1>1 DEF ZeroBudget, RowOK, DeviceRow
  <2> QED BY <1>5, <1>6, <2>1 DEF ClearResetEscalation
<1>7. CASE ForgetDevice(d) \/ RestoreDevice(d)
  <2>1. PICK hide \in BOOLEAN : db' = [db EXCEPT !.devices[d].forgotten = hide]
    BY <1>7 DEF ForgetDevice, RestoreDevice
  <2> DEFINE q == [db.devices[d] EXCEPT !.forgotten = hide]
  <2>2. db' = [db EXCEPT !.devices[d] = q] /\ q.state = db.devices[d].state
    BY <1>1, <2>1 DEF RowOK, DeviceRow
  <2> HIDE DEF q
  <2> QED BY <1>5, <2>2
<1> QED BY <1>2, <1>3, <1>4, <1>6, <1>7

-----------------------------------------------------------------------------
(* The theorems. *)

LEMMA InitInv ==
  ASSUME Init
  PROVE  /\ Inv(db)
         /\ \A d \in Device : /\ db.devices[d].state \in {"READY", "ABSENT"}
                              /\ db.devices[d].fence = 0
<1>1. PICK plugged \in SUBSET Device :
    db = [hosts |-> [h \in Host |-> [state |-> "UP", source |-> "none",
              retired |-> FALSE, stopping |-> FALSE, quiet |-> 0]],
          devices |-> [d \in Device |->
             [state |-> IF d \in plugged THEN "READY" ELSE "ABSENT",
              fence |-> 0, from |-> "none", source |-> "none",
              away |-> FALSE, forgotten |-> FALSE,
              attempts |-> 0, escalated |-> FALSE, age |-> "young",
              used |-> FALSE, listed |-> d \in plugged,
              lost |-> FALSE, orphan |-> FALSE]],
          sessions |-> [s \in Session |-> [state |-> "NONE",
              device |-> NoDevice, fence |-> 0, waited |-> FALSE]],
          asked |-> {}]
  BY DEF Init
<1>2. [state |-> "UP", source |-> "none", retired |-> FALSE, stopping |-> FALSE, quiet |-> 0]
        \in HostRow
  BY DEF HostRow
<1>3. [state |-> "NONE", device |-> NoDevice, fence |-> 0, waited |-> FALSE] \in SessionRow
  BY FleetAssumption DEF SessionRow, SessionState
<1> DEFINE row(d) ==
             [state |-> IF d \in plugged THEN "READY" ELSE "ABSENT",
              fence |-> 0, from |-> "none", source |-> "none",
              away |-> FALSE, forgotten |-> FALSE,
              attempts |-> 0, escalated |-> FALSE, age |-> "young",
              used |-> FALSE, listed |-> d \in plugged,
              lost |-> FALSE, orphan |-> FALSE]
<1>4. \A d \in Device : /\ RowOK(row(d)) /\ row(d) \in DeviceRow
                        /\ row(d).state \in {"READY", "ABSENT"} /\ row(d).fence = 0
  <2> SUFFICES ASSUME NEW d \in Device
               PROVE  /\ RowOK(row(d)) /\ row(d) \in DeviceRow
                      /\ row(d).state \in {"READY", "ABSENT"} /\ row(d).fence = 0
    OBVIOUS
  <2>1. 0 \in 0..MaxFence /\ 0 \in 0..MaxResetAttempts /\ 0 < MaxResetAttempts
    BY FleetAssumption
  <2>2. (d \in plugged) \in BOOLEAN
    OBVIOUS
  <2>3. row(d).state \in {"READY", "ABSENT"}
    BY Zenon
  <2>4. row(d) \in DeviceRow
    <3> DEFINE st == IF d \in plugged THEN "READY" ELSE "ABSENT"
               pl == d \in plugged
    <3>1. st \in DeviceState /\ pl \in BOOLEAN
      BY DEF DeviceState
    <3> HIDE DEF st, pl
    <3>2. [state |-> st, fence |-> 0, from |-> "none", source |-> "none",
           away |-> FALSE, forgotten |-> FALSE, attempts |-> 0, escalated |-> FALSE,
           age |-> "young", used |-> FALSE, listed |-> pl, lost |-> FALSE,
           orphan |-> FALSE] \in DeviceRow
      BY <2>1, <3>1, Zenon DEF DeviceRow, Age
    <3> QED BY <3>2 DEF st, pl
  <2>5. row(d).attempts = 0 /\ ~row(d).used /\ row(d).fence = 0 /\ ~row(d).orphan
    BY Zenon
  <2> HIDE DEF row
  <2>6. RowOK(row(d))
    BY <2>1, <2>3, <2>4, <2>5 DEF RowOK
  <2> QED BY <2>3, <2>4, <2>5, <2>6
<1>5. /\ db.hosts = [h \in Host |-> [state |-> "UP", source |-> "none",
                        retired |-> FALSE, stopping |-> FALSE, quiet |-> 0]]
      /\ db.devices = [d \in Device |-> row(d)]
      /\ db.sessions = [s \in Session |-> [state |-> "NONE", device |-> NoDevice, fence |-> 0, waited |-> FALSE]]
      /\ db = [hosts |-> db.hosts, devices |-> db.devices, sessions |-> db.sessions,
               asked |-> {}]
  BY <1>1
<1> HIDE DEF row
<1>6. /\ db.hosts \in [Host -> HostRow] /\ db.devices \in [Device -> DeviceRow]
      /\ db.sessions \in [Session -> SessionRow]
  BY <1>2, <1>3, <1>4, <1>5
<1>7. db \in Database
  <2>1. \A x \in [Host -> HostRow], y \in [Device -> DeviceRow], z \in [Session -> SessionRow] :
          [hosts |-> x, devices |-> y, sessions |-> z, asked |-> {}] \in Database
    BY DEF Database
  <2>2. [hosts |-> db.hosts, devices |-> db.devices, sessions |-> db.sessions, asked |-> {}]
          \in Database
    BY <1>6, <2>1
  <2> QED BY <1>5, <2>2, Zenon
<1>8. /\ \A d \in Device : /\ RowOK(db.devices[d])
                           /\ db.devices[d].state \in {"READY", "ABSENT"}
                           /\ db.devices[d].fence = 0
      /\ \A s \in Session : db.sessions[s].state = "NONE" /\ db.sessions[s].device = NoDevice
  BY <1>4, <1>5
<1>9. Rows(db) /\ HeldIn(db)
  BY <1>7, <1>8 DEF Rows, HeldIn
<1>10. CustodyIn(db) /\ FencesIn(db) /\ Unserved(db)
  BY <1>8 DEF CustodyIn, FencesIn, Unserved, Live, Leased
<1> QED BY <1>8, <1>9, <1>10 DEF Inv

LEMMA StandsRespects ==
  ASSUME NEW b, NEW c, Stands(b, c)
  PROVE  Respects(b, c)
BY DEF Stands, Respects

(* Time passes for a reset. *)
LEMMA ComeDueOK ==
  ASSUME Inv(db), NEW d \in Device, ComeDue(d)
  PROVE  Safe(db, db') /\ \A e \in Device : db'.devices[e].state = db.devices[e].state
<1> DEFINE r == db.devices[d]
           q == [r EXCEPT !.age = "due"]
<1>1. Rows(db) /\ RowOK(r)
  BY DEF Inv, Rows
<1>2. db' = [db EXCEPT !.devices[d] = q]
  BY DEF ComeDue
<1>3. q \in DeviceRow
  BY <1>1 DEF RowOK, DeviceRow, Age
<1>4. /\ q.state = r.state /\ q.source = r.source /\ q.from = r.from
      /\ q.fence = r.fence /\ q.used = r.used /\ q.lost = r.lost
      /\ q.escalated = r.escalated /\ q.attempts = r.attempts /\ q.orphan = r.orphan
  BY <1>1 DEF RowOK, DeviceRow
<1> HIDE DEF q
<1>5. RowOK(q) /\ CalmRow(r, q) /\ (HeldRow(q) => HeldRow(r))
  BY <1>1, <1>3, <1>4 DEF RowOK, CalmRow, MildRow, Owes, LetRow, JudgedRow, HeldRow, Leased
<1>6. Safe(db, db')
  BY <1>1, <1>2, <1>5, CalmSetRow DEF Safe
<1>7. db'.devices = [db.devices EXCEPT ![d] = q]
  BY <1>1, <1>2, <1>5, SetRow
<1> QED BY <1>1, <1>4, <1>6, <1>7 DEF Rows, Database

(* Every step keeps the invariant, respects every judgement and moves each   *)
(* device the way its lease may move.                                        *)
LEMMA NextInv ==
  ASSUME Inv(db), [Next]_vars
  PROVE  Inv(db') /\ Respects(db, db') /\ Promised(db, db')
<1>1. CASE Tenant
  BY <1>1, CreateSessionOK, SessionAttachOK, ReleaseDeviceOK, StandsRespects DEF Tenant
<1>2. CASE Worker
  <2>1. PICK h \in Host :
          \/ \E A, T \in SUBSET OfHost(h) : Heartbeat(h, A, T)
          \/ \E L, S, A \in SUBSET OfHost(h) : Register(h, L, S, A)
          \/ \E d \in Device, f \in 0..MaxFence :
               \/ ReportReset(h, d, f)
               \/ \E ok \in BOOLEAN : ReportRecovery(h, d, f, ok)
    BY <1>2 DEF Worker
  <2>2. CASE \E A, T \in SUBSET OfHost(h) : Heartbeat(h, A, T)
    BY <2>2, HeartbeatOK, StandsRespects
  <2>3. CASE \E L, S, A \in SUBSET OfHost(h) : Register(h, L, S, A)
    BY <2>3, RegisterOK, StandsRespects
  <2>4. CASE \E d \in Device, f \in 0..MaxFence :
               \/ ReportReset(h, d, f)
               \/ \E ok \in BOOLEAN : ReportRecovery(h, d, f, ok)
    BY <2>4, ReportsOK, StandsRespects
  <2> QED BY <2>1, <2>2, <2>3, <2>4
<1>3. CASE Operator
  BY <1>3, OperatorDeviceOK, OperatorReleaseOK, OperatorHostOK, StandsRespects DEF Operator
<1>4. CASE Clock
  <2>1. Safe(db, db')
    BY <1>4, ComeDueOK, StopRetireQuietOK DEF Clock, GoQuiet, Inv
  <2> QED BY <2>1, SafeInv, SafePromised, StandsRespects
<1>5. CASE Reaper
  BY <1>5, ReaperOK, StandsRespects
<1>6. CASE UNCHANGED vars
  <2>1. db' = db
    BY <1>6 DEF vars
  <2> QED BY <2>1 DEF Respects, Promised, PromisedAt
<1> QED BY <1>1, <1>2, <1>3, <1>4, <1>5, <1>6 DEF Next

(* No session holds two devices. *)
LEMMA HoldersDiffer ==
  ASSUME NEW b, Inv(b), NEW d \in Device, NEW e \in Device,
         HolderOf(b, d) = HolderOf(b, e)
  PROVE  d = e \/ HolderOf(b, d) = NoDevice
<1> DEFINE live(x) == {s \in Session : b.sessions[s].state \in Live /\ b.sessions[s].device = x}
<1>1. ASSUME NEW x \in Device, HolderOf(b, x) # NoDevice
      PROVE  HolderOf(b, x) \in live(x)
  <2>1. live(x) # {} /\ HolderOf(b, x) = CHOOSE s \in live(x) : TRUE
    BY <1>1 DEF HolderOf
  <2> HIDE DEF live
  <2> QED BY <2>1
<1>2. CASE HolderOf(b, d) # NoDevice
  <2>1. HolderOf(b, d) \in live(d) /\ HolderOf(b, d) \in live(e)
    BY <1>1, <1>2
  <2> QED BY <2>1
<1> QED BY <1>2

(* Init of Lease: no device has been held yet. *)
LEMMA InitLease == Init => Abstract!Init
<1> SUFFICES ASSUME Init PROVE Abstract!Init
  OBVIOUS
<1> DEFINE first(t) == [state |-> t, fence |-> 0, holder |-> NoDevice]
<1>1. Inv(db)
  BY InitInv
<1>2. ASSUME NEW d \in Device
      PROVE  \E t \in {"free", "out"} : LeaseOf(db)[d] = first(t)
  <2>1. db.devices[d].state \in {"READY", "ABSENT"} /\ db.devices[d].fence = 0
    BY InitInv
  <2>2. ~LetRow(db.devices[d]) /\ HolderOf(db, d) = NoDevice
    BY <1>1, <2>1, HolderNone DEF LetRow, Leased
  <2>3. db.devices[d].state = "ABSENT" => Owes(db.devices[d]) = "nothing"
    BY DEF Owes, LetRow, JudgedRow, Leased
  <2>4. LeaseState(db.devices[d]) \in {"free", "out"}
    BY <1>1, <2>1, <2>3, LeaseRow, StateOf
  <2>5. LeaseOf(db)[d] = first(LeaseState(db.devices[d]))
    BY <1>1, <2>1, <2>2, LeaseRow
  <2> QED BY <2>4, <2>5, Zenon
<1>3. LeaseOf(db) \in [Device -> {first(t) : t \in {"free", "out"}}]
  <2> HIDE DEF first
  <2>1. \A d \in Device : LeaseOf(db)[d] \in {first(t) : t \in {"free", "out"}}
    BY <1>2
  <2>2. LeaseOf(db) = [d \in Device |-> LeaseOf(db)[d]]
    BY DEF LeaseOf
  <2> QED BY <2>1, <2>2, Zenon
<1> QED BY <1>3 DEF Abstract!Init

(* Next of Lease: every device makes one of its moves. *)
LEMMA NextLease ==
  ASSUME Inv(db), Inv(db'), Promised(db, db')
  PROVE  Abstract!Next
<1>1. \A d \in Device : \/ LeaseOf(db)'[d] = LeaseOf(db)[d]
                        \/ LeaseOf(db)'[d] \in Abstract!Moves(LeaseOf(db)[d])
  BY DEF Promised, PromisedAt, LeaseOf, HolderOf, LeaseState, Leased, Live
<1>2. ASSUME NEW d \in Device, NEW e \in Device,
             LeaseOf(db)'[d].holder = LeaseOf(db)'[e].holder
      PROVE  d = e \/ LeaseOf(db)'[d].holder = NoDevice
  <2>1. \A x \in Device : LeaseOf(db)'[x].holder = HolderOf(db', x)
    BY DEF LeaseOf, HolderOf
  <2> QED BY <1>2, <2>1, HoldersDiffer
<1> QED BY <1>1, <1>2 DEF Abstract!Next

(* Every step, while a host is out of service. *)
LEMMA NextShut ==
  ASSUME Inv(db), [Next]_vars
  PROVE  Shut(db, db')
<1>1. CASE Tenant
  BY <1>1, TenantShut
<1>2. CASE Worker
  BY <1>2, HeartbeatShut, RegisterShut, ReportsShut DEF Worker
<1>3. CASE Operator
  BY <1>3, OperatorDeviceShut, OperatorHostShut DEF Operator
<1>4. CASE Clock
  <2>1. CASE \E h \in Host : GoQuiet(h)
    <3>1. db'.devices = db.devices
      BY <2>1 DEF GoQuiet, Inv, Rows, Database
    <3> QED BY <3>1, ShutRows
  <2>2. CASE \E d \in Device : ComeDue(d)
    BY <2>2, ComeDueOK, ShutRows
  <2> QED BY <1>4, <2>1, <2>2 DEF Clock
<1>5. CASE Reaper
  BY <1>5, ReaperOK, ShutRows
<1>6. CASE UNCHANGED vars
  BY <1>6, ShutRows DEF vars
<1> QED BY <1>1, <1>2, <1>3, <1>4, <1>5, <1>6 DEF Next

-----------------------------------------------------------------------------
(* What ends a drain. *)

Drained(x) == x.state = "QUARANTINED" /\ x.source = "operator"

(* The table of hosts is there and typed, and the requests are there ... *)
HostsOK(b) == {"hosts", "asked"} \subseteq DOMAIN b /\ b.hosts \in [Host -> HostRow]

(* ... and a write to another table leaves the hosts as they are, and no     *)
(* sweep takes one more in hand.                                             *)
SameHosts(b, c) ==
  HostsOK(b) => HostsOK(c) /\ c.hosts = b.hosts /\ Swept(c) \subseteq Swept(b)

(* No drained host of b is anything else in c. *)
KeepsDrains(b, c) ==
  HostsOK(b) => /\ HostsOK(c) /\ Swept(c) \subseteq Swept(b)
                /\ \A h \in Host : Drained(b.hosts[h]) => Drained(c.hosts[h])

LEMMA SameKeepsDrains ==
  ASSUME NEW b, NEW c, SameHosts(b, c)
  PROVE  KeepsDrains(b, c)
BY DEF SameHosts, KeepsDrains

LEMMA KeepsDrainsTrans ==
  ASSUME NEW a, NEW b, NEW c, KeepsDrains(a, b), KeepsDrains(b, c)
  PROVE  KeepsDrains(a, c)
BY DEF KeepsDrains

(* Every function that writes sessions, devices or requests only. *)
LEMMA OtherTables ==
  ASSUME NEW b
  PROVE  /\ \A f : SameHosts(b, [b EXCEPT !.devices = f])
         /\ \A f : SameHosts(b, [b EXCEPT !.sessions = f])
         /\ \A r : SameHosts(b, [b EXCEPT !.asked = @ \ {r}])
         /\ \A r : r[1] # "sweep" => SameHosts(b, [b EXCEPT !.asked = @ \cup {r}])
<1>1. \A f : SameHosts(b, [b EXCEPT !.devices = f]) /\ SameHosts(b, [b EXCEPT !.sessions = f])
  BY DEF SameHosts, HostsOK, Swept
<1>2. ASSUME NEW f, \A h \in Host : <<"sweep", h>> \in f => <<"sweep", h>> \in b.asked
      PROVE  SameHosts(b, [b EXCEPT !.asked = f])
  BY <1>2 DEF SameHosts, HostsOK, Swept
<1>3. \A r, h : r[1] # "sweep" => <<"sweep", h>> # r
  OBVIOUS
<1> QED BY <1>1, <1>2, <1>3

LEMMA SameHostsTrans ==
  ASSUME NEW a, NEW b, NEW c, SameHosts(a, b), SameHosts(b, c)
  PROVE  SameHosts(a, c)
BY DEF SameHosts

LEMMA SessionWrites ==
  ASSUME NEW b
  PROVE  /\ \A p : SameHosts(b, Reserve(b, p))
         /\ \A S : SameHosts(b, EndSessions(b, S)) /\ SameHosts(b, Recall(b, S))
         /\ \A s : SameHosts(b, Attach(b, s)) /\ SameHosts(b, AllocateQueued(b, s))
<1>1. \A p : SameHosts(b, Reserve(b, p))
  BY DEF Reserve, SameHosts, HostsOK, Swept
<1>2. \A S : SameHosts(b, EndSessions(b, S)) /\ SameHosts(b, Recall(b, S))
  BY DEF EndSessions, Recall, SameHosts, HostsOK, Swept
<1>3. \A s : SameHosts(b, Attach(b, s)) /\ SameHosts(b, AllocateQueued(b, s))
  BY DEF Attach, AllocateQueued, SameHosts, HostsOK, Swept
<1> QED BY <1>1, <1>2, <1>3

LEMMA DeviceWrites ==
  ASSUME NEW b
  PROVE  /\ \A d : /\ SameHosts(b, DeviceResetComplete(b, d))
                   /\ \A ok : SameHosts(b, FinishDeviceRecovery(b, d, ok))
                   /\ SameHosts(b, QuarantineDevice(b, d))
                   /\ SameHosts(b, ReleaseDeviceQuarantine(b, d))
         /\ \A D : /\ SameHosts(b, CountStalledResets(b, D))
                   /\ SameHosts(b, ExpireStalledRecoveries(b, D))
<1>1. ASSUME NEW d
      PROVE  /\ SameHosts(b, DeviceResetComplete(b, d))
             /\ \A ok : SameHosts(b, FinishDeviceRecovery(b, d, ok))
             /\ SameHosts(b, QuarantineDevice(b, d))
             /\ SameHosts(b, ReleaseDeviceQuarantine(b, d))
  <2>1. SameHosts(b, DeviceResetComplete(b, d))
    BY DEF DeviceResetComplete, SameHosts, HostsOK, Swept
  <2>2. \A ok : SameHosts(b, FinishDeviceRecovery(b, d, ok))
    BY DEF FinishDeviceRecovery, SameHosts, HostsOK, Swept
  <2>3. SameHosts(b, QuarantineDevice(b, d))
    BY DEF QuarantineDevice, SameHosts, HostsOK, Swept
  <2>4. SameHosts(b, ReleaseDeviceQuarantine(b, d))
    BY DEF ReleaseDeviceQuarantine, SameHosts, HostsOK, Swept
  <2> QED BY <2>1, <2>2, <2>3, <2>4
<1>2. \A D : /\ SameHosts(b, CountStalledResets(b, D))
             /\ SameHosts(b, ExpireStalledRecoveries(b, D))
  BY OtherTables DEF CountStalledResets, ExpireStalledRecoveries
<1> QED BY <1>1, <1>2

(* The devices of a host are written apart from its row. *)
LEMMA CascadeWrites ==
  ASSUME NEW b, NEW h
  PROVE  /\ SameHosts(b, Collapse(b, h)) /\ SameHosts(b, Restore(b, h))
         /\ \A A : SameHosts(b, ApplyAway(b, h, A))
         /\ \A L, S, A : SameHosts(b, Upsert(b, h, L, S, A))
         /\ \A L : SameHosts(b, Withdraw(b, h, L))
         /\ \A T : SameHosts(b, Reconcile(b, T))
BY OtherTables DEF Collapse, Restore, ApplyAway, Upsert, Withdraw, Reconcile

(* The row of one host. *)
LEMMA HostWrite ==
  ASSUME NEW b, HostsOK(b), NEW h \in Host, NEW x, x \in HostRow
  PROVE  LET c == [b EXCEPT !.hosts[h] = x]
         IN  HostsOK(c) /\ c.hosts = [b.hosts EXCEPT ![h] = x] /\ Swept(c) = Swept(b)
BY DEF HostsOK, Swept

(* A column of it that says nothing of the drain. *)
LEMMA ColumnKeepsDrains ==
  ASSUME NEW b, NEW h \in Host, NEW x,
         HostsOK(b) => /\ x \in HostRow /\ x.state = b.hosts[h].state
                       /\ x.source = b.hosts[h].source
  PROVE  KeepsDrains(b, [b EXCEPT !.hosts[h] = x])
<1> SUFFICES ASSUME HostsOK(b) PROVE KeepsDrains(b, [b EXCEPT !.hosts[h] = x])
  BY DEF KeepsDrains
<1> DEFINE c == [b EXCEPT !.hosts[h] = x]
<1>1. HostsOK(c) /\ c.hosts = [b.hosts EXCEPT ![h] = x] /\ Swept(c) = Swept(b)
  BY HostWrite
<1> HIDE DEF c
<1> QED BY <1>1 DEF KeepsDrains, Drained, HostsOK, c

(* The row of h is x now, and no other host's has changed. *)
Writes(b, c, h, x) ==
  x \in HostRow /\ HostsOK(c) /\ c.hosts = [b.hosts EXCEPT ![h] = x]
  /\ Swept(c) \subseteq Swept(b)

TakenRow(x, by) == [x EXCEPT !.state = "QUARANTINED", !.source = by]

StoppedRow(x) == [x EXCEPT !.state = "DOWN"]

BackRow(x, by) ==
  IF x.state = "QUARANTINED" /\ x.source = by
  THEN [x EXCEPT !.state = "UP", !.source = "none"] ELSE x

StartedRow(x) == IF x.state = "DOWN" THEN [x EXCEPT !.state = "UP"] ELSE x

(* What takes a host out, and what gives it back, do to its row.            *)
LEMMA WritesAre ==
  ASSUME NEW b, HostsOK(b), NEW h \in Host
  PROVE  /\ \A by \in {"reaper", "operator"} :
              Writes(b, QuarantineHost(b, h, by), h, TakenRow(b.hosts[h], by))
         /\ Writes(b, MarkHostDown(b, h), h, StoppedRow(b.hosts[h]))
         /\ \A by : Writes(b, LiftQuarantine(b, h, by), h, BackRow(b.hosts[h], by))
         /\ Writes(b, LiftHostDown(b, h), h, StartedRow(b.hosts[h]))
<1>0. b.hosts[h] \in HostRow /\ [b.hosts EXCEPT ![h] = b.hosts[h]] = b.hosts
  BY DEF HostsOK
<1>1. ASSUME NEW x \in HostRow
      PROVE  /\ Writes(b, Collapse([b EXCEPT !.hosts[h] = x], h), h, x)
             /\ Writes(b, Restore([b EXCEPT !.hosts[h] = x], h), h, x)
  <2> DEFINE a == [b EXCEPT !.hosts[h] = x]
  <2>1. HostsOK(a) /\ a.hosts = [b.hosts EXCEPT ![h] = x] /\ Swept(a) = Swept(b)
    BY HostWrite
  <2> HIDE DEF a
  <2>2. /\ HostsOK(Collapse(a, h)) /\ Collapse(a, h).hosts = a.hosts
        /\ HostsOK(Restore(a, h)) /\ Restore(a, h).hosts = a.hosts
        /\ Swept(Collapse(a, h)) \subseteq Swept(a) /\ Swept(Restore(a, h)) \subseteq Swept(a)
    BY <2>1, CascadeWrites DEF SameHosts
  <2> QED BY <2>1, <2>2 DEF Writes, a
<1>2. ASSUME NEW by \in {"reaper", "operator"}
      PROVE  Writes(b, QuarantineHost(b, h, by), h, TakenRow(b.hosts[h], by))
  <2>1. TakenRow(b.hosts[h], by) \in HostRow
    BY <1>0 DEF TakenRow, HostRow
  <2>2. QuarantineHost(b, h, by) = Collapse([b EXCEPT !.hosts[h] = TakenRow(b.hosts[h], by)], h)
    BY DEF QuarantineHost, TakenRow, HostsOK
  <2> QED BY <1>1, <2>1, <2>2
<1>3. Writes(b, MarkHostDown(b, h), h, StoppedRow(b.hosts[h]))
  <2>1. StoppedRow(b.hosts[h]) \in HostRow
    BY <1>0 DEF StoppedRow, HostRow
  <2>2. MarkHostDown(b, h) = Collapse([b EXCEPT !.hosts[h] = StoppedRow(b.hosts[h])], h)
    BY DEF MarkHostDown, StoppedRow, HostsOK
  <2> QED BY <1>1, <2>1, <2>2
<1>4. ASSUME NEW by
      PROVE  Writes(b, LiftQuarantine(b, h, by), h, BackRow(b.hosts[h], by))
  <2>1. CASE b.hosts[h].state = "QUARANTINED" /\ b.hosts[h].source = by
    <3>1. BackRow(b.hosts[h], by) \in HostRow
      BY <1>0 DEF BackRow, HostRow
    <3>2. LiftQuarantine(b, h, by) = Restore([b EXCEPT !.hosts[h] = BackRow(b.hosts[h], by)], h)
      BY <2>1 DEF LiftQuarantine, BackRow, HostsOK
    <3> QED BY <1>1, <3>1, <3>2
  <2>2. CASE ~(b.hosts[h].state = "QUARANTINED" /\ b.hosts[h].source = by)
    BY <1>0, <2>2 DEF LiftQuarantine, BackRow, Writes
  <2> QED BY <2>1, <2>2
<1>5. Writes(b, LiftHostDown(b, h), h, StartedRow(b.hosts[h]))
  <2>1. CASE b.hosts[h].state = "DOWN"
    <3>1. StartedRow(b.hosts[h]) \in HostRow
      BY <1>0 DEF StartedRow, HostRow
    <3>2. LiftHostDown(b, h) = Restore([b EXCEPT !.hosts[h] = StartedRow(b.hosts[h])], h)
      BY <2>1 DEF LiftHostDown, StartedRow, HostsOK
    <3> QED BY <1>1, <3>1, <3>2
  <2>2. CASE b.hosts[h].state # "DOWN"
    BY <1>0, <2>2 DEF LiftHostDown, StartedRow, Writes
  <2> QED BY <2>1, <2>2
<1> QED BY <1>2, <1>3, <1>4, <1>5

LEMMA WritesKeepDrains ==
  ASSUME NEW b, NEW c, NEW h \in Host, NEW x,
         HostsOK(b) => Writes(b, c, h, x) /\ (Drained(b.hosts[h]) => Drained(x))
  PROVE  KeepsDrains(b, c)
BY DEF KeepsDrains, Writes, HostsOK

(* A beat lifts a silence or an old stop, and no drain. *)
LEMMA HeartbeatKeepsDrains ==
  ASSUME NEW h \in Host, NEW A, NEW T, Heartbeat(h, A, T)
  PROVE  KeepsDrains(db, db')
<1> SUFFICES ASSUME HostsOK(db) PROVE KeepsDrains(db, db')
  BY DEF KeepsDrains
<1> DEFINE x == [db.hosts[h] EXCEPT !.quiet = 0]
           heard == [db EXCEPT !.hosts[h] = x]
           lifted == CASE heard.hosts[h].state = "DOWN" /\ ~heard.hosts[h].stopping
                            -> LiftHostDown(heard, h)
                       [] heard.hosts[h].state = "QUARANTINED"
                            -> ClearSilenceQuarantine(heard, h)
                       [] OTHER -> heard
           agreed == Reconcile(lifted, T)
<1>1. heard = [db EXCEPT !.hosts[h].quiet = 0]
  BY DEF HostsOK
<1>2. db' = agreed \/ db' = ApplyAway(agreed, h, A)
  BY <1>1 DEF Heartbeat
<1>3. x \in HostRow /\ x.state = db.hosts[h].state /\ x.source = db.hosts[h].source
  BY DEF HostsOK, HostRow
<1> HIDE DEF x
<1>4. KeepsDrains(db, heard) /\ HostsOK(heard)
  BY <1>3, ColumnKeepsDrains DEF KeepsDrains
<1> HIDE DEF heard
<1>5. KeepsDrains(heard, lifted)
  <2>1. KeepsDrains(heard, LiftHostDown(heard, h))
    <3>1. Drained(heard.hosts[h]) => Drained(StartedRow(heard.hosts[h]))
      BY DEF Drained, StartedRow
    <3> QED BY <1>4, <3>1, WritesAre, WritesKeepDrains
  <2>2. KeepsDrains(heard, ClearSilenceQuarantine(heard, h))
    <3>1. Drained(heard.hosts[h]) => Drained(BackRow(heard.hosts[h], "reaper"))
      BY DEF Drained, BackRow
    <3> QED BY <1>4, <3>1, WritesAre, WritesKeepDrains DEF ClearSilenceQuarantine
  <2>3. KeepsDrains(heard, heard)
    BY DEF KeepsDrains
  <2> QED BY <2>1, <2>2, <2>3
<1> HIDE DEF lifted
<1>6. KeepsDrains(lifted, agreed)
  BY CascadeWrites, SameKeepsDrains
<1> HIDE DEF agreed
<1>7. KeepsDrains(agreed, db')
  BY <1>2, CascadeWrites, SameKeepsDrains DEF KeepsDrains
<1> QED BY <1>4, <1>5, <1>6, <1>7, KeepsDrainsTrans

(* A registration takes a retirement back, and with it the drain that the    *)
(* retirement was; no other drain is lifted by one.                          *)
LEMMA WelcomeWrites ==
  ASSUME NEW b, HostsOK(b), NEW h \in Host
  PROVE  \E x : /\ Writes(b, Welcome(b, h), h, x)
                /\ ~x.retired
                /\ Drained(b.hosts[h]) /\ ~b.hosts[h].retired => Drained(x)
<1> DEFINE before == b.hosts[h]
           x1 == [before EXCEPT !.quiet = 0, !.retired = FALSE]
           seen == [b EXCEPT !.hosts[h] = x1]
           lifted == IF before.state = "DOWN" THEN LiftHostDown(seen, h) ELSE seen
           cleared == IF before.state = "QUARANTINED" /\ before.source = "reaper"
                      THEN ClearSilenceQuarantine(lifted, h) ELSE lifted
           x2 == IF before.state = "DOWN" THEN StartedRow(x1) ELSE x1
           x3 == IF before.state = "QUARANTINED" /\ before.source = "reaper"
                 THEN BackRow(x2, "reaper") ELSE x2
           x4 == IF before.retired /\ before.state = "QUARANTINED" /\ before.source = "operator"
                 THEN BackRow(x3, "operator") ELSE x3
<1>1. Welcome(b, h) = IF before.retired /\ before.state = "QUARANTINED" /\ before.source = "operator"
                      THEN ReleaseHostQuarantine(cleared, h) ELSE cleared
  BY DEF Welcome, HostsOK
<1>2. before \in HostRow
  BY DEF HostsOK
<1>3. /\ x1 \in HostRow /\ ~x1.retired
      /\ x1.state = before.state /\ x1.source = before.source
  <2> DEFINE y == [before EXCEPT !.quiet = 0]
  <2>1. y \in HostRow /\ y.state = before.state /\ y.source = before.source
    BY <1>2 DEF HostRow
  <2>2. x1 = [y EXCEPT !.retired = FALSE]
    OBVIOUS
  <2> HIDE DEF y, x1
  <2> QED BY <2>1, <2>2 DEF HostRow
<1> HIDE DEF x1
<1>4. Writes(b, seen, h, x1)
  BY <1>3, HostWrite DEF Writes
<1> HIDE DEF seen
<1>5. ASSUME NEW p, NEW q, NEW x, NEW y, Writes(b, p, h, x), Writes(p, q, h, y)
      PROVE  Writes(b, q, h, y) /\ p.hosts[h] = x
  BY <1>5 DEF Writes, HostsOK
<1>6. Writes(b, lifted, h, x2) /\ ~x2.retired
      /\ (before.state = "QUARANTINED" => x2 = x1)
  <2>1. HostsOK(seen) /\ seen.hosts[h] = x1
    BY <1>4 DEF Writes, HostsOK
  <2>2. Writes(seen, LiftHostDown(seen, h), h, StartedRow(x1))
    BY <2>1, WritesAre
  <2>3. Writes(b, LiftHostDown(seen, h), h, StartedRow(x1))
    BY <1>4, <1>5, <2>2
  <2>4. ~StartedRow(x1).retired
    BY <1>3 DEF StartedRow, HostRow
  <2> QED BY <1>3, <1>4, <2>3, <2>4
<1> HIDE DEF lifted, x2
<1>7. Writes(b, cleared, h, x3) /\ ~x3.retired
      /\ (before.state = "QUARANTINED" /\ before.source = "operator" => x3 = x1)
  <2>1. HostsOK(lifted) /\ lifted.hosts[h] = x2 /\ x2 \in HostRow
    BY <1>6 DEF Writes, HostsOK
  <2>2. Writes(lifted, ClearSilenceQuarantine(lifted, h), h, BackRow(x2, "reaper"))
    BY <2>1, WritesAre DEF ClearSilenceQuarantine
  <2>3. Writes(b, ClearSilenceQuarantine(lifted, h), h, BackRow(x2, "reaper"))
    BY <1>5, <1>6, <2>2
  <2>4. ~BackRow(x2, "reaper").retired
    BY <1>6, <2>1 DEF BackRow, HostRow
  <2> QED BY <1>6, <2>3, <2>4
<1> HIDE DEF cleared, x3
<1>8. Writes(b, Welcome(b, h), h, x4) /\ ~x4.retired
      /\ (Drained(before) /\ ~before.retired => Drained(x4))
  <2>1. HostsOK(cleared) /\ cleared.hosts[h] = x3 /\ x3 \in HostRow
    BY <1>7 DEF Writes, HostsOK
  <2>2. Writes(cleared, ReleaseHostQuarantine(cleared, h), h, BackRow(x3, "operator"))
    BY <2>1, WritesAre DEF ReleaseHostQuarantine
  <2>3. Writes(b, ReleaseHostQuarantine(cleared, h), h, BackRow(x3, "operator"))
    BY <1>5, <1>7, <2>2
  <2>4. ~BackRow(x3, "operator").retired
    BY <1>7, <2>1 DEF BackRow, HostRow
  <2> QED BY <1>1, <1>3, <1>7, <2>3, <2>4 DEF Drained
<1> HIDE DEF x4
<1> QED BY <1>8

LEMMA RegisterDrains ==
  ASSUME HostsOK(db), NEW h \in Host, NEW L, NEW S, NEW A, Register(h, L, S, A)
  PROVE  /\ Swept(db') \subseteq Swept(db)
         /\ \A g \in Host : Drained(db.hosts[g]) =>
              \/ Drained(db'.hosts[g])
              \/ db.hosts[g].retired /\ ~db'.hosts[g].retired
<1> DEFINE back == Welcome(db, h)
           upserted == Upsert(back, h, L, S, A)
           held == Requarantine(upserted, h)
<1>1. db' = Withdraw(held, h, L)
  BY DEF Register
<1>2. PICK x : /\ Writes(db, back, h, x) /\ ~x.retired
               /\ Drained(db.hosts[h]) /\ ~db.hosts[h].retired => Drained(x)
  BY WelcomeWrites
<1> HIDE DEF back
<1>3. HostsOK(back) /\ back.hosts[h] = x /\ x \in HostRow
  BY <1>2 DEF Writes, HostsOK
<1>4. HostsOK(upserted) /\ upserted.hosts = back.hosts /\ Swept(upserted) \subseteq Swept(back)
  <2>1. SameHosts(back, upserted)
    BY CascadeWrites
  <2> HIDE DEF upserted
  <2> QED BY <1>3, <2>1 DEF SameHosts
<1> HIDE DEF upserted
<1>5. \E y : Writes(upserted, held, h, y) /\ ~y.retired /\ (Drained(x) => Drained(y))
  <2>1. CASE upserted.hosts[h].state # "QUARANTINED"
    <3>1. held = upserted /\ Writes(upserted, upserted, h, x)
      BY <1>3, <1>4, <2>1 DEF Requarantine, Writes, HostsOK
    <3> QED BY <1>2, <3>1
  <2>2. CASE upserted.hosts[h].state = "QUARANTINED"
    <3> DEFINE by == IF upserted.hosts[h].source = "reaper" THEN "reaper" ELSE "operator"
    <3>1. held = QuarantineHost(upserted, h, by)
      BY <2>2 DEF Requarantine
    <3>2. by \in {"reaper", "operator"} /\ (Drained(x) => by = "operator")
      BY <1>3, <1>4 DEF Drained
    <3> HIDE DEF by
    <3>3. Writes(upserted, held, h, TakenRow(x, by))
      BY <1>3, <1>4, <3>1, <3>2, WritesAre
    <3>4. ~TakenRow(x, by).retired /\ (Drained(x) => Drained(TakenRow(x, by)))
      BY <1>2, <1>3, <3>2 DEF TakenRow, HostRow, Drained
    <3> QED BY <3>3, <3>4
  <2> QED BY <2>1, <2>2
<1>6. PICK y : Writes(upserted, held, h, y) /\ ~y.retired /\ (Drained(x) => Drained(y))
  BY <1>5
<1> HIDE DEF held
<1>7. HostsOK(held) => db'.hosts = held.hosts /\ Swept(db') \subseteq Swept(held)
  BY <1>1, CascadeWrites DEF SameHosts
<1>8. db'.hosts = [[db.hosts EXCEPT ![h] = x] EXCEPT ![h] = y]
  BY <1>2, <1>4, <1>6, <1>7 DEF Writes
<1>9. Swept(db') \subseteq Swept(db)
  BY <1>2, <1>4, <1>6, <1>7 DEF Writes
<1> QED BY <1>2, <1>6, <1>8, <1>9 DEF HostsOK

LEMMA TenantSameHosts ==
  ASSUME Tenant
  PROVE  SameHosts(db, db')
<1> PICK s \in Session : \/ CreateSession(s) \/ ReleaseDevice(s)
                         \/ \E f \in 0..MaxFence : SessionAttach(s, f)
  BY DEF Tenant
<1> QED BY SessionWrites DEF CreateSession, ReleaseDevice, SessionAttach

LEMMA ReportsSameHosts ==
  ASSUME NEW h \in Host, NEW d \in Device, NEW f \in 0..MaxFence,
         ReportReset(h, d, f) \/ \E ok \in BOOLEAN : ReportRecovery(h, d, f, ok)
  PROVE  SameHosts(db, db')
BY DeviceWrites DEF ReportReset, ReportRecovery

LEMMA OperatorDeviceSameHosts ==
  ASSUME NEW d \in Device,
         \/ OperatorQuarantine(d) \/ OperatorAsksRelease(d) \/ OperatorRelease(d)
         \/ ClearResetEscalation(d) \/ ForgetDevice(d) \/ RestoreDevice(d)
  PROVE  SameHosts(db, db')
<1>1. CASE OperatorQuarantine(d)
  BY <1>1, DeviceWrites DEF OperatorQuarantine
<1>2. CASE OperatorAsksRelease(d)
  BY <1>2, OtherTables DEF OperatorAsksRelease, Asked
<1>3. CASE OperatorRelease(d)
  <2>1. SameHosts(db, Served(<<"release", d>>))
    BY OtherTables DEF Served
  <2> QED BY <1>3, <2>1, DeviceWrites, SameHostsTrans DEF OperatorRelease
<1>4. CASE ClearResetEscalation(d)
  BY <1>4 DEF ClearResetEscalation, SameHosts, HostsOK, Swept
<1>5. CASE ForgetDevice(d) \/ RestoreDevice(d)
  BY <1>5 DEF ForgetDevice, RestoreDevice, SameHosts, HostsOK, Swept
<1> QED BY <1>1, <1>2, <1>3, <1>4, <1>5

LEMMA RetiredColumn ==
  ASSUME NEW b, HostsOK(b), NEW h \in Host
  PROVE  LET x == [b.hosts[h] EXCEPT !.retired = TRUE]
         IN  /\ [b EXCEPT !.hosts[h].retired = TRUE] = [b EXCEPT !.hosts[h] = x]
             /\ x \in HostRow /\ x.state = b.hosts[h].state /\ x.source = b.hosts[h].source
<1>1. b.hosts[h] \in HostRow
  BY DEF HostsOK
<1>2. LET x == [b.hosts[h] EXCEPT !.retired = TRUE]
      IN  x \in HostRow /\ x.state = b.hosts[h].state /\ x.source = b.hosts[h].source
  BY <1>1 DEF HostRow
<1>3. [b EXCEPT !.hosts[h].retired = TRUE]
        = [b EXCEPT !.hosts[h] = [b.hosts[h] EXCEPT !.retired = TRUE]]
  BY DEF HostsOK
<1> QED BY <1>2, <1>3

(* An operator's word on a host: drains are kept but for a resume, a stop    *)
(* that is being taken and a retirement taken back.                          *)
LEMMA OperatorHostDrains ==
  ASSUME HostsOK(db), NEW h \in Host,
         \/ OperatorAsksDrain(h) \/ DrainHost(h) \/ ResumeHost(h)
         \/ StopRequested(h) \/ StopTaken(h) \/ StopOver(h)
         \/ OperatorAsksRetire(h) \/ RetireHost(h) \/ RestoreHost(h)
  PROVE  /\ Swept(db') \subseteq Swept(db)
         /\ \A g \in Host : Drained(db.hosts[g]) =>
              \/ Drained(db'.hosts[g])
              \/ db'.hosts[g].state = "DOWN" /\ db.hosts[g].stopping
              \/ ResumeHost(g)
              \/ db.hosts[g].retired /\ ~db'.hosts[g].retired
<1>0. db.hosts[h] \in HostRow
  BY DEF HostsOK
<1>1. CASE OperatorAsksDrain(h) \/ OperatorAsksRetire(h)
  <2>1. \A what \in {"drain", "retire"} : SameHosts(db, Asked(<<what, h>>))
    <3>1. \A what \in {"drain", "retire"} : <<what, h>>[1] # "sweep"
      OBVIOUS
    <3> QED BY <3>1, OtherTables DEF Asked
  <2>2. SameHosts(db, db')
    BY <1>1, <2>1 DEF OperatorAsksDrain, OperatorAsksRetire
  <2> QED BY <2>2 DEF SameHosts
<1>2. CASE StopRequested(h) \/ StopOver(h)
  <2>1. PICK v \in BOOLEAN : db' = [db EXCEPT !.hosts[h].stopping = v]
    BY <1>2 DEF StopRequested, StopOver
  <2> DEFINE x == [db.hosts[h] EXCEPT !.stopping = v]
  <2>2. x \in HostRow /\ x.state = db.hosts[h].state /\ x.source = db.hosts[h].source
    BY <1>0 DEF HostRow
  <2>3. db' = [db EXCEPT !.hosts[h] = x]
    BY <2>1 DEF HostsOK
  <2> HIDE DEF x
  <2> QED BY <2>2, <2>3, ColumnKeepsDrains DEF KeepsDrains
<1>3. CASE DrainHost(h) \/ RetireHost(h)
  <2>1. ASSUME NEW r
        PROVE  KeepsDrains(db, QuarantineHost(Served(r), h, "operator"))
    <3>1. HostsOK(Served(r)) /\ Served(r).hosts = db.hosts /\ Swept(Served(r)) \subseteq Swept(db)
      BY OtherTables DEF Served, SameHosts
    <3>2. Drained(TakenRow(db.hosts[h], "operator"))
      BY <1>0 DEF TakenRow, HostRow, Drained
    <3>3. KeepsDrains(Served(r), QuarantineHost(Served(r), h, "operator"))
      BY <3>1, <3>2, WritesAre, WritesKeepDrains
    <3> QED BY <3>1, <3>3 DEF KeepsDrains
  <2>2. CASE DrainHost(h)
    BY <2>1, <2>2 DEF DrainHost, KeepsDrains
  <2>3. CASE RetireHost(h)
    <3> DEFINE c == QuarantineHost(Served(<<"retire", h>>), h, "operator")
               x == [c.hosts[h] EXCEPT !.retired = TRUE]
    <3>1. KeepsDrains(db, c) /\ HostsOK(c)
      BY <2>1 DEF KeepsDrains
    <3>2. db' = [c EXCEPT !.hosts[h].retired = TRUE]
      BY <2>3 DEF RetireHost
    <3> HIDE DEF c
    <3>3. /\ db' = [c EXCEPT !.hosts[h] = x]
          /\ x \in HostRow /\ x.state = c.hosts[h].state /\ x.source = c.hosts[h].source
      BY <3>1, <3>2, RetiredColumn
    <3> HIDE DEF x
    <3>4. KeepsDrains(c, db')
      BY <3>3, ColumnKeepsDrains
    <3> QED BY <3>1, <3>4 DEF KeepsDrains
  <2> QED BY <1>3, <2>2, <2>3
<1>4. CASE ResumeHost(h)
  <2>1. Writes(db, db', h, BackRow(db.hosts[h], "operator"))
    BY <1>4, WritesAre DEF ResumeHost, ReleaseHostQuarantine
  <2> QED BY <1>4, <2>1 DEF Writes, HostsOK
<1>5. CASE StopTaken(h)
  <2>1. Writes(db, db', h, StoppedRow(db.hosts[h])) /\ db.hosts[h].stopping
    BY <1>5, WritesAre DEF StopTaken
  <2>2. StoppedRow(db.hosts[h]).state = "DOWN"
    BY <1>0 DEF StoppedRow, HostRow
  <2> QED BY <2>1, <2>2 DEF Writes, HostsOK
<1>6. CASE RestoreHost(h)
  <2> DEFINE x == [db.hosts[h] EXCEPT !.retired = FALSE]
             a == [db EXCEPT !.hosts[h] = x]
  <2>1. x \in HostRow /\ ~x.retired /\ db.hosts[h].retired
    BY <1>0, <1>6 DEF RestoreHost, HostRow
  <2>2. db' = LiftQuarantine(a, h, "operator")
    BY <1>6 DEF RestoreHost, ReleaseHostQuarantine, HostsOK
  <2> HIDE DEF x
  <2>3. HostsOK(a) /\ a.hosts = [db.hosts EXCEPT ![h] = x] /\ Swept(a) = Swept(db)
    BY <2>1, HostWrite
  <2> HIDE DEF a
  <2>4. a.hosts[h] = x
    BY <2>3 DEF HostsOK
  <2>5. Writes(a, db', h, BackRow(x, "operator"))
    BY <2>2, <2>3, <2>4, WritesAre
  <2>6. ~BackRow(x, "operator").retired
    BY <2>1 DEF BackRow, HostRow
  <2> QED BY <2>1, <2>3, <2>5, <2>6 DEF Writes, HostsOK
<1> QED BY <1>1, <1>2, <1>3, <1>4, <1>5, <1>6

(* The sweep reads only hosts that are UP, and the tick after it takes only  *)
(* those that it read.                                                       *)
LEMMA ReaperDrains ==
  ASSUME HostsOK(db), Reaper, NEW h \in Host, Drained(db.hosts[h])
  PROVE  /\ \/ Drained(db'.hosts[h])
            \/ /\ h \in Swept(db)
               /\ db'.hosts[h].state = "QUARANTINED" /\ db'.hosts[h].source = "reaper"
         /\ h \in Swept(db') => h \in Swept(db)
<1>1. CASE SweepReads
  <2>1. /\ db'.hosts = db.hosts
        /\ db'.asked = db.asked \cup ({"sweep"} \X Silent(db))
    BY <1>1 DEF SweepReads, HostsOK
  <2>2. h \notin Silent(db)
    BY DEF Silent, Drained
  <2> QED BY <2>1, <2>2 DEF Swept
<1>2. CASE ~SweepReads
  <2>1. PICK E, I, p, D, R : Reap(E, I, p, D, R)
    BY <1>2 DEF Reaper
  <2> DEFINE counted == CountStalledResets(Promoted(E, I, p), D)
             failed == ExpireStalledRecoveries(counted, R)
  <2>2. PICK H \in {{}, Swept(db)} : db' = SweepHosts(failed, H)
    BY <2>1 DEF Reap
  <2>3. SameHosts(db, Promoted(E, I, p))
    BY SessionWrites, SameHostsTrans
       DEF Promoted, Ended, ExpireSessions, ExpireIdleWebDriverSessions
  <2>4. SameHosts(Promoted(E, I, p), counted) /\ SameHosts(counted, failed)
    BY DeviceWrites
  <2> HIDE DEF counted
  <2>5. SameHosts(db, failed)
    BY <2>3, <2>4, SameHostsTrans
  <2> HIDE DEF failed
  <2>6. /\ db'.hosts = [g \in Host |-> IF g \in H
               THEN [failed.hosts[g] EXCEPT !.state = "QUARANTINED", !.source = "reaper"]
               ELSE failed.hosts[g]]
        /\ db'.asked = failed.asked \ ({"sweep"} \X H)
    BY <2>2, <2>5 DEF SweepHosts, SameHosts, HostsOK
  <2>7. Swept(db') \subseteq Swept(db)
    BY <2>5, <2>6 DEF SameHosts, Swept
  <2>8. CASE h \in H
    <3>1. failed.hosts[h] \in HostRow /\ h \in Swept(db)
      BY <2>2, <2>5, <2>8 DEF SameHosts, HostsOK
    <3> QED BY <2>6, <2>7, <2>8, <3>1 DEF HostRow
  <2>9. CASE h \notin H
    BY <2>5, <2>6, <2>7, <2>9 DEF SameHosts
  <2> QED BY <2>8, <2>9
<1> QED BY <1>1, <1>2

(* The inductive invariant holds of every reachable database. *)
THEOREM Invariance == Spec => []Inv(db)
<1>1. Inv(db) /\ [Next]_vars => Inv(db)'
  BY NextInv
<1> QED BY <1>1, InitInv, PTL DEF Spec

(* For any fleet, any tenants and any bounds, every row keeps the columns    *)
(* its table declares: no fence, budget or state leaves its range.           *)
THEOREM TypeCorrect == Spec => []TypeOK
<1>1. Inv(db) => TypeOK
  BY DEF Inv, Rows, TypeOK
<1> QED BY <1>1, Invariance, PTL

(* The two rows of a lease never disagree, whatever requests, reports,       *)
(* quarantines and ticks of the reaper interleave.                           *)
THEOREM CustodyHolds == Spec => []Custody
<1>1. Inv(db) => Custody
  BY DEF Inv, Custody
<1> QED BY <1>1, Invariance, PTL

(* A device and a fence name at most one session, over the whole history.    *)
THEOREM FenceIsUnique == Spec => []FenceNamesOneSession
<1>1. Inv(db) => FenceNamesOneSession
  BY DEF Inv, FenceNamesOneSession
<1> QED BY <1>1, Invariance, PTL

(* No READY device carries a tenant's data, but for one a registration       *)
(* withdrew from under its host's quarantine.                                *)
THEOREM PoolIsClean == Spec => []CleanUnlessWithdrawn
<1>1. Inv(db) => CleanUnlessWithdrawn
  BY DEF Inv, Rows, RowOK, CleanUnlessWithdrawn
<1> QED BY <1>1, Invariance, PTL

(* A device held by its host's cascade is one its host will give back.       *)
THEOREM NothingStranded == Spec => []NoDeviceStranded
<1>1. Inv(db) => NoDeviceStranded
  BY DEF Inv, NoDeviceStranded
<1> QED BY <1>1, Invariance, PTL

(* A person's or a health check's quarantine of a device is left only by an  *)
(* authorised recovery at a new fence.                                       *)
THEOREM JudgementIsKept == Spec => JudgementStands
<1> DEFINE Keeps ==
      \A d \in Device :
        LET r == db.devices[d]
            q == db'.devices[d]
        IN  r.state = "QUARANTINED" /\ r.source \in {"operator", "health"} =>
              \/ q.state = "QUARANTINED" /\ q.source = r.source
              \/ q.state = "PREPARING" /\ q.fence > r.fence
<1>1. Inv(db) /\ [Next]_vars => [Keeps]_vars
  <2> SUFFICES ASSUME Inv(db), [Next]_vars PROVE Keeps
    OBVIOUS
  <2> QED BY NextInv DEF Respects, JudgedRow
<1> HIDE DEF Keeps
<1>2. Spec => [][Keeps]_vars
  BY <1>1, Invariance, PTL DEF Spec
<1> QED BY <1>2 DEF JudgementStands, Keeps

(* Fleet implements Lease: whatever routes, reports, sweeps and registrations *)
(* write, and however many functions one transaction of theirs composes, a    *)
(* device has one tenant at a time, each at a fence of its own, and a reset   *)
(* or a recovery between two of them.                                         *)
THEOREM LeaseIsKept == Spec => LeaseHolds
<1>1. Inv(db) /\ [Next]_vars => [Abstract!Next]_(LeaseOf(db))
  <2> SUFFICES ASSUME Inv(db), [Next]_vars PROVE Abstract!Next
    OBVIOUS
  <2> QED BY NextInv, NextLease
<1>2. Spec => [][Abstract!Next]_(LeaseOf(db))
  BY <1>1, Invariance, PTL DEF Spec
<1>3. Spec => Abstract!Init
  BY InitLease DEF Spec
<1> QED BY <1>2, <1>3, PTL DEF LeaseHolds, Abstract!Spec

(* A drain ends with a person's word, or with a registration of a host that  *)
(* a person had retired: no beat, silence or other registration lifts it, or *)
(* makes of it a quarantine that lifts itself.  A sweep does, if it had read *)
(* the host as silent before the drain; none reads a drained one.            *)
THEOREM DrainIsKept == Spec => DrainStands
<1> DEFINE Given ==
      \A h \in Host :
        LET x == db.hosts[h]
            y == db'.hosts[h]
        IN  x.state = "QUARANTINED" /\ x.source = "operator" =>
              /\ \/ y.state = "QUARANTINED" /\ y.source = "operator"
                 \/ y.state = "DOWN" /\ x.stopping
                 \/ ResumeHost(h)
                 \/ x.retired /\ ~y.retired
                 \/ /\ h \in Swept(db)
                    /\ y.state = "QUARANTINED" /\ y.source = "reaper"
              /\ h \in Swept(db') => h \in Swept(db)
<1>1. Inv(db) /\ [Next]_vars => [Given]_vars
  <2> SUFFICES ASSUME Inv(db), Next PROVE Given
    BY DEF vars
  <2>1. HostsOK(db)
    BY DEF Inv, Rows, Database, HostsOK
  <2>2. KeepsDrains(db, db') => Given
    BY <2>1 DEF KeepsDrains, Drained
  <2>3. CASE Tenant
    BY <2>2, <2>3, TenantSameHosts, SameKeepsDrains
  <2>4. CASE Worker
    <3>1. PICK h \in Host :
            \/ \E A, T \in SUBSET OfHost(h) : Heartbeat(h, A, T)
            \/ \E L, S, A \in SUBSET OfHost(h) : Register(h, L, S, A)
            \/ \E d \in Device, f \in 0..MaxFence :
                 ReportReset(h, d, f) \/ \E ok \in BOOLEAN : ReportRecovery(h, d, f, ok)
      BY <2>4 DEF Worker
    <3>2. CASE \E A, T \in SUBSET OfHost(h) : Heartbeat(h, A, T)
      BY <2>2, <3>2, HeartbeatKeepsDrains
    <3>3. CASE \E L, S, A \in SUBSET OfHost(h) : Register(h, L, S, A)
      BY <2>1, <3>3, RegisterDrains DEF Drained
    <3>4. CASE \E d \in Device, f \in 0..MaxFence :
                 ReportReset(h, d, f) \/ \E ok \in BOOLEAN : ReportRecovery(h, d, f, ok)
      BY <2>2, <3>4, ReportsSameHosts, SameKeepsDrains
    <3> QED BY <3>1, <3>2, <3>3, <3>4
  <2>5. CASE Operator
    <3>1. CASE \E d \in Device :
                 \/ OperatorQuarantine(d) \/ OperatorAsksRelease(d) \/ OperatorRelease(d)
                 \/ ClearResetEscalation(d) \/ ForgetDevice(d) \/ RestoreDevice(d)
      BY <2>2, <3>1, OperatorDeviceSameHosts, SameKeepsDrains
    <3>2. CASE \E h \in Host :
                 \/ OperatorAsksDrain(h) \/ DrainHost(h) \/ ResumeHost(h)
                 \/ StopRequested(h) \/ StopTaken(h) \/ StopOver(h)
                 \/ OperatorAsksRetire(h) \/ RetireHost(h) \/ RestoreHost(h)
      BY <2>1, <3>2, OperatorHostDrains DEF Drained
    <3> QED BY <2>5, <3>1, <3>2 DEF Operator
  <2>6. CASE Clock
    <3>1. CASE \E h \in Host : GoQuiet(h)
      <4>1. PICK h \in Host : GoQuiet(h)
        BY <3>1
      <4> DEFINE x == [db.hosts[h] EXCEPT !.quiet = @ + 1]
      <4>2. db' = [db EXCEPT !.hosts[h] = x]
        BY <2>1, <4>1 DEF GoQuiet, HostsOK
      <4>3. x \in HostRow /\ x.state = db.hosts[h].state /\ x.source = db.hosts[h].source
        BY <2>1, <4>1 DEF GoQuiet, HostsOK, HostRow
      <4> HIDE DEF x
      <4> QED BY <2>2, <4>2, <4>3, ColumnKeepsDrains
    <3>2. CASE \E d \in Device : ComeDue(d)
      <4>1. SameHosts(db, db')
        BY <3>2 DEF ComeDue, SameHosts, HostsOK, Swept
      <4> QED BY <2>2, <4>1, SameKeepsDrains
    <3> QED BY <2>6, <3>1, <3>2 DEF Clock
  <2>7. CASE Reaper
    BY <2>1, <2>7, ReaperDrains DEF Drained
  <2> QED BY <2>3, <2>4, <2>5, <2>6, <2>7 DEF Next
<1> HIDE DEF Given
<1>2. Spec => [][Given]_vars
  BY <1>1, Invariance, PTL DEF Spec
<1> QED BY <1>2 DEF DrainStands, Given

(* A host that stays out of service gives the pool nothing but the devices   *)
(* whose lease outlived the decision, and no registration or beat of it can  *)
(* slip a new or a held one in.                                              *)
THEOREM OutMeansOut == Spec => OutOfServiceGivesNothing
<1> DEFINE Given ==
      \A d \in Device :
        LET h == HostOf[d]
            r == db.devices[d]
        IN  /\ db.hosts[h].state # "UP" /\ db'.hosts[h].state # "UP"
            /\ r.state # "READY" /\ db'.devices[d].state = "READY"
            => r.state \in {"CLEANING", "PREPARING"} \/ (r.state = "OFFLINE" /\ r.away)
<1>1. Inv(db) /\ [Next]_vars => [Given]_vars
  <2> SUFFICES ASSUME Inv(db), [Next]_vars PROVE Given
    OBVIOUS
  <2> QED BY NextShut DEF Shut
<1> HIDE DEF Given
<1>2. Spec => [][Given]_vars
  BY <1>1, Invariance, PTL DEF Spec
<1> QED BY <1>2 DEF OutOfServiceGivesNothing, Given

=============================================================================
