-------------------------- MODULE AppActionsProofs --------------------------
(* Theorems about AppActions, for any number of requests, leases and loops. *)
EXTENDS AppActions, FiniteSetTheorems, TLAPS

(* The lease of an action is over as far as the agent may know. *)
Retiree(a) == rows[a].fence < fence \/ (rows[a].fence = fence /\ stage = "reset")

(* What a loop has ahead of it, of a lease that was retired, is refused ...   *)
Refused == \A l \in Loop : \A a \in Held(l) : Retiree(a) => rows[a].fence < high

(* ... and what is under way was so when it was retired.                      *)
Caught == \A a \in Running : Retiree(a) => a \in caught

(* Loop l performs action a. *)
Performs(l, a) == loops[l].at = "running" /\ Head(loops[l].todo) = a

(* One loop at a time performs an action, and none while its outcome waits;   *)
(* only one outcome of an action waits.                                       *)
Once ==
  /\ \A k, l \in Loop : \A a \in Running : Performs(k, a) /\ Performs(l, a) => k = l
  /\ \A r \in pending : r.action \notin Running
  /\ \A r, q \in pending : r.action = q.action => r = q

(* An action that was performed is not taken up again, unless its outcome was *)
(* let go of: its outcome waits, or has been taken and no loop has it ahead.  *)
Spent(a) ==
  \/ \E r \in pending : r.action = a
  \/ /\ a \in DOMAIN rows /\ rows[a].state \in Settled
     /\ \A l \in Loop : a \notin Held(l)

PerformedOnce ==
  \A a \in Action : a \notin stale =>
    /\ a \in Running => ran[a] = 0
    /\ ran[a] > 0 => Spent(a)
    /\ ran[a] <= 1

(* What is reported, recorded and told is what happened. *)
Truthful ==
  /\ \A r \in pending \cup net : r.action \in DOMAIN rows /\ (r.ok = TRUE => ran[r.action] > 0)
  /\ \A a \in DOMAIN rows : rows[a].state = "DONE" => ran[a] > 0
  /\ \A a \in Action : told[a] \in Settled => a \in DOMAIN rows /\ rows[a].state = told[a]

Inv ==
  /\ TypeOK /\ Refused /\ Caught /\ Once /\ PerformedOnce /\ Truthful
  /\ StraysOnlyIfCaught

-----------------------------------------------------------------------------
(* What the loops have ahead of them, and what they perform. *)

LEMMA Numbers ==
  ASSUME TypeOK
  PROVE  /\ fence \in Nat /\ fence >= 1 /\ high \in Nat /\ MaxFence \in Nat /\ fence <= MaxFence
         /\ Len(rows) \in Nat /\ DOMAIN rows = 1..Len(rows) /\ DOMAIN rows \subseteq Action
         /\ \A a \in DOMAIN rows : /\ rows[a] \in AppAction
                                   /\ rows[a].fence \in Nat /\ rows[a].fence <= fence
                                   /\ rows[a].fence >= 1
                                   /\ rows[a].state \in Settled \cup {"PENDING"}
<1>0. /\ fence \in 1..MaxFence /\ high \in 0..fence + 1
      /\ rows \in Seq(AppAction) /\ Len(rows) <= MaxActions
      /\ \A a \in DOMAIN rows : rows[a].fence <= fence
  BY DEF TypeOK
<1>1. /\ fence \in Nat /\ fence >= 1 /\ MaxFence \in Nat /\ fence <= MaxFence
      /\ high \in Nat
  BY <1>0, AppActionsAssumption
<1>2. Len(rows) \in Nat /\ DOMAIN rows = 1..Len(rows) /\ Len(rows) <= MaxActions
  BY <1>0
<1>3. DOMAIN rows \subseteq Action
  BY <1>2, AppActionsAssumption DEF Action
<1>4. ASSUME NEW a \in DOMAIN rows
      PROVE  /\ rows[a] \in AppAction
             /\ rows[a].fence \in Nat /\ rows[a].fence <= fence /\ rows[a].fence >= 1
             /\ rows[a].state \in Settled \cup {"PENDING"}
  <2>1. rows[a] \in AppAction /\ rows[a].fence <= fence
    BY <1>0
  <2> QED
    BY <1>1, <2>1 DEF AppAction
<1> QED
  BY <1>1, <1>2, <1>3, <1>4

LEMMA RunningMeans == \A a : a \in Running <=> \E l \in Loop : Performs(l, a)
BY DEF Running, Performs

(* The first of a sequence and the rest of it are among its elements. *)
LEMMA HeadAndTail ==
  ASSUME NEW S, NEW s \in Seq(S), s # <<>>
  PROVE  /\ Head(s) \in S /\ Head(s) \in ToSet(s)
         /\ Tail(s) \in Seq(S) /\ Len(Tail(s)) <= Len(s)
         /\ ToSet(Tail(s)) \subseteq ToSet(s)
<1>1. Len(s) \in Nat /\ Len(s) >= 1 /\ Head(s) = s[1] /\ DOMAIN s = 1..Len(s)
      /\ Head(s) \in S
  OBVIOUS
<1>2. Tail(s) \in Seq(S) /\ Len(Tail(s)) = Len(s) - 1 /\ DOMAIN Tail(s) = 1..Len(s) - 1
  OBVIOUS
<1>3. \A i \in 1..Len(s) - 1 : Tail(s)[i] = s[i + 1] /\ i + 1 \in 1..Len(s)
  BY <1>1
<1>4. Head(s) \in ToSet(s)
  BY <1>1 DEF ToSet
<1>5. ToSet(Tail(s)) \subseteq ToSet(s)
  BY <1>1, <1>2, <1>3 DEF ToSet
<1>6. Len(Tail(s)) <= Len(s)
  BY <1>1, <1>2
<1> QED
  BY <1>1, <1>2, <1>4, <1>5, <1>6

LEMMA LoopFacts ==
  ASSUME TypeOK, NEW l \in Loop
  PROVE  /\ Held(l) \subseteq DOMAIN rows
         /\ loops[l].todo # <<>> =>
              /\ Head(loops[l].todo) \in DOMAIN rows
              /\ loops[l].at = "next" => Head(loops[l].todo) \in Held(l)
              /\ ToSet(Tail(loops[l].todo)) \subseteq Held(l)
<1>1. /\ loops[l].todo \in Seq(Action) /\ ToSet(loops[l].todo) \subseteq DOMAIN rows
      /\ loops[l].at # "next" => loops[l].todo # <<>>
  BY DEF TypeOK
<1>2. loops[l].todo # <<>> =>
        /\ Head(loops[l].todo) \in ToSet(loops[l].todo)
        /\ ToSet(Tail(loops[l].todo)) \subseteq ToSet(loops[l].todo)
  BY <1>1, HeadAndTail
<1> QED
  BY <1>1, <1>2 DEF Held

(* A step of a loop other than a beat: it goes on with its first request, or  *)
(* past it, and nothing comes before it that was not there.                   *)
LEMMA LoopStep ==
  ASSUME TypeOK, NEW l \in Loop, loops[l].todo # <<>>,
         NEW at \in {"running", "flushing"},
         \/ loops' = [loops EXCEPT ![l].at = at]
         \/ loops' = [loops EXCEPT ![l] = Onward(l)]
  PROVE  /\ loops' \in [Loop -> [todo: Seq(Action), at: {"next", "running", "flushing"}]]
         /\ \A m \in Loop : /\ loops'[m].at # "next" => loops'[m].todo # <<>>
                            /\ ToSet(loops'[m].todo) \subseteq ToSet(loops[m].todo)
                            /\ Len(loops'[m].todo) <= Len(loops[m].todo)
                            /\ Held(m)' \subseteq Held(m)
                            /\ m # l => loops'[m] = loops[m]
         /\ \/ loops'[l].todo = loops[l].todo /\ loops'[l].at = at
            \/ loops'[l].at = "next"
<1>t. /\ loops \in [Loop -> [todo: Seq(Action), at: {"next", "running", "flushing"}]]
      /\ \A m \in Loop : loops[m].at # "next" => loops[m].todo # <<>>
  BY DEF TypeOK
<1>0. loops[l].todo \in Seq(Action) /\ \A m \in Loop : Len(loops[m].todo) \in Nat
  BY <1>t
<1>1. CASE loops' = [loops EXCEPT ![l].at = at]
  <2>1. loops'[l].todo = loops[l].todo /\ loops'[l].at = at
        /\ \A m \in Loop : m # l => loops'[m] = loops[m]
    BY <1>1 DEF TypeOK
  <2>2. loops' \in [Loop -> [todo: Seq(Action), at: {"next", "running", "flushing"}]]
    BY <1>1 DEF TypeOK
  <2>3. Held(l)' \subseteq Held(l)
    BY <2>1, LoopFacts DEF Held
  <2>4. \A m \in Loop : Held(m)' \subseteq Held(m)
    BY <2>1, <2>3 DEF Held
  <2> QED
    BY <1>t, <1>0, <2>1, <2>2, <2>4
<1>2. CASE loops' = [loops EXCEPT ![l] = Onward(l)]
  <2>1. Onward(l) \in [todo: Seq(Action), at: {"next", "running", "flushing"}]
        /\ Onward(l).todo = Tail(loops[l].todo) /\ Onward(l).at = "next"
    BY <1>0, HeadAndTail DEF Onward
  <2>2. loops'[l] = Onward(l) /\ \A m \in Loop : m # l => loops'[m] = loops[m]
    BY <1>2 DEF TypeOK
  <2>3. loops' \in [Loop -> [todo: Seq(Action), at: {"next", "running", "flushing"}]]
    BY <1>2, <2>1 DEF TypeOK
  <2>4. Held(l)' \subseteq Held(l)
    BY <2>1, <2>2, LoopFacts DEF Held
  <2>5. \A m \in Loop : Held(m)' \subseteq Held(m)
    BY <2>2, <2>4 DEF Held
  <2>6. ToSet(loops'[l].todo) \subseteq ToSet(loops[l].todo) /\ Len(loops'[l].todo) <= Len(loops[l].todo)
    BY <1>0, <2>1, <2>2, HeadAndTail
  <2> QED
    BY <1>t, <1>0, <2>1, <2>2, <2>3, <2>5, <2>6
<1> QED
  BY <1>1, <1>2

(* A beat: a loop that had nothing to do has what is due ahead of it. *)
LEMMA BeatLoop ==
  ASSUME TypeOK, NEW l \in Loop, Heartbeat(l)
  PROVE  /\ loops' \in [Loop -> [todo: Seq(Action), at: {"next", "running", "flushing"}]]
         /\ loops'[l].at = "next" /\ ToSet(loops'[l].todo) \subseteq Due
         /\ Len(loops'[l].todo) <= OfferLimit
         /\ \A m \in Loop : m # l => loops'[m] = loops[m]
<1>1. PICK todo \in [1..OfferCount -> Due] : loops' = [loops EXCEPT ![l].todo = todo]
  BY DEF Heartbeat
<1>2. Cardinality(Due) \in Nat
  <2>1. IsFiniteSet(1..Len(rows)) /\ Due \subseteq 1..Len(rows)
    BY Numbers, FS_Interval DEF Due
  <2> QED
    BY <2>1, FS_Subset, FS_CardinalityType
<1>3. OfferCount \in Nat /\ OfferCount <= OfferLimit
  BY <1>2, AppActionsAssumption DEF OfferCount
<1>4. Due \subseteq Action
  BY Numbers DEF Due
<1>5. todo \in Seq(Action) /\ Len(todo) = OfferCount /\ DOMAIN todo = 1..OfferCount
  BY <1>3, <1>4
<1>6. ToSet(todo) \subseteq Due
  BY <1>5 DEF ToSet
<1>7. loops'[l].todo = todo /\ loops'[l].at = loops[l].at
      /\ \A m \in Loop : m # l => loops'[m] = loops[m]
  BY <1>1 DEF TypeOK
<1>8. loops' \in [Loop -> [todo: Seq(Action), at: {"next", "running", "flushing"}]]
  BY <1>1, <1>5 DEF TypeOK
<1>9. loops[l].at = "next"
  BY DEF Heartbeat, Idle
<1> QED
  BY <1>3, <1>5, <1>6, <1>7, <1>8, <1>9

-----------------------------------------------------------------------------
(* Rows are added, settled once, and keep their fences. *)

RowsKept ==
  /\ DOMAIN rows \subseteq DOMAIN rows'
  /\ \A a \in DOMAIN rows : /\ rows'[a].fence = rows[a].fence
                            /\ rows[a].state # "PENDING" => rows'[a].state = rows[a].state
  /\ \A a \in DOMAIN rows' \ DOMAIN rows : /\ rows'[a].fence = fence /\ stage = "live"
                                           /\ rows'[a].state = "PENDING"

LEMMA RequestRows ==
  ASSUME TypeOK, RequestAppAction
  PROVE  /\ RowsKept /\ rows' \in Seq(AppAction) /\ Len(rows') <= MaxActions
         /\ \A a \in DOMAIN rows : rows'[a] = rows[a]
<1>0. rows \in Seq(AppAction) /\ fence \in 1..MaxFence
  BY DEF TypeOK
<1>1. Len(rows) \in Nat /\ DOMAIN rows = 1..Len(rows) /\ Len(rows) < MaxActions /\ MaxActions \in Nat
  BY <1>0, AppActionsAssumption DEF RequestAppAction
<1> DEFINE row == [fence |-> fence, state |-> "PENDING"]
<1>2. row \in AppAction
  BY <1>0 DEF AppAction
<1>3. stage = "live" /\ rows' = Append(rows, row)
  BY DEF RequestAppAction, Requested
<1>4. rows' \in Seq(AppAction) /\ Len(rows') = Len(rows) + 1 /\ DOMAIN rows' = 1..Len(rows) + 1
  BY <1>0, <1>2, <1>3
<1>5. \A a \in 1..Len(rows) : rows'[a] = rows[a]
  BY <1>0, <1>2, <1>3
<1>6. rows'[Len(rows) + 1] = row
  BY <1>0, <1>2, <1>3
<1>7. \A a \in DOMAIN rows' \ DOMAIN rows : a = Len(rows) + 1
  BY <1>1, <1>4
<1>8. DOMAIN rows \subseteq DOMAIN rows'
  BY <1>1, <1>4
<1> QED
  BY <1>1, <1>3, <1>4, <1>5, <1>6, <1>7, <1>8 DEF RowsKept

LEMMA SweepRows ==
  ASSUME TypeOK, Sweep
  PROVE  /\ RowsKept /\ rows' \in Seq(AppAction) /\ Len(rows') <= MaxActions
         /\ \A a \in DOMAIN rows' : rows'[a].state = "DONE" => rows[a].state = "DONE"
<1>0. rows \in Seq(AppAction) /\ Len(rows) <= MaxActions
  BY DEF TypeOK
<1>1. Len(rows) \in Nat /\ DOMAIN rows = 1..Len(rows)
  BY <1>0
<1>2. DOMAIN rows' = DOMAIN rows
  BY DEF Sweep
<1>3. ASSUME NEW a \in DOMAIN rows
      PROVE  /\ rows'[a] \in AppAction /\ rows'[a].fence = rows[a].fence
             /\ rows[a].state # "PENDING" => rows'[a].state = rows[a].state
             /\ rows'[a].state = "DONE" => rows[a].state = "DONE"
  <2>1. rows[a] \in AppAction
    BY <1>0
  <2>2. CASE a \in Orphans
    <3>1. rows'[a] = [rows[a] EXCEPT !.state = "FAILED"] /\ rows[a].state = "PENDING"
      BY <2>2 DEF Sweep, Orphans
    <3> QED
      BY <2>1, <3>1 DEF AppAction, Settled
  <2>3. CASE a \notin Orphans
    <3>1. rows'[a] = rows[a]
      BY <2>3 DEF Sweep
    <3> QED
      BY <2>1, <3>1
  <2> QED
    BY <2>2, <2>3
<1>4. rows' = [a \in 1..Len(rows) |-> rows'[a]]
  BY <1>1 DEF Sweep
<1>5. rows' \in Seq(AppAction) /\ Len(rows') = Len(rows)
  BY <1>1, <1>2, <1>3, <1>4
<1> QED
  BY <1>0, <1>2, <1>3, <1>5 DEF RowsKept

LEMMA EventRows ==
  ASSUME TypeOK, NEW r \in net, r.action \in DOMAIN rows, Events(r)
  PROVE  /\ RowsKept /\ rows' \in Seq(AppAction) /\ Len(rows') <= MaxActions
         /\ DOMAIN rows' = DOMAIN rows
         /\ rows'[r.action].state \in Settled
         /\ \A a \in DOMAIN rows :
              rows'[a].state = "DONE" => rows[a].state = "DONE" \/ (a = r.action /\ r.ok = TRUE)
<1>0. rows \in Seq(AppAction) /\ Len(rows) <= MaxActions /\ r \in Report
  BY DEF TypeOK
<1>1. Len(rows) \in Nat /\ DOMAIN rows = 1..Len(rows) /\ rows[r.action] \in AppAction
      /\ r.ok \in BOOLEAN
  BY <1>0 DEF Report
<1>2. rows' = [rows EXCEPT ![r.action] = Record(rows[r.action], r.ok)]
  BY DEF Events
<1>3. /\ Record(rows[r.action], r.ok) \in AppAction
      /\ Record(rows[r.action], r.ok).fence = rows[r.action].fence
      /\ Record(rows[r.action], r.ok).state \in Settled
      /\ rows[r.action].state # "PENDING" => Record(rows[r.action], r.ok).state = rows[r.action].state
      /\ rows[r.action].state = "PENDING" /\ Record(rows[r.action], r.ok).state = "DONE" => r.ok = TRUE
  <2>1. CASE rows[r.action].state # "PENDING"
    BY <1>1, <2>1 DEF Record, AppAction, Settled
  <2>2. CASE rows[r.action].state = "PENDING" /\ r.ok = TRUE
    <3>1. Record(rows[r.action], r.ok) = [rows[r.action] EXCEPT !.state = "DONE"]
      BY <2>2 DEF Record
    <3> QED
      BY <1>1, <2>2, <3>1 DEF AppAction, Settled
  <2>3. CASE rows[r.action].state = "PENDING" /\ r.ok = FALSE
    <3>1. Record(rows[r.action], r.ok) = [rows[r.action] EXCEPT !.state = "FAILED"]
      BY <2>3 DEF Record
    <3> QED
      BY <1>1, <2>3, <3>1 DEF AppAction, Settled
  <2> QED
    BY <1>1, <2>1, <2>2, <2>3
<1>4. rows' \in Seq(AppAction) /\ Len(rows') = Len(rows) /\ DOMAIN rows' = DOMAIN rows
  BY <1>0, <1>2, <1>3
<1>5. /\ rows'[r.action] = Record(rows[r.action], r.ok)
      /\ \A a \in DOMAIN rows : a # r.action => rows'[a] = rows[a]
  BY <1>0, <1>2
<1> QED
  BY <1>0, <1>3, <1>4, <1>5 DEF RowsKept

(* Every step keeps the rows it does not settle. *)
LEMMA StepRows ==
  ASSUME TypeOK, Truthful, [Next]_vars
  PROVE  RowsKept /\ rows' \in Seq(AppAction) /\ Len(rows') <= MaxActions
<1>0. rows \in Seq(AppAction) /\ Len(rows) <= MaxActions
  BY DEF TypeOK
<1>1. CASE rows' = rows
  BY <1>0, <1>1 DEF RowsKept
<1>2. CASE RequestAppAction
  BY <1>2, RequestRows
<1>3. CASE Sweep
  BY <1>3, SweepRows
<1>4. ASSUME NEW r \in net, Events(r) PROVE RowsKept /\ rows' \in Seq(AppAction) /\ Len(rows') <= MaxActions
  BY <1>4, EventRows DEF Truthful
<1>5. CASE \/ EndLease \/ NextLease \/ Flush \/ Reset \/ Restart \/ UNCHANGED vars
           \/ \E a \in Action : AwaitAppAction(a)
           \/ \E r \in net : LoseReport(r)
  BY <1>1, <1>5 DEF EndLease, NextLease, Flush, Reset, Restart, AwaitAppAction, LoseReport, vars
<1>6. ASSUME NEW l \in Loop, Agent(l) PROVE rows' = rows
  BY <1>6 DEF Agent, Heartbeat, TakeUp, PerformAction, FlushOver
<1> QED
  BY <1>1, <1>2, <1>3, <1>4, <1>5, <1>6 DEF Next

-----------------------------------------------------------------------------
(* What a step makes of the loops. *)

(* The ways a loop takes its next request up. *)
TakesUp(l, a) ==
  /\ loops' = [loops EXCEPT ![l].at = "running"]
  /\ ~PassedOver(a) /\ AcceptFence(rows[a].fence)
  /\ high' = rows[a].fence /\ pending' = pending

Refuses(l, a) ==
  /\ loops' = [loops EXCEPT ![l].at = "flushing"]
  /\ ~PassedOver(a)
  /\ pending' = pending \cup {[action |-> a, ok |-> FALSE]} /\ high' = high

PassesOver(l, a) ==
  /\ loops' = [loops EXCEPT ![l] = Onward(l)]
  /\ pending' = pending /\ high' = high

LEMMA TakeUpWays ==
  ASSUME TypeOK, NEW l \in Loop, TakeUp(l)
  PROVE  /\ loops[l].at = "next" /\ loops[l].todo # <<>>
         /\ \E a \in DOMAIN rows :
              /\ a = Head(loops[l].todo) /\ a \in Held(l)
              /\ TakesUp(l, a) \/ Refuses(l, a) \/ PassesOver(l, a)
<1>1. loops[l].at = "next" /\ loops[l].todo # <<>>
  BY DEF TakeUp
<1>2. PICK a \in DOMAIN rows : a = Head(loops[l].todo) /\ a \in Held(l)
  BY <1>1, LoopFacts
<1>3. TakesUp(l, a) \/ Refuses(l, a) \/ PassesOver(l, a)
  BY <1>2 DEF TakeUp, TakesUp, Refuses, PassesOver
<1> QED
  BY <1>1, <1>2, <1>3

(* Typed loops, none of which has more ahead of it than it had, or than is    *)
(* due.                                                                       *)
LoopsKept ==
  /\ loops' \in [Loop -> [todo: Seq(Action), at: {"next", "running", "flushing"}]]
  /\ \A m \in Loop : /\ loops'[m].at # "next" => loops'[m].todo # <<>>
                     /\ ToSet(loops'[m].todo) \subseteq DOMAIN rows
                     /\ Len(loops'[m].todo) <= OfferLimit

LEMMA StepOfLoop ==
  ASSUME TypeOK, NEW l \in Loop, TakeUp(l) \/ PerformAction(l) \/ FlushOver(l)
  PROVE  /\ LoopsKept
         /\ \A m \in Loop : Held(m)' \subseteq Held(m) /\ (m # l => loops'[m] = loops[m])
         /\ PerformAction(l) \/ FlushOver(l) => loops'[l].at # "running"
         /\ TakeUp(l) /\ loops'[l].at = "running" =>
              /\ loops'[l].todo = loops[l].todo
              /\ TakesUp(l, Head(loops[l].todo))
<1>1. loops[l].todo # <<>> /\ loops[l].at \in {"next", "running", "flushing"}
  BY DEF TakeUp, PerformAction, FlushOver, TypeOK
<1>2. PICK at \in {"running", "flushing"} :
        /\ \/ loops' = [loops EXCEPT ![l].at = at]
           \/ loops' = [loops EXCEPT ![l] = Onward(l)]
        /\ PerformAction(l) \/ FlushOver(l) => at = "flushing"
        /\ TakeUp(l) /\ at = "running" => TakesUp(l, Head(loops[l].todo))
  <2>1. CASE TakeUp(l)
    <3>1. PICK a \in DOMAIN rows : a = Head(loops[l].todo)
                                   /\ (TakesUp(l, a) \/ Refuses(l, a) \/ PassesOver(l, a))
      BY <2>1, TakeUpWays
    <3>2. ~PerformAction(l) /\ ~FlushOver(l)
      BY <2>1 DEF TakeUp, PerformAction, FlushOver
    <3> QED
      BY <3>1, <3>2 DEF TakesUp, Refuses, PassesOver
  <2>2. CASE PerformAction(l) \/ FlushOver(l)
    <3>1. ~TakeUp(l)
      BY <2>2 DEF TakeUp, PerformAction, FlushOver
    <3> QED
      BY <2>2, <3>1 DEF PerformAction, FlushOver
  <2> QED
    BY <2>1, <2>2
<1>3. /\ loops' \in [Loop -> [todo: Seq(Action), at: {"next", "running", "flushing"}]]
      /\ \A m \in Loop : /\ loops'[m].at # "next" => loops'[m].todo # <<>>
                         /\ ToSet(loops'[m].todo) \subseteq ToSet(loops[m].todo)
                         /\ Len(loops'[m].todo) <= Len(loops[m].todo)
                         /\ Held(m)' \subseteq Held(m)
                         /\ m # l => loops'[m] = loops[m]
      /\ \/ loops'[l].todo = loops[l].todo /\ loops'[l].at = at
         \/ loops'[l].at = "next"
  BY <1>1, <1>2, LoopStep
<1>4. /\ loops \in [Loop -> [todo: Seq(Action), at: {"next", "running", "flushing"}]]
      /\ \A m \in Loop : /\ ToSet(loops[m].todo) \subseteq DOMAIN rows
                         /\ Len(loops[m].todo) <= OfferLimit
  BY DEF TypeOK
<1>5. ASSUME NEW m \in Loop PROVE Len(loops'[m].todo) <= OfferLimit
  <2>1. Len(loops[m].todo) \in Nat /\ Len(loops'[m].todo) \in Nat /\ OfferLimit \in Nat
    BY <1>3, <1>4, AppActionsAssumption
  <2>2. Len(loops'[m].todo) <= Len(loops[m].todo) /\ Len(loops[m].todo) <= OfferLimit
    BY <1>3, <1>4
  <2> QED
    BY <2>1, <2>2
<1>6. LoopsKept
  BY <1>3, <1>4, <1>5 DEF LoopsKept
<1>7. PerformAction(l) \/ FlushOver(l) => loops'[l].at # "running"
  BY <1>2, <1>3
<1>8. TakeUp(l) /\ loops'[l].at = "running" =>
              /\ loops'[l].todo = loops[l].todo
              /\ TakesUp(l, Head(loops[l].todo))
  BY <1>2, <1>3
<1> QED
  BY <1>3, <1>6, <1>7, <1>8

LEMMA StepLoops ==
  ASSUME TypeOK, [Next]_vars
  PROVE  LoopsKept
<1>1. CASE loops' = loops
  BY <1>1 DEF LoopsKept, TypeOK
<1>2. CASE Restart
  <2>1. Idle \in [todo: Seq(Action), at: {"next", "running", "flushing"}]
        /\ Idle.at = "next" /\ Idle.todo = <<>>
    BY DEF Idle
  <2>2. ToSet(<<>>) = {} /\ Len(<<>>) = 0 /\ 0 <= OfferLimit
    BY AppActionsAssumption DEF ToSet
  <2>3. loops' \in [Loop -> [todo: Seq(Action), at: {"next", "running", "flushing"}]]
        /\ \A m \in Loop : loops'[m] = Idle
    BY <1>2, <2>1 DEF Restart
  <2> QED
    BY <2>1, <2>2, <2>3 DEF LoopsKept
<1>3. ASSUME NEW l \in Loop, Heartbeat(l) PROVE LoopsKept
  <2>1. Due \subseteq DOMAIN rows
    BY DEF Due
  <2>2. \A m \in Loop : /\ loops[m].at # "next" => loops[m].todo # <<>>
                        /\ ToSet(loops[m].todo) \subseteq DOMAIN rows
                        /\ Len(loops[m].todo) <= OfferLimit
    BY DEF TypeOK
  <2> QED
    BY <1>3, <2>1, <2>2, BeatLoop DEF LoopsKept
<1>4. ASSUME NEW l \in Loop, Agent(l) PROVE LoopsKept
  BY <1>3, <1>4, StepOfLoop DEF Agent
<1>5. CASE \/ RequestAppAction \/ EndLease \/ NextLease \/ Sweep \/ Flush \/ Reset \/ UNCHANGED vars
           \/ \E a \in Action : AwaitAppAction(a)
           \/ \E r \in net : Events(r) \/ LoseReport(r)
  BY <1>1, <1>5 DEF RequestAppAction, EndLease, NextLease, Sweep, Flush, Reset, AwaitAppAction,
                    Events, LoseReport, vars, agent
<1> QED
  BY <1>2, <1>4, <1>5 DEF Next

-----------------------------------------------------------------------------
LEMMA Types ==
  ASSUME TypeOK, Truthful, [Next]_vars
  PROVE  TypeOK'
<1>0. /\ fence \in Nat /\ fence >= 1 /\ fence <= MaxFence /\ MaxFence \in Nat
      /\ high \in Nat /\ high <= fence + 1
      /\ DOMAIN rows \subseteq Action
      /\ \A a \in DOMAIN rows : /\ rows[a].fence \in Nat /\ rows[a].fence <= fence
                                /\ rows[a].state \in Settled \cup {"PENDING"}
  <2>1. high \in 0..fence + 1
    BY DEF TypeOK
  <2> QED
    BY <2>1, Numbers
<1>1. fence' = fence \/ (fence' = fence + 1 /\ fence < MaxFence)
  BY DEF Next, RequestAppAction, EndLease, NextLease, Sweep, Flush, Reset, Restart, AwaitAppAction,
         Agent, Heartbeat, TakeUp, PerformAction, FlushOver, Events, LoseReport, vars, agent
<1>2. fence' \in 1..MaxFence /\ fence <= fence' /\ fence' \in Nat
  BY <1>0, <1>1
<1>3. stage' \in {"live", "ended", "reset"}
  <2>1. stage \in {"live", "ended", "reset"}
    BY DEF TypeOK
  <2>2. stage' = stage \/ stage' \in {"live", "ended", "reset"}
    BY DEF Next, RequestAppAction, EndLease, NextLease, Sweep, Flush, Reset, Restart, AwaitAppAction,
         Agent, Heartbeat, TakeUp, PerformAction, FlushOver, Events, LoseReport, vars, agent
  <2> QED
    BY <2>1, <2>2
<1>4. RowsKept /\ rows' \in Seq(AppAction) /\ Len(rows') <= MaxActions
  BY StepRows
<1>5. \A a \in DOMAIN rows' : rows'[a].fence <= fence'
  <2>1. ASSUME NEW a \in DOMAIN rows' PROVE rows'[a].fence <= fence'
    <3>1. CASE a \in DOMAIN rows
      BY <1>0, <1>2, <1>4, <3>1 DEF RowsKept
    <3>2. CASE a \notin DOMAIN rows
      BY <1>0, <1>2, <1>4, <3>2 DEF RowsKept
    <3> QED
      BY <3>1, <3>2
  <2> QED
    BY <2>1
<1>6. told' \in [Action -> Settled \cup {"nothing", "gave up"}]
  <2>1. told \in [Action -> Settled \cup {"nothing", "gave up"}]
    BY DEF TypeOK
  <2>2. told' = told \/ \E a \in Action : AwaitAppAction(a)
    BY DEF Next, RequestAppAction, EndLease, NextLease, Sweep, Flush, Reset, Restart,
         Agent, Heartbeat, TakeUp, PerformAction, FlushOver, Events, LoseReport, vars, agent
  <2>3. ASSUME NEW a \in Action, AwaitAppAction(a)
        PROVE  told' \in [Action -> Settled \cup {"nothing", "gave up"}]
    <3>1. PICK t : t = IF rows[a].state = "PENDING" THEN "gave up" ELSE rows[a].state
      OBVIOUS
    <3>2. told' = [told EXCEPT ![a] = t] /\ a \in DOMAIN rows
      BY <2>3, <3>1 DEF AwaitAppAction
    <3>3. t \in Settled \cup {"gave up"}
      BY <1>0, <3>1, <3>2
    <3> QED
      BY <2>1, <3>2, <3>3
  <2> QED
    BY <2>1, <2>2, <2>3
<1>7. high' \in 0..fence' + 1
  <2>n. fence \in Nat /\ fence' \in Nat /\ fence <= fence' /\ high \in Nat /\ high <= fence + 1
    BY <1>0, <1>2
  <2>m. ASSUME NEW h \in Nat, NEW f \in Nat, NEW g \in Nat, f <= g, h <= f + 1 PROVE h \in 0..g + 1
    BY <2>m
  <2>0. high \in 0..fence' + 1 /\ \A h \in Nat : h <= fence + 1 => h \in 0..fence' + 1
    BY <2>n, <2>m
  <2>1. CASE high' = high
    BY <2>0, <2>1
  <2>2. CASE Reset
    BY <1>0, <2>2 DEF Reset, Retired
  <2>3. CASE Restart
    BY <1>0, <2>3 DEF Restart
  <2>4. ASSUME NEW l \in Loop, TakeUp(l) PROVE high' \in 0..fence' + 1
    <3>1. PICK a \in DOMAIN rows : high' = high \/ high' = rows[a].fence
      BY <2>4, TakeUpWays DEF TakesUp, Refuses, PassesOver
    <3>2. high' \in Nat /\ high' <= fence + 1
      BY <1>0, <3>1
    <3> QED
      BY <2>0, <3>2
  <2>5. CASE \/ RequestAppAction \/ EndLease \/ NextLease \/ Sweep \/ Flush \/ UNCHANGED vars
             \/ \E a \in Action : AwaitAppAction(a)
             \/ \E r \in net : Events(r) \/ LoseReport(r)
             \/ \E l \in Loop : Heartbeat(l) \/ PerformAction(l) \/ FlushOver(l)
    BY <2>1, <2>5 DEF RequestAppAction, EndLease, NextLease, Sweep, Flush, AwaitAppAction,
                    Events, LoseReport, Heartbeat, PerformAction, FlushOver, vars, agent
  <2> QED
    BY <2>2, <2>3, <2>4, <2>5 DEF Next, Agent
<1>8. loops' \in [Loop -> [todo: Seq(Action), at: {"next", "running", "flushing"}]]
      /\ \A l \in Loop : /\ loops'[l].at # "next" => loops'[l].todo # <<>>
                         /\ ToSet(loops'[l].todo) \subseteq DOMAIN rows'
                         /\ Len(loops'[l].todo) <= OfferLimit
  BY <1>4, StepLoops DEF LoopsKept, RowsKept
<1>9. pending' \subseteq Report /\ net' \subseteq Report
  <2>1. pending \subseteq Report /\ net \subseteq Report
    BY DEF TypeOK
  <2>2. CASE pending' \subseteq pending /\ net' \subseteq pending \cup net
    BY <2>1, <2>2
  <2>3. ASSUME NEW l \in Loop, TakeUp(l) PROVE pending' \subseteq Report /\ net' = net
    <3>1. PICK a \in DOMAIN rows : pending' \subseteq pending \cup {[action |-> a, ok |-> FALSE]}
      BY <2>3, TakeUpWays DEF TakesUp, Refuses, PassesOver
    <3>2. [action |-> a, ok |-> FALSE] \in Report
      BY <1>0 DEF Report
    <3>3. net' = net
      BY <2>3 DEF TakeUp
    <3> QED
      BY <2>1, <3>1, <3>2, <3>3
  <2>4. ASSUME NEW l \in Loop, PerformAction(l) PROVE pending' \subseteq Report /\ net' = net
    <3>1. Head(loops[l].todo) \in Action
      <4>1. loops[l].todo # <<>>
        BY <2>4 DEF PerformAction, TypeOK
      <4> QED
        BY <1>0, <4>1, LoopFacts
    <3>2. PICK ok \in BOOLEAN : pending' = pending \cup {[action |-> Head(loops[l].todo), ok |-> ok]}
      BY <2>4 DEF PerformAction
    <3>3. [action |-> Head(loops[l].todo), ok |-> ok] \in Report
      BY <3>1 DEF Report
    <3>4. net' = net
      BY <2>4 DEF PerformAction
    <3> QED
      BY <2>1, <3>2, <3>3, <3>4
  <2>5. CASE \/ RequestAppAction \/ EndLease \/ NextLease \/ Sweep \/ Flush \/ Reset \/ Restart
             \/ UNCHANGED vars
             \/ \E a \in Action : AwaitAppAction(a)
             \/ \E r \in net : Events(r) \/ LoseReport(r)
             \/ \E l \in Loop : Heartbeat(l) \/ FlushOver(l)
    BY <2>2, <2>5 DEF RequestAppAction, EndLease, NextLease, Sweep, Flush, Reset, Restart,
         AwaitAppAction, Events, LoseReport, Heartbeat, FlushOver, vars, agent
  <2> QED
    BY <2>1, <2>3, <2>4, <2>5 DEF Next, Agent
<1>10. /\ ran' \in [Action -> 0..MaxRuns]
       /\ astray' \subseteq Action /\ caught' \subseteq Action /\ stale' \subseteq Action
  <2>1. /\ ran \in [Action -> 0..MaxRuns] /\ MaxRuns \in Nat
        /\ astray \subseteq Action /\ caught \subseteq Action /\ stale \subseteq Action
        /\ pending \subseteq Report /\ net \subseteq Report
    BY AppActionsAssumption DEF TypeOK
  <2>2. CASE UNCHANGED history
    BY <2>1, <2>2 DEF history
  <2>3. ASSUME NEW l \in Loop, PerformAction(l)
        PROVE  /\ ran' \in [Action -> 0..MaxRuns]
               /\ astray' \subseteq Action /\ caught' = caught /\ stale' = stale
    <3>1. Head(loops[l].todo) \in Action
      <4>1. loops[l].todo # <<>>
        BY <2>3 DEF PerformAction, TypeOK
      <4> QED
        BY <1>0, <4>1, LoopFacts
    <3>2. PICK a \in Action : a = Head(loops[l].todo)
      BY <3>1
    <3>3. ran' = ran \/ (ran' = [ran EXCEPT ![a] = @ + 1] /\ ran[a] < MaxRuns)
      BY <2>3, <3>2 DEF PerformAction
    <3>4. astray' \subseteq astray \cup {a} /\ caught' = caught /\ stale' = stale
      BY <2>3, <3>2 DEF PerformAction
    <3> QED
      BY <2>1, <3>3, <3>4
  <2>4. CASE Reset
    <3>1. Running \subseteq Action
      <4>1. \A l \in Loop : loops[l].at = "running" => loops[l].todo # <<>>
        BY DEF TypeOK
      <4> QED
        BY <1>0, <4>1, LoopFacts DEF Running
    <3> QED
      BY <2>1, <2>4, <3>1 DEF Reset
  <2>5. CASE Restart
    BY <2>1, <2>5 DEF Restart, Report
  <2>6. ASSUME NEW r \in net, Events(r)
        PROVE  /\ ran' = ran
               /\ astray' = astray /\ caught' = caught /\ stale' \subseteq Action
    BY <2>1, <2>6 DEF Events, Report
  <2>7. CASE \/ RequestAppAction \/ EndLease \/ NextLease \/ Sweep \/ Flush
             \/ UNCHANGED vars
             \/ \E a \in Action : AwaitAppAction(a)
             \/ \E r \in net : LoseReport(r)
             \/ \E l \in Loop : Heartbeat(l) \/ TakeUp(l) \/ FlushOver(l)
    BY <2>2, <2>7 DEF RequestAppAction, EndLease, NextLease, Sweep, Flush,
         AwaitAppAction, LoseReport, Heartbeat, TakeUp, FlushOver, vars
  <2> QED
    BY <2>1, <2>3, <2>4, <2>5, <2>6, <2>7 DEF Next, Agent
<1> QED
  BY <1>2, <1>3, <1>4, <1>5, <1>6, <1>7, <1>8, <1>9, <1>10 DEF TypeOK

-----------------------------------------------------------------------------
(* What a step adds to what the loops have ahead of them and to what they     *)
(* perform.                                                                   *)

(* The steps that are not a loop's. *)
Elsewhere ==
  \/ RequestAppAction \/ EndLease \/ NextLease \/ Sweep \/ Flush \/ Reset \/ UNCHANGED vars
  \/ \E a \in Action : AwaitAppAction(a)
  \/ \E r \in net : Events(r) \/ LoseReport(r)

LEMMA Steps ==
  [Next]_vars => \/ Elsewhere \/ Restart
                 \/ \E l \in Loop : \/ Heartbeat(l) \/ TakeUp(l) \/ PerformAction(l) \/ FlushOver(l)
BY DEF Next, Elsewhere, Agent

LEMMA ElsewhereLoops ==
  Elsewhere => loops' = loops /\ Running' = Running /\ \A l \in Loop : Held(l)' = Held(l)
BY DEF Elsewhere, RequestAppAction, EndLease, NextLease, Sweep, Flush, Reset, AwaitAppAction,
       Events, LoseReport, vars, agent, Running, Held

LEMMA RestartLoops ==
  Restart => Running' = {} /\ \A l \in Loop : Held(l)' = {} /\ ~\E a : Performs(l, a)'
<1> SUFFICES ASSUME Restart PROVE Running' = {} /\ \A l \in Loop : Held(l)' = {} /\ ~\E a : Performs(l, a)'
  OBVIOUS
<1>1. \A l \in Loop : loops'[l].at = "next" /\ loops'[l].todo = <<>>
  BY DEF Restart, Idle
<1>2. \A l \in Loop : Held(l)' = {}
  BY <1>1 DEF Held, ToSet
<1>3. Running' = {}
  BY <1>1 DEF Running
<1> QED
  BY <1>1, <1>2, <1>3 DEF Performs

LEMMA HeartbeatLoops ==
  ASSUME TypeOK, NEW l \in Loop, Heartbeat(l)
  PROVE  /\ \A m \in Loop : Held(m)' \subseteq Held(m) \cup Due
         /\ \A m \in Loop : \A a : Performs(m, a)' => Performs(m, a)
<1>1. \A m \in Loop : m # l => Held(m)' = Held(m)
  BY BeatLoop DEF Held
<1>2. Held(l)' \subseteq Due
  BY BeatLoop DEF Held
<1>3. \A m \in Loop : \A a : Performs(m, a)' => Performs(m, a)
  BY BeatLoop DEF Performs
<1> QED
  BY <1>1, <1>2, <1>3

LEMMA LoopLoops ==
  ASSUME TypeOK, NEW l \in Loop, TakeUp(l) \/ PerformAction(l) \/ FlushOver(l)
  PROVE  /\ \A m \in Loop : Held(m)' \subseteq Held(m)
         /\ \A m \in Loop : \A a : Performs(m, a)' =>
              \/ Performs(m, a) /\ (PerformAction(l) => m # l)
              \/ m = l /\ TakeUp(l) /\ a = Head(loops[l].todo) /\ a \in Held(l) /\ TakesUp(l, a)
<1>1. \A m \in Loop : Held(m)' \subseteq Held(m)
  BY StepOfLoop
<1>2. ASSUME NEW m \in Loop, NEW a, Performs(m, a)', m = l
      PROVE  TakeUp(l) /\ a = Head(loops[l].todo) /\ a \in Held(l) /\ TakesUp(l, a)
  <2>1. loops'[l].at = "running" /\ Head(loops'[l].todo) = a
    BY <1>2 DEF Performs
  <2>2. TakeUp(l)
    BY <2>1, StepOfLoop
  <2> QED
    BY <2>1, <2>2, StepOfLoop, TakeUpWays
<1>3. ASSUME NEW m \in Loop, NEW a, Performs(m, a)', m # l
      PROVE  Performs(m, a)
  BY <1>3, StepOfLoop DEF Performs
<1> QED
  BY <1>1, <1>2, <1>3

(* Leases are retired by a reset, and stay so. *)
LEMMA Retirement ==
  ASSUME TypeOK, Truthful, [Next]_vars, NEW a \in DOMAIN rows, Retiree(a)'
  PROVE  Retiree(a) \/ (Reset /\ high' > rows[a].fence)
<1>1. fence \in Nat /\ high \in Nat /\ rows[a].fence \in Nat /\ rows[a].fence <= fence
  BY Numbers
<1>2. rows'[a].fence = rows[a].fence
  BY StepRows DEF RowsKept
<1>3. CASE fence' = fence /\ stage' = stage
  BY <1>2, <1>3 DEF Retiree
<1>4. CASE EndLease
  BY <1>2, <1>4 DEF EndLease, Retiree
<1>5. CASE NextLease
  <2>1. stage = "reset" /\ stage' = "live" /\ fence' = fence + 1
    BY <1>5 DEF NextLease
  <2> QED
    BY <1>1, <1>2, <2>1 DEF Retiree
<1>6. CASE Reset
  BY <1>1, <1>6 DEF Reset, Retired
<1> QED
  BY <1>3, <1>4, <1>5, <1>6 DEF Next, RequestAppAction, Sweep, Flush, Restart, AwaitAppAction,
       Agent, Heartbeat, TakeUp, PerformAction, FlushOver, Events, LoseReport, vars

LEMMA HighRises ==
  ASSUME TypeOK, [Next]_vars, ~Restart
  PROVE  high <= high' /\ high \in Nat /\ high' \in Nat
<1>1. /\ fence \in Nat /\ high \in Nat
      /\ \A a \in DOMAIN rows : rows[a].fence \in Nat
  BY Numbers
<1>2. CASE high' = high
  BY <1>1, <1>2
<1>3. CASE Reset
  BY <1>1, <1>3 DEF Reset, Retired
<1>4. ASSUME NEW l \in Loop, TakeUp(l) PROVE high <= high' /\ high' \in Nat
  <2>1. PICK a \in DOMAIN rows :
          high' = high \/ (high' = rows[a].fence /\ rows[a].fence >= high)
    BY <1>4, TakeUpWays DEF TakesUp, Refuses, PassesOver, AcceptFence
  <2> QED
    BY <1>1, <2>1
<1> QED
  BY <1>1, <1>2, <1>3, <1>4 DEF Next, RequestAppAction, EndLease, NextLease, Sweep, Flush,
       AwaitAppAction, Agent, Heartbeat, PerformAction, FlushOver, Events, LoseReport, vars, agent

LEMMA RefusedStep ==
  ASSUME TypeOK, Truthful, Refused, [Next]_vars
  PROVE  Refused'
<1> SUFFICES ASSUME NEW l \in Loop, NEW a \in Held(l)', Retiree(a)'
             PROVE  rows'[a].fence < high'
  BY DEF Refused
<1>1. ~Restart
  BY RestartLoops
<1>2. a \in Held(l) \/ (a \in Due /\ \E m \in Loop : Heartbeat(m))
  BY <1>1, Steps, ElsewhereLoops, HeartbeatLoops, LoopLoops
<1>3. a \in DOMAIN rows /\ rows[a].fence \in Nat
  BY <1>2, LoopFacts, Numbers DEF Due
<1>4. rows'[a].fence = rows[a].fence
  BY <1>3, StepRows DEF RowsKept
<1>5. high <= high' /\ high \in Nat /\ high' \in Nat
  BY <1>1, HighRises
<1>6. CASE Retiree(a)
  <2>1. a \in Held(l)
    <3>1. a \notin Due
      BY <1>3, <1>6, Numbers DEF Due, Retiree
    <3> QED
      BY <1>2, <3>1
  <2> QED
    BY <1>3, <1>4, <1>5, <1>6, <2>1 DEF Refused
<1>7. CASE Reset /\ high' > rows[a].fence
  BY <1>3, <1>4, <1>5, <1>7
<1> QED
  BY <1>3, <1>6, <1>7, Retirement

LEMMA CaughtStep ==
  ASSUME TypeOK, Truthful, Refused, Caught, [Next]_vars
  PROVE  Caught'
<1> SUFFICES ASSUME NEW a \in Running', Retiree(a)'
             PROVE  a \in caught'
  BY DEF Caught
<1>1. caught \subseteq caught'
  BY DEF Next, RequestAppAction, EndLease, NextLease, Sweep, Flush, Reset, Restart, AwaitAppAction,
         Agent, Heartbeat, TakeUp, PerformAction, FlushOver, Events, LoseReport, vars, history
<1>2. PICK l \in Loop : Performs(l, a)'
  BY RunningMeans DEF Running, Performs
<1>3. ~Restart
  BY RestartLoops
<1>4. \/ a \in Running
      \/ TakeUp(l) /\ a \in Held(l) /\ TakesUp(l, a)
  <2>1. CASE Elsewhere
    BY <2>1, ElsewhereLoops
  <2>2. ASSUME NEW m \in Loop, Heartbeat(m) PROVE Performs(l, a)
    BY <1>2, <2>2, HeartbeatLoops
  <2>3. ASSUME NEW m \in Loop, TakeUp(m) \/ PerformAction(m) \/ FlushOver(m)
        PROVE  Performs(l, a) \/ (TakeUp(l) /\ a \in Held(l) /\ TakesUp(l, a))
    BY <1>2, <2>3, LoopLoops
  <2> QED
    BY <1>3, <2>1, <2>2, <2>3, Steps, RunningMeans
<1>5. a \in DOMAIN rows
  <2>1. \A m \in Loop : Performs(m, a) => a \in DOMAIN rows
    <3>1. \A m \in Loop : loops[m].at = "running" => loops[m].todo # <<>>
      BY DEF TypeOK
    <3> QED
      BY <3>1, LoopFacts DEF Performs
  <2> QED
    BY <1>4, <2>1, LoopFacts, RunningMeans
<1>6. CASE Reset
  <2>1. a \in Running
    BY <1>6, ElsewhereLoops DEF Elsewhere
  <2> QED
    BY <1>6, <2>1 DEF Reset
<1>7. CASE ~Reset
  <2>1. Retiree(a)
    BY <1>5, <1>7, Retirement
  <2>2. CASE a \in Running
    BY <1>1, <2>1, <2>2 DEF Caught
  <2>3. CASE a \in Held(l) /\ TakesUp(l, a)
    <3>1. rows[a].fence < high /\ rows[a].fence >= high
      BY <2>1, <2>3 DEF Refused, TakesUp, AcceptFence
    <3>2. rows[a].fence \in Nat /\ high \in Nat
      BY <1>5, Numbers
    <3> QED
      BY <3>1, <3>2
  <2> QED
    BY <1>4, <2>2, <2>3
<1> QED
  BY <1>6, <1>7

LEMMA StraysStep ==
  ASSUME TypeOK, Caught, StraysOnlyIfCaught, [Next]_vars
  PROVE  StraysOnlyIfCaught'
<1>1. caught \subseteq caught'
  BY DEF Next, RequestAppAction, EndLease, NextLease, Sweep, Flush, Reset, Restart, AwaitAppAction,
         Agent, Heartbeat, TakeUp, PerformAction, FlushOver, Events, LoseReport, vars, history
<1>2. ASSUME NEW l \in Loop, PerformAction(l) PROVE astray' \subseteq caught
  <2>1. PICK a : a = Head(loops[l].todo)
    OBVIOUS
  <2>2. a \in Running
    BY <1>2, <2>1 DEF PerformAction, Running
  <2>3. astray' = astray \/ (astray' = astray \cup {a} /\ rows[a].fence < fence)
    BY <1>2, <2>1 DEF PerformAction
  <2> QED
    BY <2>2, <2>3 DEF Caught, Retiree, StraysOnlyIfCaught
<1>3. CASE astray' = astray
  BY <1>1, <1>3 DEF StraysOnlyIfCaught
<1> QED
  BY <1>1, <1>2, <1>3 DEF Next, RequestAppAction, EndLease, NextLease, Sweep, Flush, Reset, Restart,
       AwaitAppAction, Agent, Heartbeat, TakeUp, FlushOver, Events, LoseReport, vars, history,
       StraysOnlyIfCaught

-----------------------------------------------------------------------------
(* What a step adds to the outcomes that wait. *)

LEMMA PendingStep ==
  ASSUME TypeOK, Truthful, [Next]_vars
  PROVE  \/ pending' \subseteq pending
         \/ \E l \in Loop, a \in DOMAIN rows :
              /\ TakeUp(l) /\ Refuses(l, a) /\ a = Head(loops[l].todo)
              /\ \A r \in pending' : r \in pending \/ r = [action |-> a, ok |-> FALSE]
         \/ \E l \in Loop, a \in DOMAIN rows, ok \in BOOLEAN :
              /\ PerformAction(l) /\ Performs(l, a)
              /\ pending' = pending \cup {[action |-> a, ok |-> ok]}
              /\ ran' = IF ok THEN [ran EXCEPT ![a] = @ + 1] ELSE ran
<1>1. CASE Elsewhere \/ Restart \/ \E l \in Loop : Heartbeat(l) \/ FlushOver(l)
  BY <1>1 DEF Elsewhere, RequestAppAction, EndLease, NextLease, Sweep, Flush, Reset, AwaitAppAction,
       Events, LoseReport, vars, agent, Restart, Heartbeat, FlushOver
<1>2. ASSUME NEW l \in Loop, TakeUp(l)
      PROVE  \/ pending' \subseteq pending
             \/ \E a \in DOMAIN rows :
                  /\ Refuses(l, a) /\ a = Head(loops[l].todo)
                  /\ \A r \in pending' : r \in pending \/ r = [action |-> a, ok |-> FALSE]
  BY <1>2, TakeUpWays DEF TakesUp, Refuses, PassesOver
<1>3. ASSUME NEW l \in Loop, PerformAction(l)
      PROVE  \E a \in DOMAIN rows, ok \in BOOLEAN :
               /\ Performs(l, a)
               /\ pending' = pending \cup {[action |-> a, ok |-> ok]}
               /\ ran' = IF ok THEN [ran EXCEPT ![a] = @ + 1] ELSE ran
  <2>1. loops[l].at = "running" /\ loops[l].todo # <<>>
    BY <1>3 DEF PerformAction, TypeOK
  <2>2. Head(loops[l].todo) \in DOMAIN rows
    BY <2>1, LoopFacts
  <2> QED
    BY <1>3, <2>1, <2>2 DEF PerformAction, Performs
<1> QED
  BY <1>1, <1>2, <1>3, Steps

LEMMA RunningStep ==
  ASSUME TypeOK, [Next]_vars, NEW m \in Loop, NEW a, Performs(m, a)'
  PROVE  /\ ~PerformAction(m)
         /\ Performs(m, a) \/ (TakeUp(m) /\ a \in Held(m) /\ TakesUp(m, a))
<1>1. ~Restart
  BY RestartLoops
<1>2. ASSUME Elsewhere PROVE Performs(m, a)
  BY <1>2, ElsewhereLoops DEF Performs
<1>3. ASSUME NEW l \in Loop, Heartbeat(l) PROVE Performs(m, a)
  BY <1>3, HeartbeatLoops
<1>4. ASSUME NEW l \in Loop, TakeUp(l) \/ PerformAction(l) \/ FlushOver(l)
      PROVE  Performs(m, a) \/ (TakeUp(m) /\ a \in Held(m) /\ TakesUp(m, a))
  BY <1>4, LoopLoops
<1>5. ~PerformAction(m)
  BY StepOfLoop DEF Performs
<1> QED
  BY <1>1, <1>2, <1>3, <1>4, <1>5, Steps

LEMMA OnceStep ==
  ASSUME TypeOK, Truthful, Once, [Next]_vars
  PROVE  Once'
<1>1. ASSUME NEW k \in Loop, NEW l \in Loop, NEW a, Performs(k, a)', Performs(l, a)'
      PROVE  k = l
  <2>1. CASE Performs(k, a) /\ Performs(l, a)
    BY <2>1, RunningMeans DEF Once
  <2>2. ASSUME NEW m \in Loop, TakesUp(m, a), TakeUp(m), NEW n \in Loop, Performs(n, a)
        PROVE  FALSE
    BY <2>2, RunningMeans DEF TakesUp, PassedOver
  <2>3. CASE TakeUp(k) /\ TakesUp(k, a) /\ TakeUp(l) /\ TakesUp(l, a)
    <3>1. loops[l].at = "next" /\ loops'[l].at = "running" /\ loops'[k].at = "running"
      BY <1>1, <2>3 DEF TakeUp, Performs
    <3> QED
      BY <2>3, <3>1, StepOfLoop
  <2> QED
    BY <1>1, <2>1, <2>2, <2>3, RunningStep
<1>2. ASSUME NEW r \in pending', NEW l \in Loop, Performs(l, r.action)' PROVE FALSE
  <2>1. ~PerformAction(l)
        /\ (Performs(l, r.action) \/ (TakeUp(l) /\ TakesUp(l, r.action)))
    BY <1>2, RunningStep
  <2>2. CASE r \in pending
    <3>1. ~Performs(l, r.action)
      BY <2>2, RunningMeans DEF Once
    <3>2. ~TakesUp(l, r.action)
      BY <2>2 DEF TakesUp, PassedOver
    <3> QED
      BY <2>1, <3>1, <3>2
  <2>3. CASE r \notin pending
    <3>1. ASSUME NEW m \in Loop, NEW a \in DOMAIN rows, TakeUp(m), Refuses(m, a),
                 r = [action |-> a, ok |-> FALSE]
          PROVE  FALSE
      <4>1. r.action = a /\ a \notin Running
        BY <3>1 DEF Refuses, PassedOver
      <4>2. pending' # pending
        BY <2>3
      <4> QED
        BY <2>1, <4>1, <4>2, RunningMeans DEF TakesUp
    <3>2. ASSUME NEW m \in Loop, NEW a \in DOMAIN rows, NEW ok \in BOOLEAN,
                 PerformAction(m), Performs(m, a), r = [action |-> a, ok |-> ok]
          PROVE  FALSE
      <4>1. r.action = a /\ a \in Running /\ pending' # pending
        BY <2>3, <3>2, RunningMeans
      <4>2. Performs(l, a)
        BY <2>1, <4>1 DEF TakesUp
      <4>3. l = m
        BY <3>2, <4>1, <4>2 DEF Once
      <4> QED
        BY <2>1, <3>2, <4>3
    <3> QED
      BY <2>3, <3>1, <3>2, PendingStep
  <2> QED
    BY <2>2, <2>3
<1>3. ASSUME NEW r \in pending', NEW q \in pending', r.action = q.action PROVE r = q
  <2>1. CASE pending' \subseteq pending
    BY <1>3, <2>1 DEF Once
  <2>2. ASSUME NEW a, NEW ok, pending' \subseteq pending \cup {[action |-> a, ok |-> ok]},
               \A p \in pending : p.action # a
        PROVE  r = q
    BY <1>3, <2>2 DEF Once
  <2>3. ASSUME NEW m \in Loop, NEW a \in DOMAIN rows, Refuses(m, a) PROVE r = q
    <3>1. \A p \in pending : p.action # a
      BY <2>3 DEF Refuses, PassedOver
    <3> QED
      BY <2>2, <2>3, <3>1 DEF Refuses
  <2>4. ASSUME NEW m \in Loop, NEW a \in DOMAIN rows, NEW ok \in BOOLEAN, Performs(m, a),
               pending' = pending \cup {[action |-> a, ok |-> ok]}
        PROVE  r = q
    <3>1. \A p \in pending : p.action # a
      BY <2>4, RunningMeans DEF Once
    <3> QED
      BY <2>2, <2>4, <3>1
  <2> QED
    BY <2>1, <2>3, <2>4, PendingStep
<1>4. \A a : a \in Running' <=> \E l \in Loop : Performs(l, a)'
  BY DEF Running, Performs
<1> QED
  BY <1>1, <1>2, <1>3, <1>4 DEF Once

(* How often an action was performed changes only as it is performed. *)
LEMMA RanStep ==
  ASSUME TypeOK, Truthful, [Next]_vars
  PROVE  \/ ran' = ran
         \/ \E l \in Loop, a \in DOMAIN rows :
              /\ PerformAction(l) /\ Performs(l, a) /\ a \in Action
              /\ pending' = pending \cup {[action |-> a, ok |-> TRUE]}
              /\ ran' = [ran EXCEPT ![a] = @ + 1]
<1>1. ASSUME NEW l \in Loop, PerformAction(l), ran' # ran
      PROVE  \E a \in DOMAIN rows :
               /\ Performs(l, a) /\ a \in Action
               /\ pending' = pending \cup {[action |-> a, ok |-> TRUE]}
               /\ ran' = [ran EXCEPT ![a] = @ + 1]
  <2>1. loops[l].at = "running" /\ loops[l].todo # <<>>
    BY <1>1 DEF PerformAction, TypeOK
  <2>2. Head(loops[l].todo) \in DOMAIN rows /\ Head(loops[l].todo) \in Action
    BY <2>1, LoopFacts, Numbers
  <2> QED
    BY <1>1, <2>1, <2>2 DEF PerformAction, Performs
<1> QED
  BY <1>1 DEF Next, RequestAppAction, EndLease, NextLease, Sweep, Flush, Reset, Restart,
       AwaitAppAction, Agent, Heartbeat, TakeUp, FlushOver, Events, LoseReport, vars, history

(* An outcome waits until its answer is taken, or the agent restarts. *)
LEMMA OutcomeStep ==
  ASSUME TypeOK, Truthful, Once, [Next]_vars, NEW r \in pending, r \notin pending'
  PROVE  \/ r.action \in stale'
         \/ /\ r.action \in DOMAIN rows' /\ rows'[r.action].state \in Settled
            /\ \A l \in Loop : r.action \notin Held(l)'
<1>1. CASE Restart
  BY <1>1 DEF Restart
<1>2. ASSUME NEW q \in net, Events(q)
      PROVE  \/ r.action \in stale'
             \/ /\ r.action \in DOMAIN rows' /\ rows'[r.action].state \in Settled
                /\ \A l \in Loop : r.action \notin Held(l)'
  <2>1. q = r
    BY <1>2 DEF Events
  <2>2. rows'[r.action].state \in Settled /\ r.action \in DOMAIN rows'
    BY <1>2, <2>1, EventRows DEF Truthful
  <2>3. \A l \in Loop : Held(l)' = Held(l)
    BY <1>2, ElsewhereLoops DEF Elsewhere
  <2>4. (\E l \in Loop : r.action \in Held(l)) => r.action \in stale'
    BY <1>2, <2>1 DEF Events
  <2> QED
    BY <2>2, <2>3, <2>4
<1>3. ASSUME NEW l \in Loop, TakeUp(l) PROVE FALSE
  BY <1>3, TakeUpWays DEF TakesUp, Refuses, PassesOver
<1>4. ASSUME NEW l \in Loop, PerformAction(l) PROVE FALSE
  BY <1>4 DEF PerformAction
<1> QED
  BY <1>1, <1>2, <1>3, <1>4 DEF Next, RequestAppAction, EndLease, NextLease, Sweep, Flush, Reset,
       AwaitAppAction, Agent, Heartbeat, FlushOver, LoseReport, vars, agent

LEMMA StaleGrows == ASSUME [Next]_vars PROVE stale \subseteq stale'
BY DEF Next, RequestAppAction, EndLease, NextLease, Sweep, Flush, Reset, Restart, AwaitAppAction,
       Agent, Heartbeat, TakeUp, PerformAction, FlushOver, Events, LoseReport, vars, history

(* What was spent stays so, or is stale. *)
LEMMA SpentStep ==
  ASSUME TypeOK, Truthful, Once, [Next]_vars, NEW a \in Action, a \notin stale', Spent(a)
  PROVE  Spent(a)'
<1>1. CASE \E r \in pending : r.action = a
  <2>1. PICK r \in pending : r.action = a
    BY <1>1
  <2>2. CASE r \in pending'
    BY <2>1, <2>2 DEF Spent
  <2>3. CASE r \notin pending'
    BY <2>1, <2>3, OutcomeStep DEF Spent
  <2> QED
    BY <2>2, <2>3
<1>2. CASE /\ a \in DOMAIN rows /\ rows[a].state \in Settled
           /\ \A l \in Loop : a \notin Held(l)
  <2>1. a \in DOMAIN rows' /\ rows'[a].state \in Settled
    BY <1>2, StepRows DEF RowsKept, Settled
  <2>2. a \notin Due
    BY <1>2 DEF Due, Settled
  <2>3. \A l \in Loop : a \notin Held(l)'
    BY <1>2, <2>2, Steps, ElsewhereLoops, RestartLoops, HeartbeatLoops, LoopLoops
  <2> QED
    BY <2>1, <2>3 DEF Spent
<1> QED
  BY <1>1, <1>2 DEF Spent

LEMMA PerformedOnceStep ==
  ASSUME TypeOK, Truthful, Once, PerformedOnce, TypeOK', [Next]_vars
  PROVE  PerformedOnce'
<1> SUFFICES ASSUME NEW a \in Action, a \notin stale'
             PROVE  /\ a \in Running' => ran'[a] = 0
                    /\ ran'[a] > 0 => Spent(a)'
                    /\ ran'[a] <= 1
  BY DEF PerformedOnce
<1>0. ran \in [Action -> 0..MaxRuns] /\ MaxRuns \in Nat /\ ran[a] \in Nat
  <2>1. ran \in [Action -> 0..MaxRuns] /\ MaxRuns \in Nat
    BY AppActionsAssumption DEF TypeOK
  <2> QED
    BY <2>1
<1>1. a \notin stale
  BY StaleGrows
<1>2. /\ a \in Running => ran[a] = 0
      /\ ran[a] > 0 => Spent(a)
      /\ ran[a] <= 1
  BY <1>1 DEF PerformedOnce
<1>3. a \in Running' => ran[a] = 0
  <2>1. SUFFICES ASSUME a \in Running' PROVE ran[a] = 0
    OBVIOUS
  <2>2. PICK m \in Loop : Performs(m, a)'
    BY <2>1 DEF Running, Performs
  <2>3. CASE Performs(m, a)
    BY <1>2, <2>3, RunningMeans
  <2>4. CASE a \in Held(m) /\ TakesUp(m, a)
    <3>1. ~Spent(a)
      BY <2>4 DEF Spent, TakesUp, PassedOver
    <3> QED
      BY <1>0, <1>2, <3>1
  <2> QED
    BY <2>2, <2>3, <2>4, RunningStep
<1>4. CASE ran'[a] = ran[a]
  BY <1>2, <1>3, <1>4, SpentStep
<1>5. CASE ran'[a] # ran[a]
  <2>1. PICK l \in Loop : /\ PerformAction(l) /\ Performs(l, a)
                          /\ [action |-> a, ok |-> TRUE] \in pending'
                          /\ ran'[a] = ran[a] + 1
    BY <1>0, <1>5, RanStep
  <2>2. ran[a] = 0 /\ ran'[a] = 1
    BY <1>2, <2>1, RunningMeans
  <2>3. Spent(a)'
    BY <2>1 DEF Spent
  <2>4. a \notin Running'
    <3>1. ASSUME NEW m \in Loop, Performs(m, a)' PROVE FALSE
      <4>1. ~PerformAction(m) /\ (Performs(m, a) \/ (TakeUp(m) /\ TakesUp(m, a)))
        BY <3>1, RunningStep
      <4>2. ~TakesUp(m, a)
        BY <2>1, RunningMeans DEF TakesUp, PassedOver
      <4>3. m = l
        BY <2>1, <4>1, <4>2, RunningMeans DEF Once
      <4> QED
        BY <2>1, <4>1, <4>3
    <3> QED
      BY <3>1 DEF Running, Performs
  <2> QED
    BY <2>2, <2>3, <2>4
<1> QED
  BY <1>4, <1>5

LEMMA TruthfulStep ==
  ASSUME TypeOK, Truthful, [Next]_vars
  PROVE  Truthful'
<1>0. /\ ran \in [Action -> 0..MaxRuns] /\ MaxRuns \in Nat /\ DOMAIN rows \subseteq Action
      /\ DOMAIN rows \subseteq DOMAIN rows'
      /\ told \in [Action -> Settled \cup {"nothing", "gave up"}]
  BY AppActionsAssumption, Numbers, StepRows DEF TypeOK, RowsKept
<1>r. ran \in [Action -> Nat] /\ \A a \in Action : ran[a] \in Nat
  <2>1. ran \in [Action -> 0..MaxRuns] /\ MaxRuns \in Nat
    BY <1>0
  <2> QED
    BY <2>1
<1>1. ASSUME NEW a \in Action, ran[a] > 0 PROVE ran'[a] > 0
  <2>1. ran'[a] = ran[a] \/ ran'[a] = ran[a] + 1
    BY <1>r, RanStep
  <2> QED
    BY <1>r, <1>1, <2>1
<1>2. ASSUME NEW r \in (pending \cup net)'
      PROVE  r.action \in DOMAIN rows' /\ (r.ok = TRUE => ran'[r.action] > 0)
  <2>1. CASE r \in pending \cup net
    BY <1>0, <1>1, <2>1 DEF Truthful
  <2>2. CASE r \notin pending \cup net
    <3>1. net' \subseteq pending \cup net
      BY DEF Next, RequestAppAction, EndLease, NextLease, Sweep, Flush, Reset, Restart, AwaitAppAction,
         Agent, Heartbeat, TakeUp, PerformAction, FlushOver, Events, LoseReport, vars, agent
    <3>2. r \in pending' /\ r \notin pending
      BY <2>2, <3>1
    <3>3. ASSUME NEW a \in DOMAIN rows, r = [action |-> a, ok |-> FALSE]
          PROVE  r.action \in DOMAIN rows' /\ (r.ok = TRUE => ran'[r.action] > 0)
      BY <1>0, <3>3
    <3>4. ASSUME NEW a \in DOMAIN rows, NEW ok \in BOOLEAN, r = [action |-> a, ok |-> ok],
                 ran' = IF ok THEN [ran EXCEPT ![a] = @ + 1] ELSE ran
          PROVE  r.action \in DOMAIN rows' /\ (r.ok = TRUE => ran'[r.action] > 0)
      <4>0. a \in Action /\ a \in DOMAIN rows'
        BY <1>0
      <4>1. ran[a] \in Nat /\ r.action = a /\ r.ok = ok
        BY <1>r, <3>4, <4>0
      <4>2. ok = TRUE => ran'[a] = ran[a] + 1
        BY <1>r, <3>4, <4>0
      <4>3. ran[a] + 1 > 0
        BY <4>1
      <4> QED
        BY <4>0, <4>1, <4>2, <4>3
    <3> QED
      BY <3>2, <3>3, <3>4, PendingStep
  <2> QED
    BY <2>1, <2>2
<1>3. ASSUME NEW a \in DOMAIN rows', rows'[a].state = "DONE" PROVE ran'[a] > 0
  <2>1. a \in DOMAIN rows
    BY <1>3, StepRows DEF RowsKept
  <2>2. CASE rows[a].state = "DONE"
    BY <1>0, <1>1, <2>1, <2>2 DEF Truthful
  <2>3. CASE rows[a].state # "DONE"
    <3>1. rows' # rows /\ ~RequestAppAction /\ ~Sweep
      BY <1>3, <2>1, <2>3, RequestRows, SweepRows
    <3>2. PICK r \in net : Events(r)
      BY <3>1 DEF Next, EndLease, NextLease, Flush, Reset, Restart, AwaitAppAction,
         Agent, Heartbeat, TakeUp, PerformAction, FlushOver, LoseReport, vars
    <3>3. a = r.action /\ r.ok = TRUE
      BY <1>3, <2>1, <2>3, <3>2, EventRows DEF Truthful
    <3> QED
      BY <1>0, <1>1, <2>1, <3>3 DEF Truthful
  <2> QED
    BY <2>2, <2>3
<1>4. ASSUME NEW a \in Action, told'[a] \in Settled
      PROVE  a \in DOMAIN rows' /\ rows'[a].state = told'[a]
  <2>1. CASE told'[a] = told[a]
    BY <1>4, <2>1, StepRows DEF Truthful, RowsKept, Settled
  <2>2. CASE told'[a] # told[a]
    <3>1. PICK b \in Action : AwaitAppAction(b)
      BY <2>2 DEF Next, RequestAppAction, EndLease, NextLease, Sweep, Flush, Reset, Restart,
         Agent, Heartbeat, TakeUp, PerformAction, FlushOver, Events, LoseReport, vars
    <3>2. a = b
      BY <1>0, <2>2, <3>1 DEF AwaitAppAction
    <3>3. /\ a \in DOMAIN rows /\ rows' = rows
          /\ told'[a] = IF rows[a].state = "PENDING" THEN "gave up" ELSE rows[a].state
      BY <1>0, <3>1, <3>2 DEF AwaitAppAction
    <3> QED
      BY <1>4, <3>3 DEF Settled
  <2> QED
    BY <2>1, <2>2
<1> QED
  BY <1>2, <1>3, <1>4 DEF Truthful

-----------------------------------------------------------------------------
LEMMA InitInv == Init => Inv
<1> SUFFICES ASSUME Init PROVE Inv
  OBVIOUS
<1>1. \A l \in Loop : loops[l].at = "next" /\ loops[l].todo = <<>>
  BY DEF Init, Idle
<1>2. ToSet(<<>>) = {} /\ Len(<<>>) = 0 /\ DOMAIN <<>> = {} /\ <<>> \in Seq(AppAction)
      /\ <<>> \in Seq(Action)
  BY DEF ToSet
<1>3. Running = {} /\ \A l \in Loop : Held(l) = {}
  BY <1>1, <1>2 DEF Running, Held
<1>4. rows = <<>> /\ pending = {} /\ net = {} /\ astray = {} /\ stale = {} /\ caught = {}
      /\ high = 0 /\ fence = 1 /\ stage = "live"
      /\ told = [a \in Action |-> "nothing"] /\ ran = [a \in Action |-> 0]
  BY DEF Init
<1>5. TypeOK
  <2>1. fence \in 1..MaxFence /\ high \in 0..fence + 1
    BY <1>4, AppActionsAssumption
  <2>2. loops \in [Loop -> [todo: Seq(Action), at: {"next", "running", "flushing"}]]
    BY <1>2 DEF Init, Idle
  <2>3. ran \in [Action -> 0..MaxRuns] /\ told \in [Action -> Settled \cup {"nothing", "gave up"}]
    BY <1>4, AppActionsAssumption
  <2>4. Len(rows) <= MaxActions /\ 0 <= OfferLimit
    BY <1>2, <1>4, AppActionsAssumption
  <2> QED
    BY <1>1, <1>2, <1>4, <2>1, <2>2, <2>3, <2>4 DEF TypeOK
<1> QED
  BY <1>2, <1>3, <1>4, <1>5 DEF Inv, Refused, Caught, Once, PerformedOnce, Truthful,
       StraysOnlyIfCaught, Settled

LEMMA InvStep == Inv /\ [Next]_vars => Inv'
<1> SUFFICES ASSUME Inv, [Next]_vars PROVE Inv'
  OBVIOUS
<1>1. TypeOK /\ Refused /\ Caught /\ Once /\ PerformedOnce /\ Truthful /\ StraysOnlyIfCaught
  BY DEF Inv
<1>2. TypeOK'
  BY <1>1, Types
<1> QED
  BY <1>1, <1>2, RefusedStep, CaughtStep, StraysStep, OnceStep, PerformedOnceStep, TruthfulStep
     DEF Inv

(* Every reachable state satisfies the inductive invariant. *)
THEOREM Invariance == Spec => []Inv
BY InitInv, InvStep, PTL DEF Spec

(* The variables of the control plane and of the agent keep their types. *)
THEOREM TypeCorrect == Spec => []TypeOK
BY Invariance, PTL DEF Inv

(* Whoever polls an action (awaitAppAction) is told what the row says for      *)
(* good, and DONE only of an action that a device performed, however often its *)
(* outcome is sent, lost, swept or sent again.                                 *)
THEOREM TruthIsTold == Spec => []ToldTheTruth
<1>1. Inv => ToldTheTruth
  BY DEF Inv, Truthful, ToldTheTruth, Settled
<1> QED
  BY <1>1, Invariance, PTL

(* acceptFence keeps every action of an earlier lease off a later tenant's     *)
(* device, but the one already under way when its lease was retired.           *)
THEOREM StraysWereCaught == Spec => []StraysOnlyIfCaught
BY Invariance, PTL DEF Inv

(* actionsInFlight and pendingActions together keep an action from a second    *)
(* run, unless its outcome was let go of.                                      *)
THEOREM SecondRunIsStale == Spec => []RunsAgainOnlyIfStale
<1>1. Inv => RunsAgainOnlyIfStale
  <2> SUFFICES ASSUME Inv, NEW a \in Action, ran[a] > 1, a \notin stale PROVE FALSE
    BY DEF RunsAgainOnlyIfStale
  <2>1. ran[a] <= 1
    BY DEF Inv, PerformedOnce
  <2>2. ran \in [Action -> 0..MaxRuns] /\ MaxRuns \in Nat
    BY AppActionsAssumption DEF Inv, TypeOK
  <2>3. ran[a] \in Nat
    BY <2>2
  <2> QED
    BY <2>1, <2>3
<1> QED
  BY <1>1, Invariance, PTL

=============================================================================
