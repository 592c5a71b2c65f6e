-------------------------- MODULE OperationsProofs --------------------------
(* Theorems about Operations, for any number of operations and snapshots. *)
EXTENDS Operations, TLAPS

(* The evidence behind a success: an open row whose target is reached now, or *)
(* was reached in the answer a pass of the reconciler holds, has been noted;   *)
(* and there is no answer about a row that is not there.                       *)
Evidenced ==
  \A o \in Op :
    /\ row[o].result = "succeeded" => o \in reached
    /\ row[o].result = "accepted" /\ Arrived(row[o]) => o \in reached
    /\ row[o].result = "accepted" /\ seen[o] \in TargetOf(row[o].verb) => o \in reached
    /\ row[o] = NoRow => seen[o] = Nothing

(* What was carried out is past its handler's call, and a handler that has    *)
(* yet to call runs under a row that is not settled as failed or noop, save    *)
(* for a snapshot: the reconciler may have seen an earlier one of that name.   *)
Untouched ==
  \A o \in Op :
    /\ o \in carried => at[o] \in {"watch", "over"}
    /\ row[o].result \in {"failed", "noop"} /\ (o \in carried \/ at[o] # "over")
         => row[o].verb = "snapshot"

Newer(n) == \E m \in Minute : m > n /\ snap[m] = "ready"

(* Until a hasty deletion is carried out there is a restore point, and a      *)
(* newer one than any that a deletion is about to take.                       *)
Ways ==
  hasty \cap carried = {} =>
    /\ WayBack
    /\ \A o \in Op \ hasty : at[o] = "act" /\ row[o].verb = "delete" => Newer(row[o].name)

Inv == TypeOK /\ Evidenced /\ Untouched /\ Ways

-----------------------------------------------------------------------------
(* Types. *)

(* settle writes a result to one open row, or nothing. *)
Written(o, result) ==
  /\ row' \in [Op -> Rows \cup {NoRow}]
  /\ \A p \in Op : p # o => row'[p] = row[p]
  /\ \/ row'[o] = row[o]
     \/ /\ row[o] \in Rows /\ row[o].result = "accepted"
        /\ row'[o] = [row[o] EXCEPT !.result = result]

(* What settle leaves of the rows, whether or not its write goes through. *)
LEMMA SettleWrites ==
  ASSUME TypeOK, NEW o \in Op, NEW result \in Results, Settle(o, result)
  PROVE  Written(o, result)
<1>1. CASE row' = row
  BY <1>1 DEF Written, TypeOK
<1>2. CASE row[o].result = "accepted" /\ row' = [row EXCEPT ![o].result = result]
  <2>1. row[o] \in Rows
    BY <1>2 DEF TypeOK, NoRow
  <2>2. [row[o] EXCEPT !.result = result] \in Rows
    BY <2>1 DEF Rows
  <2> QED
    BY <1>2, <2>1, <2>2 DEF Written, TypeOK
<1> QED
  BY <1>1, <1>2 DEF Settle, Settled

(* A row that is written stays a row about the same thing. *)
LEMMA WrittenKeeps ==
  ASSUME TypeOK, NEW o \in Op, NEW result \in Results, Written(o, result), NEW p \in Op
  PROVE  /\ row'[p].verb = row[p].verb /\ row'[p].name = row[p].name
         /\ row'[p] = NoRow <=> row[p] = NoRow
         /\ p # o => row'[p] = row[p]
         /\ row'[p].result # row[p].result =>
              p = o /\ row[o].result = "accepted" /\ row'[o].result = result
<1>1. CASE row'[p] = row[p]
  BY <1>1
<1>2. CASE p = o /\ row[o] \in Rows /\ row[o].result = "accepted"
           /\ row'[o] = [row[o] EXCEPT !.result = result]
  <2>1. row'[o].verb = row[o].verb /\ row'[o].name = row[o].name /\ row'[o].result = result
    BY <1>2 DEF Rows
  <2>2. result # "none"
    BY DEF Results
  <2>3. row'[o] # NoRow /\ row[o] # NoRow
    BY <1>2, <2>1, <2>2 DEF NoRow
  <2> QED
    BY <1>2, <2>1, <2>3
<1> QED
  BY <1>1, <1>2 DEF Written

(* The handler of o moves from one place to another and may settle its row. *)
Moved(o, place, result) ==
  /\ at' = [at EXCEPT ![o] = place]
  /\ Written(o, result)

LEMMA FinishMoves ==
  ASSUME TypeOK, NEW o \in Op, NEW result \in Results, Finish(o, result)
  PROVE  Moved(o, "over", result)
BY SettleWrites DEF Finish, Moved

LEMMA StayMoves ==
  ASSUME TypeOK, NEW o \in Op, NEW place, at' = [at EXCEPT ![o] = place], UNCHANGED row
  PROVE  Moved(o, place, "unknown")
BY DEF Moved, Written, TypeOK

(* A handler past its first step that moves keeps the types. *)
LEMMA MovedTypes ==
  ASSUME TypeOK, NEW o \in Op, at[o] # "idle",
         NEW place \in {"look", "act", "watch", "over"}, NEW result \in Results,
         Moved(o, place, result)
  PROVE  /\ row' \in [Op -> Rows \cup {NoRow}]
         /\ at' \in [Op -> {"idle", "look", "act", "watch", "over"}]
         /\ \A p \in Op : at'[p] = "idle" <=> row'[p] = NoRow
<1>1. ASSUME NEW p \in Op PROVE at'[p] = "idle" <=> row'[p] = NoRow
  <2>1. row'[p] = NoRow <=> row[p] = NoRow
    BY WrittenKeeps DEF Moved
  <2>2. at'[p] = "idle" <=> at[p] = "idle"
    BY DEF Moved, TypeOK
  <2> QED
    BY <2>1, <2>2 DEF TypeOK
<1> QED
  BY <1>1 DEF Moved, Written, TypeOK

(* The three steps of a handler, in those terms. *)
LEMMA LookMoves ==
  ASSUME TypeOK, NEW o \in Op, Look(o)
  PROVE  /\ at[o] = "look"
         /\ \/ \E result \in {"failed", "noop", "unknown"} : Moved(o, "over", result)
            \/ ~Noop(row[o]) /\ ~Refused(row[o]) /\ Moved(o, "act", "unknown")
         /\ machine' = machine /\ snap' = snap /\ seen' = seen /\ aged' = aged
         /\ carried' = carried
         /\ hasty' = IF row[o].verb = "delete" /\ snap[row[o].name] # "ready"
                     THEN hasty \cup {o} ELSE hasty
<1>1. CASE \E result \in {"failed", "unknown"} : Finish(o, result)
  BY <1>1, FinishMoves, Look(o) DEF Look, Results
<1>2. CASE Finish(o, "noop")
  BY <1>2, FinishMoves, Look(o) DEF Look, Results
<1>3. CASE Finish(o, "failed")
  BY <1>3, FinishMoves, Look(o) DEF Look, Results
<1>4. CASE ~Noop(row[o]) /\ ~Refused(row[o]) /\ at' = [at EXCEPT ![o] = "act"] /\ UNCHANGED row
  BY <1>4, StayMoves, Look(o) DEF Look
<1> QED
  BY <1>1, <1>2, <1>3, <1>4 DEF Look

LEMMA ActMoves ==
  ASSUME TypeOK, NEW o \in Op, Act(o)
  PROVE  /\ at[o] = "act"
         /\ seen' = seen /\ aged' = aged /\ hasty' = hasty
         /\ \/ /\ machine' = machine /\ snap' = snap /\ carried' = carried
               /\ \E result \in {"failed", "unknown"} : Moved(o, "over", result)
            \/ /\ Carriable(row[o]) /\ Carry(row[o]) /\ carried' = carried \cup {o}
               /\ \E place \in {"watch", "over"} : Moved(o, place, "unknown")
<1>1. CASE Finish(o, "failed") /\ UNCHANGED <<machine, snap, carried>>
  BY <1>1, FinishMoves, Act(o) DEF Act, Results
<1>2. CASE Finish(o, OfSilence) /\ UNCHANGED <<machine, snap, carried>>
  BY <1>2, FinishMoves, Act(o) DEF Act, Results, OfSilence
<1>3. CASE /\ Carriable(row[o]) /\ Carry(row[o]) /\ carried' = carried \cup {o}
           /\ \/ Finish(o, OfSilence)
              \/ at' = [at EXCEPT ![o] = "watch"] /\ UNCHANGED row
  <2>1. \E place \in {"watch", "over"} : Moved(o, place, "unknown")
    <3>1. CASE Finish(o, OfSilence)
      BY <3>1, FinishMoves DEF Results, OfSilence
    <3>2. CASE at' = [at EXCEPT ![o] = "watch"] /\ UNCHANGED row
      BY <3>2, StayMoves
    <3> QED
      BY <1>3, <3>1, <3>2
  <2> QED
    BY <1>3, <2>1, Act(o) DEF Act
<1> QED
  BY <1>1, <1>2, <1>3, Act(o) DEF Act

LEMMA WatchMoves ==
  ASSUME TypeOK, NEW o \in Op, Watch(o)
  PROVE  /\ at[o] = "watch"
         /\ \E result \in Results :
              /\ Moved(o, "over", result)
              /\ result = "succeeded" => State(row[o]) \in TargetOf(row[o].verb)
              /\ result \in {"failed", "noop"} => row[o].verb = "snapshot"
         /\ machine' = machine /\ snap' = snap /\ seen' = seen /\ aged' = aged
         /\ carried' = carried /\ hasty' = hasty
<1>1. CASE State(row[o]) \in TargetOf(row[o].verb) /\ Finish(o, "succeeded")
  BY <1>1, FinishMoves, Watch(o) DEF Watch, Results
<1>2. CASE row[o].verb = "snapshot" /\ Finish(o, "failed")
  BY <1>2, FinishMoves, Watch(o) DEF Watch, Results
<1>3. CASE at' = [at EXCEPT ![o] = "over"] /\ UNCHANGED row
  BY <1>3, StayMoves, Watch(o) DEF Watch, Results
<1> QED
  BY <1>1, <1>2, <1>3, Watch(o) DEF Watch

LEMMA SettleMoves ==
  ASSUME TypeOK, NEW o \in Op, ReconcileSettle(o)
  PROVE  /\ \E result \in Results :
              /\ Written(o, result)
              /\ result = "succeeded" => seen[o] \in TargetOf(row[o].verb)
              /\ result \in {"failed", "noop"} => row[o].verb = "snapshot"
         /\ seen' = [seen EXCEPT ![o] = Nothing]
         /\ machine' = machine /\ snap' = snap /\ at' = at /\ aged' = aged
         /\ carried' = carried /\ hasty' = hasty
<1>1. CASE seen[o] \in TargetOf(row[o].verb) /\ Settle(o, "succeeded")
  BY <1>1, SettleWrites, ReconcileSettle(o) DEF ReconcileSettle, Results
<1>2. CASE row[o].verb = "snapshot" /\ Settle(o, "failed")
  BY <1>2, SettleWrites, ReconcileSettle(o) DEF ReconcileSettle, Results
<1>3. CASE Settle(o, "unknown")
  BY <1>3, SettleWrites, ReconcileSettle(o) DEF ReconcileSettle, Results
<1>4. CASE UNCHANGED row
  <2>1. Written(o, "unknown")
    BY <1>4 DEF Written, TypeOK
  <2> QED
    BY <2>1, ReconcileSettle(o) DEF ReconcileSettle, Results
<1> QED
  BY <1>1, <1>2, <1>3, <1>4, ReconcileSettle(o) DEF ReconcileSettle

(* What the provider makes of the machine and of the snapshots when it       *)
(* carries a request out.                                                    *)
LEMMA CarryTypes ==
  ASSUME TypeOK, NEW r \in Rows, Carry(r)
  PROVE  /\ machine' \in MachineState
         /\ snap' \in [Minute -> SnapState]
         /\ \A n \in Minute : r.verb = "delete" /\ n # r.name => snap'[n] = snap[n]
         /\ \A n \in Minute : r.verb = "snapshot" /\ n # r.name => snap'[n] = snap[n]
         /\ r.verb \in Power => snap' = snap
<1> r.name \in Minute
  BY DEF Rows
<1> QED
  BY DEF Carry, TypeOK, MachineState, SnapState, Power

(* The state of what a row is about is one a pass can be told. *)
LEMMA StateType ==
  ASSUME TypeOK, NEW r \in Rows
  PROVE  State(r) \in MachineState \cup SnapState
BY DEF State, Rows, TypeOK

LEMMA Types == TypeOK /\ [Next]_vars => TypeOK'
<1> SUFFICES ASSUME TypeOK, [Next]_vars PROVE TypeOK'
  OBVIOUS
<1>1. ASSUME Next PROVE reached' \subseteq Op
  BY <1>1 DEF Next, Noted, TypeOK
<1>2. ASSUME Next, NEW o \in Op, NEW verb \in Verb, NEW name \in Minute, Begin(o, verb, name)
      PROVE  TypeOK'
  <2>1. [verb |-> verb, name |-> name, result |-> "accepted"] \in Rows
    BY DEF Rows
  <2>2. row' \in [Op -> Rows \cup {NoRow}]
        /\ at' \in [Op -> {"idle", "look", "act", "watch", "over"}]
    BY <1>2, <2>1 DEF Begin, TypeOK
  <2>3. ASSUME NEW p \in Op PROVE at'[p] = "idle" <=> row'[p] = NoRow
    <3>1. CASE p = o
      BY <1>2, <3>1 DEF Begin, TypeOK, NoRow
    <3>2. CASE p # o
      BY <1>2, <3>2 DEF Begin, TypeOK
    <3> QED
      BY <3>1, <3>2
  <2> QED
    BY <1>1, <1>2, <2>2, <2>3 DEF Begin, TypeOK
<1>3. ASSUME Next, NEW o \in Op, Look(o) PROVE TypeOK'
  <2>1. PICK place \in {"act", "over"}, result \in Results : Moved(o, place, result)
    BY <1>3, LookMoves DEF Results
  <2>2. /\ row' \in [Op -> Rows \cup {NoRow}]
        /\ at' \in [Op -> {"idle", "look", "act", "watch", "over"}]
        /\ \A p \in Op : at'[p] = "idle" <=> row'[p] = NoRow
    BY <1>3, <2>1, LookMoves, MovedTypes
  <2>3. hasty' \subseteq Op
    BY <1>3, LookMoves DEF TypeOK
  <2> QED
    BY <1>1, <1>3, <2>2, <2>3, LookMoves DEF TypeOK
<1>4. ASSUME Next, NEW o \in Op, Act(o) PROVE TypeOK'
  <2>1. PICK place \in {"watch", "over"}, result \in Results : Moved(o, place, result)
    BY <1>4, ActMoves DEF Results
  <2>2. /\ row' \in [Op -> Rows \cup {NoRow}]
        /\ at' \in [Op -> {"idle", "look", "act", "watch", "over"}]
        /\ \A p \in Op : at'[p] = "idle" <=> row'[p] = NoRow
    BY <1>4, <2>1, ActMoves, MovedTypes
  <2>3. row[o] \in Rows
    BY <1>4, ActMoves DEF TypeOK
  <2>4. machine' \in MachineState /\ snap' \in [Minute -> SnapState] /\ carried' \subseteq Op
    BY <1>4, <2>3, ActMoves, CarryTypes DEF TypeOK
  <2> QED
    BY <1>1, <1>4, <2>2, <2>4, ActMoves DEF TypeOK
<1>5. ASSUME Next, NEW o \in Op, Watch(o) PROVE TypeOK'
  <2>1. PICK result \in Results : Moved(o, "over", result)
    BY <1>5, WatchMoves
  <2>2. /\ row' \in [Op -> Rows \cup {NoRow}]
        /\ at' \in [Op -> {"idle", "look", "act", "watch", "over"}]
        /\ \A p \in Op : at'[p] = "idle" <=> row'[p] = NoRow
    BY <1>5, <2>1, WatchMoves, MovedTypes
  <2> QED
    BY <1>1, <1>5, <2>2, WatchMoves DEF TypeOK
<1>6. ASSUME Next, NEW o \in Op, ReconcileLook(o) PROVE TypeOK'
  <2>1. row[o] \in Rows
    BY <1>6 DEF ReconcileLook, TypeOK, NoRow
  <2>2. seen' \in [Op -> MachineState \cup SnapState \cup {Nothing, Silence}]
    BY <1>6, <2>1, StateType DEF ReconcileLook, TypeOK
  <2> QED
    BY <1>1, <1>6, <2>2 DEF ReconcileLook, TypeOK
<1>7. ASSUME Next, NEW o \in Op, ReconcileSettle(o) PROVE TypeOK'
  <2>1. PICK result \in Results : Written(o, result)
    BY <1>7, SettleMoves
  <2>2. \A p \in Op : row'[p] = NoRow <=> row[p] = NoRow
    BY <2>1, WrittenKeeps
  <2> QED
    BY <1>1, <1>7, <2>1, <2>2, SettleMoves DEF TypeOK, Written
<1>8. ASSUME Next, NEW o \in Op, Age(o) PROVE TypeOK'
  BY <1>1, <1>8 DEF Age, TypeOK
<1>9. ASSUME Next, Provider PROVE TypeOK'
  <2>1. machine' \in MachineState /\ snap' \in [Minute -> SnapState]
    BY <1>9 DEF Provider, TypeOK, MachineState, SnapState
  <2> QED
    BY <1>1, <1>9, <2>1 DEF Provider, TypeOK
<1>10. ASSUME Next, Crash PROVE TypeOK'
  BY <1>1, <1>10 DEF Crash, TypeOK
<1>11. CASE UNCHANGED vars
  BY <1>11 DEF vars, TypeOK
<1> QED
  BY <1>2, <1>3, <1>4, <1>5, <1>6, <1>7, <1>8, <1>9, <1>10, <1>11 DEF Next, Step

-----------------------------------------------------------------------------
(* A success was reached. *)

(* To be in the target state is to have arrived there. *)
LEMMA TargetIsArrival ==
  ASSUME TypeOK, NEW r \in Rows, State(r) \in TargetOf(r.verb)
  PROVE  Arrived(r)
<1>1. r.verb \in {"start", "stop", "restart", "snapshot", "delete"}
  BY DEF Rows, Verb, Power
<1> QED
  BY <1>1 DEF State, TargetOf, Arrived, Power

(* A step that writes rows only on evidence, and takes down no answer, keeps *)
(* the evidence.                                                             *)
LEMMA WrittenEvidenced ==
  ASSUME TypeOK, Evidenced, Noted, NEW o \in Op, NEW result \in Results, Written(o, result),
         result = "succeeded" /\ row[o].result = "accepted" => o \in reached,
         \A p \in Op : seen'[p] \in {seen[p], Nothing}
  PROVE  Evidenced'
<1>1. reached \subseteq reached'
  BY DEF Noted
<1>2. ASSUME NEW p \in Op, row'[p].result = "succeeded" PROVE p \in reached'
  BY <1>1, <1>2, WrittenKeeps DEF Evidenced
<1>3. ASSUME NEW p \in Op, row'[p].result = "accepted", Arrived(row[p])' PROVE p \in reached'
  BY <1>3 DEF Noted
<1>4. ASSUME NEW p \in Op, row'[p].result = "accepted", seen'[p] \in TargetOf(row'[p].verb)
      PROVE  p \in reached'
  <2>1. row[p].result = "accepted" /\ row'[p].verb = row[p].verb
    BY <1>4, WrittenKeeps DEF Results
  <2>2. row[p] \in Rows
    BY <2>1 DEF TypeOK, NoRow
  <2>3. row[p].verb \in Verb
    BY <2>2 DEF Rows
  <2>4. seen'[p] # Nothing
    BY <1>4, <2>1, <2>3 DEF TargetOf, Nothing, Verb, Power
  <2> QED
    BY <1>1, <1>4, <2>1, <2>4 DEF Evidenced
<1>5. ASSUME NEW p \in Op, row'[p] = NoRow PROVE seen'[p] = Nothing
  BY <1>5, WrittenKeeps DEF Evidenced
<1> QED
  BY <1>2, <1>3, <1>4, <1>5 DEF Evidenced

LEMMA BeginEvidenced ==
  ASSUME TypeOK, Evidenced, Noted,
         NEW o \in Op, NEW verb \in Verb, NEW name \in Minute, Begin(o, verb, name)
  PROVE  Evidenced'
<1>1. ASSUME NEW p \in Op, row'[p].result = "accepted", Arrived(row[p])' PROVE p \in reached'
  BY <1>1 DEF Noted
<1>2. ASSUME NEW p \in Op, p # o
      PROVE  row'[p] = row[p] /\ seen'[p] = seen[p] /\ reached \subseteq reached'
  BY <1>2 DEF Begin, TypeOK, Noted
<1>3. row'[o].result = "accepted" /\ row'[o].verb = verb /\ row'[o] # NoRow
  BY DEF Begin, TypeOK, NoRow
<1>4. seen'[o] = Nothing
  BY DEF Begin, TypeOK, Evidenced
<1>5. seen'[o] \notin TargetOf(row'[o].verb)
  BY <1>3, <1>4 DEF TargetOf, Nothing, Verb, Power
<1> QED
  BY <1>1, <1>2, <1>3, <1>5 DEF Evidenced

LEMMA ReconcileLookEvidenced ==
  ASSUME TypeOK, Evidenced, Noted, NEW o \in Op, ReconcileLook(o)
  PROVE  Evidenced'
<1>1. ASSUME NEW p \in Op, row'[p].result = "accepted", Arrived(row[p])' PROVE p \in reached'
  BY <1>1 DEF Noted
<1>2. row' = row /\ machine' = machine /\ snap' = snap /\ reached \subseteq reached'
  BY DEF ReconcileLook, Noted
<1>3. row[o] \in Rows
  BY DEF ReconcileLook, TypeOK, NoRow
<1>4. PICK answer \in {Silence, State(row[o])} : seen' = [seen EXCEPT ![o] = answer]
  BY DEF ReconcileLook
<1>5. ASSUME answer \in TargetOf(row[o].verb) PROVE o \in reached
  <2>1. row[o].verb \in Verb
    BY <1>3 DEF Rows
  <2>2. answer # Silence
    BY <1>5, <2>1 DEF TargetOf, Silence, Verb, Power
  <2>3. Arrived(row[o])
    BY <1>3, <1>4, <1>5, <2>2, TargetIsArrival
  <2> QED
    BY <2>3 DEF ReconcileLook, Evidenced
<1>6. ASSUME NEW p \in Op, row'[p].result = "accepted", seen'[p] \in TargetOf(row'[p].verb)
      PROVE  p \in reached'
  BY <1>2, <1>4, <1>5, <1>6 DEF TypeOK, Evidenced
<1>7. ASSUME NEW p \in Op, row'[p] = NoRow PROVE seen'[p] = Nothing
  BY <1>2, <1>3, <1>4, <1>7 DEF TypeOK, Evidenced, NoRow, Rows, Verb, Power
<1> QED
  BY <1>1, <1>2, <1>6, <1>7 DEF Evidenced

LEMMA NextEvidenced == TypeOK /\ Evidenced /\ [Next]_vars => Evidenced'
<1> SUFFICES ASSUME TypeOK, Evidenced, [Next]_vars PROVE Evidenced'
  OBVIOUS
<1>0. ASSUME Noted, NEW o \in Op, UNCHANGED row, seen' = seen \/ seen' = [p \in Op |-> Nothing]
      PROVE  Evidenced'
  <2>1. Written(o, "unknown")
    BY <1>0 DEF Written, TypeOK
  <2>2. \A p \in Op : seen'[p] \in {seen[p], Nothing}
    BY <1>0
  <2> QED
    BY <1>0, <2>1, <2>2, WrittenEvidenced DEF Results
<1>1. ASSUME Noted, NEW o \in Op, \E verb \in Verb, name \in Minute : Begin(o, verb, name)
      PROVE  Evidenced'
  BY <1>1, BeginEvidenced
<1>2. ASSUME Noted, NEW o \in Op, Look(o) PROVE Evidenced'
  <2>1. PICK result \in {"failed", "noop", "unknown"} : Written(o, result)
    BY <1>2, LookMoves DEF Moved
  <2>2. seen' = seen
    BY <1>2 DEF Look
  <2> QED
    BY <1>2, <2>1, <2>2, WrittenEvidenced DEF Results
<1>3. ASSUME Noted, NEW o \in Op, Act(o) PROVE Evidenced'
  <2>1. PICK result \in {"failed", "unknown"} : Written(o, result)
    BY <1>3, ActMoves DEF Moved
  <2>2. seen' = seen
    BY <1>3 DEF Act
  <2> QED
    BY <1>3, <2>1, <2>2, WrittenEvidenced DEF Results
<1>4. ASSUME Noted, NEW o \in Op, Watch(o) PROVE Evidenced'
  <2>1. PICK result \in Results :
          /\ Moved(o, "over", result)
          /\ result = "succeeded" => State(row[o]) \in TargetOf(row[o].verb)
    BY <1>4, WatchMoves
  <2>2. row[o] \in Rows
    BY <1>4, WatchMoves DEF TypeOK
  <2>3. result = "succeeded" /\ row[o].result = "accepted" => o \in reached
    BY <2>1, <2>2, TargetIsArrival DEF Evidenced
  <2> QED
    BY <1>4, <2>1, <2>3, WatchMoves, WrittenEvidenced DEF Moved
<1>5. ASSUME Noted, NEW o \in Op, ReconcileLook(o) PROVE Evidenced'
  BY <1>5, ReconcileLookEvidenced
<1>6. ASSUME Noted, NEW o \in Op, ReconcileSettle(o) PROVE Evidenced'
  <2>1. PICK result \in Results :
          /\ Written(o, result)
          /\ result = "succeeded" => seen[o] \in TargetOf(row[o].verb)
    BY <1>6, SettleMoves
  <2>2. \A p \in Op : seen'[p] \in {seen[p], Nothing}
    BY <1>6, SettleMoves DEF TypeOK
  <2> QED
    BY <1>6, <2>1, <2>2, WrittenEvidenced DEF Evidenced
<1>7. ASSUME Noted, NEW o \in Op, Age(o) PROVE Evidenced'
  BY <1>0, <1>7 DEF Age
<1>8. ASSUME Noted, Provider \/ Crash PROVE Evidenced'
  <2>1. UNCHANGED row /\ (seen' = seen \/ seen' = [p \in Op |-> Nothing])
    BY <1>8 DEF Provider, Crash
  <2>2. CASE Op = {}
    BY <2>2 DEF Evidenced
  <2>3. CASE \E o \in Op : TRUE
    BY <1>0, <1>8, <2>1, <2>3
  <2> QED
    BY <2>2, <2>3
<1>9. CASE UNCHANGED vars
  BY <1>9 DEF vars, Evidenced, Arrived
<1> QED
  BY <1>1, <1>2, <1>3, <1>4, <1>5, <1>6, <1>7, <1>8, <1>9 DEF Next, Step

-----------------------------------------------------------------------------
(* A failure did nothing. *)

(* A handler that moves on keeps what is said about the untouched rows, if   *)
(* what it has carried out is behind it and not written down as a failure.   *)
LEMMA MovedUntouched ==
  ASSUME TypeOK, Untouched, NEW o \in Op, at[o] # "over",
         NEW place \in {"act", "watch", "over"}, NEW result \in Results,
         Moved(o, place, result),
         carried' = carried \/ carried' = carried \cup {o},
         o \in carried' => place # "act",
         (o \in carried' \/ place # "over") /\ result \in {"failed", "noop"}
           => row[o].verb = "snapshot"
  PROVE  Untouched'
<1>1. ASSUME NEW p \in Op, p # o
      PROVE  /\ row'[p] = row[p] /\ at'[p] = at[p]
             /\ p \in carried' <=> p \in carried
  BY <1>1 DEF Moved, Written, TypeOK
<1>2. at'[o] = place
  BY DEF Moved, TypeOK
<1>3. ASSUME row'[o].result \in {"failed", "noop"}, o \in carried' \/ place # "over"
      PROVE  row'[o].verb = "snapshot"
  <2>1. row'[o].verb = row[o].verb
    BY WrittenKeeps DEF Moved
  <2>2. CASE row'[o].result = row[o].result
    BY <1>3, <2>1, <2>2 DEF Untouched
  <2>3. CASE row'[o].result = result
    BY <1>3, <2>1, <2>3
  <2> QED
    BY <2>2, <2>3, WrittenKeeps DEF Moved
<1> QED
  BY <1>1, <1>2, <1>3 DEF Untouched

LEMMA NextUntouched == TypeOK /\ Untouched /\ [Next]_vars => Untouched'
<1> SUFFICES ASSUME TypeOK, Untouched, [Next]_vars PROVE Untouched'
  OBVIOUS
<1>1. ASSUME NEW o \in Op, NEW verb \in Verb, NEW name \in Minute, Begin(o, verb, name)
      PROVE  Untouched'
  <2>1. o \notin carried
    BY <1>1 DEF Begin, Untouched
  <2>2. row'[o].result = "accepted"
    BY <1>1 DEF Begin, TypeOK
  <2>3. ASSUME NEW p \in Op, p # o PROVE row'[p] = row[p] /\ at'[p] = at[p]
    BY <1>1, <2>3 DEF Begin, TypeOK
  <2> QED
    BY <1>1, <2>1, <2>2, <2>3 DEF Begin, Untouched
<1>2. ASSUME NEW o \in Op, Look(o) PROVE Untouched'
  <2>1. at[o] = "look" /\ o \notin carried /\ carried' = carried
    BY <1>2, LookMoves DEF Untouched
  <2>2. CASE \E result \in {"failed", "noop", "unknown"} : Moved(o, "over", result)
    BY <2>1, <2>2, MovedUntouched DEF Results
  <2>3. CASE Moved(o, "act", "unknown")
    BY <2>1, <2>3, MovedUntouched DEF Results
  <2> QED
    BY <1>2, <2>2, <2>3, LookMoves
<1>3. ASSUME NEW o \in Op, Act(o) PROVE Untouched'
  <2>1. at[o] = "act" /\ o \notin carried
    BY <1>3, ActMoves DEF Untouched
  <2>2. CASE /\ carried' = carried
             /\ \E result \in {"failed", "unknown"} : Moved(o, "over", result)
    BY <2>1, <2>2, MovedUntouched DEF Results
  <2>3. CASE /\ carried' = carried \cup {o}
             /\ \E place \in {"watch", "over"} : Moved(o, place, "unknown")
    BY <2>1, <2>3, MovedUntouched DEF Results
  <2> QED
    BY <1>3, <2>2, <2>3, ActMoves
<1>4. ASSUME NEW o \in Op, Watch(o) PROVE Untouched'
  <2>1. PICK result \in Results : /\ Moved(o, "over", result)
                                  /\ result \in {"failed", "noop"} => row[o].verb = "snapshot"
    BY <1>4, WatchMoves
  <2> QED
    BY <1>4, <2>1, WatchMoves, MovedUntouched
<1>5. ASSUME NEW o \in Op, ReconcileSettle(o) PROVE Untouched'
  <2>1. PICK result \in Results : /\ Written(o, result)
                                  /\ result \in {"failed", "noop"} => row[o].verb = "snapshot"
    BY <1>5, SettleMoves
  <2>2. ASSUME NEW p \in Op, row'[p].result \in {"failed", "noop"}, p \in carried \/ at[p] # "over"
        PROVE  row'[p].verb = "snapshot"
    <3>1. row'[p].verb = row[p].verb
      BY <2>1, WrittenKeeps
    <3>2. CASE row'[p].result = row[p].result
      BY <2>2, <3>1, <3>2 DEF Untouched
    <3>3. CASE p = o /\ row'[o].result = result
      BY <2>1, <2>2, <3>1, <3>3
    <3> QED
      BY <2>1, <3>2, <3>3, WrittenKeeps
  <2> QED
    BY <1>5, <2>2, SettleMoves DEF Untouched
<1>6. ASSUME NEW o \in Op, ReconcileLook(o) \/ Age(o) PROVE Untouched'
  BY <1>6 DEF ReconcileLook, Age, Untouched
<1>7. ASSUME Provider PROVE Untouched'
  BY <1>7 DEF Provider, Untouched
<1>8. ASSUME Crash PROVE Untouched'
  <2>1. ASSUME NEW p \in Op
        PROVE  /\ p \in carried => at'[p] = "over"
               /\ at'[p] # "over" => row[p].result = "none"
    BY <1>8 DEF Crash, Untouched, TypeOK, NoRow
  <2> QED
    BY <1>8, <2>1 DEF Crash, Untouched
<1>9. CASE UNCHANGED vars
  BY <1>9 DEF vars, Untouched
<1> QED
  BY <1>1, <1>2, <1>3, <1>4, <1>5, <1>6, <1>7, <1>8, <1>9 DEF Next, Step

-----------------------------------------------------------------------------
(* The last way back. *)

(* A step that takes no ready snapshot away and brings no deletion to its    *)
(* call keeps the ways back.                                                 *)
LEMMA WaysKept ==
  ASSUME TypeOK, TypeOK', Ways,
         hasty \subseteq hasty', carried \subseteq carried',
         \A n \in Minute : snap[n] = "ready" => snap'[n] = "ready",
         \A o \in Op \ hasty' : at'[o] = "act" /\ row'[o].verb = "delete" =>
           at[o] = "act" /\ row[o].verb = "delete" /\ row'[o].name = row[o].name
  PROVE  Ways'
<1> SUFFICES ASSUME hasty' \cap carried' = {}
             PROVE  /\ WayBack'
                    /\ \A o \in Op \ hasty' :
                         at'[o] = "act" /\ row'[o].verb = "delete" => Newer(row[o].name)'
  BY DEF Ways
<1>1. hasty \cap carried = {}
  OBVIOUS
<1>2. WayBack'
  BY <1>1 DEF Ways, WayBack
<1>3. ASSUME NEW o \in Op \ hasty', at'[o] = "act", row'[o].verb = "delete"
      PROVE  Newer(row[o].name)'
  <2>1. Newer(row[o].name) /\ row'[o].name = row[o].name
    BY <1>1, <1>3 DEF Ways
  <2> QED
    BY <2>1 DEF Newer
<1> QED
  BY <1>2, <1>3

(* A deletion that is not hasty leaves a newer restore point behind, and     *)
(* with it one that is newer than whatever another deletion is about to take. *)
LEMMA DeleteWays ==
  ASSUME TypeOK, TypeOK', Ways, NEW o \in Op, at[o] = "act", row[o].verb = "delete",
         hasty' = hasty, carried' = carried \cup {o},
         snap' = [snap EXCEPT ![row[o].name] = "deleting"],
         \A p \in Op : at'[p] = "act" => at[p] = "act",
         \A p \in Op : row'[p].verb = row[p].verb /\ row'[p].name = row[p].name
  PROVE  Ways'
<1> SUFFICES ASSUME hasty' \cap carried' = {}
             PROVE  /\ WayBack'
                    /\ \A p \in Op \ hasty' :
                         at'[p] = "act" /\ row'[p].verb = "delete" => Newer(row[p].name)'
  BY DEF Ways
<1>1. hasty \cap carried = {} /\ o \notin hasty
  OBVIOUS
<1>2. PICK m \in Minute : m > row[o].name /\ snap[m] = "ready"
  BY <1>1 DEF Ways, Newer
<1>3. row[o].name \in Minute
  BY DEF TypeOK, Rows, NoRow
<1>4. \A n \in Minute : n # row[o].name => snap'[n] = snap[n]
  BY <1>3 DEF TypeOK
<1>5. snap'[m] = "ready"
  BY <1>2, <1>3, <1>4 DEF Minute
<1>6. ASSUME NEW p \in Op \ hasty', at'[p] = "act", row'[p].verb = "delete"
      PROVE  Newer(row[p].name)'
  <2>1. PICK k \in Minute : k > row[p].name /\ snap[k] = "ready"
    BY <1>1, <1>6 DEF Ways, Newer
  <2>2. CASE k = row[o].name
    <3>1. m > row[p].name
      <4>1. row[p].name \in Minute
        BY <1>6 DEF TypeOK, Rows, NoRow
      <4> QED
        BY <1>2, <2>1, <2>2, <4>1, OperationsAssumption DEF Minute
    <3> QED
      BY <1>5, <3>1 DEF Newer
  <2>3. CASE k # row[o].name
    BY <1>4, <2>1, <2>3 DEF Newer
  <2> QED
    BY <2>2, <2>3
<1> QED
  BY <1>5, <1>6 DEF WayBack

(* A deletion that goes on to its call, having found its snapshot ready, has  *)
(* seen a newer one.                                                          *)
LEMMA LookWays ==
  ASSUME TypeOK, TypeOK', Untouched, Ways, NEW o \in Op, Look(o)
  PROVE  Ways'
<1>1. at[o] = "look" /\ o \notin carried /\ carried' = carried /\ snap' = snap
      /\ hasty \subseteq hasty' /\ hasty' \cap carried = hasty \cap carried
  BY LookMoves DEF Untouched
<1>2. ASSUME NEW p \in Op, p # o
      PROVE  at'[p] = at[p] /\ row'[p] = row[p]
  BY <1>2, LookMoves DEF Moved, Written, TypeOK
<1>3. CASE \E result \in {"failed", "noop", "unknown"} : Moved(o, "over", result)
  <2>1. at'[o] = "over"
    BY <1>3 DEF Moved, TypeOK
  <2> QED
    BY <1>1, <1>2, <2>1, WaysKept
<1>4. CASE ~Refused(row[o]) /\ Moved(o, "act", "unknown")
  <2>1. row'[o].verb = row[o].verb /\ row'[o].name = row[o].name
    BY <1>4, WrittenKeeps DEF Moved, Results
  <2>2. ASSUME o \notin hasty', row[o].verb = "delete" PROVE Newer(row[o].name)
    <3>1. snap[row[o].name] = "ready"
      BY <2>2, LookMoves
    <3>2. row[o].name \in Minute
      BY <2>2 DEF TypeOK, Rows, NoRow
    <3>3. PICK n \in NewestOf : ~(n <= row[o].name)
      BY <1>4, <2>2, <3>1, <3>2 DEF Refused, RemoveRefused, NewestOf
    <3> QED
      BY <3>2, <3>3, OperationsAssumption DEF Newer, NewestOf, Minute
  <2>3. \A p \in Op : row'[p].verb = row[p].verb /\ row'[p].name = row[p].name
    BY <1>2, <2>1
  <2>4. \A n : Newer(n)' <=> Newer(n)
    BY <1>1 DEF Newer
  <2>5. WayBack' <=> WayBack
    BY <1>1 DEF WayBack
  <2>6. ASSUME hasty' \cap carried' = {}, NEW p \in Op \ hasty', at'[p] = "act",
               row'[p].verb = "delete"
        PROVE  Newer(row'[p].name)
    <3>1. CASE p = o
      BY <2>1, <2>2, <2>6, <3>1
    <3>2. CASE p # o
      BY <1>1, <1>2, <2>6, <3>2 DEF Ways
    <3> QED
      BY <3>1, <3>2
  <2> QED
    BY <1>1, <2>4, <2>5, <2>6 DEF Ways, Newer
<1> QED
  BY <1>3, <1>4, LookMoves

LEMMA ActWays ==
  ASSUME TypeOK, TypeOK', Ways, NEW o \in Op, Act(o)
  PROVE  Ways'
<1>1. at[o] = "act" /\ hasty' = hasty /\ carried \subseteq carried'
  BY ActMoves
<1>2. PICK place \in {"watch", "over"}, result \in Results : Moved(o, place, result)
  BY ActMoves DEF Results
<1>3. \A p \in Op : /\ row'[p].verb = row[p].verb /\ row'[p].name = row[p].name
                    /\ at'[p] = "act" => at[p] = "act"
  BY <1>2, WrittenKeeps DEF Moved, TypeOK
<1>4. CASE snap' = snap
  BY <1>1, <1>3, <1>4, WaysKept
<1>5. CASE Carriable(row[o]) /\ Carry(row[o]) /\ carried' = carried \cup {o}
  <2>1. row[o] \in Rows
    BY <1>1 DEF TypeOK
  <2>2. row[o].name \in Minute
    BY <2>1 DEF Rows
  <2>3. CASE row[o].verb = "delete"
    <3>1. snap' = [snap EXCEPT ![row[o].name] = "deleting"]
      BY <1>5, <2>3 DEF Carry
    <3> QED
      BY <1>1, <1>3, <1>5, <2>3, <3>1, DeleteWays
  <2>4. CASE row[o].verb = "snapshot"
    <3>1. snap[row[o].name] = "missing" /\ snap' = [snap EXCEPT ![row[o].name] = "creating"]
      BY <1>5, <2>4 DEF Carry, Carriable
    <3>2. \A n \in Minute : snap[n] = "ready" => snap'[n] = "ready"
      BY <2>2, <3>1 DEF TypeOK
    <3> QED
      BY <1>1, <1>3, <3>2, WaysKept
  <2>5. CASE row[o].verb \in Power
    BY <1>1, <1>3, <1>5, <2>1, <2>5, CarryTypes, WaysKept
  <2> QED
    BY <2>1, <2>3, <2>4, <2>5 DEF Rows, Verb
<1> QED
  BY <1>4, <1>5, ActMoves

LEMMA NextWays == TypeOK /\ TypeOK' /\ Untouched /\ Ways /\ [Next]_vars => Ways'
<1> SUFFICES ASSUME TypeOK, TypeOK', Untouched, Ways, [Next]_vars PROVE Ways'
  OBVIOUS
<1>1. ASSUME NEW o \in Op, NEW verb \in Verb, NEW name \in Minute, Begin(o, verb, name)
      PROVE  Ways'
  <2>1. \A p \in Op : at'[p] = "act" => at[p] = "act" /\ row'[p] = row[p]
    BY <1>1 DEF Begin, TypeOK
  <2> QED
    BY <1>1, <2>1, WaysKept DEF Begin
<1>2. ASSUME NEW o \in Op, Look(o) PROVE Ways'
  BY <1>2, LookWays
<1>3. ASSUME NEW o \in Op, Act(o) PROVE Ways'
  BY <1>3, ActWays
<1>4. ASSUME NEW o \in Op, Watch(o) PROVE Ways'
  <2>1. PICK result \in Results : Moved(o, "over", result)
    BY <1>4, WatchMoves
  <2>2. \A p \in Op : at'[p] = "act" => at[p] = "act" /\ row'[p] = row[p]
    BY <2>1 DEF Moved, Written, TypeOK
  <2> QED
    BY <1>4, <2>2, WatchMoves, WaysKept
<1>5. ASSUME NEW o \in Op, ReconcileSettle(o) PROVE Ways'
  <2>1. PICK result \in Results : Written(o, result)
    BY <1>5, SettleMoves
  <2>2. \A p \in Op : row'[p].verb = row[p].verb /\ row'[p].name = row[p].name
    BY <2>1, WrittenKeeps
  <2> QED
    BY <1>5, <2>2, SettleMoves, WaysKept
<1>6. ASSUME NEW o \in Op, ReconcileLook(o) \/ Age(o) PROVE Ways'
  BY <1>6, WaysKept DEF ReconcileLook, Age
<1>7. ASSUME Provider PROVE Ways'
  <2>1. \A n \in Minute : snap[n] = "ready" => snap'[n] = "ready"
    BY <1>7 DEF Provider, TypeOK
  <2> QED
    BY <1>7, <2>1, WaysKept DEF Provider
<1>8. ASSUME Crash PROVE Ways'
  <2>1. \A p \in Op : at'[p] # "act"
    BY <1>8 DEF Crash
  <2> QED
    BY <1>8, <2>1, WaysKept DEF Crash
<1>9. CASE UNCHANGED vars
  BY <1>9, WaysKept DEF vars
<1> QED
  BY <1>1, <1>2, <1>3, <1>4, <1>5, <1>6, <1>7, <1>8, <1>9 DEF Next, Step

-----------------------------------------------------------------------------
(* The theorems. *)

LEMMA InitInv == Init => Inv
<1> SUFFICES ASSUME Init PROVE Inv
  OBVIOUS
<1>1. 0 \in Minute /\ snap[0] = "ready"
  BY OperationsAssumption DEF Init, Minute
<1>2. TypeOK
  BY DEF Init, TypeOK, MachineState, SnapState
<1>3. Evidenced /\ Untouched
  BY DEF Init, Evidenced, Untouched, NoRow
<1>4. Ways
  BY <1>1 DEF Init, Ways, WayBack
<1> QED
  BY <1>2, <1>3, <1>4 DEF Inv

(* The inductive invariant holds of every behaviour of the log. *)
THEOREM Invariance == Spec => []Inv
<1>1. Inv /\ [Next]_vars => Inv'
  BY Types, NextEvidenced, NextUntouched, NextWays DEF Inv
<1> QED
  BY InitInv, <1>1, PTL DEF Spec

(* The log, the handlers and the provider keep their types. *)
THEOREM TypeCorrect == Spec => []TypeOK
BY Invariance, PTL DEF Inv

(* audited, reconcileOperations: a row says succeeded only if what it asked   *)
(* for was so at some moment while the row was open, however many operations  *)
(* overlap and however old the answer is that the reconciler settles it on.   *)
THEOREM SuccessWasReached == Spec => []SucceededWasReached
<1>1. Inv => SucceededWasReached
  BY DEF Inv, Evidenced, SucceededWasReached
<1> QED
  BY Invariance, <1>1, PTL

(* audit.ts: a row says failed or noop only of what was not carried out, or   *)
(* of a snapshot the provider gave up.                                        *)
THEOREM FailureDidNothing == Spec => []FailedDidNothing
<1>1. Inv => FailedDidNothing
  BY DEF Inv, Untouched, FailedDidNothing
<1> QED
  BY Invariance, <1>1, PTL

(* removeSnapshot: the last restore point of a disk is never deleted from     *)
(* here, unless a deletion that had found its snapshot not ready was carried  *)
(* out.                                                                       *)
THEOREM WayBackIsKept == Spec => []LastWayBack
<1>1. Inv => LastWayBack
  BY DEF Inv, Ways, LastWayBack
<1> QED
  BY Invariance, <1>1, PTL

=============================================================================
