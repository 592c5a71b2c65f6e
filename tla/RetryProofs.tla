---------------------------- MODULE RetryProofs ----------------------------
(***************************************************************************)
(* What may be repeated: theorems about the requests of an Idempotency-Key *)
(* (Idempotency) and about the metering events of an agent (Meter), for    *)
(* any number of requests, bodies, sessions, ticks and buffered events.    *)
(***************************************************************************)
EXTENDS Idempotency, Meter, FunctionTheorems, FiniteSetTheorems, SequenceTheorems, TLAPS

(***************************************************************************)
(* A request under its key.                                                *)
(***************************************************************************)

(* A request that began after an answer was stored: the answer is still      *)
(* stored, and the request is no further than claim()'s second statement.    *)
AnswerKept ==
  \A r \in Slot : reqs[r].late => Done /\ reqs[r].pc \in {"idle", "insert", "select"}

Inv == TypeOK /\ AnswerKept

LEMMA InitInv == Init => Inv
<1> SUFFICES ASSUME Init PROVE Inv
  OBVIOUS
<1>1. row = NoRow /\ made = 0 /\ slips = {}
      /\ reqs \in [Slot -> [pc: {"idle"}, body: Body, late: {FALSE}]]
  BY DEF Init
<1>2. ASSUME NEW r \in Slot PROVE reqs[r] \in Request /\ ~reqs[r].late
  BY <1>1 DEF Request, Place
<1>3. reqs \in [Slot -> Request]
  BY <1>1, <1>2
<1> QED
  BY <1>1, <1>2, <1>3 DEF Inv, TypeOK, AnswerKept, MaxMade

(* A step that moves one request and keeps a stored answer keeps the         *)
(* invariant, if a late request moves no further than it may.                *)
LEMMA OneMoves ==
  ASSUME Inv, NEW r \in Slot, NEW pc \in Place, Goto(r, pc),
         row' \in Row \cup {NoRow}, made' \in 0..MaxMade, slips' \subseteq Slip,
         Done => Done',
         reqs[r].late => pc \in {"idle", "insert", "select"}
  PROVE  Inv'
<1>1. reqs' \in [Slot -> Request]
  BY DEF Inv, TypeOK, Goto, Request
<1>2. ASSUME NEW q \in Slot, reqs'[q].late
      PROVE  Done' /\ reqs'[q].pc \in {"idle", "insert", "select"}
  <2>1. reqs[q].late /\ (q # r => reqs'[q] = reqs[q]) /\ (q = r => reqs'[q].pc = pc)
    BY <1>2 DEF Inv, TypeOK, Goto, Request
  <2> QED
    BY <2>1 DEF Inv, AnswerKept
<1> QED
  BY <1>1, <1>2 DEF Inv, TypeOK, AnswerKept

LEMMA NextInv == Inv /\ [Next]_vars => Inv'
<1> SUFFICES ASSUME Inv, [Next]_vars PROVE Inv'
  OBVIOUS
<1>1. ASSUME NEW r \in Slot, Begin(r) PROVE Inv'
  <2>1. PICK b \in Body :
          reqs' = [reqs EXCEPT ![r] = [pc |-> "insert", body |-> b, late |-> Done]]
    BY <1>1 DEF Begin
  <2>2. row' = row /\ made' = made /\ slips' = slips
    BY <1>1 DEF Begin
  <2>3. reqs' \in [Slot -> Request]
    BY <2>1 DEF Inv, TypeOK, Request, Place, Done
  <2>4. Done' <=> Done
    BY <2>2 DEF Done
  <2>5. ASSUME NEW q \in Slot, reqs'[q].late
        PROVE  Done' /\ reqs'[q].pc \in {"idle", "insert", "select"}
    <3>1. CASE q = r
      BY <2>1, <2>4, <2>5, <3>1 DEF Inv, TypeOK
    <3>2. CASE q # r
      BY <2>1, <2>4, <2>5, <3>2 DEF Inv, TypeOK, AnswerKept
    <3> QED
      BY <3>1, <3>2
  <2> QED
    BY <2>2, <2>3, <2>5 DEF Inv, TypeOK, AnswerKept
<1>2. ASSUME NEW r \in Slot, ClaimInsert(r) PROVE Inv'
  <2>1. CASE row = NoRow
    <3>1. ~Done /\ ~reqs[r].late
      BY <2>1 DEF Done, Inv, AnswerKept
    <3>2. /\ row' = [hash |-> reqs[r].body, status |-> "in_flight", stale |-> FALSE]
          /\ made' = made /\ slips' = slips
          /\ Goto(r, "work")
      BY <1>2, <2>1 DEF ClaimInsert
    <3>3. reqs[r].body \in Body
      BY DEF Inv, TypeOK, Request
    <3>4. row' \in Row
      BY <3>2, <3>3 DEF Row
    <3> QED
      BY <3>1, <3>2, <3>4, OneMoves DEF Inv, TypeOK, Place
  <2>2. CASE row # NoRow
    BY <1>2, <2>2, OneMoves DEF ClaimInsert, Inv, TypeOK, Done, Place
  <2> QED
    BY <2>1, <2>2
<1>3. ASSUME NEW r \in Slot, ClaimSelect(r) PROVE Inv'
  <2> DEFINE pc == CASE row = NoRow -> "work"
                     [] row # NoRow /\ row.hash # reqs[r].body -> "idle"
                     [] Done /\ row.hash = reqs[r].body -> "idle"
                     [] OTHER -> "takeover"
  <2>1. Goto(r, pc) /\ row' = row /\ made' = made /\ slips' \subseteq Slip
    BY <1>3 DEF ClaimSelect, Inv, TypeOK, Slip
  <2>2. pc \in Place
    BY DEF Place
  <2>3. reqs[r].late => pc = "idle"
    BY DEF Inv, AnswerKept, Done
  <2> HIDE DEF pc
  <2> QED
    BY <2>1, <2>2, <2>3, OneMoves DEF Inv, TypeOK, Done
<1>4. ASSUME NEW r \in Slot, ClaimTakeover(r) PROVE Inv'
  <2>1. ~reqs[r].late
    BY <1>4 DEF ClaimTakeover, At, Inv, AnswerKept
  <2> QED
    BY <1>4, <2>1, OneMoves DEF ClaimTakeover, Inv, TypeOK, Done, Row, Place
<1>5. ASSUME NEW r \in Slot, Work(r) PROVE Inv'
  <2>1. ~reqs[r].late
    BY <1>5 DEF Work, At, Inv, AnswerKept
  <2>2. made' \in 0..MaxMade
    BY <1>5 DEF Work, Inv, TypeOK, MaxMade
  <2> QED
    BY <1>5, <2>1, <2>2, OneMoves DEF Work, Inv, TypeOK, Done, Place
<1>6. ASSUME NEW r \in Slot, Complete(r) \/ CompleteFails(r) \/ Abandon(r) \/ Die(r)
      PROVE  Inv'
  BY <1>6, OneMoves DEF Complete, CompleteFails, Abandon, Die, At, Inv, TypeOK, AnswerKept,
                        Done, Row, Place, Slip
<1>7. ASSUME Age PROVE Inv'
  BY <1>7 DEF Age, Inv, TypeOK, AnswerKept, Done, Row, Slip
<1>8. ASSUME Purge PROVE Inv'
  <2>1. /\ row' = NoRow /\ made' = 0 /\ slips' = {}
        /\ reqs' = [q \in Slot |-> [reqs[q] EXCEPT !.late = FALSE]]
    BY <1>8 DEF Purge
  <2>2. reqs' \in [Slot -> Request] /\ \A q \in Slot : ~reqs'[q].late
    BY <2>1 DEF Inv, TypeOK, Request
  <2> QED
    BY <2>1, <2>2 DEF Inv, TypeOK, AnswerKept, MaxMade
<1>9. ASSUME UNCHANGED vars PROVE Inv'
  BY <1>9 DEF vars, Inv, TypeOK, AnswerKept, Done
<1> QED
  BY <1>1, <1>2, <1>3, <1>4, <1>5, <1>6, <1>7, <1>8, <1>9 DEF Next

LEMMA Invariance == Spec => []Inv
BY InitInv, NextInv, PTL DEF Spec

(* The row and the requests are always of their types, whatever the order of *)
(* claims, takeovers, completions, failures and deaths.                      *)
THEOREM KeyTypeCorrect == Spec => []TypeOK
<1>1. Inv => TypeOK
  BY DEF Inv
<1> QED
  BY <1>1, Invariance, PTL

(* However many requests run under a key: one that begins when an answer is  *)
(* stored never reaches the allocator (claim(), abandon()).                  *)
THEOREM AnswerStaysFinal == Spec => []AnswerIsFinal
<1>1. Inv => AnswerIsFinal
  BY DEF Inv, AnswerKept, AnswerIsFinal
<1> QED
  BY <1>1, Invariance, PTL

-----------------------------------------------------------------------------
(* While nothing has slipped, one request at most holds the claim, the claim *)
(* is young while it does, and a session that exists is answered for or      *)
(* about to be.                                                              *)
Sole ==
  slips = {} =>
    /\ \A q, r \in Holding : q = r
    /\ Holding # {} => row # NoRow /\ ~Done /\ row.stale = FALSE
    /\ made > 0 => made = 1 /\ (Done \/ \E r \in Slot : At(r, "complete"))

LEMMA InitSole == Init => Sole
<1> SUFFICES ASSUME Init PROVE Sole
  OBVIOUS
<1>1. \A r \in Slot : reqs[r].pc = "idle"
  BY DEF Init
<1>2. Holding = {}
  BY <1>1 DEF Holding
<1> QED
  BY <1>2 DEF Init, Sole

(* What one request's move does to the others. *)
LEMMA Moved ==
  ASSUME TypeOK, NEW r \in Slot, NEW pc, Goto(r, pc)
  PROVE  \A q \in Slot : reqs'[q].pc = IF q = r THEN pc ELSE reqs[q].pc
BY DEF TypeOK, Goto, Request

LEMMA NextSole == TypeOK /\ Sole /\ [Next]_vars => Sole'
<1> SUFFICES ASSUME TypeOK, Sole, [Next]_vars, slips' = {} PROVE Sole'
  BY DEF Sole
<1>0. made \in 0..MaxMade /\ MaxMade = 2
  BY DEF TypeOK, MaxMade
<1>1. ASSUME NEW r \in Slot, Begin(r) PROVE Sole'
  <2>1. \A q \in Slot : reqs'[q].pc = IF q = r THEN "insert" ELSE reqs[q].pc
    BY <1>1 DEF Begin, TypeOK, Request
  <2> QED
    BY <1>1, <2>1 DEF Begin, Sole, Holding, At, Done
<1>2. ASSUME NEW r \in Slot, ClaimInsert(r) PROVE Sole'
  <2>1. CASE row = NoRow
    <3>1. Goto(r, "work") /\ row' = [hash |-> reqs[r].body, status |-> "in_flight", stale |-> FALSE]
      BY <1>2, <2>1 DEF ClaimInsert
    <3>2. row' # NoRow
      <4>1. row' \in Row
        BY <3>1 DEF TypeOK, Request, Row
      <4> QED
        BY <4>1, IdempotencyAssumption
    <3>3. Holding = {} /\ made = 0
      BY <1>0, <1>2, <2>1 DEF ClaimInsert, Sole, Done, Holding, At
    <3> QED
      BY <1>2, <3>1, <3>2, <3>3, Moved DEF ClaimInsert, Sole, Holding, At, Done
  <2>2. CASE row # NoRow
    <3>1. Goto(r, "select") /\ row' = row /\ At(r, "insert")
      BY <1>2, <2>2 DEF ClaimInsert
    <3> QED
      BY <1>2, <3>1, Moved DEF ClaimInsert, Sole, Holding, At, Done
  <2> QED
    BY <2>1, <2>2
<1>3. ASSUME NEW r \in Slot, ClaimSelect(r) PROVE Sole'
  <2>1. PICK pc : Goto(r, pc) /\ pc \in {"idle", "takeover"}
    <3>1. row # NoRow
      BY <1>3 DEF ClaimSelect
    <3> QED
      BY <1>3, <3>1 DEF ClaimSelect
  <2> QED
    BY <1>3, <2>1, Moved DEF ClaimSelect, Sole, Holding, At, Done
<1>4. ASSUME NEW r \in Slot, ClaimTakeover(r) PROVE Sole'
  <2>1. CASE row # NoRow /\ ~Done /\ row.stale
    <3>1. Goto(r, "work") /\ row' = [row EXCEPT !.stale = FALSE] /\ row \in Row
      BY <1>4, <2>1 DEF ClaimTakeover, TypeOK
    <3>2. row' \in Row /\ row' # NoRow /\ row'.status = row.status /\ row'.stale = FALSE
      BY <3>1, IdempotencyAssumption DEF Row
    <3>3. Holding = {} /\ made = 0
      BY <1>0, <1>4, <2>1 DEF ClaimTakeover, Sole, Holding, At
    <3> QED
      BY <1>4, <2>1, <3>1, <3>2, <3>3, Moved DEF ClaimTakeover, Sole, Holding, At, Done
  <2>2. CASE ~(row # NoRow /\ ~Done /\ row.stale)
    <3>1. Goto(r, "idle") /\ row' = row
      BY <1>4, <2>2 DEF ClaimTakeover
    <3> QED
      BY <1>4, <3>1, Moved DEF ClaimTakeover, Sole, Holding, At, Done
  <2> QED
    BY <2>1, <2>2
<1>5. ASSUME NEW r \in Slot, Work(r) PROVE Sole'
  <2>1. r \in Holding /\ slips = {} /\ row' = row
    BY <1>5 DEF Work, Holding, At
  <2>2. made = 0
    BY <1>0, <1>5, <2>1 DEF Work, Sole, Holding, At
  <2>3. PICK pc \in {"abandon", "complete"} : Goto(r, pc) /\ (made' = 0 \/ (made' = 1 /\ pc = "complete"))
    BY <1>0, <1>5, <2>2 DEF Work
  <2>4. Holding' = Holding
    BY <2>1, <2>3, Moved DEF Holding
  <2> QED
    BY <2>1, <2>3, <2>4, Moved DEF Sole, At, Done
<1>6. ASSUME NEW r \in Slot, Complete(r) PROVE Sole'
  <2>1. r \in Holding /\ slips = {} /\ Goto(r, "idle") /\ made' = made
    BY <1>6 DEF Complete, Holding, At
  <2>2. Holding = {r} /\ row # NoRow /\ row \in Row
    BY <2>1 DEF Sole, TypeOK
  <2>3. Holding' = {}
    BY <2>1, <2>2, Moved DEF Holding
  <2>4. row' = [row EXCEPT !.status = "done"]
    BY <1>6, <2>2 DEF Complete
  <2>5. row' \in Row /\ row'.status = "done"
    BY <2>2, <2>4 DEF Row
  <2>6. Done'
    BY <2>5, IdempotencyAssumption DEF Done
  <2> QED
    BY <1>0, <2>1, <2>3, <2>6 DEF Sole
<1>7. ASSUME NEW r \in Slot, CompleteFails(r) PROVE Sole'
  BY <1>7 DEF CompleteFails
<1>8. ASSUME NEW r \in Slot, Abandon(r) PROVE Sole'
  <2>1. r \in Holding /\ slips = {} /\ Goto(r, "idle") /\ made' = made
    BY <1>8 DEF Abandon, Holding, At
  <2>2. Holding = {r} /\ made = 0
    BY <1>0, <1>8, <2>1 DEF Abandon, Sole, Holding, At
  <2>3. Holding' = {}
    BY <2>1, <2>2, Moved DEF Holding
  <2> QED
    BY <2>1, <2>2, <2>3 DEF Sole
<1>9. ASSUME NEW r \in Slot, Die(r) PROVE Sole'
  <2>1. ~At(r, "complete") /\ slips = {} /\ Goto(r, "idle") /\ made' = made /\ row' = row
    BY <1>9 DEF Die
  <2> QED
    BY <2>1, Moved DEF Sole, Holding, At, Done
<1>10. ASSUME Age PROVE Sole'
  <2>1. Holding = {} /\ slips = {} /\ ~Done /\ reqs' = reqs /\ made' = made
    BY <1>10 DEF Age
  <2>2. Holding' = {}
    BY <2>1 DEF Holding
  <2>3. made = 0
    BY <1>0, <2>1 DEF Sole, Holding, At
  <2> QED
    BY <2>1, <2>2, <2>3 DEF Sole
<1>11. ASSUME Purge PROVE Sole'
  <2>1. Holding' = {} /\ made' = 0
    BY <1>11 DEF Purge, Holding, TypeOK, Request
  <2> QED
    BY <2>1 DEF Sole
<1>12. ASSUME UNCHANGED vars PROVE Sole'
  BY <1>12 DEF vars, Sole, Holding, At, Done
<1> QED
  BY <1>1, <1>2, <1>3, <1>4, <1>5, <1>6, <1>7, <1>8, <1>9, <1>10, <1>11, <1>12 DEF Next

(* However many requests run under a key, with whatever bodies: the key is   *)
(* one session, unless an answer was lost, a claim outlived its TTL under a  *)
(* running request, or a request went on without a claim.                    *)
THEOREM OneSession == Spec => []OneSessionUnlessSlipped
<1>1. TypeOK /\ Sole => OneSessionUnlessSlipped
  BY DEF TypeOK, Sole, OneSessionUnlessSlipped, MaxMade
<1>2. Spec => []Sole
  <2>1. TypeOK /\ Sole /\ [Next]_vars => Sole'
    BY NextSole
  <2> QED
    BY <2>1, InitSole, KeyTypeCorrect, PTL DEF Spec
<1> QED
  BY <1>1, <1>2, KeyTypeCorrect, PTL

-----------------------------------------------------------------------------
(***************************************************************************)
(* An event under its id.                                                  *)
(***************************************************************************)

(* The events there are copies of. *)
Issued == ledger \cup net \cup ToSet(buffer)

(* What the meter of s has run and put in no event. *)
Unsaid(s) ==
  IF active[s].on THEN (active[s].start + active[s].billed)..(clock - 1) ELSE {}

(* A meter is no further than the clock, and what it runs is history. *)
Counted(s) ==
  /\ metered[s] \subseteq 0..(clock - 1)
  /\ active[s].on => active[s].start + active[s].billed <= clock
  /\ Unsaid(s) \subseteq metered[s]

(* An event is about seconds its meter ran, all before those it has not said. *)
Said(e) ==
  /\ e.from < e.to /\ Ticks(e) \subseteq metered[e.session]
  /\ active[e.session].on =>
       e.start + e.to <= active[e.session].start + active[e.session].billed

(* No second of a session is in two events. *)
SaidOnce ==
  \A e, f \in Issued : e.session = f.session => e = f \/ Ticks(e) \cap Ticks(f) = {}

(* Every second is in the ledger, waits, or was let go of. *)
Heard(s) ==
  metered[s] \subseteq lost[s] \cup TicksOf(ledger \cup ToSet(buffer), s) \cup Unsaid(s)

(* A session is billed the seconds of its events. *)
Billed(s) == usage[s] = Cardinality(TicksOf(ledger, s))

Books ==
  /\ \A s \in Session : Counted(s) /\ Heard(s) /\ Billed(s)
  /\ \A e \in Issued : Said(e)
  /\ SaidOnce

(* The sessions the device was reset after. *)
Past(s) == s < current \/ (s = current /\ stage = "reset")

(* A session that has not come has no meter, one that is past has none any    *)
(* more and no grant that the agent accepts; so no two ran at one time.       *)
TurnOf(s) ==
  /\ s > current => ~active[s].on /\ s \notin late
  /\ Past(s) /\ s \notin uncut => ~active[s].on /\ (s \in late => s < high)

Turns ==
  /\ stage = "live" => current \in Session
  /\ \A s \in Session : TurnOf(s)
  /\ \A s, t \in Session : s < t => metered[s] \cap metered[t] = {} \/ s \in uncut

MeterInv == MeterTypeOK /\ Books /\ Turns

-----------------------------------------------------------------------------
(* Events, lists of them and their seconds. *)

LEMMA InTicks ==
  ASSUME NEW E, NEW s, NEW m
  PROVE  m \in TicksOf(E, s) <=> \E e \in E : e.session = s /\ m \in Ticks(e)
BY DEF TicksOf

(* A list of a finite set has its elements and no others. *)
LEMMA Listed ==
  ASSUME NEW E, IsFiniteSet(E), NEW q \in SetToSeqs(E)
  PROVE  q \in Seq(E) /\ ToSet(q) = E
<1> DEFINE n == Cardinality(E)
<1>1. n \in Nat
  BY FS_CardinalityType
<1>2. q \in [1..n -> E] /\ \A i, j \in 1..n : i # j => q[i] # q[j]
  BY DEF SetToSeqs
<1>3. IsFiniteSet(1..n) /\ Cardinality(1..n) = n
  BY <1>1, FS_Interval
<1> HIDE DEF n
<1>4. q \in Injection(1..n, E)
  BY <1>2 DEF Injection, IsInjective
<1>5. q \in Surjection(1..n, E)
  BY <1>3, <1>4, FS_Injection DEF n
<1>6. q \in Seq(E) /\ DOMAIN q = 1..n
  BY <1>1, <1>2, SeqDef
<1>7. ToSet(q) \subseteq E
  BY <1>2, <1>6 DEF ToSet
<1>8. E \subseteq ToSet(q)
  BY <1>5, <1>6 DEF ToSet, Surjection
<1> QED BY <1>6, <1>7, <1>8

LEMMA EventFields ==
  ASSUME NEW e \in Event
  PROVE  /\ e.session \in Session /\ e.start \in Nat /\ e.from \in Nat /\ e.to \in Nat
         /\ e.start \in Time /\ e.from \in Time /\ e.to \in Time
         /\ e = [session |-> e.session, start |-> e.start, from |-> e.from, to |-> e.to]
BY MeterAssumption DEF Event, Time

LEMMA Numbers ==
  ASSUME MeterTypeOK
  PROVE  /\ clock \in Nat /\ MaxClock \in Nat /\ clock <= MaxClock
         /\ Session \subseteq Nat /\ IsFiniteSet(Session)
         /\ current \in Nat /\ high \in Nat
         /\ \A s \in Session : /\ active[s] \in [on: BOOLEAN, start: Time, billed: Time]
                               /\ active[s].start \in Nat /\ active[s].billed \in Nat
                               /\ active[s].on \in BOOLEAN
                               /\ usage[s] \in Nat /\ metered[s] \subseteq Time
                               /\ lost[s] \subseteq Time
         /\ Issued \subseteq Event /\ DOMAIN buffer = 1..Len(buffer)
<1>1. clock \in Nat /\ MaxClock \in Nat /\ clock <= MaxClock /\ current \in Nat
  BY MeterAssumption DEF MeterTypeOK, Time
<1>2. high \in Nat
  BY <1>1 DEF MeterTypeOK
<1>3. Session \subseteq Nat /\ IsFiniteSet(Session)
  BY MeterAssumption, FS_Interval DEF Session
<1>4. ASSUME NEW s \in Session
      PROVE  /\ active[s] \in [on: BOOLEAN, start: Time, billed: Time]
             /\ active[s].start \in Nat /\ active[s].billed \in Nat
             /\ active[s].on \in BOOLEAN
             /\ usage[s] \in Nat /\ metered[s] \subseteq Time /\ lost[s] \subseteq Time
  <2>1. active[s] \in [on: BOOLEAN, start: Time, billed: Time]
    BY DEF MeterTypeOK
  <2>2. usage[s] \in Nat /\ metered[s] \subseteq Time /\ lost[s] \subseteq Time
    BY DEF MeterTypeOK
  <2> QED BY <2>1, <2>2, MeterAssumption DEF Time
<1>5. DOMAIN buffer = 1..Len(buffer) /\ ToSet(buffer) \subseteq Event
  BY DEF MeterTypeOK, ToSet
<1>6. Issued \subseteq Event
  BY <1>5 DEF Issued, MeterTypeOK
<1> QED BY <1>1, <1>2, <1>3, <1>4, <1>5, <1>6

(* emitTick says what its meter has not. *)
LEMMA TickFacts ==
  ASSUME MeterTypeOK, NEW s \in Session, Counted(s)
  PROVE  /\ TicksOf(TickOf(s), s) = Unsaid(s)
         /\ \A e \in TickOf(s) :
              /\ e \in Event /\ e.session = s /\ active[s].on
              /\ e.start = active[s].start /\ e.from = active[s].billed
              /\ e.to = clock - active[s].start /\ e.from < e.to
              /\ Ticks(e) = Unsaid(s)
         /\ \A e, f \in TickOf(s) : e = f
<1> DEFINE a == active[s].start
           b == active[s].billed
           x == [session |-> s, start |-> a, from |-> b, to |-> clock - a]
<1>0. a \in Nat /\ b \in Nat /\ clock \in Nat /\ a \in Time /\ b \in Time
  BY Numbers DEF MeterTypeOK
<1>1. TickOf(s) = IF active[s].on /\ clock - a > b THEN {x} ELSE {}
  BY DEF TickOf
<1>2. CASE active[s].on /\ clock - a > b
  <2>1. clock - a \in Time
    BY <1>0, <1>2, Numbers DEF Time
  <2>2. x \in Event
    BY <1>0, <2>1 DEF Event
  <2>3. Ticks(x) = Unsaid(s)
    BY <1>0, <1>2 DEF Ticks, Unsaid
  <2>4. x.session = s /\ x.start = a /\ x.from = b /\ x.to = clock - a /\ x.from < x.to
    BY <1>0, <1>2
  <2> HIDE DEF x
  <2>5. TickOf(s) = {x}
    BY <1>1, <1>2
  <2>6. TicksOf({x}, s) = Ticks(x)
    <3>1. {f \in {x} : f.session = s} = {x}
      BY <2>4
    <3> QED BY <3>1 DEF TicksOf
  <2> QED BY <1>2, <2>2, <2>3, <2>4, <2>5, <2>6
<1>3. CASE ~(active[s].on /\ clock - a > b)
  <2>1. Unsaid(s) = {}
    BY <1>0, <1>3 DEF Unsaid, Counted
  <2> QED BY <1>1, <1>3, <2>1 DEF TicksOf
<1> QED BY <1>2, <1>3

LEMMA TicksFinite ==
  ASSUME MeterTypeOK, NEW S \in SUBSET Session, \A s \in Session : Counted(s)
  PROVE  /\ IsFiniteSet(TicksOfAll(S)) /\ TicksOfAll(S) \subseteq Event
         /\ \A e \in TicksOfAll(S) : e.session \in S /\ e \in TickOf(e.session)
<1> DEFINE E == TicksOfAll(S)
           f == [e \in E |-> e.session]
<1>1. \A e \in E : e \in Event /\ e.session \in S /\ e \in TickOf(e.session)
  BY TickFacts DEF TicksOfAll
<1>2. f \in Injection(E, Session)
  <2>1. ASSUME NEW e \in E, NEW g \in E, e.session = g.session PROVE e = g
    BY <1>1, <2>1, TickFacts
  <2>2. f \in [E -> Session] /\ \A e \in E : f[e] = e.session
    BY <1>1
  <2> HIDE DEF f
  <2> QED BY <2>1, <2>2 DEF Injection, IsInjective
<1>3. IsFiniteSet(E)
  BY <1>2, Numbers, FS_Injection
<1> QED BY <1>1, <1>3

(* A stretch of a list. *)
LEMMA Stretch ==
  ASSUME NEW q \in Seq(Event), NEW m \in Nat \ {0}, NEW n \in Nat, n <= Len(q), m <= n + 1
  PROVE  /\ SubSeq(q, m, n) \in Seq(Event) /\ Len(SubSeq(q, m, n)) = n + 1 - m
         /\ \A i \in 1..(n + 1 - m) : SubSeq(q, m, n)[i] = q[m + i - 1]
<1>1. \A i \in m..n : q[i] \in Event
  BY ElementOfSeq
<1>2. /\ SubSeq(q, m, n) \in Seq(Event)
      /\ Len(SubSeq(q, m, n)) = IF m <= n THEN n - m + 1 ELSE 0
      /\ \A i \in 1..(n - m + 1) : SubSeq(q, m, n)[i] = q[m + i - 1]
  BY <1>1, SubSeqProperties
<1> QED BY <1>2

(* What pushEvent does to the buffer, whatever the order: what it drops is    *)
(* let go of, and nothing else.                                               *)
Pushed(E) ==
  \E D \in SUBSET (ToSet(buffer) \cup E) :
    /\ ToSet(buffer') \subseteq ToSet(buffer) \cup E
    /\ ToSet(buffer) \cup E \subseteq ToSet(buffer') \cup D
    /\ lost' = [s \in Session |-> lost[s] \cup TicksOf(D, s)]

LEMMA PushFacts ==
  ASSUME MeterTypeOK, NEW E \in SUBSET Event, IsFiniteSet(E), Push(E)
  PROVE  Pushed(E) /\ buffer' \in Seq(Event) /\ Len(buffer') <= MaxBuffered
<1>0. buffer \in Seq(Event) /\ MaxBuffered \in Nat \ {0}
  BY MeterAssumption DEF MeterTypeOK
<1>1. PICK q \in SetToSeqs(E) :
        LET all == buffer \o q
            over == IF Len(all) > MaxBuffered THEN Len(all) - MaxBuffered ELSE 0
        IN  /\ buffer' = SubSeq(all, over + 1, Len(all))
            /\ lost' = [s \in Session |-> lost[s] \cup TicksOf(ToSet(SubSeq(all, 1, over)), s)]
  BY DEF Push
<1> DEFINE all == buffer \o q
           n == Len(all)
           over == IF n > MaxBuffered THEN n - MaxBuffered ELSE 0
           D == ToSet(SubSeq(all, 1, over))
<1>2. q \in Seq(E) /\ ToSet(q) = E /\ q \in Seq(Event)
  BY Listed, SeqMonotonic
<1>3. /\ all \in Seq(Event) /\ n \in Nat /\ n = Len(buffer) + Len(q)
      /\ \A i \in 1..n : all[i] = IF i <= Len(buffer) THEN buffer[i] ELSE q[i - Len(buffer)]
  BY <1>0, <1>2, ConcatProperties
<1>4. ToSet(all) = ToSet(buffer) \cup E
  <2>1. DOMAIN all = 1..n /\ DOMAIN buffer = 1..Len(buffer) /\ DOMAIN q = 1..Len(q)
    BY <1>0, <1>2, <1>3
  <2>2. Len(buffer) \in Nat /\ Len(q) \in Nat
    BY <1>0, <1>2
  <2>3. ToSet(all) \subseteq ToSet(buffer) \cup ToSet(q)
    BY <1>3, <2>1, <2>2 DEF ToSet
  <2>4. ASSUME NEW i \in 1..Len(buffer) PROVE buffer[i] \in ToSet(all)
    BY <1>3, <2>1, <2>2 DEF ToSet
  <2>5. ASSUME NEW i \in 1..Len(q) PROVE q[i] \in ToSet(all)
    <3>1. i + Len(buffer) \in 1..n /\ all[i + Len(buffer)] = q[i]
      BY <1>3, <2>2
    <3> QED BY <2>1, <3>1 DEF ToSet
  <2> QED BY <1>2, <2>1, <2>3, <2>4, <2>5 DEF ToSet
<1>5. over \in Nat /\ over <= n /\ n - over <= MaxBuffered
  BY <1>0, <1>3
<1> HIDE DEF all, n, over
<1>6. /\ SubSeq(all, over + 1, n) \in Seq(Event) /\ Len(SubSeq(all, over + 1, n)) = n - over
      /\ \A i \in 1..(n - over) : SubSeq(all, over + 1, n)[i] = all[over + i]
      /\ SubSeq(all, 1, over) \in Seq(Event) /\ Len(SubSeq(all, 1, over)) = over
      /\ \A i \in 1..over : SubSeq(all, 1, over)[i] = all[i]
  <2>1. /\ SubSeq(all, over + 1, n) \in Seq(Event)
        /\ Len(SubSeq(all, over + 1, n)) = n + 1 - (over + 1)
        /\ \A i \in 1..(n + 1 - (over + 1)) : SubSeq(all, over + 1, n)[i] = all[over + 1 + i - 1]
    <3>1. over + 1 \in Nat \ {0} /\ n \in Nat /\ n <= Len(all) /\ over + 1 <= n + 1
      BY <1>3, <1>5 DEF n
    <3> QED BY <1>3, <3>1, Stretch
  <2>2. /\ SubSeq(all, 1, over) \in Seq(Event) /\ Len(SubSeq(all, 1, over)) = over + 1 - 1
        /\ \A i \in 1..(over + 1 - 1) : SubSeq(all, 1, over)[i] = all[1 + i - 1]
    <3>1. 1 \in Nat \ {0} /\ over \in Nat /\ over <= Len(all) /\ 1 <= over + 1
      BY <1>3, <1>5 DEF n
    <3> QED BY <1>3, <3>1, Stretch
  <2> QED BY <1>3, <1>5, <2>1, <2>2
<1>7. buffer' = SubSeq(all, over + 1, n) /\ lost' = [s \in Session |-> lost[s] \cup TicksOf(D, s)]
  BY <1>1 DEF all, n, over
<1>8. /\ DOMAIN all = 1..n /\ DOMAIN buffer' = 1..(n - over)
      /\ DOMAIN SubSeq(all, 1, over) = 1..over
  BY <1>3, <1>6, <1>7 DEF n
<1>9. ToSet(buffer') \subseteq ToSet(all) /\ D \subseteq ToSet(all)
  <2>1. ASSUME NEW i \in 1..(n - over) PROVE buffer'[i] \in ToSet(all)
    <3>1. over + i \in 1..n /\ buffer'[i] = all[over + i]
      BY <1>3, <1>5, <1>6, <1>7
    <3> QED BY <1>8, <3>1 DEF ToSet
  <2>2. ASSUME NEW i \in 1..over PROVE SubSeq(all, 1, over)[i] \in ToSet(all)
    <3>1. i \in 1..n /\ SubSeq(all, 1, over)[i] = all[i]
      BY <1>3, <1>5, <1>6
    <3> QED BY <1>8, <3>1 DEF ToSet
  <2> QED BY <1>8, <2>1, <2>2 DEF ToSet
<1>10. ASSUME NEW i \in 1..n PROVE all[i] \in ToSet(buffer') \cup D
  <2>1. CASE i <= over
    <3>1. i \in 1..over
      BY <1>5, <2>1
    <3>2. SubSeq(all, 1, over)[i] = all[i]
      BY <1>6, <3>1
    <3> QED BY <1>8, <3>1, <3>2 DEF ToSet
  <2>2. CASE i > over
    <3>1. i - over \in 1..(n - over) /\ all[over + (i - over)] = all[i]
      BY <1>3, <1>5, <2>2
    <3> QED BY <1>6, <1>7, <1>8, <3>1 DEF ToSet
  <2> QED BY <1>3, <1>5, <2>1, <2>2
<1>11. ToSet(all) \subseteq ToSet(buffer') \cup D
  BY <1>8, <1>10 DEF ToSet
<1> HIDE DEF D
<1> QED BY <1>4, <1>5, <1>6, <1>7, <1>9, <1>11 DEF Pushed

(* Seconds said are not said again: when the meters of S put what they ran in *)
(* events and then stop, or run on from there, the books still add up.        *)
LEMMA EmitBooks ==
  ASSUME MeterTypeOK, Books, NEW S \in SUBSET Session, Push(TicksOfAll(S)),
         UNCHANGED <<clock, bill, metered>>,
         net' \subseteq net \cup ToSet(buffer'),
         \A s \in Session : s \notin S => active'[s] = active[s],
         \A s \in S : active'[s].on =>
           /\ active[s].on /\ active'[s].start = active[s].start
           /\ active'[s].billed = clock - active[s].start
  PROVE  Books'
<1> DEFINE E == TicksOfAll(S)
<1>1. IsFiniteSet(E) /\ E \in SUBSET Event
      /\ \A e \in E : e.session \in S /\ e \in TickOf(e.session)
  BY TicksFinite DEF Books
<1>2. PICK D \in SUBSET (ToSet(buffer) \cup E) :
        /\ ToSet(buffer') \subseteq ToSet(buffer) \cup E
        /\ ToSet(buffer) \cup E \subseteq ToSet(buffer') \cup D
        /\ lost' = [s \in Session |-> lost[s] \cup TicksOf(D, s)]
  BY <1>1, PushFacts DEF Pushed
<1>3. /\ clock' = clock /\ ledger' = ledger /\ usage' = usage /\ metered' = metered
      /\ Issued' \subseteq Issued \cup E
  BY <1>2 DEF bill, Issued
<1>4. ASSUME NEW e \in E
      PROVE  /\ e \in Event /\ e.session \in S /\ active[e.session].on /\ e.from < e.to
             /\ e.start + e.to = clock /\ Ticks(e) = Unsaid(e.session)
  <2>1. e \in TickOf(e.session) /\ e.session \in Session /\ Counted(e.session)
    BY <1>1 DEF Books
  <2>2. /\ active[e.session].on /\ e.start = active[e.session].start
        /\ e.to = clock - active[e.session].start /\ e.from < e.to
        /\ Ticks(e) = Unsaid(e.session)
    BY <2>1, TickFacts
  <2> QED BY <1>1, <2>1, <2>2, Numbers
<1> HIDE DEF E
<1>5. ASSUME NEW s \in Session
      PROVE  /\ active[s].start \in Nat /\ active[s].billed \in Nat /\ clock \in Nat
             /\ active'[s].on => active[s].on /\ active'[s].start = active[s].start
             /\ s \in S /\ active'[s].on => active'[s].start + active'[s].billed = clock
             /\ s \notin S => active'[s] = active[s]
  <2>1. active[s].start \in Nat /\ active[s].billed \in Nat /\ clock \in Nat
    BY Numbers
  <2>2. CASE s \in S
    BY <2>1, <2>2
  <2>3. CASE s \notin S
    BY <2>1, <2>3
  <2> QED BY <2>2, <2>3
<1>6. ASSUME NEW s \in Session PROVE Counted(s)'
  <2>1. Counted(s)
    BY DEF Books
  <2>2. CASE s \in S
    <3>1. Unsaid(s)' = {}
      BY <1>3, <1>5, <2>2 DEF Unsaid
    <3> QED BY <1>3, <1>5, <2>1, <2>2, <3>1 DEF Counted
  <2>3. CASE s \notin S
    BY <1>3, <1>5, <2>1, <2>3 DEF Counted, Unsaid
  <2> QED BY <2>2, <2>3
<1>7. ASSUME NEW s \in Session PROVE Heard(s)'
  <2>1. ASSUME NEW m \in metered[s]
        PROVE  m \in lost'[s] \/ m \in TicksOf(ledger' \cup ToSet(buffer'), s) \/ m \in Unsaid(s)'
    <3>1. lost'[s] = lost[s] \cup TicksOf(D, s)
      BY <1>2
    <3>2. m \in lost[s] \/ m \in TicksOf(ledger \cup ToSet(buffer), s) \/ m \in Unsaid(s)
      BY <2>1 DEF Books, Heard
    <3>3. ASSUME NEW e \in ToSet(buffer) \cup E, e.session = s, m \in Ticks(e)
          PROVE  m \in lost'[s] \/ m \in TicksOf(ledger' \cup ToSet(buffer'), s)
      <4>1. CASE e \in D
        BY <3>1, <3>3, <4>1, InTicks
      <4>2. CASE e \in ToSet(buffer')
        BY <3>3, <4>2, InTicks
      <4> QED BY <1>2, <4>1, <4>2
    <3>4. CASE m \in TicksOf(ledger \cup ToSet(buffer), s)
      <4>1. PICK e \in ledger \cup ToSet(buffer) : e.session = s /\ m \in Ticks(e)
        BY <3>4, InTicks
      <4>2. CASE e \in ledger
        BY <1>3, <4>1, <4>2, InTicks
      <4>3. CASE e \in ToSet(buffer)
        BY <3>3, <4>1, <4>3
      <4> QED BY <4>1, <4>2, <4>3
    <3>5. CASE m \in Unsaid(s) /\ s \in S
      <4>1. m \in TicksOf(TickOf(s), s)
        BY <3>5, TickFacts DEF Books
      <4>2. PICK e \in TickOf(s) : e.session = s /\ m \in Ticks(e)
        BY <4>1, InTicks
      <4>3. e \in E
        BY <3>5 DEF TicksOfAll, E
      <4> QED BY <3>3, <4>2, <4>3
    <3>6. CASE m \in Unsaid(s) /\ s \notin S
      BY <1>3, <1>5, <3>6 DEF Unsaid
    <3> QED BY <3>1, <3>2, <3>4, <3>5, <3>6
  <2> QED BY <1>3, <2>1 DEF Heard
<1>8. ASSUME NEW s \in Session PROVE Billed(s)'
  BY <1>3 DEF Books, Billed
<1>9. ASSUME NEW e \in Issued' PROVE Said(e)'
  <2>1. CASE e \in Issued
    <3>1. Said(e) /\ e \in Event /\ e.session \in Session /\ e.start \in Nat /\ e.to \in Nat
      BY <2>1, Numbers, EventFields DEF Books
    <3>2. Counted(e.session)
      BY <3>1 DEF Books
    <3>3. e.from < e.to /\ Ticks(e) \subseteq metered'[e.session]
      BY <1>3, <3>1 DEF Said
    <3>4. ASSUME active'[e.session].on
          PROVE  e.start + e.to <= active'[e.session].start + active'[e.session].billed
      <4>1. /\ e.start + e.to <= active[e.session].start + active[e.session].billed
            /\ active[e.session].start + active[e.session].billed <= clock
        BY <1>5, <3>1, <3>2, <3>4 DEF Said, Counted
      <4>2. CASE e.session \in S
        BY <1>5, <3>1, <3>4, <4>1, <4>2
      <4>3. CASE e.session \notin S
        BY <1>5, <3>1, <4>1, <4>3
      <4> QED BY <4>2, <4>3
    <3> QED BY <3>3, <3>4 DEF Said
  <2>2. CASE e \in E
    <3>1. Counted(e.session) /\ e.session \in Session
      BY <1>4, <2>2 DEF Books
    <3>2. Ticks(e) \subseteq metered'[e.session] /\ e.from < e.to
      BY <1>3, <1>4, <2>2, <3>1 DEF Counted
    <3>3. active'[e.session].on =>
            e.start + e.to <= active'[e.session].start + active'[e.session].billed
      BY <1>4, <1>5, <2>2, <3>1
    <3> QED BY <3>2, <3>3 DEF Said
  <2> QED BY <1>3, <2>1, <2>2
<1>10. ASSUME NEW e \in Issued, NEW f \in E, e.session = f.session
       PROVE  Ticks(e) \cap Ticks(f) = {}
  <2>1. Said(e) /\ e \in Event /\ e.session \in Session /\ active[e.session].on
    BY <1>4, <1>10, Numbers, EventFields DEF Books
  <2>2. e.start + e.to <= active[e.session].start + active[e.session].billed
    BY <2>1 DEF Said
  <2> DEFINE said == active[e.session].start + active[e.session].billed
  <2>3. Ticks(f) = said..(clock - 1)
    BY <1>4, <1>10, <2>1 DEF Unsaid
  <2>4. Ticks(e) = (e.start + e.from)..(e.start + e.to - 1)
    BY DEF Ticks
  <2>5. /\ said \in Nat /\ clock \in Nat /\ e.start \in Nat /\ e.from \in Nat /\ e.to \in Nat
        /\ e.start + e.to <= said
    BY <1>5, <2>1, <2>2, EventFields
  <2> HIDE DEF said
  <2> QED BY <2>3, <2>4, <2>5
<1>11. ASSUME NEW e \in Issued', NEW f \in Issued', e.session = f.session
       PROVE  e = f \/ Ticks(e) \cap Ticks(f) = {}
  <2>1. CASE e \in Issued /\ f \in Issued
    BY <1>11, <2>1 DEF Books, SaidOnce
  <2>2. CASE e \in E /\ f \in E
    <3>1. e \in TickOf(e.session) /\ f \in TickOf(e.session) /\ e.session \in Session
      BY <1>1, <1>11, <2>2
    <3> QED BY <3>1, TickFacts DEF Books
  <2>3. CASE e \in Issued /\ f \in E
    BY <1>10, <1>11, <2>3
  <2>4. CASE e \in E /\ f \in Issued
    BY <1>10, <1>11, <2>4
  <2> QED BY <1>3, <2>1, <2>2, <2>3, <2>4
<1> QED BY <1>6, <1>7, <1>8, <1>9, <1>11 DEF Books, SaidOnce

(* Time, the meters, the events and the ledger as they were. *)
LEMMA SameBooks ==
  ASSUME Books, UNCHANGED <<clock, active, buffer, net, bill, metered, lost>>
  PROVE  Books'
<1>1. /\ clock' = clock /\ active' = active /\ buffer' = buffer /\ net' = net
      /\ ledger' = ledger /\ usage' = usage /\ metered' = metered /\ lost' = lost
  BY DEF bill
<1>2. Issued' = Issued
  BY <1>1 DEF Issued
<1>3. ASSUME NEW s \in Session PROVE Counted(s)' /\ Heard(s)' /\ Billed(s)'
  BY <1>1 DEF Books, Counted, Heard, Billed, Unsaid
<1>4. ASSUME NEW e \in Issued' PROVE Said(e)'
  BY <1>1, <1>2 DEF Books, Said
<1>5. SaidOnce'
  BY <1>2 DEF Books, SaidOnce
<1> QED BY <1>3, <1>4, <1>5 DEF Books

(* An event has a first and a last second, of which the clock is past. *)
LEMMA SaidFacts ==
  ASSUME MeterTypeOK, Books, NEW e \in Issued
  PROVE  /\ e \in Event /\ e.session \in Session
         /\ e.start + e.from \in Ticks(e) /\ e.start + e.to <= clock
<1>1. e \in Event /\ Said(e)
  BY Numbers DEF Books
<1>2. e.session \in Session /\ e.start \in Nat /\ e.from \in Nat /\ e.to \in Nat /\ e.from < e.to
  BY <1>1, EventFields DEF Said
<1>3. e.start + e.from \in Ticks(e) /\ e.start + e.to - 1 \in Ticks(e)
  BY <1>2 DEF Ticks
<1>4. Ticks(e) \subseteq 0..(clock - 1) /\ clock \in Nat
  BY <1>1, <1>2, Numbers DEF Said, Books, Counted
<1> QED BY <1>1, <1>2, <1>3, <1>4

(* A meter that starts has nothing to say yet. *)
LEMMA BegunBooks ==
  ASSUME MeterTypeOK, Books, NEW s \in Session, active' = Begun(s),
         UNCHANGED <<clock, buffer, net, bill, metered, lost>>
  PROVE  Books'
<1>1. CASE active[s].on
  BY <1>1, SameBooks DEF Begun
<1>2. CASE ~active[s].on
  <2>1. /\ clock' = clock /\ buffer' = buffer /\ net' = net
        /\ ledger' = ledger /\ usage' = usage /\ metered' = metered /\ lost' = lost
    BY DEF bill
  <2>2. clock \in Nat
    BY Numbers
  <2>3. /\ active'[s].on /\ active'[s].start = clock /\ active'[s].billed = 0
        /\ \A t \in Session \ {s} : active'[t] = active[t]
    BY <1>2 DEF Begun, MeterTypeOK
  <2>4. Issued' = Issued
    BY <2>1 DEF Issued
  <2>5. ASSUME NEW t \in Session PROVE Counted(t)' /\ Heard(t)' /\ Billed(t)'
    <3>1. Counted(t) /\ Heard(t) /\ Billed(t)
      BY DEF Books
    <3>2. Unsaid(t)' = Unsaid(t)
      BY <1>2, <2>1, <2>2, <2>3 DEF Unsaid
    <3>3. active'[t].on => active'[t].start + active'[t].billed <= clock
      BY <2>2, <2>3, <3>1 DEF Counted
    <3> QED BY <2>1, <3>1, <3>2, <3>3 DEF Counted, Heard, Billed
  <2>6. ASSUME NEW e \in Issued' PROVE Said(e)'
    <3>1. Said(e) /\ e.session \in Session /\ e.start + e.to <= clock
      BY <2>4, SaidFacts DEF Books
    <3>2. e.start \in Nat /\ e.to \in Nat
      BY <2>4, SaidFacts, EventFields
    <3>3. CASE e.session = s
      BY <2>1, <2>2, <2>3, <3>1, <3>2, <3>3 DEF Said
    <3>4. CASE e.session # s
      BY <2>1, <2>3, <3>1, <3>4 DEF Said
    <3> QED BY <3>3, <3>4
  <2>7. SaidOnce'
    BY <2>4 DEF Books, SaidOnce
  <2> QED BY <2>5, <2>6, <2>7 DEF Books
<1> QED BY <1>1, <1>2

(* The running meters run one second more. *)
LEMMA TickBooks ==
  ASSUME MeterTypeOK, Books, Tick
  PROVE  Books'
<1>1. /\ clock' = clock + 1 /\ buffer' = buffer /\ net' = net /\ active' = active
      /\ ledger' = ledger /\ usage' = usage /\ lost' = lost
  BY DEF Tick, bill
<1>2. ASSUME NEW s \in Session
      PROVE  metered'[s] = IF active[s].on THEN metered[s] \cup {clock} ELSE metered[s]
  BY DEF Tick
<1>3. Issued' = Issued
  BY <1>1 DEF Issued
<1>4. ASSUME NEW s \in Session PROVE Counted(s)' /\ Heard(s)' /\ Billed(s)'
  <2>1. Counted(s) /\ Heard(s) /\ Billed(s)
    BY DEF Books
  <2>2. /\ active[s].start \in Nat /\ active[s].billed \in Nat /\ clock \in Nat
        /\ active[s].start + active[s].billed \in Nat
    BY Numbers
  <2>3. CASE active[s].on
    <3> DEFINE said == active[s].start + active[s].billed
    <3>1. Unsaid(s) = said..(clock - 1) /\ Unsaid(s)' = said..clock
      BY <1>1, <2>2, <2>3 DEF Unsaid
    <3>2. said \in Nat /\ said <= clock
      BY <2>1, <2>2, <2>3 DEF Counted
    <3> HIDE DEF said
    <3>3. Unsaid(s)' = Unsaid(s) \cup {clock}
      BY <2>2, <3>1, <3>2
    <3>4. metered'[s] = metered[s] \cup {clock}
      BY <1>2, <2>3
    <3>5. metered'[s] \subseteq 0..(clock' - 1) /\ said <= clock'
      BY <1>1, <2>1, <2>2, <3>2, <3>4 DEF Counted
    <3>6. Counted(s)'
      BY <1>1, <2>1, <3>3, <3>4, <3>5 DEF Counted, said
    <3> QED BY <1>1, <2>1, <3>3, <3>4, <3>6 DEF Heard, Billed
  <2>4. CASE ~active[s].on
    <3>1. Unsaid(s)' = Unsaid(s) /\ metered'[s] = metered[s]
      BY <1>1, <1>2, <2>4 DEF Unsaid
    <3>2. metered'[s] \subseteq 0..(clock' - 1)
      BY <1>1, <2>1, <2>2, <3>1 DEF Counted
    <3> QED BY <1>1, <2>1, <2>4, <3>1, <3>2 DEF Counted, Heard, Billed
  <2> QED BY <2>3, <2>4
<1>5. ASSUME NEW e \in Issued' PROVE Said(e)'
  BY <1>1, <1>2, <1>3, <1>5, SaidFacts DEF Books, Said
<1>6. SaidOnce'
  BY <1>3 DEF Books, SaidOnce
<1> QED BY <1>4, <1>5, <1>6 DEF Books

(* A list with one place taken out of it. *)
LEMMA RemoveAtFacts ==
  ASSUME NEW q \in Seq(Event), NEW k \in 1..Len(q)
  PROVE  /\ RemoveAt(q, k) \in Seq(Event) /\ Len(RemoveAt(q, k)) = Len(q) - 1
         /\ \A i \in 1..(Len(q) - 1) : RemoveAt(q, k)[i] = IF i < k THEN q[i] ELSE q[i + 1]
<1> DEFINE n == Len(q)
           l == SubSeq(q, 1, k - 1)
           r == SubSeq(q, k + 1, n)
<1>1. n \in Nat /\ k \in 1..n /\ RemoveAt(q, k) = l \o r
  BY DEF RemoveAt
<1>2. /\ l \in Seq(Event) /\ Len(l) = k - 1
      /\ \A i \in 1..(k - 1) : l[i] = q[i]
  <2>1. /\ l \in Seq(Event) /\ Len(l) = (k - 1) + 1 - 1
        /\ \A i \in 1..((k - 1) + 1 - 1) : l[i] = q[1 + i - 1]
    <3>1. k - 1 \in Nat /\ 1 \in Nat \ {0} /\ k - 1 <= Len(q) /\ 1 <= (k - 1) + 1
      BY <1>1
    <3> QED BY <3>1, Stretch
  <2> QED BY <1>1, <2>1
<1>3. /\ r \in Seq(Event) /\ Len(r) = n - k
      /\ \A i \in 1..(n - k) : r[i] = q[k + i]
  <2>1. /\ r \in Seq(Event) /\ Len(r) = n + 1 - (k + 1)
        /\ \A i \in 1..(n + 1 - (k + 1)) : r[i] = q[(k + 1) + i - 1]
    <3>1. k + 1 \in Nat \ {0} /\ n \in Nat /\ n <= Len(q) /\ k + 1 <= n + 1
      BY <1>1
    <3> QED BY <3>1, Stretch
  <2> QED BY <1>1, <2>1
<1> HIDE DEF l, r, n
<1>4. /\ l \o r \in Seq(Event) /\ Len(l \o r) = n - 1
      /\ \A i \in 1..(n - 1) : (l \o r)[i] = IF i <= k - 1 THEN l[i] ELSE r[i - (k - 1)]
  <2>1. /\ l \o r \in Seq(Event) /\ Len(l \o r) = Len(l) + Len(r)
        /\ \A i \in 1..(Len(l) + Len(r)) :
             (l \o r)[i] = IF i <= Len(l) THEN l[i] ELSE r[i - Len(l)]
    BY <1>2, <1>3, ConcatProperties
  <2>2. Len(l) + Len(r) = n - 1
    BY <1>1, <1>2, <1>3
  <2> QED BY <1>2, <2>1, <2>2
<1>5. ASSUME NEW i \in 1..(n - 1)
      PROVE  (l \o r)[i] = IF i < k THEN q[i] ELSE q[i + 1]
  <2>1. CASE i < k
    BY <1>1, <1>2, <1>4, <2>1
  <2>2. CASE ~(i < k)
    <3>1. i - (k - 1) \in 1..(n - k) /\ k + (i - (k - 1)) = i + 1
      BY <1>1, <2>2
    <3> QED BY <1>1, <1>3, <1>4, <2>2, <3>1
  <2> QED BY <2>1, <2>2
<1> QED BY <1>1, <1>4, <1>5 DEF n

(* buffer.delete(eventId) forgets one event, or none. *)
LEMMA WithoutFacts ==
  ASSUME NEW q \in Seq(Event), NEW e
  PROVE  /\ Without(q, e) \in Seq(Event) /\ Len(Without(q, e)) <= Len(q)
         /\ ToSet(Without(q, e)) \subseteq ToSet(q)
         /\ \/ ToSet(Without(q, e)) = ToSet(q)
            \/ \E g \in ToSet(q) : Same(e, g) /\ ToSet(q) \subseteq ToSet(Without(q, e)) \cup {g}
<1> DEFINE found == {i \in DOMAIN q : Same(e, q[i])}
<1>1. CASE found = {}
  BY <1>1 DEF Without
<1>2. CASE found # {}
  <2> DEFINE k == CHOOSE i \in found : TRUE
             w == RemoveAt(q, k)
  <2>1. k \in 1..Len(q) /\ Same(e, q[k]) /\ Without(q, e) = w
    BY <1>2 DEF Without
  <2> HIDE DEF k
  <2>2. /\ w \in Seq(Event) /\ Len(w) = Len(q) - 1
        /\ \A i \in 1..(Len(q) - 1) : w[i] = IF i < k THEN q[i] ELSE q[i + 1]
    BY <2>1, RemoveAtFacts
  <2> HIDE DEF w
  <2>3. DOMAIN w = 1..(Len(q) - 1) /\ DOMAIN q = 1..Len(q) /\ Len(q) \in Nat
    BY <2>2
  <2>4. ASSUME NEW i \in 1..(Len(q) - 1) PROVE w[i] \in ToSet(q)
    <3>1. i \in 1..Len(q) /\ i + 1 \in 1..Len(q)
      BY <2>3
    <3>2. q[i] \in ToSet(q) /\ q[i + 1] \in ToSet(q)
      BY <2>3, <3>1 DEF ToSet
    <3>3. w[i] = q[i] \/ w[i] = q[i + 1]
      BY <2>2
    <3> QED BY <3>2, <3>3
  <2>5. ToSet(w) \subseteq ToSet(q)
    BY <2>3, <2>4 DEF ToSet
  <2>6. ASSUME NEW i \in 1..Len(q), i # k PROVE q[i] \in ToSet(w)
    <3>1. CASE i < k
      <4>1. i \in 1..(Len(q) - 1) /\ w[i] = q[i]
        BY <2>1, <2>2, <2>3, <3>1
      <4> QED BY <2>3, <4>1 DEF ToSet
    <3>2. CASE i > k
      <4>1. i - 1 \in 1..(Len(q) - 1) /\ w[i - 1] = q[i]
        BY <2>1, <2>2, <2>3, <3>2
      <4> QED BY <2>3, <4>1 DEF ToSet
    <3> QED BY <2>1, <2>6, <3>1, <3>2
  <2>7. q[k] \in ToSet(q) /\ ToSet(q) \subseteq ToSet(w) \cup {q[k]}
    BY <2>1, <2>3, <2>6 DEF ToSet
  <2> QED BY <2>1, <2>2, <2>3, <2>5, <2>7
<1> QED BY <1>1, <1>2

(* Two events with one id are one event. *)
LEMMA OneId ==
  ASSUME MeterTypeOK, Books, NEW e \in Issued, NEW f \in Issued, Same(e, f)
  PROVE  e = f
<1>1. e.start + e.from \in Ticks(e) /\ f.start + f.from \in Ticks(f)
  BY SaidFacts
<1>2. e.session = f.session /\ e.start + e.from = f.start + f.from
  BY DEF Same
<1> QED BY <1>1, <1>2 DEF Books, SaidOnce

(* A new event is as much usage as it has seconds, none of them billed. *)
LEMMA NewlyBilled ==
  ASSUME MeterTypeOK, Books, NEW e \in net, FreshId(e), ledger' = ledger \cup {e},
         usage' = [usage EXCEPT ![e.session] = @ + Quantity(e)], NEW s \in Session
  PROVE  Billed(s)' /\ usage'[s] \in Nat
<1>1. e \in Issued /\ Said(e) /\ e \in Event /\ ledger \subseteq Issued
  BY Numbers DEF Issued, Books
<1>2. e.session \in Session /\ e.start \in Nat /\ e.from \in Nat /\ e.to \in Nat /\ e.from < e.to
  BY <1>1, EventFields DEF Said
<1>3. usage[s] \in Nat /\ usage[s] = Cardinality(TicksOf(ledger, s))
  BY Numbers DEF Books, Billed
<1>4. CASE s # e.session
  <2>1. TicksOf(ledger', s) = TicksOf(ledger, s)
    <3>1. {f \in ledger' : f.session = s} = {f \in ledger : f.session = s}
      BY <1>4
    <3> QED BY <3>1 DEF TicksOf
  <2>2. usage'[s] = usage[s]
    BY <1>4 DEF MeterTypeOK
  <2> QED BY <1>3, <2>1, <2>2 DEF Billed
<1>5. CASE s = e.session
  <2>1. TicksOf(ledger', s) = TicksOf(ledger, s) \cup Ticks(e)
    BY <1>5, InTicks
  <2>2. ASSUME NEW f \in ledger, f.session = s PROVE Ticks(f) \cap Ticks(e) = {}
    <3>1. f # e
      BY DEF FreshId, Same
    <3> QED BY <1>1, <1>5, <2>2, <3>1 DEF Books, SaidOnce
  <2>3. TicksOf(ledger, s) \cap Ticks(e) = {}
    BY <2>2, InTicks
  <2>4. IsFiniteSet(Ticks(e)) /\ Cardinality(Ticks(e)) = Quantity(e)
    <3> DEFINE a == e.start + e.from
               b == e.start + e.to - 1
    <3>1. a \in Int /\ b \in Int /\ ~(a > b) /\ b - a + 1 = Quantity(e)
      BY <1>2 DEF Quantity
    <3>2. Ticks(e) = a..b
      BY DEF Ticks
    <3> HIDE DEF a, b
    <3> QED BY <3>1, <3>2, FS_Interval
  <2>5. IsFiniteSet(TicksOf(ledger, s))
    <3>1. TicksOf(ledger, s) \subseteq metered[s]
      <4>1. \A f \in ledger : Said(f)
        BY <1>1 DEF Books
      <4>2. \A f \in ledger : f.session = s => Ticks(f) \subseteq metered[s]
        BY <4>1 DEF Said
      <4>3. ASSUME NEW m \in TicksOf(ledger, s) PROVE m \in metered[s]
        <5>1. PICK f \in ledger : f.session = s /\ m \in Ticks(f)
          BY <4>3, InTicks
        <5> QED BY <4>2, <5>1
      <4> QED BY <4>3
    <3>2. IsFiniteSet(Time) /\ metered[s] \subseteq Time
      <4>1. MaxClock \in Int /\ 0 \in Int /\ metered[s] \subseteq Time
        BY Numbers
      <4> QED BY <4>1, FS_Interval DEF Time
    <3> QED BY <3>1, <3>2, FS_Subset
  <2>6. Cardinality(TicksOf(ledger', s))
          = Cardinality(TicksOf(ledger, s)) + Cardinality(Ticks(e)) - Cardinality({})
    BY <2>1, <2>3, <2>4, <2>5, FS_Union
  <2>7. usage'[s] = usage[s] + Quantity(e) /\ Quantity(e) \in Nat
    BY <1>2, <1>5 DEF MeterTypeOK, Quantity
  <2> QED BY <1>3, <2>4, <2>6, <2>7, FS_EmptySet DEF Billed
<1> QED BY <1>4, <1>5

(* However often an event arrives, it is in the ledger once, and what the     *)
(* buffer forgets is there.                                                   *)
LEMMA RecordBooks ==
  ASSUME MeterTypeOK, Books, NEW e \in net, Record(e)
  PROVE  Books'
<1> DEFINE refused == FreshId(e) /\ ~Authorised(e)
<1>1. /\ net' = net \ {e} /\ buffer' \in {buffer, Without(buffer, e)}
      /\ clock' = clock /\ active' = active /\ metered' = metered
      /\ lost' = IF refused THEN [lost EXCEPT ![e.session] = @ \cup Ticks(e)] ELSE lost
      /\ IF FreshId(e) /\ Authorised(e)
         THEN /\ ledger' = ledger \cup {e}
              /\ usage' = [usage EXCEPT ![e.session] = @ + Quantity(e)]
         ELSE ledger' = ledger /\ usage' = usage
  BY DEF Record, bill
<1> HIDE DEF refused
<1>2. e \in Issued /\ ledger \subseteq Issued
  BY DEF Issued
<1>3. ~refused => e \in ledger'
  <2>1. CASE FreshId(e)
    BY <1>1, <2>1 DEF refused
  <2>2. CASE ~FreshId(e)
    <3>1. PICK f \in ledger : Same(e, f)
      BY <2>2 DEF FreshId
    <3> QED BY <1>1, <1>2, <2>2, <3>1, OneId
  <2> QED BY <2>1, <2>2
<1>4. /\ ToSet(buffer') \subseteq ToSet(buffer)
      /\ ToSet(buffer) \subseteq ToSet(buffer') \cup {e}
  <2>1. CASE buffer' = buffer
    BY <2>1
  <2>2. CASE buffer' = Without(buffer, e)
    <3>1. buffer \in Seq(Event) /\ ToSet(buffer) \subseteq Issued
      BY DEF MeterTypeOK, Issued
    <3>2. ASSUME NEW g \in ToSet(buffer), Same(e, g) PROVE g = e
      BY <1>2, <3>1, <3>2, OneId
    <3> QED BY <2>2, <3>1, <3>2, WithoutFacts
  <2> QED BY <1>1, <2>1, <2>2
<1>5. Issued' \subseteq Issued /\ ledger \subseteq ledger'
  BY <1>1, <1>2, <1>4 DEF Issued
<1>6. ASSUME NEW s \in Session PROVE Counted(s)' /\ Heard(s)' /\ Billed(s)'
  <2>1. Counted(s)'
    BY <1>1 DEF Books, Counted, Unsaid
  <2>2. /\ TicksOf(ledger \cup ToSet(buffer), s)
             \subseteq lost'[s] \cup TicksOf(ledger' \cup ToSet(buffer'), s)
        /\ lost[s] \subseteq lost'[s]
    <3>1. CASE refused
      <4>1. /\ lost'[s] = IF s = e.session THEN lost[s] \cup Ticks(e) ELSE lost[s]
            /\ ledger' = ledger
        BY <1>1, <3>1 DEF MeterTypeOK, refused
      <4>2. ASSUME NEW m \in TicksOf(ledger \cup ToSet(buffer), s)
            PROVE  m \in lost'[s] \cup TicksOf(ledger' \cup ToSet(buffer'), s)
        <5>1. PICK f \in ledger \cup ToSet(buffer) : f.session = s /\ m \in Ticks(f)
          BY <4>2, InTicks
        <5>2. CASE f = e
          BY <4>1, <5>1, <5>2
        <5>3. CASE f # e
          BY <1>4, <4>1, <5>1, <5>3, InTicks
        <5> QED BY <5>2, <5>3
      <4> QED BY <4>1, <4>2
    <3>2. CASE ~refused
      BY <1>1, <1>3, <1>4, <1>5, <3>2, InTicks
    <3> QED BY <3>1, <3>2
  <2>3. Heard(s)'
    BY <1>1, <2>2 DEF Books, Heard, Unsaid
  <2>4. Billed(s)'
    BY <1>1, NewlyBilled DEF Books, Billed
  <2> QED BY <2>1, <2>3, <2>4
<1>7. ASSUME NEW f \in Issued' PROVE Said(f)'
  BY <1>1, <1>5 DEF Books, Said
<1>8. SaidOnce'
  BY <1>5 DEF Books, SaidOnce
<1> QED BY <1>6, <1>7, <1>8 DEF Books

(* What the agent loses when it restarts is history too. *)
LEMMA RestartBooks ==
  ASSUME MeterTypeOK, Books, Restart
  PROVE  Books'
<1> DEFINE E == ToSet(buffer) \cup TicksOfAll(Session)
<1>1. /\ clock' = clock /\ metered' = metered /\ ledger' = ledger /\ usage' = usage
      /\ net' = net /\ buffer' = <<>>
      /\ active' = [s \in Session |-> Stopped]
      /\ lost' = [s \in Session |-> lost[s] \cup TicksOf(E, s)]
  BY DEF Restart, bill
<1> HIDE DEF E
<1>2. ToSet(buffer') = {}
  BY <1>1 DEF ToSet
<1>3. Issued' \subseteq Issued
  BY <1>1, <1>2 DEF Issued
<1>4. \A s \in Session : ~active'[s].on /\ Unsaid(s)' = {}
  BY <1>1 DEF Stopped, Unsaid
<1>5. ASSUME NEW s \in Session PROVE Counted(s)' /\ Heard(s)' /\ Billed(s)'
  <2>1. Counted(s) /\ Heard(s) /\ Billed(s)
    BY DEF Books
  <2>2. Unsaid(s) \subseteq TicksOf(E, s)
    <3>1. Unsaid(s) = TicksOf(TickOf(s), s) /\ TickOf(s) \subseteq E
      BY <2>1, TickFacts DEF E, TicksOfAll
    <3> QED BY <3>1, InTicks
  <2>3. TicksOf(ledger \cup ToSet(buffer), s) \subseteq TicksOf(ledger, s) \cup TicksOf(E, s)
    BY InTicks DEF E
  <2>4. lost'[s] = lost[s] \cup TicksOf(E, s)
        /\ TicksOf(ledger' \cup ToSet(buffer'), s) = TicksOf(ledger, s)
    BY <1>1, <1>2
  <2> QED BY <1>1, <1>4, <2>1, <2>2, <2>3, <2>4 DEF Counted, Heard, Billed
<1>6. ASSUME NEW e \in Issued' PROVE Said(e)'
  <2>1. Said(e) /\ e.session \in Session
    BY <1>3, SaidFacts DEF Books
  <2> QED BY <1>1, <1>4, <2>1 DEF Said
<1>7. SaidOnce'
  BY <1>3 DEF Books, SaidOnce
<1> QED BY <1>5, <1>6, <1>7 DEF Books

(* No session's turn comes early or comes back while meters only stop, grants *)
(* only expire and the fence only rises.                                      *)
LEMMA SameTurns ==
  ASSUME Turns, UNCHANGED <<current, stage, metered>>, uncut \subseteq uncut', late' \subseteq late,
         high \in Nat, high' \in Nat, high <= high', Session \subseteq Nat,
         \A s \in Session : active'[s].on => active[s].on
  PROVE  Turns'
<1>1. ASSUME NEW s \in Session PROVE TurnOf(s)'
  <2>1. TurnOf(s)
    BY DEF Turns
  <2> QED BY <2>1 DEF TurnOf, Past
<1> QED BY <1>1 DEF Turns

(* One command or hello: only the session whose turn it is, or one that the   *)
(* fence has not retired, has a grant the agent accepts.                      *)
LEMMA GrantTurns ==
  ASSUME MeterTypeOK, Turns, NEW s \in Session, Grant(s), s >= high, high' = s, active' = Begun(s),
         UNCHANGED <<lease, metered, uncut>>
  PROVE  Turns'
<1>1. /\ current' = current /\ stage' = stage /\ late' = late /\ metered' = metered
      /\ uncut' = uncut
  BY DEF lease
<1>2. s <= current /\ (Past(s) => s \in uncut)
  <2>1. TurnOf(s)
    BY DEF Turns
  <2> QED BY <2>1, Numbers DEF Grant, TurnOf, Past
<1>3. ASSUME NEW t \in Session PROVE TurnOf(t)'
  <2>1. TurnOf(t) /\ t \in Nat /\ s \in Nat /\ high \in Nat /\ current \in Nat
    BY Numbers DEF Turns
  <2>2. CASE t = s
    BY <1>1, <1>2, <2>1, <2>2 DEF TurnOf, Past
  <2>3. CASE t # s
    <3>1. active'[t] = active[t]
      BY <2>3 DEF Begun, MeterTypeOK
    <3> QED BY <1>1, <2>1, <3>1 DEF TurnOf, Past
  <2> QED BY <2>2, <2>3
<1> QED BY <1>1, <1>3 DEF Turns

(* Two meters run at once only if one of them outlived its session. *)
LEMMA TickTurns ==
  ASSUME MeterTypeOK, Books, Turns, Tick
  PROVE  Turns'
<1>1. /\ current' = current /\ stage' = stage /\ late' = late /\ active' = active
      /\ high' = high /\ uncut' = uncut
      /\ \A s \in Session :
           metered'[s] = IF active[s].on THEN metered[s] \cup {clock} ELSE metered[s]
  BY DEF Tick, lease
<1>2. ASSUME NEW s \in Session PROVE TurnOf(s)'
  BY <1>1 DEF Turns, TurnOf, Past
<1>3. ASSUME NEW s \in Session, NEW t \in Session, s < t, s \notin uncut
      PROVE  metered'[s] \cap metered'[t] = {}
  <2>1. metered[s] \cap metered[t] = {} /\ TurnOf(s) /\ TurnOf(t)
    BY <1>3 DEF Turns
  <2>2. ~(active[s].on /\ active[t].on)
    BY <1>3, <2>1, Numbers DEF TurnOf, Past
  <2>3. clock \notin metered[s] /\ clock \notin metered[t]
    BY Numbers DEF Books, Counted
  <2> QED BY <1>1, <2>1, <2>2, <2>3
<1> QED BY <1>1, <1>2, <1>3 DEF Turns

LEMMA LeaseTurns ==
  ASSUME MeterTypeOK, Turns, Lease \/ EndLease \/ Reset \/ Restart
  PROVE  Turns'
<1>1. /\ current \in Nat /\ high \in Nat /\ Session \subseteq Nat
      /\ MaxSession \in Nat /\ Session = 1..MaxSession
  BY Numbers, MeterAssumption DEF Session
<1>2. CASE Lease
  <2>1. /\ current' = current + 1 /\ stage' = "live" /\ stage = "reset" /\ late' = late
        /\ active' = active /\ high' = high /\ uncut' = uncut /\ metered' = metered
        /\ current' \in Session
    BY <1>1, <1>2 DEF Lease
  <2>2. ASSUME NEW s \in Session PROVE TurnOf(s)'
    <3>1. TurnOf(s) /\ s \in Nat
      BY <1>1 DEF Turns
    <3>2. (s > current' => s > current) /\ (Past(s)' => Past(s))
      BY <1>1, <2>1, <3>1 DEF Past
    <3> QED BY <2>1, <3>1, <3>2 DEF TurnOf
  <2> QED BY <2>1, <2>2 DEF Turns
<1>3. CASE EndLease
  <2>1. /\ current' = current /\ stage' = "ended" /\ stage = "live" /\ late' = late \cup {current}
        /\ active' = active /\ high' = high /\ uncut' = uncut /\ metered' = metered
    BY <1>3 DEF EndLease
  <2>2. ASSUME NEW s \in Session PROVE TurnOf(s)'
    BY <1>1, <2>1 DEF Turns, TurnOf, Past
  <2> QED BY <2>1, <2>2 DEF Turns
<1>4. CASE Reset
  <2>1. /\ current' = current /\ stage' = "reset" /\ stage = "ended" /\ late' = late
        /\ high' = IF current + 1 > high THEN current + 1 ELSE high
        /\ uncut' = uncut /\ metered' = metered
        /\ active' = [s \in Session |-> IF s \in Session THEN Stopped ELSE active[s]]
    BY <1>4 DEF Reset, EndMeters
  <2>2. ASSUME NEW s \in Session PROVE TurnOf(s)'
    <3>1. TurnOf(s) /\ s \in Nat /\ ~active'[s].on
      BY <1>1, <2>1 DEF Turns, Stopped
    <3>2. Past(s)' => s < high'
      BY <1>1, <2>1, <3>1 DEF Past
    <3> QED BY <2>1, <3>1, <3>2 DEF TurnOf
  <2> QED BY <2>1, <2>2 DEF Turns
<1>5. CASE Restart
  <2>1. /\ current' = current /\ stage' = stage /\ late' = late /\ metered' = metered
        /\ active' = [s \in Session |-> Stopped]
        /\ uncut' = uncut \cup (IF stage = "ended" THEN late \ {current} ELSE late)
    BY <1>5 DEF Restart, lease
  <2>2. ASSUME NEW s \in Session PROVE TurnOf(s)'
    <3>1. TurnOf(s) /\ s \in Nat /\ ~active'[s].on
      BY <1>1, <2>1 DEF Turns, Stopped
    <3>2. Past(s)' <=> Past(s)
      BY <2>1 DEF Past
    <3>3. Past(s) /\ s \notin uncut' => s \notin late
      BY <1>1, <2>1, <3>1 DEF Past
    <3> QED BY <2>1, <3>1, <3>2, <3>3 DEF TurnOf
  <2> QED BY <2>1, <2>2 DEF Turns
<1> QED BY <1>2, <1>3, <1>4, <1>5

-----------------------------------------------------------------------------
(* The seconds of events, dropped or lost, are seconds of the clock. *)
LEMMA LostTypes ==
  ASSUME MeterTypeOK, Books, NEW D \in SUBSET (ToSet(buffer) \cup TicksOfAll(Session)),
         NEW s \in Session
  PROVE  lost[s] \cup TicksOf(D, s) \subseteq Time
<1>1. ASSUME NEW e \in D PROVE e.session \in Session /\ Ticks(e) \subseteq metered[e.session]
  <2>1. CASE e \in ToSet(buffer)
    BY <2>1, SaidFacts DEF Issued, Books, Said
  <2>2. CASE e \in TicksOfAll(Session)
    <3>1. e.session \in Session /\ e \in TickOf(e.session)
      BY <2>2, TicksFinite DEF Books
    <3>2. Ticks(e) = Unsaid(e.session) /\ Counted(e.session)
      BY <3>1, TickFacts DEF Books
    <3> QED BY <3>1, <3>2 DEF Counted
  <2> QED BY <2>1, <2>2
<1>2. ASSUME NEW m \in TicksOf(D, s) PROVE m \in Time
  <2>1. PICK e \in D : e.session = s /\ m \in Ticks(e)
    BY <1>2, InTicks
  <2> QED BY <1>1, <2>1, Numbers
<1> QED BY <1>2, Numbers

LEMMA PushTypes ==
  ASSUME MeterTypeOK, Books, NEW S \in SUBSET Session, Push(TicksOfAll(S))
  PROVE  /\ buffer' \in Seq(Event) /\ Len(buffer') <= MaxBuffered /\ ToSet(buffer') \subseteq Event
         /\ lost' \in [Session -> SUBSET Time]
<1>1. IsFiniteSet(TicksOfAll(S)) /\ TicksOfAll(S) \in SUBSET Event
  BY TicksFinite DEF Books
<1>2. Pushed(TicksOfAll(S)) /\ buffer' \in Seq(Event) /\ Len(buffer') <= MaxBuffered
  BY <1>1, PushFacts
<1>3. PICK D \in SUBSET (ToSet(buffer) \cup TicksOfAll(S)) :
        lost' = [s \in Session |-> lost[s] \cup TicksOf(D, s)]
  BY <1>2 DEF Pushed
<1>4. D \in SUBSET (ToSet(buffer) \cup TicksOfAll(Session))
  BY DEF TicksOfAll
<1>5. \A s \in Session : lost[s] \cup TicksOf(D, s) \subseteq Time
  BY <1>4, LostTypes
<1>6. ToSet(buffer') \subseteq Event
  BY <1>2 DEF ToSet
<1> QED BY <1>2, <1>3, <1>5, <1>6

(* The meter of a session stopped, or every meter. *)
LEMMA EndMetersFacts ==
  ASSUME MeterTypeOK, Books, NEW S \in SUBSET Session, EndMeters(S)
  PROVE  /\ Push(TicksOfAll(S))
         /\ active' \in [Session -> [on: BOOLEAN, start: Time, billed: Time]]
         /\ \A s \in Session : IF s \in S THEN ~active'[s].on ELSE active'[s] = active[s]
<1>1. Stopped \in [on: BOOLEAN, start: Time, billed: Time] /\ ~Stopped.on
  BY MeterAssumption DEF Stopped, Time
<1> QED BY <1>1 DEF EndMeters, MeterTypeOK

(* A flush leaves every meter running, with all it ran in events. *)
LEMMA FlushFacts ==
  ASSUME MeterTypeOK, Books, Flush
  PROVE  /\ Push(TicksOfAll(Session))
         /\ active' \in [Session -> [on: BOOLEAN, start: Time, billed: Time]]
         /\ \A s \in Session :
              active'[s].on => /\ active[s].on /\ active'[s].start = active[s].start
                               /\ active'[s].billed = clock - active[s].start
<1>1. active' = [s \in Session |->
                   IF active[s].on THEN [active[s] EXCEPT !.billed = clock - active[s].start]
                   ELSE active[s]]
  BY DEF Flush
<1>2. ASSUME NEW s \in Session
      PROVE  /\ active'[s] \in [on: BOOLEAN, start: Time, billed: Time]
             /\ active'[s].on => /\ active[s].on /\ active'[s].start = active[s].start
                                 /\ active'[s].billed = clock - active[s].start
  <2>1. active[s] \in [on: BOOLEAN, start: Time, billed: Time] /\ Counted(s)
    BY Numbers DEF Books
  <2>2. CASE active[s].on
    <3>1. clock - active[s].start \in Time
      BY <2>1, <2>2, Numbers DEF Counted, Time
    <3> QED BY <1>1, <2>1, <2>2, <3>1
  <2>3. CASE ~active[s].on
    BY <1>1, <2>1, <2>3
  <2> QED BY <2>1, <2>2, <2>3
<1> QED BY <1>1, <1>2 DEF Flush

LEMMA MeterInitInv == MeterInit => MeterInv
<1> SUFFICES ASSUME MeterInit PROVE MeterInv
  OBVIOUS
<1>1. 0 \in Time /\ 0 \in Nat /\ MaxViewers \in Nat /\ MaxBuffered \in Nat \ {0}
      /\ MaxSession \in Nat /\ Session = 1..MaxSession /\ 0 \in 0..MaxSession
      /\ 0 \in 0..MaxViewers
  BY MeterAssumption DEF Time, Session
<1>2. /\ clock = 0 /\ current = 0 /\ stage = "reset" /\ late = {} /\ purged = {} /\ high = 0
      /\ viewers = [s \in Session |-> 0] /\ armed = [s \in Session |-> 0]
      /\ active = [s \in Session |-> Stopped] /\ buffer = <<>> /\ net = {} /\ ledger = {}
      /\ usage = [s \in Session |-> 0] /\ metered = [s \in Session |-> {}]
      /\ lost = [s \in Session |-> {}] /\ uncut = {}
  BY DEF MeterInit
<1>3. Stopped \in [on: BOOLEAN, start: Time, billed: Time] /\ ~Stopped.on
  BY <1>1 DEF Stopped
<1>4. MeterTypeOK
  <2>1. high \in 0..current + 1
    BY <1>2
  <2>2. buffer \in Seq(Event) /\ Len(buffer) <= MaxBuffered
    BY <1>1, <1>2
  <2>3. active \in [Session -> [on: BOOLEAN, start: Time, billed: Time]]
    BY <1>2, <1>3
  <2> QED BY <1>1, <1>2, <2>1, <2>2, <2>3 DEF MeterTypeOK
<1>5. Issued = {}
  BY <1>2 DEF Issued, ToSet
<1>6. \A s \in Session : TicksOf(ledger, s) = {} /\ ~active[s].on /\ metered[s] = {} /\ usage[s] = 0
  BY <1>2, <1>3 DEF TicksOf
<1>7. Books
  BY <1>5, <1>6, FS_EmptySet DEF Books, Counted, Heard, Billed, Unsaid, SaidOnce
<1>8. Turns
  BY <1>2, <1>6 DEF Turns, TurnOf
<1> QED BY <1>4, <1>7, <1>8 DEF MeterInv

LEMMA NextBooks ==
  ASSUME MeterInv, [MeterNext]_meterVars
  PROVE  Books'
<1>1. MeterTypeOK /\ Books
  BY DEF MeterInv
<1>2. ASSUME UNCHANGED <<clock, active, buffer, net, bill, metered, lost>> PROVE Books'
  BY <1>1, <1>2, SameBooks
<1>3. CASE Lease \/ EndLease \/ \E s \in Session : Expire(s) \/ PurgeSession(s) \/ Arm(s)
  BY <1>2, <1>3 DEF Lease, EndLease, Expire, PurgeSession, Arm, bill
<1>4. CASE Tick
  BY <1>1, <1>4, TickBooks
<1>5. CASE Reset
  <2>1. EndMeters(Session) /\ UNCHANGED <<clock, net, bill, metered>>
    BY <1>5 DEF Reset
  <2> QED BY <1>1, <2>1, EndMetersFacts, EmitBooks
<1>6. CASE Flush
  <2>1. net' = net \cup ToSet(buffer') /\ UNCHANGED <<clock, bill, metered>>
    BY <1>6 DEF Flush
  <2> QED BY <1>1, <1>6, <2>1, FlushFacts, EmitBooks
<1>7. CASE Restart
  BY <1>1, <1>7, RestartBooks
<1>8. ASSUME NEW s \in Session, Hello(s) \/ Command(s) PROVE Books'
  BY <1>1, <1>8, BegunBooks DEF Hello, Command
<1>9. ASSUME NEW s \in Session, ViewerLeaves(s) PROVE Books'
  <2>1. CASE EndMeters({s})
    <3>1. UNCHANGED <<clock, net, bill, metered>>
      BY <1>9 DEF ViewerLeaves
    <3> QED BY <1>1, <2>1, <3>1, EndMetersFacts, EmitBooks
  <2>2. CASE UNCHANGED <<active, buffer, lost>>
    BY <1>2, <1>9, <2>2 DEF ViewerLeaves
  <2> QED BY <1>9, <2>1, <2>2 DEF ViewerLeaves
<1>10. ASSUME NEW e \in net, Record(e) PROVE Books'
  BY <1>1, <1>10, RecordBooks
<1>11. CASE UNCHANGED meterVars
  BY <1>2, <1>11 DEF meterVars
<1> QED BY <1>3, <1>4, <1>5, <1>6, <1>7, <1>8, <1>9, <1>10, <1>11 DEF MeterNext

LEMMA NextTurns ==
  ASSUME MeterInv, [MeterNext]_meterVars
  PROVE  Turns'
<1>1. MeterTypeOK /\ Books /\ Turns
  BY DEF MeterInv
<1>2. Session \subseteq Nat /\ high \in Nat
  BY <1>1, Numbers
<1>3. ASSUME UNCHANGED <<current, stage, metered, uncut, high>>, late' \subseteq late,
             \A s \in Session : active'[s].on => active[s].on
      PROVE  Turns'
  BY <1>1, <1>2, <1>3, SameTurns
<1>4. CASE Lease \/ EndLease \/ Reset \/ Restart
  BY <1>1, <1>4, LeaseTurns
<1>5. CASE Tick
  BY <1>1, <1>5, TickTurns
<1>6. CASE Flush
  BY <1>1, <1>3, <1>6, FlushFacts DEF Flush, lease
<1>7. ASSUME NEW s \in Session, Expire(s) \/ PurgeSession(s) \/ Arm(s) PROVE Turns'
  BY <1>3, <1>7 DEF Expire, PurgeSession, Arm, lease
<1>8. ASSUME NEW s \in Session, Hello(s) \/ Command(s) PROVE Turns'
  BY <1>1, <1>8, GrantTurns DEF Hello, Command
<1>9. ASSUME NEW s \in Session, ViewerLeaves(s) PROVE Turns'
  <2>1. UNCHANGED <<lease, metered, uncut, high>>
    BY <1>9 DEF ViewerLeaves
  <2>2. \A t \in Session : active'[t].on => active[t].on
    <3>1. CASE EndMeters({s})
      BY <1>1, <3>1, EndMetersFacts
    <3>2. CASE UNCHANGED active
      BY <3>2
    <3> QED BY <1>9, <3>1, <3>2 DEF ViewerLeaves
  <2> QED BY <1>3, <2>1, <2>2 DEF lease
<1>10. ASSUME NEW e \in net, Record(e) PROVE Turns'
  BY <1>3, <1>10 DEF Record, lease
<1>11. CASE UNCHANGED meterVars
  BY <1>3, <1>11 DEF meterVars, lease
<1> QED BY <1>4, <1>5, <1>6, <1>7, <1>8, <1>9, <1>10, <1>11 DEF MeterNext

LEMMA NextTypes ==
  ASSUME MeterInv, [MeterNext]_meterVars
  PROVE  MeterTypeOK'
<1> DEFINE Segment == [on: BOOLEAN, start: Time, billed: Time]
           Meters == [Session -> Segment]
<1>1. MeterTypeOK /\ Books
  BY DEF MeterInv
<1>2. /\ MaxSession \in Nat /\ MaxViewers \in Nat /\ MaxBuffered \in Nat \ {0}
      /\ clock \in Nat /\ MaxClock \in Nat /\ current \in Nat /\ Session = 1..MaxSession
      /\ high \in Nat /\ high <= current + 1 /\ current <= MaxSession
  <2>1. current \in 0..MaxSession /\ high \in 0..current + 1
    BY <1>1 DEF MeterTypeOK
  <2> QED BY <1>1, <2>1, Numbers, MeterAssumption DEF Session
<1>3. [s \in Session |-> 0] \in [Session -> 0..MaxViewers]
      /\ \A s \in Session : [t \in Session |-> 0][s] = 0
  BY <1>2
<1>4. ASSUME NEW s \in Session, active' = Begun(s) PROVE active' \in Meters
  <2>1. [on |-> TRUE, start |-> clock, billed |-> 0] \in Segment
    BY <1>1, <1>2 DEF MeterTypeOK, Time
  <2> QED BY <1>1, <1>4, <2>1 DEF Begun, MeterTypeOK
<1>5. CASE Lease
  <2>1. current' \in 0..MaxSession /\ current' = current + 1 /\ high \in 0..current' + 1
    BY <1>2, <1>5 DEF Lease
  <2> QED BY <1>1, <1>5, <2>1 DEF Lease, MeterTypeOK, sockets, bill
<1>6. CASE EndLease
  <2>1. current \in Session
    BY <1>6 DEF EndLease, MeterInv, Turns
  <2> QED BY <1>1, <1>6, <2>1 DEF EndLease, MeterTypeOK, sockets, bill
<1>7. ASSUME NEW s \in Session, Expire(s) \/ PurgeSession(s) PROVE MeterTypeOK'
  BY <1>1, <1>7 DEF Expire, PurgeSession, MeterTypeOK, sockets, bill
<1>8. CASE Tick
  <2>1. clock \in Time /\ clock' \in Time
    BY <1>1, <1>2, <1>8 DEF Tick, Time
  <2>2. metered' \in [Session -> SUBSET Time]
    BY <1>1, <1>8, <2>1 DEF Tick, MeterTypeOK
  <2> QED BY <1>1, <1>8, <2>1, <2>2 DEF Tick, MeterTypeOK, lease, sockets, bill
<1>9. CASE Reset
  <2>1. EndMeters(Session)
    BY <1>9 DEF Reset
  <2>2. /\ active' \in Meters /\ lost' \in [Session -> SUBSET Time]
        /\ buffer' \in Seq(Event) /\ Len(buffer') <= MaxBuffered
    BY <1>1, <2>1, EndMetersFacts, PushTypes
  <2>3. viewers' = [s \in Session |-> 0] /\ armed' = [s \in Session |-> 0]
        /\ stage' = "reset" /\ current' = current /\ high' \in 0..current' + 1
    BY <1>2, <1>9 DEF Reset
  <2> QED BY <1>1, <1>3, <1>9, <2>2, <2>3 DEF Reset, MeterTypeOK, bill
<1>10. CASE Flush
  <2>1. /\ active' \in Meters /\ lost' \in [Session -> SUBSET Time]
        /\ buffer' \in Seq(Event) /\ Len(buffer') <= MaxBuffered /\ ToSet(buffer') \subseteq Event
    BY <1>1, <1>10, FlushFacts, PushTypes
  <2> QED BY <1>1, <1>10, <2>1 DEF Flush, MeterTypeOK, lease, sockets, bill
<1>11. CASE Restart
  <2> DEFINE E == ToSet(buffer) \cup TicksOfAll(Session)
  <2>1. \A s \in Session : lost[s] \cup TicksOf(E, s) \subseteq Time
    BY <1>1, LostTypes
  <2>2. lost' = [s \in Session |-> lost[s] \cup TicksOf(E, s)]
    BY <1>11 DEF Restart
  <2>3. lost' \in [Session -> SUBSET Time]
    BY <2>1, <2>2
  <2>4. active' \in Meters
    <3>1. Stopped \in Segment
      BY <1>2 DEF Stopped, Time
    <3> QED BY <1>11, <3>1 DEF Restart
  <2>5. /\ high' = 0 /\ buffer' = <<>> /\ viewers' = [s \in Session |-> 0]
        /\ armed' = [s \in Session |-> 0] /\ uncut' \subseteq uncut \cup late
        /\ UNCHANGED <<clock, current, stage, late, purged, net, ledger, usage, metered>>
    BY <1>11 DEF Restart, lease, bill
  <2>6. high' \in 0..current' + 1 /\ buffer' \in Seq(Event) /\ Len(buffer') <= MaxBuffered
    BY <1>2, <2>5
  <2> QED BY <1>1, <1>3, <2>3, <2>4, <2>5, <2>6 DEF MeterTypeOK
<1>12. ASSUME NEW s \in Session, Hello(s) \/ Command(s) PROVE MeterTypeOK'
  <2>1. active' \in Meters
    BY <1>4, <1>12 DEF Hello, Command
  <2>2. high' \in 0..current' + 1
    <3>1. TurnOf(s)
      BY DEF MeterInv, Turns
    <3>2. s <= current
      BY <1>2, <1>12, <3>1 DEF Hello, Command, Grant, TurnOf
    <3> QED BY <1>2, <1>12, <3>2 DEF Hello, Command, lease
  <2>3. /\ viewers' \in [Session -> 0..MaxViewers] /\ armed' = armed
        /\ \A t \in Session : viewers'[t] >= viewers[t]
    <3>1. CASE Hello(s)
      <4>1. /\ viewers[s] < MaxViewers /\ viewers' = [viewers EXCEPT ![s] = @ + 1]
            /\ armed' = armed
        BY <3>1 DEF Hello
      <4>2. viewers \in [Session -> 0..MaxViewers]
        BY <1>1 DEF MeterTypeOK
      <4>3. viewers[s] + 1 \in 0..MaxViewers
        BY <1>2, <4>1, <4>2
      <4> QED BY <1>2, <4>1, <4>2, <4>3
    <3>2. CASE Command(s)
      BY <1>1, <3>2 DEF Command, sockets, MeterTypeOK
    <3> QED BY <1>12, <3>1, <3>2
  <2>4. \A t \in Session : armed'[t] <= viewers'[t]
    BY <1>1, <1>2, <2>3 DEF MeterTypeOK
  <2> QED BY <1>1, <1>12, <2>1, <2>2, <2>3, <2>4 DEF Hello, Command, MeterTypeOK, lease, bill
<1>13. ASSUME NEW s \in Session, Arm(s) PROVE MeterTypeOK'
  <2>1. armed' \in [Session -> 0..MaxViewers] /\ \A t \in Session : armed'[t] <= viewers[t]
    BY <1>1, <1>2, <1>13 DEF Arm, MeterTypeOK
  <2> QED BY <1>1, <1>13, <2>1 DEF Arm, MeterTypeOK, lease, bill
<1>14. ASSUME NEW s \in Session, ViewerLeaves(s) PROVE MeterTypeOK'
  <2>1. /\ viewers[s] > 0 /\ viewers' = [viewers EXCEPT ![s] = @ - 1]
        /\ UNCHANGED <<clock, lease, high, net, bill, metered, uncut>>
        /\ viewers \in [Session -> 0..MaxViewers] /\ armed \in [Session -> 0..MaxViewers]
        /\ \A t \in Session : armed[t] <= viewers[t]
    BY <1>1, <1>14 DEF ViewerLeaves, MeterTypeOK
  <2>0. viewers' \in [Session -> 0..MaxViewers]
    <3>1. viewers[s] - 1 \in 0..MaxViewers
      BY <1>2, <2>1
    <3> QED BY <2>1, <3>1
  <2>2. CASE /\ armed[s] > 0 /\ armed' = [armed EXCEPT ![s] = @ - 1]
             /\ EndMeters({s})
    <3>1. armed' \in [Session -> 0..MaxViewers] /\ \A t \in Session : armed'[t] <= viewers'[t]
      <4>1. armed[s] - 1 \in 0..MaxViewers
        BY <1>2, <2>1, <2>2
      <4>2. armed' \in [Session -> 0..MaxViewers]
        BY <2>1, <2>2, <4>1
      <4>3. ASSUME NEW t \in Session PROVE armed'[t] <= viewers'[t]
        BY <1>2, <2>1, <2>2
      <4> QED BY <4>2, <4>3
    <3>2. /\ active' \in Meters /\ lost' \in [Session -> SUBSET Time]
          /\ buffer' \in Seq(Event) /\ Len(buffer') <= MaxBuffered
      BY <1>1, <2>2, EndMetersFacts, PushTypes
    <3> QED BY <1>1, <2>0, <2>1, <3>1, <3>2 DEF MeterTypeOK, lease, bill
  <2>3. CASE armed[s] < viewers[s] /\ UNCHANGED <<armed, active, buffer, lost>>
    <3>1. \A t \in Session : armed'[t] <= viewers'[t]
      BY <1>2, <2>1, <2>3
    <3> QED BY <1>1, <2>0, <2>1, <2>3, <3>1 DEF MeterTypeOK, lease, bill
  <2> QED BY <1>14, <2>2, <2>3 DEF ViewerLeaves
<1>15. ASSUME NEW e \in net, Record(e) PROVE MeterTypeOK'
  <2>1. e \in Event /\ net' \subseteq net
    BY <1>1, <1>15 DEF Record, MeterTypeOK
  <2>2. ledger' \subseteq Event /\ usage' \in [Session -> Nat]
    <3>1. CASE FreshId(e) /\ Authorised(e)
      <4>1. /\ ledger' = ledger \cup {e}
            /\ usage' = [usage EXCEPT ![e.session] = @ + Quantity(e)]
        BY <1>15, <3>1 DEF Record
      <4>2. \A s \in Session : usage'[s] \in Nat
        BY <1>1, <3>1, <4>1, NewlyBilled
      <4> QED BY <1>1, <2>1, <4>1, <4>2 DEF MeterTypeOK
    <3>2. CASE ~(FreshId(e) /\ Authorised(e))
      BY <1>1, <1>15, <3>2 DEF Record, MeterTypeOK, bill
    <3> QED BY <3>1, <3>2
  <2>3. buffer' \in Seq(Event) /\ Len(buffer') <= MaxBuffered
    <3>1. /\ Without(buffer, e) \in Seq(Event) /\ Len(Without(buffer, e)) <= Len(buffer)
          /\ Len(buffer) \in Nat /\ buffer \in Seq(Event) /\ Len(buffer) <= MaxBuffered
      BY <1>1, WithoutFacts DEF MeterTypeOK
    <3>2. buffer' \in {buffer, Without(buffer, e)}
      BY <1>15 DEF Record
    <3>3. CASE buffer' = buffer
      BY <3>1, <3>3
    <3>4. CASE buffer' = Without(buffer, e)
      <4>1. Len(buffer') \in Nat /\ Len(buffer') <= Len(buffer) /\ buffer' \in Seq(Event)
        BY <3>1, <3>4
      <4> QED BY <1>2, <3>1, <4>1
    <3> QED BY <3>2, <3>3, <3>4
  <2>4. lost' \in [Session -> SUBSET Time]
    <3>1. Ticks(e) \subseteq metered[e.session] /\ e.session \in Session
      BY <1>1, <2>1 DEF Books, Said, Issued, Event
    <3>2. Ticks(e) \subseteq Time
      BY <1>1, <3>1 DEF MeterTypeOK
    <3> QED BY <1>1, <1>15, <3>1, <3>2 DEF Record, MeterTypeOK
  <2> QED BY <1>1, <1>15, <2>1, <2>2, <2>3, <2>4 DEF Record, MeterTypeOK, lease, sockets
<1>16. CASE UNCHANGED meterVars
  BY <1>1, <1>16 DEF meterVars, MeterTypeOK, lease, sockets, bill
<1> QED
  BY <1>5, <1>6, <1>7, <1>8, <1>9, <1>10, <1>11, <1>12, <1>13, <1>14, <1>15, <1>16 DEF MeterNext

LEMMA MeterInvariance == MeterSpec => []MeterInv
<1>1. MeterInv /\ [MeterNext]_meterVars => MeterInv'
  BY NextTypes, NextBooks, NextTurns DEF MeterInv
<1> QED BY <1>1, MeterInitInv, PTL DEF MeterSpec

-----------------------------------------------------------------------------
(* Every counter, set and list of the meter stays within its bounds: no       *)
(* event runs past the clock, and the buffer never holds more than             *)
(* maxBufferedEvents.                                                         *)
THEOREM MeterTypeCorrect == MeterSpec => []MeterTypeOK
<1>1. MeterInv => MeterTypeOK
  BY DEF MeterInv
<1> QED BY <1>1, MeterInvariance, PTL

(* The seconds in the ledger were run by the meter of their session. *)
LEMMA LedgerRan ==
  ASSUME MeterInv, NEW s \in Session
  PROVE  TicksOf(ledger, s) \subseteq metered[s]
<1>1. ASSUME NEW m \in TicksOf(ledger, s) PROVE m \in metered[s]
  <2>1. PICK e \in ledger : e.session = s /\ m \in Ticks(e)
    BY <1>1, InTicks
  <2>2. Said(e)
    BY DEF MeterInv, Books, Issued
  <2> QED BY <2>1, <2>2 DEF Said
<1> QED BY <1>1

(* However often the agent sends an event, whatever its buffer drops and       *)
(* however often it restarts, a session is billed no more seconds than its     *)
(* meter ran.                                                                  *)
THEOREM NeverBilledMore == MeterSpec => []NeverBilledTwice
<1>1. MeterInv => NeverBilledTwice
  <2> SUFFICES ASSUME MeterInv, NEW s \in Session PROVE usage[s] <= Cardinality(metered[s])
    BY DEF NeverBilledTwice
  <2>1. usage[s] = Cardinality(TicksOf(ledger, s))
    BY DEF MeterInv, Books, Billed
  <2>2. TicksOf(ledger, s) \subseteq metered[s]
    BY LedgerRan
  <2>3. IsFiniteSet(metered[s])
    <3>1. metered[s] \subseteq Time /\ MaxClock \in Int /\ 0 \in Int
      BY Numbers DEF MeterInv
    <3>2. IsFiniteSet(Time)
      BY <3>1, FS_Interval DEF Time
    <3> QED BY <3>1, <3>2, FS_Subset
  <2> QED BY <2>1, <2>2, <2>3, FS_Subset
<1> QED BY <1>1, MeterInvariance, PTL

(* Every second a meter ran is in the ledger, waits in the buffer or is still  *)
(* the meter's own, and nothing else is, save what a full buffer dropped, a    *)
(* restart forgot, or the control plane refused for a session whose record the *)
(* tenant had deleted.                                                         *)
THEOREM NothingLostUnseen == MeterSpec => []NothingGivenAway
<1>1. MeterInv => NothingGivenAway
  <2> SUFFICES ASSUME MeterInv, NEW s \in Session
               PROVE  LET kept == TicksOf(ledger \cup ToSet(buffer) \cup TickOf(s), s)
                      IN  metered[s] \ lost[s] \subseteq kept /\ kept \subseteq metered[s]
    BY DEF NothingGivenAway
  <2> DEFINE said == TicksOf(ledger \cup ToSet(buffer), s)
             kept == TicksOf(ledger \cup ToSet(buffer) \cup TickOf(s), s)
  <2>1. MeterTypeOK /\ Books /\ Counted(s) /\ Heard(s)
    BY DEF MeterInv, Books
  <2>2. kept = said \cup Unsaid(s)
    <3>1. kept = said \cup TicksOf(TickOf(s), s)
      BY InTicks
    <3> QED BY <2>1, <3>1, TickFacts
  <2>3. ASSUME NEW m \in said PROVE m \in metered[s]
    <3>1. PICK e \in ledger \cup ToSet(buffer) : e.session = s /\ m \in Ticks(e)
      BY <2>3, InTicks
    <3>2. Said(e)
      BY <2>1 DEF Books, Issued
    <3> QED BY <3>1, <3>2 DEF Said
  <2> QED BY <2>1, <2>2, <2>3 DEF Heard, Counted
<1> QED BY <1>1, MeterInvariance, PTL

(* No second of the device is billed to two sessions, unless a grant outlived  *)
(* a restart of the agent, which keeps the fence in memory alone.              *)
THEOREM BilledInTurn == MeterSpec => []OneSessionAtATime
<1>1. MeterInv => OneSessionAtATime
  <2> SUFFICES ASSUME MeterInv, NEW s \in Session, NEW t \in Session, s < t, s \notin uncut
               PROVE  TicksOf(ledger, s) \cap TicksOf(ledger, t) = {}
    BY DEF OneSessionAtATime
  <2>1. metered[s] \cap metered[t] = {}
    BY DEF MeterInv, Turns
  <2>2. TicksOf(ledger, s) \subseteq metered[s] /\ TicksOf(ledger, t) \subseteq metered[t]
    BY LedgerRan
  <2> QED BY <2>1, <2>2
<1> QED BY <1>1, MeterInvariance, PTL

=============================================================================
