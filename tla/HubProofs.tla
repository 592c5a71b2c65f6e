----------------------------- MODULE HubProofs -----------------------------
(* Theorems about Hub, for any number of creations and quits. *)
EXTENDS Hub, TLAPS

Early == {"idle", "waiting", "giving up", "granted", "prepared"}
Past == {"inserted", "failing"} \cup Ended

(* Before there is a session nothing has begun; whoever allocated it has, and *)
(* only that request ever waits for it.                                       *)
Begun ==
  /\ state = "none" =>
       /\ \A r \in Request : req[r] = "idle"
       /\ row = NoRow
       /\ \A q \in Quit : quits[q].row = NoRow
  /\ \A r \in Request : req[r] = "idle" => allocator # r
  /\ \A r \in Request : req[r] \in {"waiting", "giving up"} => allocator = r

(* A row, in the table or in the hands of a quit, was inserted by a request   *)
(* that is past its insert, and says truly whether that one allocated.        *)
Recorded(w) == w # NoRow => req[w.up] \in Past /\ (w.hub = TRUE => allocator = w.up)

RowsRecorded ==
  /\ Recorded(row)
  /\ \A q \in Quit :
       /\ Recorded(quits[q].row)
       /\ quits[q].at \in {"upstream", "delete", "release", "ok"} => quits[q].row # NoRow
       /\ quits[q].at = "release" => quits[q].row.hub = TRUE

(* Requests run side by side only as overlapped, and one that is not finds    *)
(* no row but its own.                                                        *)
Apart ==
  /\ \A r, s \in Running : r # s => r \in overlapped
  /\ \A r \in Running \ overlapped : row # NoRow => row.up = r

(* What a call of the automation server leaves, for each request: nothing     *)
(* before it, its session right after it, and later nothing that is open and  *)
(* neither recorded nor excused.                                              *)
Driven(r) ==
  /\ req[r] \in Early => appium[r] = "none"
  /\ req[r] = "created" => appium[r] \in {"open", "lost"}
  /\ appium[r] = "asked" => req[r] = "calling" \/ r \in excused
  /\ appium[r] = "open" /\ req[r] \in Past => r \in excused \/ (row # NoRow /\ row.up = r)
  /\ req[r] \in {"inserted", "ok"} /\ r \notin excused =>
       Quitting(r) \/ (row # NoRow /\ row.up = r /\ appium[r] \in {"open", "lost"})

(* A quit that goes on to delete the row has closed what the row names, or    *)
(* was not answered.                                                          *)
Closed(q) ==
  quits[q].at = "delete" => appium[quits[q].row.up] # "open" \/ quits[q].row.up \in excused

Drivers == (\A r \in Request : Driven(r)) /\ (\A q \in Quit : Closed(q))

Inv == TypeOK /\ Begun /\ RowsRecorded /\ Apart /\ Drivers /\ NothingLeftHeld

-----------------------------------------------------------------------------
(* Types. *)


(* The row an insert leaves. *)
LEMMA InsertedRow ==
  ASSUME NEW r \in Request, NEW w, w = [up |-> r, hub |-> allocator = r]
  PROVE  w \in Row /\ w # NoRow /\ w.up = r /\ (w.hub = TRUE => allocator = r)
<1>1. NoRow \notin Row
  BY HubAssumption DEF Row
<1>2. ASSUME NEW b \in BOOLEAN PROVE [up |-> r, hub |-> b] \in Row
  BY DEF Row
<1>3. CASE allocator = r
  <2>1. [up |-> r, hub |-> allocator = r] = [up |-> r, hub |-> TRUE]
    BY <1>3
  <2>2. w \in Row /\ w.up = r
    BY <1>2, <2>1
  <2> QED
    BY <1>1, <1>3, <2>2
<1>4. CASE allocator # r
  <2>1. [up |-> r, hub |-> allocator = r] = [up |-> r, hub |-> FALSE]
    BY <1>4
  <2>2. w \in Row /\ w.up = r
    BY <1>2, <2>1
  <2>3. w.hub = FALSE
    BY <2>1
  <2> QED
    BY <1>1, <2>2, <2>3
<1> QED
  BY <1>3, <1>4

LEMMA PostTypes ==
  ASSUME TypeOK, NEW r \in Request, PostStep(r) \/ AppiumAnswers(r) \/ DriverLost(r)
  PROVE  TypeOK'
<1>1. ASSUME NEW at, Move(r, at),
             at \in {"waiting", "giving up", "granted", "prepared", "calling",
                     "created", "inserted", "failing"} \cup Ended
      PROVE  req' \in [Request -> {"idle", "waiting", "giving up", "granted", "prepared",
                                   "calling", "created", "inserted", "failing"} \cup Ended]
  BY <1>1 DEF Move, TypeOK, promotion
<1>2. CASE Allocate(r)
  BY <1>1, <1>2 DEF Allocate, TypeOK, promotion, history
<1>3. CASE Bind(r)
  BY <1>1, <1>3 DEF Bind, TypeOK, promotion, session, Running, Ended
<1>4. CASE WaitForCapacity(r)
  BY <1>1, <1>4 DEF WaitForCapacity, PollFails, TypeOK, Ended, promotion, session, history
<1>5. CASE GiveUp(r)
  BY <1>1, <1>5 DEF GiveUp, Release, TypeOK, promotion, Ended
<1>6. CASE Prepare(r)
  BY <1>1, <1>6 DEF Prepare, TypeOK, promotion, session, history
<1>7. CASE InstallBeforeSession(r)
  BY <1>1, <1>7 DEF InstallBeforeSession, TypeOK, promotion, session, history
<1>8. CASE CallUpstream(r)
  BY <1>1, <1>8 DEF CallUpstream, TypeOK, promotion, session
<1>9. CASE Insert(r)
  <2>1. row' \in Row \cup {NoRow} /\ quiet' \in BOOLEAN
    BY <1>9, InsertedRow DEF Insert, TypeOK, promotion
  <2>2. excused' \subseteq Request
    BY <1>9 DEF Insert, TypeOK, promotion
  <2> QED
    BY <1>1, <1>9, <2>1, <2>2 DEF Insert, TypeOK, promotion, session
<1>10. CASE Activate(r)
  BY <1>1, <1>10 DEF Activate, TypeOK, promotion, history, Ended
<1>11. CASE Fail(r)
  BY <1>1, <1>11 DEF Fail, Release, TypeOK, promotion, session, Ended
<1>12. CASE AppiumAnswers(r) \/ DriverLost(r)
  BY <1>12 DEF AppiumAnswers, DriverLost, TypeOK, promotion, session, history
<1> QED
  BY <1>2, <1>3, <1>4, <1>5, <1>6, <1>7, <1>8, <1>9, <1>10, <1>11, <1>12 DEF PostStep

LEMMA QuitTypes ==
  ASSUME TypeOK, RowsRecorded, NEW q \in Quit, QuitStep(q)
  PROVE  TypeOK'
<1>1. CASE LookUp(q)
  BY <1>1 DEF LookUp, TypeOK, promotion, session, history, Ended
<1>2. CASE QuitUpstream(q)
  <2>1. quits[q].row.up \in Request
    BY <1>2 DEF QuitUpstream, RowsRecorded, TypeOK, promotion, Row
  <2> QED
    BY <1>2, <2>1 DEF QuitUpstream, MoveQuit, TypeOK, promotion, session
<1>3. CASE DeleteRow(q)
  <2>1. row' \in Row \cup {NoRow}
    BY <1>3 DEF DeleteRow, TypeOK, promotion
  <2>2. excused' \subseteq Request
    BY <1>3 DEF DeleteRow, TypeOK, promotion, Row
  <2>3. quits' \in [Quit -> [at: {"idle", "upstream", "delete", "release"} \cup Ended,
                             row: Row \cup {NoRow}]]
    <3>1. PICK at \in {"release", "ok", "error"} : quits' = [quits EXCEPT ![q].at = at]
      BY <1>3 DEF DeleteRow, MoveQuit
    <3> QED
      BY <3>1 DEF TypeOK, promotion, Ended
  <2> QED
    BY <1>3, <2>1, <2>2, <2>3 DEF DeleteRow, TypeOK, promotion, session
<1>4. CASE QuitRelease(q)
  BY <1>4 DEF QuitRelease, Release, MoveQuit, TypeOK, promotion, Ended
<1> QED
  BY <1>1, <1>2, <1>3, <1>4 DEF QuitStep

LEMMA Types == TypeOK /\ RowsRecorded /\ [Next]_vars => TypeOK'
<1> SUFFICES ASSUME TypeOK, RowsRecorded, [Next]_vars PROVE TypeOK'
  OBVIOUS
<1>1. ASSUME Command \/ Quieten \/ OwnerAllocates \/ PickQueued \/ Promote \/ PassOver \/ Attach
      PROVE  TypeOK'
  BY <1>1 DEF Command, Quieten, OwnerAllocates, PickQueued, Promote, PassOver, Attach, TypeOK,
              promotion, session, history
<1>2. ASSUME Crash PROVE TypeOK'
  BY <1>2 DEF Crash, TypeOK, promotion, session, Running, Ended
<1>3. ASSUME Outside PROVE TypeOK'
  BY <1>3 DEF Outside, Expire, SweepIdle, EndSession, TypeOK, promotion, history
<1>4. CASE UNCHANGED vars
  BY <1>4 DEF vars, TypeOK, promotion, session, history
<1> QED
  BY <1>1, <1>2, <1>3, <1>4, PostTypes, QuitTypes DEF Next

-----------------------------------------------------------------------------
(* Nothing begins before there is a session. *)

LEMMA PostBegun ==
  ASSUME TypeOK, Begun, NEW r \in Request, PostStep(r) \/ AppiumAnswers(r) \/ DriverLost(r)
  PROVE  Begun'
<1>1. CASE Allocate(r)
  BY <1>1 DEF Allocate, Begun, Move, TypeOK, history
<1>2. CASE Bind(r)
  BY <1>2 DEF Bind, Begun, Move, TypeOK, session
<1>3. CASE WaitForCapacity(r)
  BY <1>3 DEF WaitForCapacity, PollFails, Begun, Move, TypeOK, session
<1>4. CASE GiveUp(r)
  BY <1>4 DEF GiveUp, Release, Begun, Move, TypeOK
<1>5. CASE Prepare(r)
  BY <1>5 DEF Prepare, Begun, Move, TypeOK, session
<1>6. CASE InstallBeforeSession(r)
  BY <1>6 DEF InstallBeforeSession, Begun, Move, TypeOK, session
<1>7. CASE CallUpstream(r)
  BY <1>7 DEF CallUpstream, Begun, Move, TypeOK, session
<1>8. CASE Insert(r)
  BY <1>8 DEF Insert, Begun, Move, TypeOK, session
<1>9. CASE Activate(r)
  BY <1>9 DEF Activate, Begun, Move, TypeOK
<1>10. CASE Fail(r)
  BY <1>10 DEF Fail, Release, Begun, Move, TypeOK, session
<1>11. CASE AppiumAnswers(r) \/ DriverLost(r)
  BY <1>11 DEF AppiumAnswers, DriverLost, Begun, session
<1> QED
  BY <1>1, <1>2, <1>3, <1>4, <1>5, <1>6, <1>7, <1>8, <1>9, <1>10, <1>11 DEF PostStep

LEMMA QuitBegun ==
  ASSUME TypeOK, Begun, RowsRecorded, NEW q \in Quit, QuitStep(q)
  PROVE  Begun'
<1>1. CASE LookUp(q)
  BY <1>1 DEF LookUp, Begun, Live, TypeOK, session
<1>2. CASE QuitUpstream(q)
  BY ZenonT(40), <1>2 DEF QuitUpstream, MoveQuit, Begun, TypeOK, session
<1>3. CASE DeleteRow(q)
  BY ZenonT(40), <1>3 DEF DeleteRow, MoveQuit, Begun, TypeOK, session
<1>4. CASE QuitRelease(q)
  BY ZenonT(40), <1>4 DEF QuitRelease, Release, MoveQuit, Begun, TypeOK
<1> QED
  BY <1>1, <1>2, <1>3, <1>4 DEF QuitStep

LEMMA NextBegun == TypeOK /\ Begun /\ RowsRecorded /\ [Next]_vars => Begun'
<1> SUFFICES ASSUME TypeOK, Begun, RowsRecorded, [Next]_vars PROVE Begun'
  OBVIOUS
<1>1. ASSUME Command \/ Quieten \/ OwnerAllocates \/ PickQueued \/ Promote \/ PassOver \/ Attach
      PROVE  Begun'
  BY <1>1 DEF Command, Quieten, OwnerAllocates, PickQueued, Promote, PassOver, Attach, Begun,
              session
<1>2. ASSUME Crash PROVE Begun'
  BY <1>2 DEF Crash, Begun, session, Running, TypeOK
<1>3. ASSUME Outside PROVE Begun'
  BY <1>3 DEF Outside, Expire, SweepIdle, EndSession, Begun, history
<1>4. CASE UNCHANGED vars
  BY <1>4 DEF vars, Begun, session
<1> QED
  BY <1>1, <1>2, <1>3, <1>4, PostBegun, QuitBegun DEF Next

-----------------------------------------------------------------------------
(* Rows are what their requests recorded. *)

(* A request that is past its insert stays past it. *)
LEMMA PastStays ==
  ASSUME TypeOK, Begun, [Next]_vars, NEW r \in Request, req[r] \in Past
  PROVE  req'[r] \in Past
<1>1. ASSUME NEW s \in Request, PostStep(s) \/ AppiumAnswers(s) \/ DriverLost(s)
      PROVE  req'[r] \in Past
  BY <1>1 DEF PostStep, AppiumAnswers, DriverLost, Allocate, Bind, WaitForCapacity, PollFails,
              GiveUp, Prepare, InstallBeforeSession, CallUpstream, Insert, Activate, Fail,
              Move, TypeOK, Past, Ended
<1>2. ASSUME NEW q \in Quit, QuitStep(q) PROVE req' = req
  BY <1>2 DEF QuitStep, LookUp, QuitUpstream, DeleteRow, QuitRelease
<1>3. ASSUME Crash PROVE req'[r] \in Past
  BY <1>3 DEF Crash, Running, TypeOK, Past, Ended
<1>4. ASSUME Command \/ Quieten \/ OwnerAllocates \/ PickQueued \/ Promote \/ PassOver
             \/ Attach \/ Outside
      PROVE  req' = req
  BY <1>4 DEF Command, Quieten, OwnerAllocates, PickQueued, Promote, PassOver, Attach, Outside,
              Expire, SweepIdle, EndSession
<1> QED
  BY <1>1, <1>2, <1>3, <1>4 DEF Next, vars

(* Whoever allocated the session stays its allocator. *)
LEMMA AllocatorStays ==
  ASSUME [Next]_vars, state # "none"
  PROVE  allocator' = allocator /\ state' # "none"
<1>1. ASSUME NEW s \in Request, PostStep(s) \/ AppiumAnswers(s) \/ DriverLost(s)
      PROVE  allocator' = allocator /\ state' # "none"
  BY <1>1 DEF PostStep, AppiumAnswers, DriverLost, Allocate, Bind, WaitForCapacity, PollFails,
              GiveUp, Prepare, InstallBeforeSession, CallUpstream, Insert, Activate, Fail,
              Release, session
<1>2. ASSUME NEW q \in Quit, QuitStep(q) PROVE allocator' = allocator /\ state' # "none"
  BY <1>2 DEF QuitStep, LookUp, QuitUpstream, DeleteRow, QuitRelease, Release, session
<1>3. ASSUME Command \/ Quieten \/ OwnerAllocates \/ PickQueued \/ Promote \/ PassOver
             \/ Attach \/ Crash \/ Outside
      PROVE  allocator' = allocator /\ state' # "none"
  BY <1>3 DEF Command, Quieten, OwnerAllocates, PickQueued, Promote, PassOver, Attach, Crash,
              Outside, Expire, SweepIdle, EndSession, session
<1> QED
  BY <1>1, <1>2, <1>3 DEF Next, vars, session

(* A row that was recorded stays so. *)
LEMMA RecordedStays ==
  ASSUME TypeOK, Begun, [Next]_vars, NEW w \in Row \cup {NoRow}, Recorded(w),
         w # NoRow => state # "none"
  PROVE  w # NoRow => req'[w.up] \in Past /\ (w.hub = TRUE => allocator' = w.up)
BY PastStays, AllocatorStays DEF Recorded, Row

(* A step that records no row keeps the rows recorded. *)
LEMMA RowsKept ==
  ASSUME TypeOK, Begun, RowsRecorded, [Next]_vars, row' = row, quits' = quits
  PROVE  RowsRecorded'
<1>1. Recorded(row)'
  BY RecordedStays DEF Recorded, RowsRecorded, TypeOK, Begun
<1>2. ASSUME NEW q \in Quit PROVE Recorded(quits[q].row)'
  <2>1. quits[q].row \in Row \cup {NoRow} /\ Recorded(quits[q].row)
        /\ (quits[q].row # NoRow => state # "none")
    BY DEF RowsRecorded, TypeOK, Begun
  <2> QED
    BY <2>1, RecordedStays DEF Recorded
<1> QED
  BY <1>1, <1>2 DEF RowsRecorded

(* A quit that moves on keeps the row it looked up. *)
LEMMA QuitRowsKept ==
  ASSUME TypeOK, Begun, RowsRecorded, [Next]_vars, row' \in {row, NoRow},
         NEW q \in Quit,
         NEW at \in {"delete", "release", "ok", "error"}, MoveQuit(q, at),
         at # "error" => quits[q].row # NoRow,
         at = "release" => quits[q].row.hub = TRUE
  PROVE  RowsRecorded'
<1>1. Recorded(row)'
  BY RecordedStays DEF Recorded, RowsRecorded, TypeOK, Begun
<1>2. ASSUME NEW p \in Quit
      PROVE  /\ quits'[p].row = quits[p].row
             /\ p # q => quits'[p].at = quits[p].at
             /\ p = q => quits'[p].at = at
  BY DEF MoveQuit, TypeOK
<1>3. ASSUME NEW p \in Quit PROVE Recorded(quits[p].row)'
  <2>1. quits[p].row \in Row \cup {NoRow} /\ Recorded(quits[p].row)
        /\ (quits[p].row # NoRow => state # "none")
    BY DEF RowsRecorded, TypeOK, Begun
  <2> QED
    BY <1>2, <2>1, RecordedStays DEF Recorded
<1> QED
  BY <1>1, <1>2, <1>3 DEF RowsRecorded

LEMMA LookUpRows ==
  ASSUME TypeOK, Begun, RowsRecorded, [Next]_vars, NEW q \in Quit, LookUp(q)
  PROVE  RowsRecorded'
<1>1. row' = row
  BY DEF LookUp
<1>2. Recorded(row)'
  BY <1>1, RecordedStays DEF Recorded, RowsRecorded, TypeOK, Begun
<1>3. ASSUME NEW p \in Quit, p # q PROVE quits'[p] = quits[p]
  BY <1>3 DEF LookUp, TypeOK
<1>4. \/ row # NoRow /\ quits'[q] = [at |-> "upstream", row |-> row]
      \/ quits'[q] = [at |-> "error", row |-> NoRow]
  BY DEF LookUp, TypeOK
<1>5. ASSUME NEW p \in Quit
      PROVE  /\ Recorded(quits[p].row)'
             /\ quits'[p].at \in {"upstream", "delete", "release", "ok"} => quits'[p].row # NoRow
             /\ quits'[p].at = "release" => quits'[p].row.hub = TRUE
  <2>1. CASE p = q
    BY <1>1, <1>2, <1>4, <2>1 DEF Recorded
  <2>2. CASE p # q
    <3>1. quits[p].row \in Row \cup {NoRow} /\ Recorded(quits[p].row)
          /\ (quits[p].row # NoRow => state # "none")
      BY DEF RowsRecorded, TypeOK, Begun
    <3> QED
      BY <1>3, <2>2, <3>1, RecordedStays DEF Recorded, RowsRecorded
  <2> QED
    BY <2>1, <2>2
<1> QED
  BY <1>2, <1>5 DEF RowsRecorded

LEMMA InsertRows ==
  ASSUME TypeOK, Begun, RowsRecorded, [Next]_vars, NEW r \in Request, Insert(r)
  PROVE  RowsRecorded'
<1>1. CASE row' = row
  BY <1>1, RowsKept DEF Insert
<1>2. CASE row' = [up |-> r, hub |-> allocator = r] /\ Move(r, "inserted")
  <2>1. row'.up = r /\ (row'.hub = TRUE => allocator = r)
    BY <1>2, InsertedRow
  <2>2. allocator' = allocator /\ quits' = quits
    BY DEF Insert, session
  <2>3. req'[r] \in Past
    BY <1>2 DEF Move, TypeOK, Past
  <2>4. Recorded(row)'
    BY <2>1, <2>2, <2>3 DEF Recorded
  <2>5. ASSUME NEW q \in Quit PROVE Recorded(quits[q].row)'
    <3>1. quits[q].row \in Row \cup {NoRow} /\ Recorded(quits[q].row)
          /\ (quits[q].row # NoRow => state # "none")
      BY DEF RowsRecorded, TypeOK, Begun
    <3> QED
      BY <2>2, <3>1, RecordedStays DEF Recorded
  <2> QED
    BY <2>2, <2>4, <2>5 DEF RowsRecorded
<1> QED
  BY <1>1, <1>2 DEF Insert

LEMMA NextRows == TypeOK /\ Begun /\ RowsRecorded /\ [Next]_vars => RowsRecorded'
<1> SUFFICES ASSUME TypeOK, Begun, RowsRecorded, [Next]_vars PROVE RowsRecorded'
  OBVIOUS
<1>1. ASSUME NEW r \in Request, PostStep(r) \/ AppiumAnswers(r) \/ DriverLost(r), ~Insert(r)
      PROVE  RowsRecorded'
  BY <1>1, RowsKept DEF PostStep, AppiumAnswers, DriverLost, Allocate, Bind, WaitForCapacity,
                        PollFails, GiveUp, Prepare, InstallBeforeSession, CallUpstream,
                        Activate, Fail
<1>2. ASSUME NEW r \in Request, Insert(r) PROVE RowsRecorded'
  BY <1>2, InsertRows
<1>3. ASSUME NEW q \in Quit, LookUp(q) PROVE RowsRecorded'
  BY <1>3, LookUpRows
<1>4. ASSUME NEW q \in Quit, QuitUpstream(q) PROVE RowsRecorded'
  BY <1>4, QuitRowsKept DEF QuitUpstream, RowsRecorded
<1>5. ASSUME NEW q \in Quit, DeleteRow(q) PROVE RowsRecorded'
  <2>1. row' \in {row, NoRow} /\ quits[q].row # NoRow
    BY <1>5 DEF DeleteRow, RowsRecorded
  <2>2. quits[q].row.hub \in BOOLEAN
    BY <2>1 DEF TypeOK, Row
  <2>3. \/ MoveQuit(q, "error")
        \/ quits[q].row.hub = TRUE /\ MoveQuit(q, "release")
        \/ MoveQuit(q, "ok")
    BY <1>5, <2>2 DEF DeleteRow
  <2> QED
    BY <2>1, <2>3, QuitRowsKept
<1>6. ASSUME NEW q \in Quit, QuitRelease(q) PROVE RowsRecorded'
  <2>1. row' = row /\ quits[q].row # NoRow
    BY <1>6 DEF QuitRelease, RowsRecorded
  <2>2. MoveQuit(q, "error") \/ MoveQuit(q, "ok")
    BY <1>6 DEF QuitRelease
  <2> QED
    BY <2>1, <2>2, QuitRowsKept
<1>7. ASSUME Command \/ Quieten \/ OwnerAllocates \/ PickQueued \/ Promote \/ PassOver
             \/ Attach \/ Outside
      PROVE  RowsRecorded'
  BY <1>7, RowsKept DEF Command, Quieten, OwnerAllocates, PickQueued, Promote, PassOver,
                        Attach, Outside, Expire, SweepIdle, EndSession
<1>8. ASSUME Crash PROVE RowsRecorded'
  <2>1. Recorded(row)'
    BY <1>8, RecordedStays DEF Recorded, RowsRecorded, TypeOK, Begun, Crash
  <2>2. ASSUME NEW q \in Quit
        PROVE  /\ quits'[q].row = quits[q].row
               /\ quits'[q].at \in {quits[q].at, "crashed"}
    BY <1>8 DEF Crash, TypeOK
  <2>3. ASSUME NEW q \in Quit PROVE Recorded(quits[q].row)'
    <3>1. quits[q].row \in Row \cup {NoRow} /\ Recorded(quits[q].row)
          /\ (quits[q].row # NoRow => state # "none")
      BY DEF RowsRecorded, TypeOK, Begun
    <3> QED
      BY <2>2, <3>1, RecordedStays DEF Recorded
  <2> QED
    BY <2>1, <2>2, <2>3 DEF RowsRecorded
<1>9. CASE UNCHANGED vars
  BY <1>9, RowsKept DEF vars
<1> QED
  BY <1>1, <1>2, <1>3, <1>4, <1>5, <1>6, <1>7, <1>8, <1>9 DEF Next, QuitStep

-----------------------------------------------------------------------------
(* Requests apart. *)

LEMMA ApartKept ==
  ASSUME Apart, Running' \subseteq Running, overlapped \subseteq overlapped',
         row' = row \/ row' = NoRow
  PROVE  Apart'
BY DEF Apart

(* bind() lets a second request in only where the two are marked; the key of *)
(* webdriver_sessions lets one of them record its row.                       *)
LEMMA PostApart ==
  ASSUME TypeOK, Begun, Apart, NEW r \in Request, PostStep(r) \/ AppiumAnswers(r) \/ DriverLost(r)
  PROVE  Apart'
<1>1. CASE Allocate(r)
  <2>1. Running' \subseteq {r} /\ row' = NoRow
    BY <1>1 DEF Allocate, Begun, Move, Running, TypeOK, Ended
  <2> QED
    BY <2>1 DEF Apart
<1>2. CASE Bind(r)
  <2>1. CASE Bindable
    <3>1. Running' \subseteq Running \cup {r} /\ row' = NoRow
      BY <1>2, <2>1 DEF Bind, Bindable, Move, Running, TypeOK, Ended
    <3>2. Running # {} => Running \cup {r} \subseteq overlapped'
      BY <1>2, <2>1 DEF Bind
    <3> QED
      BY <3>1, <3>2 DEF Apart
  <2>2. CASE ~Bindable
    <3>1. Running' \subseteq Running /\ overlapped' = overlapped /\ row' = row
      BY <1>2, <2>2 DEF Bind, Move, Running, TypeOK, Ended
    <3> QED
      BY <3>1, ApartKept
  <2> QED
    BY <2>1, <2>2
<1>3. CASE Insert(r)
  <2>1. Running' \subseteq Running /\ r \in Running /\ overlapped' = overlapped
    BY <1>3 DEF Insert, Move, Running, TypeOK, Ended
  <2>2. CASE row' = row
    BY <2>1, <2>2, ApartKept
  <2>3. CASE row' = [up |-> r, hub |-> allocator = r]
    <3>1. row'.up = r
      BY <2>3, InsertedRow
    <3> QED
      BY <2>1, <3>1 DEF Apart
  <2> QED
    BY <1>3, <2>2, <2>3 DEF Insert
<1>4. ASSUME ~Allocate(r), ~Bind(r), ~Insert(r) PROVE Apart'
  <2>1. row' = row /\ overlapped' = overlapped
    BY <1>4 DEF PostStep, AppiumAnswers, DriverLost, WaitForCapacity, PollFails, GiveUp, Prepare,
                InstallBeforeSession, CallUpstream, Activate, Fail, history
  <2>2. Running' \subseteq Running
    BY <1>4 DEF PostStep, AppiumAnswers, DriverLost, WaitForCapacity, PollFails, GiveUp, Prepare,
                InstallBeforeSession, CallUpstream, Activate, Fail, Move, Running, TypeOK, Ended
  <2> QED
    BY <2>1, <2>2, ApartKept
<1> QED
  BY <1>1, <1>2, <1>3, <1>4

LEMMA NextApart == TypeOK /\ Begun /\ Apart /\ [Next]_vars => Apart'
<1> SUFFICES ASSUME TypeOK, Begun, Apart, [Next]_vars PROVE Apart'
  OBVIOUS
<1>1. ASSUME NEW q \in Quit, QuitStep(q) PROVE Apart'
  BY <1>1, ApartKept DEF QuitStep, LookUp, QuitUpstream, DeleteRow, QuitRelease, history, Running
<1>2. ASSUME Command \/ Quieten \/ OwnerAllocates \/ PickQueued \/ Promote \/ PassOver
             \/ Attach \/ Outside
      PROVE  Apart'
  BY <1>2, ApartKept DEF Command, Quieten, OwnerAllocates, PickQueued, Promote, PassOver,
                         Attach, Outside, Expire, SweepIdle, EndSession, history, Running
<1>3. ASSUME Crash PROVE Apart'
  <2>1. Running' = {}
    BY <1>3 DEF Crash, Running, TypeOK, Ended
  <2> QED
    BY <1>3, <2>1, ApartKept DEF Crash
<1>4. CASE UNCHANGED vars
  BY <1>4, ApartKept DEF vars, history, Running
<1> QED
  BY <1>1, <1>2, <1>3, <1>4, PostApart DEF Next

-----------------------------------------------------------------------------
(* What the automation server holds. *)

(* A quit that has looked a row up has done so for ever. *)
LEMMA QuittingStays ==
  ASSUME TypeOK, [Next]_vars, NEW r \in Request, Quitting(r)
  PROVE  Quitting(r)'
<1>1. PICK q \in Quit : quits[q].at # "idle" /\ quits[q].row # NoRow /\ quits[q].row.up = r
  BY DEF Quitting
<1>2. quits'[q].at # "idle" /\ quits'[q].row = quits[q].row
  <2>1. ASSUME NEW s \in Request, PostStep(s) \/ AppiumAnswers(s) \/ DriverLost(s)
        PROVE  quits' = quits
    BY <2>1 DEF PostStep, AppiumAnswers, DriverLost, Allocate, Bind, WaitForCapacity,
                PollFails, GiveUp, Prepare, InstallBeforeSession, CallUpstream, Insert,
                Activate, Fail
  <2>2. ASSUME NEW p \in Quit, QuitStep(p)
        PROVE  quits'[q].at # "idle" /\ quits'[q].row = quits[q].row
    <3>1. CASE LookUp(p)
      BY <1>1, <3>1 DEF LookUp, TypeOK
    <3>2. ASSUME NEW at \in {"delete", "release", "ok", "error"}, MoveQuit(p, at)
          PROVE  quits'[q].at # "idle" /\ quits'[q].row = quits[q].row
      BY <1>1, <3>2 DEF MoveQuit, TypeOK
    <3> QED
      BY <2>2, <3>1, <3>2 DEF QuitStep, QuitUpstream, DeleteRow, QuitRelease
  <2>3. ASSUME Crash PROVE quits'[q].at # "idle" /\ quits'[q].row = quits[q].row
    BY <1>1, <2>3 DEF Crash, TypeOK
  <2>4. ASSUME Command \/ Quieten \/ OwnerAllocates \/ PickQueued \/ Promote \/ PassOver
               \/ Attach \/ Outside
        PROVE  quits' = quits
    BY <2>4 DEF Command, Quieten, OwnerAllocates, PickQueued, Promote, PassOver, Attach,
                Outside, Expire, SweepIdle, EndSession
  <2> QED
    BY <1>1, <2>1, <2>2, <2>3, <2>4 DEF Next, vars
<1> QED
  BY <1>1, <1>2 DEF Quitting

(* A step that leaves a request and its automation session alone. *)
LEMMA DrivenKept ==
  ASSUME TypeOK, [Next]_vars, NEW r \in Request, Driven(r),
         req'[r] = req[r], appium'[r] = appium[r], row' = row, excused \subseteq excused'
  PROVE  Driven(r)'
BY QuittingStays DEF Driven

LEMMA ClosedKept ==
  ASSUME NEW q \in Quit, Closed(q), quits'[q] = quits[q], excused \subseteq excused',
         quits[q].at = "delete" =>
           (appium'[quits[q].row.up] = "open" => appium[quits[q].row.up] = "open")
  PROVE  Closed(q)'
BY DEF Closed

(* What another request does leaves this one's automation session alone. *)
LEMMA OtherPostDriven ==
  ASSUME TypeOK, [Next]_vars, NEW r \in Request, NEW s \in Request, r # s, Driven(s),
         PostStep(r) \/ AppiumAnswers(r) \/ DriverLost(r)
  PROVE  Driven(s)'
<1>1. req'[s] = req[s] /\ appium'[s] = appium[s] /\ excused \subseteq excused'
  BY DEF PostStep, AppiumAnswers, DriverLost, Allocate, Bind, WaitForCapacity, PollFails,
         GiveUp, Prepare, InstallBeforeSession, CallUpstream, Insert, Activate, Fail, Move,
         TypeOK, history
<1>2. CASE row' = row
  BY <1>1, <1>2, DrivenKept
<1>3. CASE row' # row
  <2>1. row = NoRow
    BY <1>3 DEF PostStep, AppiumAnswers, DriverLost, Allocate, Bind, WaitForCapacity,
                PollFails, GiveUp, Prepare, InstallBeforeSession, CallUpstream, Insert, Fits,
                Activate, Fail
  <2> QED
    BY <1>1, <2>1, QuittingStays DEF Driven
<1> QED
  BY <1>2, <1>3

(* What a request does with its own. *)
LEMMA OwnPostDriven ==
  ASSUME TypeOK, Begun, RowsRecorded, Apart, [Next]_vars, NEW r \in Request, Driven(r),
         PostStep(r) \/ AppiumAnswers(r) \/ DriverLost(r)
  PROVE  Driven(r)'
<1> USE DEF Driven, Early, Past, Ended
<1>1. CASE Allocate(r)
  BY <1>1 DEF Allocate, Move, TypeOK
<1>2. CASE Bind(r)
  BY <1>2 DEF Bind, Move, TypeOK
<1>3. CASE WaitForCapacity(r)
  BY <1>3 DEF WaitForCapacity, PollFails, Move, TypeOK
<1>4. CASE GiveUp(r)
  BY <1>4 DEF GiveUp, Move, TypeOK
<1>5. CASE Prepare(r)
  BY <1>5 DEF Prepare, Move, TypeOK
<1>6. CASE InstallBeforeSession(r)
  BY <1>6 DEF InstallBeforeSession, Move, TypeOK
<1>7. CASE CallUpstream(r)
  BY <1>7 DEF CallUpstream, Move, TypeOK
<1>8. CASE Insert(r)
  <2>1. CASE row' = [up |-> r, hub |-> allocator = r] /\ Move(r, "inserted")
    <3>1. row'.up = r /\ row' # NoRow
      BY <2>1, InsertedRow
    <3> QED
      BY <1>8, <2>1, <3>1 DEF Insert, Move, TypeOK
  <2>2. CASE ~Fits /\ Move(r, "failing") /\ r \notin overlapped
    <3>1. r \in Running /\ row # NoRow
      BY <1>8, <2>2 DEF Insert, Running, Fits
    <3>2. row.up = r /\ req[r] \in Past
      BY <2>2, <3>1 DEF Apart, RowsRecorded, Recorded
    <3> QED
      BY <1>8, <3>2 DEF Insert
  <2>3. CASE Move(r, "failing") /\ excused' = excused \cup {r}
    BY <1>8, <2>3 DEF Insert, Move, TypeOK
  <2> QED
    BY <1>8, <2>1, <2>2, <2>3 DEF Insert
<1>9. CASE Activate(r)
  BY <1>9, QuittingStays DEF Activate, Move, TypeOK, history
<1>10. CASE Fail(r)
  BY <1>10 DEF Fail, Move, TypeOK
<1>11. CASE AppiumAnswers(r) \/ DriverLost(r)
  BY <1>11, QuittingStays DEF AppiumAnswers, DriverLost, TypeOK, history
<1> QED
  BY <1>1, <1>2, <1>3, <1>4, <1>5, <1>6, <1>7, <1>8, <1>9, <1>10, <1>11 DEF PostStep

LEMMA PostDrivers ==
  ASSUME TypeOK, Begun, RowsRecorded, Apart, Drivers, [Next]_vars, NEW r \in Request,
         PostStep(r) \/ AppiumAnswers(r) \/ DriverLost(r)
  PROVE  Drivers'
<1>1. ASSUME NEW s \in Request PROVE Driven(s)'
  BY OtherPostDriven, OwnPostDriven DEF Drivers
<1>2. ASSUME NEW q \in Quit PROVE Closed(q)'
  <2>1. quits' = quits /\ excused \subseteq excused'
    BY DEF PostStep, AppiumAnswers, DriverLost, Allocate, Bind, WaitForCapacity, PollFails,
           GiveUp, Prepare, InstallBeforeSession, CallUpstream, Insert, Activate, Fail, history
  <2>2. Closed(q) /\ Driven(r)
    BY DEF Drivers
  <2>3. CASE AppiumAnswers(r) /\ quits[q].at = "delete" /\ quits[q].row.up = r
    <3>1. req[r] \in Past
      BY <2>3 DEF RowsRecorded, Recorded
    <3>2. r \in excused
      BY <2>2, <2>3, <3>1 DEF AppiumAnswers, DriverLost, Driven, Past, Ended
    <3> QED
      BY <2>1, <2>3, <3>2 DEF Closed
  <2>4. CASE ~(AppiumAnswers(r) /\ quits[q].at = "delete" /\ quits[q].row.up = r)
    <3>1. quits[q].at = "delete" => quits[q].row.up \in Request
      BY DEF RowsRecorded, TypeOK, Row
    <3>2. ASSUME quits[q].at = "delete", appium'[quits[q].row.up] = "open"
          PROVE  appium[quits[q].row.up] = "open"
      BY <2>4, <3>1, <3>2
         DEF PostStep, AppiumAnswers, DriverLost, Allocate, Bind, WaitForCapacity, PollFails,
             GiveUp, Prepare, InstallBeforeSession, CallUpstream, Insert, Activate, Fail,
             TypeOK
    <3> QED
      BY <2>1, <2>2, <3>2, ClosedKept
  <2> QED
    BY <2>3, <2>4
<1> QED
  BY <1>1, <1>2 DEF Drivers

LEMMA QuitDrivers ==
  ASSUME TypeOK, RowsRecorded, Drivers, [Next]_vars, NEW q \in Quit, QuitStep(q)
  PROVE  Drivers'
<1>1. ASSUME NEW p \in Quit, p # q PROVE quits'[p] = quits[p]
  BY <1>1 DEF QuitStep, LookUp, QuitUpstream, DeleteRow, QuitRelease, MoveQuit, TypeOK
<1>2. req' = req /\ excused \subseteq excused'
  BY DEF QuitStep, LookUp, QuitUpstream, DeleteRow, QuitRelease, history
<1>3. ASSUME appium' = appium PROVE \A p \in Quit : p # q => Closed(p)'
  BY <1>1, <1>2, <1>3, ClosedKept DEF Drivers
<1>4. CASE LookUp(q)
  <2>1. ASSUME NEW r \in Request PROVE Driven(r)'
    BY <1>4, <2>1, DrivenKept DEF Drivers, LookUp, history
  <2>2. Closed(q)'
    BY <1>4 DEF LookUp, TypeOK, Closed
  <2> QED
    BY <1>3, <1>4, <2>1, <2>2 DEF Drivers, LookUp
<1>5. CASE QuitUpstream(q)
  <2> DEFINE up == quits[q].row.up
  <2>1. up \in Request /\ req[up] \in Past /\ quits[q].row # NoRow
    BY <1>5 DEF QuitUpstream, RowsRecorded, Recorded, TypeOK, Row
  <2>2. Quitting(up)
    BY <1>5, <2>1 DEF QuitUpstream, Quitting
  <2>3. row' = row /\ quits'[q].at = "delete" /\ quits'[q].row = quits[q].row
    BY <1>5 DEF QuitUpstream, MoveQuit, TypeOK
  <2>4. \/ appium' = [appium EXCEPT ![up] = "closed"] /\ excused' = excused
        \/ appium' = appium /\ excused' = excused \cup {up}
    BY <1>5 DEF QuitUpstream
  <2>5. \A r \in Request : appium'[r] = appium[r] \/ (r = up /\ appium'[r] = "closed")
    BY <2>1, <2>4 DEF TypeOK
  <2>6. ASSUME NEW r \in Request PROVE Driven(r)'
    <3>1. CASE appium'[r] = appium[r]
      BY <1>2, <2>3, <3>1, DrivenKept DEF Drivers
    <3>2. CASE r = up /\ appium'[r] = "closed"
      <4>1. Quitting(r)'
        BY <2>2, <3>2, QuittingStays
      <4> QED
        BY <1>2, <2>1, <3>2, <4>1 DEF Driven, Past, Early, Ended
    <3> QED
      BY <2>5, <3>1, <3>2
  <2>7. Closed(q)'
    BY <2>1, <2>3, <2>4 DEF Closed, TypeOK
  <2>8. ASSUME NEW p \in Quit, p # q PROVE Closed(p)'
    <3>1. Closed(p) /\ (quits[p].at = "delete" => quits[p].row.up \in Request)
      BY DEF Drivers, RowsRecorded, TypeOK, Row
    <3> QED
      BY <1>1, <1>2, <2>5, <2>8, <3>1, ClosedKept
  <2> QED
    BY <2>6, <2>7, <2>8 DEF Drivers
<1>6. CASE DeleteRow(q)
  <2>1. quits[q].at = "delete" /\ appium' = appium
    BY <1>6 DEF DeleteRow
  <2>2. quits[q].row # NoRow /\ quits[q].row.up \in Request
    BY <2>1 DEF RowsRecorded, TypeOK, Row
  <2>3. Closed(q)'
    <3>1. PICK at \in {"release", "ok", "error"} : MoveQuit(q, at)
      BY <1>6 DEF DeleteRow
    <3> QED
      BY <3>1 DEF MoveQuit, TypeOK, Closed
  <2>4. ASSUME NEW r \in Request PROVE Driven(r)'
    <3>1. CASE row' = row
      BY <1>2, <2>1, <3>1, DrivenKept DEF Drivers
    <3>2. CASE row' = NoRow /\ row # NoRow
      <4>1. row = quits[q].row \/ row.up \in excused'
        BY <1>6, <3>2 DEF DeleteRow
      <4>2. CASE row.up # r
        <5>1. Driven(r)
          BY DEF Drivers
        <5> QED
          BY <1>2, <2>1, <4>2, <5>1, QuittingStays DEF Driven
      <4>3. CASE row.up = r /\ r \in excused'
        <5>1. Driven(r)
          BY DEF Drivers
        <5> QED
          BY <1>2, <2>1, <4>3, <5>1 DEF Driven
      <4>4. CASE row.up = r /\ row = quits[q].row
        <5>1. Quitting(r)'
          BY <2>1, <2>2, <4>4, QuittingStays DEF Quitting
        <5>2. appium[r] # "open" \/ r \in excused
          BY <2>1, <4>4 DEF Drivers, Closed
        <5>3. Driven(r)
          BY DEF Drivers
        <5> QED
          BY <1>2, <2>1, <5>1, <5>2, <5>3 DEF Driven
      <4> QED
        BY <4>1, <4>2, <4>3, <4>4
    <3> QED
      BY <1>6, <3>1, <3>2 DEF DeleteRow
  <2> QED
    BY <1>3, <2>1, <2>3, <2>4 DEF Drivers
<1>7. CASE QuitRelease(q)
  <2>1. appium' = appium /\ row' = row
    BY <1>7 DEF QuitRelease
  <2>2. ASSUME NEW r \in Request PROVE Driven(r)'
    BY <1>2, <2>1, DrivenKept DEF Drivers
  <2>3. Closed(q)'
    BY <1>7 DEF QuitRelease, MoveQuit, TypeOK, Closed
  <2> QED
    BY <1>3, <2>1, <2>2, <2>3 DEF Drivers
<1> QED
  BY <1>4, <1>5, <1>6, <1>7 DEF QuitStep

LEMMA NextDrivers ==
  TypeOK /\ Begun /\ RowsRecorded /\ Apart /\ Drivers /\ [Next]_vars => Drivers'
<1> SUFFICES ASSUME TypeOK, Begun, RowsRecorded, Apart, Drivers, [Next]_vars PROVE Drivers'
  OBVIOUS
<1>1. ASSUME req' = req, appium' = appium, row' = row, quits' = quits, excused' = excused
      PROVE  Drivers'
  BY <1>1, DrivenKept, ClosedKept DEF Drivers
<1>2. ASSUME Command \/ Quieten \/ OwnerAllocates \/ PickQueued \/ Promote \/ PassOver
             \/ Attach \/ Outside
      PROVE  Drivers'
  BY <1>1, <1>2 DEF Command, Quieten, OwnerAllocates, PickQueued, Promote, PassOver, Attach,
                    Outside, Expire, SweepIdle, EndSession, history
<1>3. ASSUME Crash PROVE Drivers'
  <2>1. row' = row /\ appium' = appium /\ excused \subseteq excused'
    BY <1>3 DEF Crash
  <2>2. ASSUME NEW r \in Request PROVE Driven(r)'
    <3>1. CASE r \notin Running
      <4>1. req'[r] = req[r]
        BY <1>3, <3>1 DEF Crash
      <4> QED
        BY <2>1, <4>1, DrivenKept DEF Drivers
    <3>2. CASE r \in Running
      <4>1. req'[r] = "crashed" /\ (appium[r] # "none" => r \in excused')
        BY <1>3, <3>2 DEF Crash
      <4> QED
        BY <2>1, <4>1 DEF Driven, Early, Past, Ended
    <3> QED
      BY <3>1, <3>2
  <2>3. ASSUME NEW q \in Quit PROVE Closed(q)'
    <3>1. quits'[q] = quits[q] \/ quits'[q].at = "crashed"
      BY <1>3 DEF Crash, TypeOK
    <3> QED
      BY <2>1, <3>1, ClosedKept DEF Drivers, Closed
  <2> QED
    BY <2>2, <2>3 DEF Drivers
<1>4. CASE UNCHANGED vars
  BY <1>1, <1>4 DEF vars, history
<1> QED
  BY <1>2, <1>3, <1>4, PostDrivers, QuitDrivers DEF Next

-----------------------------------------------------------------------------
(* Nothing is left held. *)

(* A promotion that came too late is remembered. *)
LEMMA TardyStays ==
  ASSUME TypeOK, [Next]_vars, ~tardy'
  PROVE  ~tardy
<1>1. ASSUME NEW s \in Request, PostStep(s) \/ AppiumAnswers(s) \/ DriverLost(s) PROVE ~tardy
  BY <1>1 DEF PostStep, AppiumAnswers, DriverLost, Allocate, Bind, WaitForCapacity, PollFails,
              GiveUp, Prepare, InstallBeforeSession, CallUpstream, Insert, Activate, Fail,
              promotion
<1>2. ASSUME NEW q \in Quit, QuitStep(q) PROVE ~tardy
  BY <1>2 DEF QuitStep, LookUp, QuitUpstream, DeleteRow, QuitRelease, promotion
<1>3. ASSUME Command \/ Quieten \/ OwnerAllocates \/ PickQueued \/ Promote \/ PassOver \/ Attach
             \/ Crash \/ Outside
      PROVE  ~tardy
  BY <1>3 DEF Command, Quieten, OwnerAllocates, PickQueued, Promote, PassOver, Attach, Crash,
              Outside, Expire, SweepIdle, EndSession, promotion
<1> QED
  BY <1>1, <1>2, <1>3 DEF Next, vars, promotion

(* An ended session stays ended, but for a promotion that came too late. *)
LEMMA EndedStays ==
  ASSUME [Next]_vars, state = "ENDED", ~tardy'
  PROVE  state' = "ENDED"
<1>1. ASSUME NEW s \in Request, PostStep(s) \/ AppiumAnswers(s) \/ DriverLost(s)
      PROVE  state' = "ENDED"
  BY <1>1 DEF PostStep, AppiumAnswers, DriverLost, Allocate, Bind, WaitForCapacity, PollFails,
              GiveUp, Prepare, InstallBeforeSession, CallUpstream, Insert, Activate, Fail,
              Release, session
<1>2. ASSUME NEW q \in Quit, QuitStep(q) PROVE state' = "ENDED"
  BY <1>2 DEF QuitStep, LookUp, QuitUpstream, DeleteRow, QuitRelease, Release, session
<1>3. ASSUME Command \/ Quieten \/ OwnerAllocates \/ PickQueued \/ Promote \/ PassOver
             \/ Attach \/ Crash \/ Outside
      PROVE  state' = "ENDED"
  BY <1>3 DEF Command, Quieten, OwnerAllocates, PickQueued, Promote, PassOver, Attach, Crash,
              Outside, Expire, SweepIdle, EndSession, session
<1> QED
  BY <1>1, <1>2, <1>3 DEF Next, vars, session

(* A request that is refused, or a quit that is over, having had to release. *)
LEMMA HeldKept ==
  ASSUME TypeOK, Begun, NothingLeftHeld, [Next]_vars, unreleased \subseteq unreleased',
         \A r \in Request : req'[r] = "error" /\ allocator' = r /\ r \notin unreleased' =>
           (req[r] = "error" /\ allocator = r) \/ state' = "ENDED",
         \A q \in Quit : quits'[q].at = "ok" =>
           \/ quits'[q].row.hub => state' = "ENDED"
           \/ quits[q].at = "ok" /\ quits'[q].row = quits[q].row
  PROVE  NothingLeftHeld'
BY EndedStays, TardyStays DEF NothingLeftHeld

LEMMA PostHeld ==
  ASSUME TypeOK, Begun, NothingLeftHeld, [Next]_vars, NEW r \in Request,
         PostStep(r) \/ AppiumAnswers(r) \/ DriverLost(r)
  PROVE  NothingLeftHeld'
<1>1. quits' = quits /\ unreleased \subseteq unreleased'
  BY DEF PostStep, AppiumAnswers, DriverLost, Allocate, Bind, WaitForCapacity, PollFails,
         GiveUp, Prepare, InstallBeforeSession, CallUpstream, Insert, Activate, Fail, Release,
         history
<1>2. ASSUME NEW s \in Request, s # r, allocator' = s
      PROVE  req'[s] = req[s] /\ allocator = s
  BY <1>2 DEF PostStep, AppiumAnswers, DriverLost, Allocate, Bind, WaitForCapacity, PollFails,
              GiveUp, Prepare, InstallBeforeSession, CallUpstream, Insert, Activate, Fail,
              Move, Release, TypeOK, session
<1>3. ASSUME req'[r] = "error", allocator' = r, r \notin unreleased'
      PROVE  (req[r] = "error" /\ allocator = r) \/ state' = "ENDED"
  <2>1. CASE GiveUp(r)
    BY <1>3, <2>1 DEF GiveUp, Release
  <2>2. CASE Fail(r)
    BY <1>3, <2>2 DEF Fail, Releases, Release, session
  <2>3. CASE Bind(r)
    BY <1>3, <2>3 DEF Bind, Begun, session
  <2>4. CASE AppiumAnswers(r) \/ DriverLost(r)
    BY <1>3, <2>4 DEF AppiumAnswers, DriverLost, session
  <2>6. CASE WaitForCapacity(r)
    BY <1>3, <2>6 DEF WaitForCapacity, PollFails, Move, TypeOK, session
  <2>5. CASE Allocate(r) \/ Prepare(r) \/ InstallBeforeSession(r)
             \/ CallUpstream(r) \/ Insert(r) \/ Activate(r)
    BY <1>3, <2>5 DEF Allocate, Prepare, InstallBeforeSession, CallUpstream,
                      Insert, Activate, Move, TypeOK
  <2> QED
    BY <2>1, <2>2, <2>3, <2>4, <2>5, <2>6 DEF PostStep
<1> QED
  BY <1>1, <1>2, <1>3, HeldKept

LEMMA NextHeld == TypeOK /\ Begun /\ RowsRecorded /\ NothingLeftHeld /\ [Next]_vars
                    => NothingLeftHeld'
<1> SUFFICES ASSUME TypeOK, Begun, RowsRecorded, NothingLeftHeld, [Next]_vars
             PROVE  NothingLeftHeld'
  OBVIOUS
<1>1. ASSUME NEW q \in Quit, QuitStep(q) PROVE NothingLeftHeld'
  <2>1. req' = req /\ allocator' = allocator /\ unreleased \subseteq unreleased'
    BY <1>1 DEF QuitStep, LookUp, QuitUpstream, DeleteRow, QuitRelease, Release, session, history
  <2>2. ASSUME NEW p \in Quit, p # q PROVE quits'[p] = quits[p]
    BY <1>1, <2>2 DEF QuitStep, LookUp, QuitUpstream, DeleteRow, QuitRelease, MoveQuit, TypeOK
  <2>3. ASSUME quits'[q].at = "ok", quits'[q].row.hub PROVE state' = "ENDED"
    <3>1. CASE LookUp(q)
      BY <2>3, <3>1 DEF LookUp, TypeOK
    <3>2. CASE QuitUpstream(q)
      BY <2>3, <3>2 DEF QuitUpstream, MoveQuit, TypeOK
    <3>3. CASE DeleteRow(q)
      BY <2>3, <3>3 DEF DeleteRow, MoveQuit, TypeOK
    <3>4. CASE QuitRelease(q)
      BY <2>3, <3>4 DEF QuitRelease, Release, MoveQuit, TypeOK
    <3> QED
      BY <1>1, <3>1, <3>2, <3>3, <3>4 DEF QuitStep
  <2> QED
    BY <2>1, <2>2, <2>3, HeldKept
<1>2. ASSUME Command \/ Quieten \/ OwnerAllocates \/ PickQueued \/ Promote \/ PassOver
             \/ Attach \/ Outside
      PROVE  NothingLeftHeld'
  BY <1>2, HeldKept DEF Command, Quieten, OwnerAllocates, PickQueued, Promote, PassOver,
                        Attach, Outside, Expire, SweepIdle, EndSession, session, history
<1>3. ASSUME Crash PROVE NothingLeftHeld'
  <2>1. \A r \in Request : req'[r] \in {req[r], "crashed"}
    BY <1>3 DEF Crash
  <2>2. \A q \in Quit : quits'[q] = quits[q] \/ quits'[q].at = "crashed"
    BY <1>3 DEF Crash, TypeOK
  <2> QED
    BY <1>3, <2>1, <2>2, HeldKept DEF Crash, session
<1>4. CASE UNCHANGED vars
  BY <1>4, HeldKept DEF vars, session, history
<1> QED
  BY <1>1, <1>2, <1>3, <1>4, PostHeld DEF Next

-----------------------------------------------------------------------------
(* The theorems. *)

LEMMA InitInv == Init => Inv
<1> SUFFICES ASSUME Init PROVE Inv
  OBVIOUS
<1>1. TypeOK
  BY DEF Init, TypeOK
<1>2. Begun /\ Apart
  BY HubAssumption DEF Init, Begun, Apart, Running
<1>3. RowsRecorded
  BY DEF Init, RowsRecorded, Recorded
<1>4. Drivers
  BY DEF Init, Drivers, Driven, Closed, Early, Past, Ended
<1>5. NothingLeftHeld
  BY DEF Init, NothingLeftHeld
<1> QED
  BY <1>1, <1>2, <1>3, <1>4, <1>5 DEF Inv

(* The inductive invariant holds of every behaviour of the hub. *)
THEOREM Invariance == Spec => []Inv
<1>1. Inv /\ [Next]_vars => Inv'
  BY Types, NextBegun, NextRows, NextApart, NextDrivers, NextHeld DEF Inv
<1> QED
  BY InitInv, <1>1, PTL DEF Spec

(* The hub's variables keep their types. *)
THEOREM TypeCorrect == Spec => []TypeOK
BY Invariance, PTL DEF Inv

(* POST and DELETE /session: a client that is told that no session was        *)
(* created, or whose quit of a session it had from the hub succeeded, leaves  *)
(* nothing behind that holds a device or a place in the queue, unless the     *)
(* release failed or, after a failing poll, was never made, or a promotion    *)
(* wrote the session after it had left the queue; with any number of requests *)
(* at once.                                                                   *)
THEOREM RefusedHoldsNothing == Spec => []NothingLeftHeld
BY Invariance, PTL DEF Inv

(* A client that was given a WebDriver session has its own recorded behind it *)
(* until it is quit, and nothing of the hub closes that one: it is there, or  *)
(* the automation server has lost it.                                         *)
THEOREM DriverIsOwn == Spec => []OwnDriver
<1>1. Inv => OwnDriver
  BY DEF Inv, Drivers, Driven, OwnDriver
<1> QED
  BY Invariance, <1>1, PTL

(* An automation session on a live device that the hub does not know of is    *)
(* one that a failure, a crash or an overlap left behind.                     *)
THEOREM StraysAccounted == Spec => []StraysAreAccountedFor
<1>1. Inv => StraysAreAccountedFor
  BY DEF Inv, Drivers, Driven, Past, StraysAreAccountedFor
<1> QED
  BY Invariance, <1>1, PTL

(* hubAllocated: the steps of the hub that end a session end only their own,  *)
(* so no client loses its session to another's failure or late quit.          *)
THEOREM OthersAreLeftAlone == Spec => NobodyEndsAnothers
<1> DEFINE Alone == \A r \in Request :
                      req[r] = "ok" /\ allocator \in {r, Owner} /\ ~Quitting(r) /\ Live
                        /\ state' = "ENDED" => Outside
<1>1. Inv /\ [Next]_vars => [Alone]_vars
  <2> SUFFICES ASSUME Inv, [Next]_vars,
                      NEW r \in Request, req[r] = "ok", allocator \in {r, Owner},
                      ~Quitting(r), Live, state' = "ENDED", ~(UNCHANGED vars)
               PROVE  Outside
    BY DEF Alone
  <2>1. TypeOK /\ Begun /\ RowsRecorded /\ allocator \in Request => allocator = r
    BY HubAssumption DEF Inv
  <2>2. state # "ENDED"
    BY DEF Live
  <2>3. ASSUME NEW s \in Request, PostStep(s) \/ AppiumAnswers(s) \/ DriverLost(s) PROVE FALSE
    <3>1. state' # state
      BY <2>2
    <3>2. GiveUp(s) \/ (Fail(s) /\ Releases(s))
      BY <2>3, <3>1 DEF PostStep, AppiumAnswers, DriverLost, Allocate, Bind, WaitForCapacity,
                        PollFails, GiveUp, Prepare, InstallBeforeSession, CallUpstream, Insert,
                        Activate, Fail, session
    <3>3. allocator = s
      BY <2>1, <3>2 DEF GiveUp, Releases, Begun, Inv
    <3>4. req[s] # "ok"
      BY <3>2 DEF GiveUp, Fail
    <3> QED
      BY <2>3, <3>3, <3>4, HubAssumption
  <2>4. ASSUME NEW q \in Quit, QuitStep(q) PROVE FALSE
    <3>1. QuitRelease(q)
      BY <2>2, <2>4 DEF QuitStep, LookUp, QuitUpstream, DeleteRow, session
    <3>2. quits[q].at = "release" /\ quits[q].row # NoRow /\ quits[q].row.hub = TRUE
      BY <3>1 DEF QuitRelease, Inv, RowsRecorded
    <3>3. allocator = quits[q].row.up /\ quits[q].row.up \in Request
      BY <3>2 DEF Inv, RowsRecorded, Recorded, TypeOK, Row
    <3>4. Quitting(r)
      BY <3>2, <3>3, HubAssumption DEF Quitting
    <3> QED
      BY <3>4
  <2>5. ASSUME Command \/ Quieten \/ OwnerAllocates \/ PickQueued \/ Promote
               \/ PassOver \/ Attach \/ Crash
        PROVE  FALSE
    BY <2>2, <2>5 DEF Command, Quieten, OwnerAllocates, PickQueued, Promote, PassOver, Attach,
                      Crash, session
  <2> QED
    BY <2>3, <2>4, <2>5 DEF Next
<1> QED
  BY Invariance, <1>1, PTL DEF Spec, NobodyEndsAnothers

=============================================================================
