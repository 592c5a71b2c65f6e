-------------------------------- MODULE Hub --------------------------------
(***************************************************************************)
(* The WebDriver hub over one session.  A client's POST /session either    *)
(* allocates the session or binds one that is already live, opens a        *)
(* session of the device's automation server, records which one in         *)
(* webdriver_sessions, and answers; a quit takes the steps back.           *)
(*                                                                         *)
(* Every await is a place where other requests, the reaper, the owner and  *)
(* a crash of the process may come in.  Sessions do not meet in this code, *)
(* so one is enough; the allocator that serves several is Fleet's.         *)
(***************************************************************************)
CONSTANTS
  Request,   \* calls of POST /session; the automation session each opens has its name
  Quit,      \* calls of DELETE /session/:sessionId
  Owner,     \* whoever allocates through the REST API instead of the hub
  NoRow      \* no row in webdriver_sessions

ASSUME HubAssumption ==
  /\ Request \cap Quit = {}
  /\ Owner \notin Request \cup Quit
  /\ NoRow \notin [up: Request, hub: BOOLEAN]

VARIABLES
  state,      \* sessions.state, "none" before there is a session
  allocator,  \* who allocated it
  row,        \* its row in webdriver_sessions
  quiet,      \* the row's last_command_at is older than the idle timeout
  picked,     \* a tick of promote_queued has read the session in the queue
  req,        \* where each POST is
  quits,      \* where each DELETE is, and the row it looked up
  appium,     \* the automation sessions
  overlapped, \* history: the POSTs that ran beside another one on the session
  tardy,      \* history: a promotion found the session past the queue
  unreleased, \* history: the calls whose release did not go through, or was not made
  excused     \* history: the automation sessions a failure cut off from the hub

promotion == <<picked, tardy>>
history == <<overlapped, unreleased, excused>>
session == <<state, allocator>>
vars == <<session, promotion, row, quiet, req, quits, appium, history>>

Row == [up: Request, hub: BOOLEAN]

Ended == {"ok", "error", "crashed"}

Live == state \in {"ALLOCATING", "ACTIVE"}

TypeOK ==
  /\ state \in {"none", "QUEUED", "ALLOCATING", "ACTIVE", "ENDED"}
  /\ allocator \in Request \cup {Owner}
  /\ row \in Row \cup {NoRow} /\ quiet \in BOOLEAN
  /\ picked \in BOOLEAN /\ tardy \in BOOLEAN
  /\ req \in [Request -> {"idle", "waiting", "giving up", "granted", "prepared", "calling",
                          "created", "inserted", "failing"} \cup Ended]
  /\ quits \in [Quit -> [at: {"idle", "upstream", "delete", "release"} \cup Ended,
                         row: Row \cup {NoRow}]]
  /\ appium \in [Request -> {"none", "asked", "open", "closed", "lost"}]
  /\ overlapped \subseteq Request /\ excused \subseteq Request
  /\ unreleased \subseteq Request \cup Quit

Init ==
  /\ state = "none" /\ allocator = Owner
  /\ row = NoRow /\ quiet = FALSE
  /\ picked = FALSE /\ tardy = FALSE
  /\ req = [r \in Request |-> "idle"]
  /\ quits = [q \in Quit |-> [at |-> "idle", row |-> NoRow]]
  /\ appium = [r \in Request |-> "none"]
  /\ overlapped = {} /\ unreleased = {} /\ excused = {}

Move(r, at) == req' = [req EXCEPT ![r] = at]

Running == {r \in Request : req[r] \notin Ended \cup {"idle"}}

(* release_device: whatever the session is waiting for or holding, it ends; *)
(* or the call fails and the session is as it was.                          *)
Release(caller) ==
  /\ UNCHANGED allocator
  /\ \/ /\ state' = "ENDED" /\ UNCHANGED unreleased
     \/ /\ UNCHANGED state /\ unreleased' = unreleased \cup {caller}

-----------------------------------------------------------------------------
(* POST /session. *)

(* allocate(): the session has its device at once, or waits in the queue. *)
Allocate(r) ==
  /\ req[r] = "idle" /\ state = "none"
  /\ allocator' = r
  /\ \/ state' = "ALLOCATING" /\ Move(r, "granted")
     \/ state' = "QUEUED" /\ Move(r, "waiting")
  /\ UNCHANGED <<promotion, row, quiet, quits, appium, history>>

(* Mutant: a session that is being driven may be bound again. *)
BindableTwice == Live

(* bind(): only a live session that has no WebDriver session. *)
Bindable == Live /\ row = NoRow

Bind(r) ==
  /\ req[r] = "idle" /\ state # "none"
  /\ Move(r, IF Bindable THEN "granted" ELSE "error")
  /\ overlapped' = IF Bindable /\ Running # {} THEN overlapped \cup Running \cup {r}
                   ELSE overlapped
  /\ UNCHANGED <<promotion, session, row, quiet, quits, appium, unreleased, excused>>

(* The poll's query throws.  The wait is outside the handler's try, so the    *)
(* client has its error and nobody releases the session.                      *)
PollFails(r) == Move(r, "error") /\ unreleased' = unreleased \cup {r}

(* One turn of waitForCapacity.  The deadline and a client that left are     *)
(* seen before the row is read, so either may end the wait at any time.      *)
WaitForCapacity(r) ==
  /\ req[r] = "waiting"
  /\ \/ Move(r, "giving up") /\ UNCHANGED unreleased
     \/ state = "ALLOCATING" /\ Move(r, "granted") /\ UNCHANGED unreleased
     \/ PollFails(r)
  /\ UNCHANGED <<promotion, session, row, quiet, quits, appium, overlapped, excused>>

(* Mutant: a wait that ended without a device leaves its place in the queue. *)
GiveUpInPlace(r) ==
  /\ req[r] = "giving up"
  /\ Move(r, "error")
  /\ UNCHANGED <<promotion, session, row, quiet, quits, appium, history>>

GiveUp(r) ==
  /\ req[r] = "giving up"
  /\ Release(r)
  /\ Move(r, "error")
  /\ UNCHANGED <<promotion, row, quiet, quits, appium, overlapped, excused>>

(* The run is joined and the device's automation endpoint found; either may *)
(* fail.                                                                    *)
Prepare(r) ==
  /\ req[r] = "granted"
  /\ \E at \in {"failing", "prepared"} : Move(r, at)
  /\ UNCHANGED <<promotion, session, row, quiet, quits, appium, history>>

(* The build is installed, an app action the client waits for.  Only then is *)
(* the automation server asked for a session.                                *)
InstallBeforeSession(r) ==
  /\ req[r] = "prepared"
  /\ \/ Move(r, "failing") /\ UNCHANGED appium
     \/ Move(r, "calling") /\ appium' = [appium EXCEPT ![r] = "asked"]
  /\ UNCHANGED <<promotion, session, row, quiet, quits, history>>

(* The automation server takes its time; it may open the session after *)
(* whoever asked has stopped waiting, and it may refuse.               *)
AppiumAnswers(r) ==
  /\ appium[r] = "asked"
  /\ \E outcome \in {"open", "closed"} : appium' = [appium EXCEPT ![r] = outcome]
  /\ UNCHANGED <<promotion, session, row, quiet, req, quits, history>>

(* The automation server crashes and is restarted by the agent, or its         *)
(* newCommandTimeout passes before the farm's own idle sweep: the automation   *)
(* session is gone and nothing of the hub knows.                               *)
DriverLost(r) ==
  /\ appium[r] = "open"
  /\ appium' = [appium EXCEPT ![r] = "lost"]
  /\ UNCHANGED <<promotion, session, row, quiet, req, quits, history>>

(* callUpstream returns, or gives up on an answer that may still come. *)
CallUpstream(r) ==
  /\ req[r] = "calling"
  /\ \/ appium[r] \in {"open", "lost"} /\ Move(r, "created") /\ UNCHANGED excused
     \/ appium[r] = "closed" /\ Move(r, "failing") /\ UNCHANGED excused
     \/ Move(r, "failing") /\ excused' = excused \cup {r}
  /\ UNCHANGED <<promotion, session, row, quiet, quits, appium, overlapped, unreleased>>

(* Mutant: the newer WebDriver session replaces the one recorded before. *)
Replaces == TRUE

(* The primary key on session_id refuses a second row. *)
Fits == row = NoRow

(* The row is recorded without another look at the session's state. *)
Insert(r) ==
  /\ req[r] = "created"
  /\ \/ /\ Fits
        /\ row' = [up |-> r, hub |-> allocator = r] /\ quiet' = FALSE
        /\ Move(r, "inserted")
        /\ UNCHANGED excused
     \/ /\ ~Fits
        /\ Move(r, "failing")
        /\ excused' = IF r \in overlapped THEN excused \cup {r} ELSE excused
        /\ UNCHANGED <<row, quiet>>
     \/ /\ Move(r, "failing")
        /\ excused' = excused \cup {r}
        /\ UNCHANGED <<row, quiet>>
  /\ UNCHANGED <<promotion, session, quits, appium, overlapped, unreleased>>

(* activate() does nothing to a session that is past ALLOCATING, ended ones *)
(* included, and the answer does not look at what it did.                   *)
Activate(r) ==
  /\ req[r] = "inserted"
  /\ \/ /\ state' = IF state = "ALLOCATING" THEN "ACTIVE" ELSE state
        /\ Move(r, "ok")
     \/ /\ Move(r, "failing") /\ UNCHANGED state
  /\ UNCHANGED <<promotion, allocator, row, quiet, quits, appium, history>>

(* Mutant: the session is released whoever allocated it. *)
MayRelease(r) == TRUE

(* hubAllocated. *)
Releases(r) == allocator = r

Fail(r) ==
  /\ req[r] = "failing"
  /\ IF Releases(r) THEN Release(r) ELSE UNCHANGED <<session, unreleased>>
  /\ Move(r, "error")
  /\ UNCHANGED <<promotion, row, quiet, quits, appium, overlapped, excused>>

-----------------------------------------------------------------------------
(* DELETE /session/:sessionId, and the commands in between. *)

MoveQuit(q, at) == quits' = [quits EXCEPT ![q].at = at]

(* lookup(): a session that is not live or not driven answers 404. *)
LookUp(q) ==
  /\ quits[q].at = "idle"
  /\ quits' = [quits EXCEPT ![q] = IF Live /\ row # NoRow
                                   THEN [at |-> "upstream", row |-> row]
                                   ELSE [at |-> "error", row |-> NoRow]]
  /\ UNCHANGED <<promotion, session, row, quiet, req, appium, history>>

(* A quit the automation server does not answer goes on all the same. *)
QuitUpstream(q) ==
  LET up == quits[q].row.up IN
  /\ quits[q].at = "upstream"
  /\ \/ appium' = [appium EXCEPT ![up] = "closed"] /\ UNCHANGED excused
     \/ excused' = excused \cup {up} /\ UNCHANGED appium
  /\ MoveQuit(q, "delete")
  /\ UNCHANGED <<promotion, session, row, quiet, req, overlapped, unreleased>>

(* The row goes by its session: whichever row is there by now. *)
DeleteRow(q) ==
  /\ quits[q].at = "delete"
  /\ \/ /\ row' = NoRow
        /\ excused' = IF row \notin {NoRow, quits[q].row} THEN excused \cup {row.up}
                      ELSE excused
        /\ MoveQuit(q, IF quits[q].row.hub THEN "release" ELSE "ok")
     \/ /\ MoveQuit(q, "error") /\ UNCHANGED <<row, excused>>
  /\ UNCHANGED <<promotion, session, quiet, req, appium, overlapped, unreleased>>

QuitRelease(q) ==
  /\ quits[q].at = "release"
  /\ Release(q)
  /\ MoveQuit(q, IF q \in unreleased' THEN "error" ELSE "ok")
  /\ UNCHANGED <<promotion, row, quiet, req, appium, overlapped, excused>>

(* A proxied command that was answered touches the row. *)
Command ==
  /\ Live /\ row # NoRow /\ quiet
  /\ quiet' = FALSE
  /\ UNCHANGED <<promotion, session, row, req, quits, appium, history>>

-----------------------------------------------------------------------------
(* Around the hub. *)

OwnerAllocates ==
  /\ state = "none" /\ state' \in {"QUEUED", "ALLOCATING"}
  /\ UNCHANGED <<promotion, allocator, row, quiet, req, quits, appium, history>>

(* The cursor of promote_queued: a tick has the session in hand. *)
PickQueued ==
  /\ state = "QUEUED" /\ ~picked
  /\ picked' = TRUE
  /\ UNCHANGED <<session, tardy, row, quiet, req, quits, appium, history>>

(* Its UPDATE, which does not look at the state again: a session given up in   *)
(* between gets a device all the same, and one that an overlapping tick has    *)
(* promoted gets another.                                                      *)
Promote ==
  /\ picked /\ picked' \in BOOLEAN
  /\ state' = "ALLOCATING"
  /\ tardy' = (tardy \/ state # "QUEUED")
  /\ UNCHANGED <<allocator, row, quiet, req, quits, appium, history>>

(* The tick found no device for it, or failed. *)
PassOver ==
  /\ picked /\ picked' = FALSE
  /\ UNCHANGED <<session, tardy, row, quiet, req, quits, appium, history>>

(* session_attach: a viewer opened the device. *)
Attach ==
  /\ state = "ALLOCATING" /\ state' = "ACTIVE"
  /\ UNCHANGED <<promotion, allocator, row, quiet, req, quits, appium, history>>

Quieten ==
  /\ row # NoRow /\ ~quiet /\ quiet' = TRUE
  /\ UNCHANGED <<promotion, session, row, req, quits, appium, history>>

(* expire_idle_webdriver_sessions. *)
SweepIdle ==
  /\ Live /\ row # NoRow /\ quiet
  /\ state' = "ENDED"
  /\ UNCHANGED <<promotion, allocator, row, quiet, req, quits, appium, history>>

(* expire_sessions. *)
Expire ==
  /\ Live
  /\ state' = "ENDED"
  /\ UNCHANGED <<promotion, allocator, row, quiet, req, quits, appium, history>>

(* DELETE /sessions/:id, by anyone of the organisation. *)
EndSession ==
  /\ state \in {"QUEUED", "ALLOCATING", "ACTIVE"}
  /\ state' = "ENDED"
  /\ UNCHANGED <<promotion, allocator, row, quiet, req, quits, appium, history>>

(* The process dies; its requests are never answered. *)
Crash ==
  LET cut == {q \in Quit : quits[q].at \notin Ended \cup {"idle"}} IN
  /\ Running \cup cut # {}
  /\ req' = [r \in Request |-> IF r \in Running THEN "crashed" ELSE req[r]]
  /\ quits' = [q \in Quit |-> IF q \in cut THEN [quits[q] EXCEPT !.at = "crashed"] ELSE quits[q]]
  /\ excused' = excused \cup {r \in Running : appium[r] # "none"}
  /\ UNCHANGED <<promotion, session, row, quiet, appium, overlapped, unreleased>>

Outside == Expire \/ SweepIdle \/ EndSession

PostStep(r) ==
  \/ Allocate(r) \/ Bind(r) \/ WaitForCapacity(r) \/ GiveUp(r) \/ Prepare(r)
  \/ InstallBeforeSession(r) \/ CallUpstream(r) \/ Insert(r) \/ Activate(r) \/ Fail(r)

QuitStep(q) == LookUp(q) \/ QuitUpstream(q) \/ DeleteRow(q) \/ QuitRelease(q)

Next ==
  \/ \E r \in Request : PostStep(r) \/ AppiumAnswers(r) \/ DriverLost(r)
  \/ \E q \in Quit : QuitStep(q)
  \/ Command \/ Quieten
  \/ OwnerAllocates \/ PickQueued \/ Promote \/ PassOver \/ Attach \/ Crash
  \/ Outside

Spec == Init /\ [][Next]_vars

-----------------------------------------------------------------------------
Quitting(r) == \E q \in Quit : quits[q].at # "idle" /\ quits[q].row # NoRow /\ quits[q].row.up = r

(* A client that is told no session was created, and a client whose quit of a *)
(* session it had from the hub succeeded, leave no session behind that goes   *)
(* on holding a device or a place in the queue; not even when the device came *)
(* just as the wait was given up.  The exceptions: the release failed or,     *)
(* after a poll that failed, was never made; and a promotion that had read    *)
(* the session in the queue wrote it after it had left.                       *)
NothingLeftHeld ==
  ~tardy =>
    /\ \A r \in Request : allocator = r /\ req[r] = "error" /\ r \notin unreleased
                            => state = "ENDED"
    /\ \A q \in Quit : quits[q].at = "ok" /\ quits[q].row.hub => state = "ENDED"

(* A client that was given a WebDriver session has that one recorded behind   *)
(* it, for as long as the session lives and nobody has quit it, and the hub   *)
(* has not closed it: no bind, no failed creation and no quit of an earlier   *)
(* one takes it away.  It may be gone all the same, when the automation       *)
(* server crashed or timed out.  The exceptions are a quit that looked up the *)
(* row before this one and deleted it afterwards, and a promotion that moved  *)
(* the session to another device.                                             *)
OwnDriver ==
  \A r \in Request :
    req[r] = "ok" /\ Live /\ ~tardy /\ ~Quitting(r) /\ r \notin excused
      => row # NoRow /\ row.up = r /\ appium[r] \in {"open", "lost"}

(* A live device carries an automation session that the hub does not know of  *)
(* only where a call went unanswered, an insert failed, two creations         *)
(* overlapped, a process died, or a late quit deleted a newer row.            *)
StraysAreAccountedFor ==
  \A r \in Request :
    appium[r] = "open" /\ Live /\ req[r] \in Ended
      => r \in excused \/ (row # NoRow /\ row.up = r)

(* A client that drives the session it allocated, or one its owner allocated  *)
(* for it, loses it to its own quit, to time, to silence or to whoever ends   *)
(* it through the API: never to another request of the hub that fails on the  *)
(* same session, and never to a late quit of an earlier WebDriver session.    *)
NobodyEndsAnothers ==
  [][\A r \in Request :
       req[r] = "ok" /\ allocator \in {r, Owner} /\ ~Quitting(r) /\ Live /\ state' = "ENDED"
         => Outside]_vars
=============================================================================
