------------------------------- MODULE Meter -------------------------------
(***************************************************************************)
(* Metering: the device-seconds a host's agent counts, buffers and reports,*)
(* and the ledger of the control plane that bills them.                    *)
(*                                                                         *)
(* One device passes from session to session; session n has fence n.  A    *)
(* meter starts with a viewer's hello or the first authorised WebDriver    *)
(* command, and stops when a viewer leaves or the reset that follows the   *)
(* lease begins.  Events carry an id of their own making, wait in a buffer *)
(* of bounded size and may be sent any number of times.                    *)
(***************************************************************************)
EXTENDS Integers, FiniteSets, Sequences, SequencesExt

CONSTANTS
  MaxSession,   \* bound on the sessions
  MaxClock,     \* bound on time, in ticks of the clock
  MaxBuffered,  \* maxBufferedEvents
  MaxViewers,   \* bound on the sockets of one session
  MaxPurged     \* bound on the sessions whose record is deleted

ASSUME MeterAssumption ==
  /\ MaxSession \in Nat /\ MaxClock \in Nat /\ MaxBuffered \in Nat \ {0} /\ MaxViewers \in Nat
  /\ MaxPurged \in Nat

Session == 1..MaxSession

Time == 0..MaxClock

VARIABLES
  clock,
  current,  \* the session that holds the device, or held it last
  stage,    \* whether it still does, or the device has been reset since
  late,     \* the ended sessions whose grants have not expired
  purged,   \* the sessions whose record the tenant had deleted
  high,     \* the agent's fenceHighWater for the device
  viewers,  \* how many live-view sockets each session has open ...
  armed,    \* ... and how many of them stop its meter when they close
  active,   \* the running meters: when each started, and how much of it is in events
  buffer,   \* the events that wait, oldest first
  net,      \* events on their way, where they may stay for ever
  ledger,   \* metering_events
  usage,    \* what each session is billed: the sum of its events
  metered,  \* history: the ticks during which each session's meter ran
  lost,     \* history: the ticks of events dropped from a full buffer, with the agent,
            \* or because the control plane refused them
  uncut     \* history: the sessions whose grants outlived the agent's memory

lease == <<current, stage, late, purged>>
bill == <<ledger, usage>>
sockets == <<viewers, armed>>
meterVars == <<clock, lease, high, sockets, active, buffer, net, bill, metered, lost, uncut>>

Stopped == [on |-> FALSE, start |-> 0, billed |-> 0]

(* The id of an event is its session, the start of the meter's segment and   *)
(* how much of the segment came before; deterministicUuid keeps them apart.   *)
Event == [session: Session, start: Time, from: Time, to: Time]

Same(e, f) == e.session = f.session /\ e.start = f.start /\ e.from = f.from

Quantity(e) == e.to - e.from

Ticks(e) == (e.start + e.from)..(e.start + e.to - 1)

TicksOf(E, s) == UNION {Ticks(e) : e \in {f \in E : f.session = s}}

MeterTypeOK ==
  /\ clock \in Time
  /\ current \in 0..MaxSession /\ stage \in {"live", "ended", "reset"}
  /\ late \subseteq Session /\ purged \subseteq Session
  /\ high \in 0..current + 1
  /\ viewers \in [Session -> 0..MaxViewers]
  /\ armed \in [Session -> 0..MaxViewers] /\ \A s \in Session : armed[s] <= viewers[s]
  /\ active \in [Session -> [on: BOOLEAN, start: Time, billed: Time]]
  /\ buffer \in Seq(Event) /\ Len(buffer) <= MaxBuffered
  /\ net \subseteq Event /\ ledger \subseteq Event
  /\ usage \in [Session -> Nat]
  /\ metered \in [Session -> SUBSET Time] /\ lost \in [Session -> SUBSET Time]
  /\ uncut \subseteq Session

MeterInit ==
  /\ clock = 0
  /\ current = 0 /\ stage = "reset" /\ late = {} /\ purged = {}
  /\ high = 0
  /\ viewers = [s \in Session |-> 0] /\ armed = viewers
  /\ active = [s \in Session |-> Stopped]
  /\ buffer = <<>> /\ net = {} /\ ledger = {}
  /\ usage = [s \in Session |-> 0]
  /\ metered = [s \in Session |-> {}] /\ lost = [s \in Session |-> {}]
  /\ uncut = {}

-----------------------------------------------------------------------------
(* emitTick: the event of what a meter has run and not yet put in one, if    *)
(* that is anything.                                                          *)
TickOf(s) ==
  IF active[s].on /\ clock - active[s].start > active[s].billed
  THEN {[session |-> s, start |-> active[s].start,
         from |-> active[s].billed, to |-> clock - active[s].start]}
  ELSE {}

TicksOfAll(S) == UNION {TickOf(s) : s \in S}

(* pushEvent for each event of E, in the order their meters were started (any *)
(* order here): a full buffer drops its oldest event.                         *)
Push(E) ==
  \E events \in SetToSeqs(E) :
    LET all == buffer \o events
        over == IF Len(all) > MaxBuffered THEN Len(all) - MaxBuffered ELSE 0
    IN  /\ buffer' = SubSeq(all, over + 1, Len(all))
        /\ lost' = [s \in Session |->
                      lost[s] \cup TicksOf(ToSet(SubSeq(all, 1, over)), s)]

(* endSession for the sessions of S: the last seconds are not given away. *)
EndMeters(S) ==
  /\ Push(TicksOfAll(S))
  /\ active' = [s \in Session |-> IF s \in S THEN Stopped ELSE active[s]]

(* Mutant: a meter that runs is replaced. *)
BegunAnew(s) == [active EXCEPT ![s] = [on |-> TRUE, start |-> clock, billed |-> 0]]

(* beginSession: a meter that runs is kept. *)
Begun(s) ==
  IF active[s].on THEN active
  ELSE [active EXCEPT ![s] = [on |-> TRUE, start |-> clock, billed |-> 0]]

-----------------------------------------------------------------------------
(* The lease, as the control plane keeps it. *)

Grant(s) == (stage = "live" /\ s = current) \/ s \in late

Lease ==
  /\ stage = "reset" /\ current < MaxSession
  /\ current' = current + 1 /\ stage' = "live"
  /\ UNCHANGED <<clock, late, purged, high, sockets, active, buffer, net, bill, metered, lost, uncut>>

EndLease ==
  /\ stage = "live"
  /\ stage' = "ended" /\ late' = late \cup {current}
  /\ UNCHANGED <<clock, current, purged, high, sockets, active, buffer, net, bill, metered, lost, uncut>>

Expire(s) ==
  /\ s \in late /\ late' = late \ {s}
  /\ UNCHANGED <<clock, current, stage, purged, high, sockets, active, buffer, net, bill, metered, lost,
                 uncut>>

(* purge_session: the tenant has the record of an ended session deleted; what  *)
(* the ledger has of it stays, and its grants are verified without it.         *)
PurgeSession(s) ==
  /\ s < current \/ (s = current /\ stage # "live")
  /\ s \notin purged /\ Cardinality(purged) < MaxPurged
  /\ purged' = purged \cup {s}
  /\ UNCHANGED <<clock, current, stage, late, high, sockets, active, buffer, net, bill, metered, lost,
                 uncut>>

(* One tick of the clock. *)
Tick ==
  /\ clock < MaxClock
  /\ clock' = clock + 1
  /\ metered' = [s \in Session |-> IF active[s].on THEN metered[s] \cup {clock}
                                   ELSE metered[s]]
  /\ UNCHANGED <<lease, high, sockets, active, buffer, net, bill, lost, uncut>>

-----------------------------------------------------------------------------
(* The agent. *)

(* onHello: the grant is verified, the client attached and its meter started. *)
Hello(s) ==
  /\ Grant(s) /\ s >= high /\ viewers[s] < MaxViewers
  /\ high' = s
  /\ viewers' = [viewers EXCEPT ![s] = @ + 1]
  /\ active' = Begun(s)
  /\ UNCHANGED <<clock, lease, armed, buffer, net, bill, metered, lost, uncut>>

(* onHello, once the media endpoint is known: only now does the closing of    *)
(* the socket stop the meter.                                                 *)
Arm(s) ==
  /\ armed[s] < viewers[s]
  /\ armed' = [armed EXCEPT ![s] = @ + 1]
  /\ UNCHANGED <<clock, lease, high, viewers, active, buffer, net, bill, metered, lost, uncut>>

(* The socket closes: the meter of its session is stopped with it, whoever    *)
(* else drives the session; but not if it closes before it was armed.         *)
ViewerLeaves(s) ==
  /\ viewers[s] > 0
  /\ viewers' = [viewers EXCEPT ![s] = @ - 1]
  /\ \/ /\ armed[s] > 0
        /\ armed' = [armed EXCEPT ![s] = @ - 1]
        /\ EndMeters({s})
     \/ /\ armed[s] < viewers[s]
        /\ UNCHANGED <<armed, active, buffer, lost>>
  /\ UNCHANGED <<clock, lease, high, net, bill, metered, uncut>>

(* authorize, then meterAutomation: a command starts the meter of its session. *)
Command(s) ==
  /\ Grant(s) /\ s >= high
  /\ high' = s
  /\ active' = Begun(s)
  /\ UNCHANGED <<clock, lease, sockets, buffer, net, bill, metered, lost, uncut>>

(* Mutant: the meter of the ended session runs on. *)
ResetLeavesMeters ==
  /\ stage = "ended" /\ stage' = "reset"
  /\ high' = IF current + 1 > high THEN current + 1 ELSE high
  /\ viewers' = [s \in Session |-> 0] /\ armed' = viewers'
  /\ UNCHANGED <<clock, current, late, purged, active, buffer, lost, net, bill, metered, uncut>>

(* runRequestedResets: the fence is retired, every viewer of the device is     *)
(* cut off and every meter on it stopped.                                      *)
Reset ==
  /\ stage = "ended" /\ stage' = "reset"
  /\ high' = IF current + 1 > high THEN current + 1 ELSE high
  /\ viewers' = [s \in Session |-> 0] /\ armed' = viewers'
  /\ EndMeters(Session)
  /\ UNCHANGED <<clock, current, late, purged, net, bill, metered, uncut>>

(* flush: every meter puts what it ran in an event, and what waits is sent. *)
Flush ==
  /\ Push(TicksOfAll(Session))
  /\ active' = [s \in Session |->
                  IF active[s].on THEN [active[s] EXCEPT !.billed = clock - active[s].start]
                  ELSE active[s]]
  /\ buffer' # <<>>
  /\ net' = net \cup ToSet(buffer')
  /\ UNCHANGED <<clock, lease, high, sockets, bill, metered, uncut>>

(* Mutant: every copy of an event is billed. *)
NewToLedger(e) == TRUE

(* record_metering: an event id is recorded once. *)
FreshId(e) == \A f \in ledger : ~Same(e, f)

(* record_metering's authorisation join: the event names a session there is,   *)
(* on this device.  (One that a second promotion moved elsewhere is not        *)
(* followed here.)                                                             *)
Authorised(e) == e.session \notin purged

(* The buffer after buffer.delete(eventId): it is a map, with one event to an *)
(* id.                                                                        *)
Without(q, e) ==
  LET found == {i \in DOMAIN q : Same(e, q[i])}
  IN  IF found = {} THEN q ELSE RemoveAt(q, CHOOSE i \in found : TRUE)

(* POST /workers/events, one event of the batch; its answer drops the event    *)
(* from the buffer, recorded or refused; a lost answer does not.               *)
Record(e) ==
  /\ e \in net
  /\ net' = net \ {e}
  /\ IF FreshId(e) /\ Authorised(e)
     THEN /\ ledger' = ledger \cup {e}
          /\ usage' = [usage EXCEPT ![e.session] = @ + Quantity(e)]
     ELSE UNCHANGED bill
  /\ lost' = IF FreshId(e) /\ ~Authorised(e)
             THEN [lost EXCEPT ![e.session] = @ \cup Ticks(e)]
             ELSE lost
  /\ buffer' \in {buffer, Without(buffer, e)}
  /\ UNCHANGED <<clock, lease, high, sockets, active, metered, uncut>>

(* The agent's process starts anew: meters and buffer are gone. *)
Restart ==
  /\ high' = 0
  /\ viewers' = [s \in Session |-> 0] /\ armed' = viewers'
  /\ active' = [s \in Session |-> Stopped]
  /\ buffer' = <<>>
  /\ lost' = [s \in Session |->
                lost[s] \cup TicksOf(ToSet(buffer) \cup TicksOfAll(Session), s)]
  /\ uncut' = uncut \cup (IF stage = "ended" THEN late \ {current} ELSE late)
  /\ UNCHANGED <<clock, lease, net, bill, metered>>

MeterNext ==
  \/ Lease \/ EndLease \/ Tick \/ Reset \/ Flush \/ Restart
  \/ \E s \in Session : Expire(s) \/ PurgeSession(s) \/ Hello(s) \/ Arm(s) \/ ViewerLeaves(s) \/ Command(s)
  \/ \E e \in net : Record(e)

MeterSpec == MeterInit /\ [][MeterNext]_meterVars

-----------------------------------------------------------------------------
(* No retry, duplicate or reordering of reports bills a tenant for more than   *)
(* its meter ran: "the alternative makes a retry look like new usage"          *)
(* (metering.ts).                                                              *)
NeverBilledTwice ==
  \A s \in Session : usage[s] <= Cardinality(metered[s])

(* Every second a meter ran is in the ledger, in the buffer or still running,  *)
(* and no other is, except those of a buffer that overflowed, of an agent that *)
(* restarted, or of an event that came after its session's record was deleted  *)
(* and was refused: segments, flushes and the end of a session leave no gap.   *)
NothingGivenAway ==
  \A s \in Session :
    LET kept == TicksOf(ledger \cup ToSet(buffer) \cup TickOf(s), s)
    IN  metered[s] \ lost[s] \subseteq kept /\ kept \subseteq metered[s]

(* The device is billed to one session at a time: a released session's meter   *)
(* is stopped before the next one's starts, unless a grant of it outlived a    *)
(* restart of the agent.                                                       *)
OneSessionAtATime ==
  \A s, t \in Session : s < t =>
    TicksOf(ledger, s) \cap TicksOf(ledger, t) = {} \/ s \in uncut

=============================================================================
