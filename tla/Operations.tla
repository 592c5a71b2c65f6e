----------------------------- MODULE Operations -----------------------------
(***************************************************************************)
(* The log of what an operator asks of the cloud.  A row is opened before   *)
(* anything is sent, the handler looks, acts and watches, and settles the   *)
(* row with what it knows; a row it leaves open, or dies with, is settled   *)
(* by a pass of the reconciler.  The provider may refuse, may not answer,   *)
(* and may have carried out what it never answered.                         *)
(*                                                                         *)
(* One machine that is started, stopped and restarted, and one disk whose   *)
(* snapshots are taken and deleted.  A snapshot is named after its minute.  *)
(***************************************************************************)
EXTENDS Naturals

CONSTANTS
  Op,         \* the operations
  MaxMinute   \* bound on the minutes in which snapshots are taken

ASSUME OperationsAssumption == MaxMinute \in Nat

Minute == 0..MaxMinute
Power == {"start", "stop", "restart"}
Verb == Power \cup {"snapshot", "delete"}

VARIABLES
  machine,   \* what the provider makes of the instance
  snap,      \* and of each snapshot, by its name
  row,       \* infra_operations: what was asked, how it ended
  at,        \* where the handler of each operation is
  seen,      \* what a pass of the reconciler has been told about a row
  aged,      \* the rows older than giveUpMs
  reached,   \* history: the open rows whose target state has been reached
  carried,   \* history: the operations the provider carried out
  hasty      \* history: the deletions that found their snapshot not ready

vars == <<machine, snap, row, at, seen, aged, reached, carried, hasty>>

NoRow == [verb |-> "none", name |-> 0, result |-> "none"]
Results == {"succeeded", "failed", "noop", "unknown"}
Nothing == "not asked"
Silence == "no answer"

MachineState == {"running", "stopped", "starting", "stopping"}
SnapState == {"missing", "creating", "ready", "failed", "deleting"}

Rows == [verb: Verb, name: Minute, result: Results \cup {"accepted"}]

TypeOK ==
  /\ machine \in MachineState
  /\ snap \in [Minute -> SnapState]
  /\ row \in [Op -> Rows \cup {NoRow}]
  /\ at \in [Op -> {"idle", "look", "act", "watch", "over"}]
  /\ \A o \in Op : at[o] = "idle" <=> row[o] = NoRow
  /\ seen \in [Op -> MachineState \cup SnapState \cup {Nothing, Silence}]
  /\ aged \subseteq Op /\ reached \subseteq Op
  /\ carried \subseteq Op /\ hasty \subseteq Op

Init ==
  /\ machine \in {"running", "stopped"}
  /\ snap = [n \in Minute |-> IF n = 0 THEN "ready" ELSE "missing"]
  /\ row = [o \in Op |-> NoRow]
  /\ at = [o \in Op |-> "idle"]
  /\ seen = [o \in Op |-> Nothing]
  /\ aged = {} /\ reached = {} /\ carried = {} /\ hasty = {}

-----------------------------------------------------------------------------
(* What an operation asks for. *)

(* The state of what a row is about. *)
State(r) == IF r.verb \in Power THEN machine ELSE snap[r.name]

(* Mutant: a machine on its way off counts as stopped. *)
TargetOfMoving(verb) ==
  CASE verb = "stop" -> {"stopped", "stopping"}
    [] verb \in {"start", "restart"} -> {"running"}
    [] verb = "snapshot" -> {"ready"}
    [] verb = "delete" -> {"missing"}

(* TARGET of the reconciler, want of the handlers. *)
TargetOf(verb) ==
  CASE verb = "stop" -> {"stopped"}
    [] verb \in {"start", "restart"} -> {"running"}
    [] verb = "snapshot" -> {"ready"}
    [] verb = "delete" -> {"missing"}

(* settle: only an open row, and the write itself may fail. *)
Settled(o, result) ==
  IF row[o].result = "accepted" THEN [row EXCEPT ![o].result = result] ELSE row

Settle(o, result) == row' = Settled(o, result) \/ UNCHANGED row

Finish(o, result) ==
  /\ at' = [at EXCEPT ![o] = "over"]
  /\ Settle(o, result)

(* What to answer without acting, from what the provider said of the target: *)
(* a machine that is there or on its way, a name that is taken, a snapshot    *)
(* that is gone or going.                                                     *)
PowerNoop(verb) ==
  \/ verb = "start" /\ machine \in {"running", "starting"}
  \/ verb = "stop" /\ machine \in {"stopped", "stopping"}

TakeNoop(name) == snap[name] # "missing"

RemoveNoop(name) == snap[name] \in {"missing", "deleting"}

Noop(r) ==
  \/ r.verb \in Power /\ PowerNoop(r.verb)
  \/ r.verb = "snapshot" /\ TakeNoop(r.name)
  \/ r.verb = "delete" /\ RemoveNoop(r.name)

(* Mutant: a snapshot that is still being taken counts as a way back. *)
NewestOfAny == {n \in Minute : snap[n] \in {"ready", "creating"}}

(* The snapshots among which newestOf looks. *)
NewestOf == {n \in Minute : snap[n] = "ready"}

(* What the handlers refuse: to restart what is off, to delete the newest. *)
PowerRefused(verb) == verb = "restart" /\ machine = "stopped"

RemoveRefused(name) == name \in NewestOf /\ \A n \in NewestOf : n <= name

Refused(r) ==
  \/ PowerRefused(r.verb)
  \/ r.verb = "delete" /\ RemoveRefused(r.name)

(* What the provider does when it carries a request out. *)
Carry(r) ==
  \/ /\ r.verb = "start"
     /\ machine' = IF machine = "stopped" THEN "starting" ELSE machine
     /\ UNCHANGED snap
  \/ /\ r.verb = "stop"
     /\ machine' = IF machine \in {"running", "starting"} THEN "stopping" ELSE machine
     /\ UNCHANGED snap
  \/ r.verb = "restart" /\ UNCHANGED <<machine, snap>>
  \/ r.verb = "snapshot" /\ snap' = [snap EXCEPT ![r.name] = "creating"] /\ UNCHANGED machine
  \/ r.verb = "delete" /\ snap' = [snap EXCEPT ![r.name] = "deleting"] /\ UNCHANGED machine

(* It has to refuse what makes no sense to it by then. *)
Carriable(r) ==
  /\ r.verb = "restart" => machine = "running"
  /\ r.verb = "snapshot" => snap[r.name] = "missing"
  /\ r.verb = "delete" => snap[r.name] \in {"ready", "failed", "creating"}

-----------------------------------------------------------------------------
(* The handlers: powerOperation, takeSnapshot, removeSnapshot in audited(). *)

(* begin: the row comes first.  A snapshot is named after the minute, which   *)
(* two of them may share and which never goes back.                           *)
Begin(o, verb, name) ==
  /\ at[o] = "idle"
  /\ verb = "snapshot" => \A p \in Op : row[p].verb = "snapshot" => row[p].name <= name
  /\ verb \in Power => name = 0
  /\ row' = [row EXCEPT ![o] = [verb |-> verb, name |-> name, result |-> "accepted"]]
  /\ at' = [at EXCEPT ![o] = "look"]
  /\ UNCHANGED <<machine, snap, seen, aged, carried, hasty>>

Look(o) ==
  /\ at[o] = "look"
  /\ \/ \E result \in {"failed", "unknown"} : Finish(o, result)   \* it refused, or never spoke
     \/ Noop(row[o]) /\ Finish(o, "noop")
     \/ ~Noop(row[o]) /\ Refused(row[o]) /\ Finish(o, "failed")
     \/ /\ ~Noop(row[o]) /\ ~Refused(row[o])
        /\ at' = [at EXCEPT ![o] = "act"]
        /\ UNCHANGED row
  /\ hasty' = IF row[o].verb = "delete" /\ snap[row[o].name] # "ready"
              THEN hasty \cup {o} ELSE hasty
  /\ UNCHANGED <<machine, snap, seen, aged, carried>>

(* Mutant: every error of the call is a failure. *)
OfSilenceFailed == "failed"

(* What a request that was never acknowledged is recorded as. *)
OfSilence == "unknown"

Act(o) ==
  /\ at[o] = "act"
  /\ \/ /\ Finish(o, "failed")
        /\ UNCHANGED <<machine, snap, carried>>
     \/ /\ Finish(o, OfSilence)
        /\ UNCHANGED <<machine, snap, carried>>
     \/ /\ Carriable(row[o])
        /\ Carry(row[o]) /\ carried' = carried \cup {o}
        /\ \/ Finish(o, OfSilence)
           \/ at' = [at EXCEPT ![o] = "watch"] /\ UNCHANGED row
  /\ UNCHANGED <<seen, aged, hasty>>

(* awaitState, watch: until the target is seen, or until the window closes on *)
(* a row that stays open.                                                     *)
Watch(o) ==
  /\ at[o] = "watch"
  /\ \/ State(row[o]) \in TargetOf(row[o].verb) /\ Finish(o, "succeeded")
     \/ row[o].verb = "snapshot" /\ State(row[o]) = "failed" /\ Finish(o, "failed")
     \/ at' = [at EXCEPT ![o] = "over"] /\ UNCHANGED row
  /\ UNCHANGED <<machine, snap, seen, aged, carried, hasty>>

-----------------------------------------------------------------------------
(* reconcileOperations, reconcileSnapshots. *)

(* A pass asks about an open row: the answer may be old when it is used. *)
ReconcileLook(o) ==
  /\ row[o].result = "accepted" /\ seen[o] = Nothing
  /\ \E answer \in {Silence, State(row[o])} : seen' = [seen EXCEPT ![o] = answer]
  /\ UNCHANGED <<machine, snap, row, at, aged, carried, hasty>>

(* Mutant: while the provider does not answer, nothing is given up. *)
GivenUpWhenAnswered(o) == o \in aged /\ seen[o] # Silence

(* Past the horizon, whatever it was told or was not told. *)
GivenUp(o) == o \in aged

ReconcileSettle(o) ==
  /\ seen[o] # Nothing
  /\ seen' = [seen EXCEPT ![o] = Nothing]
  /\ \/ seen[o] \in TargetOf(row[o].verb) /\ Settle(o, "succeeded")
     \/ row[o].verb = "snapshot" /\ seen[o] = "failed" /\ Settle(o, "failed")
     \/ /\ seen[o] \notin TargetOf(row[o].verb)
        /\ ~(row[o].verb = "snapshot" /\ seen[o] = "failed")
        /\ IF GivenUp(o) THEN Settle(o, "unknown") ELSE UNCHANGED row
  /\ UNCHANGED <<machine, snap, at, aged, carried, hasty>>

-----------------------------------------------------------------------------
(* The provider, the clock, and the process. *)

Provider ==
  /\ \/ machine = "starting" /\ machine' = "running" /\ UNCHANGED snap
     \/ machine = "stopping" /\ machine' = "stopped" /\ UNCHANGED snap
     \/ \E n \in Minute :
          /\ \/ snap[n] = "creating" /\ \E s \in {"ready", "failed"} : snap' = [snap EXCEPT ![n] = s]
             \/ snap[n] = "deleting" /\ snap' = [snap EXCEPT ![n] = "missing"]
          /\ UNCHANGED machine
  /\ UNCHANGED <<row, at, seen, aged, carried, hasty>>

Age(o) ==
  /\ row[o].result = "accepted" /\ o \notin aged
  /\ aged' = aged \cup {o}
  /\ UNCHANGED <<machine, snap, row, at, seen, carried, hasty>>

Crash ==
  /\ at' = [o \in Op |-> IF at[o] = "idle" THEN "idle" ELSE "over"]
  /\ seen' = [o \in Op |-> Nothing]
  /\ UNCHANGED <<machine, snap, row, aged, carried, hasty>>

Step ==
  \/ \E o \in Op :
       \/ \E verb \in Verb, name \in Minute : Begin(o, verb, name)
       \/ Look(o) \/ Act(o) \/ Watch(o)
       \/ ReconcileLook(o) \/ ReconcileSettle(o) \/ Age(o)
  \/ Provider \/ Crash

(* What each operation asked for, in the words of its own result. *)
Arrived(r) ==
  \/ r.verb \in {"start", "restart"} /\ machine = "running"
  \/ r.verb = "stop" /\ machine = "stopped"
  \/ r.verb = "snapshot" /\ snap[r.name] = "ready"
  \/ r.verb = "delete" /\ snap[r.name] = "missing"

Noted == reached' = reached \cup {o \in Op : row'[o].result = "accepted" /\ Arrived(row[o])'}

Next == Step /\ Noted

Spec == Init /\ [][Next]_vars

(* The reconciler runs on a timer; not every write of it fails.  Nothing is  *)
(* asked of the provider, nor of the handlers.                               *)
Settling(o) == ReconcileSettle(o) /\ (GivenUp(o) => row'[o] # row[o])

Timer ==
  /\ \A o \in Op : /\ WF_vars(Age(o) /\ Noted)
                   /\ WF_vars(ReconcileLook(o) /\ Noted)
                   /\ SF_vars(Settling(o) /\ Noted)
  /\ <>[][~Crash]_vars

FairSpec == Spec /\ Timer

-----------------------------------------------------------------------------
(* "A result in the log that nobody verified" (audited) is never written:    *)
(* where the log says succeeded, the machine or the snapshot was in the      *)
(* state asked for at some moment after the row was opened, whoever settled  *)
(* it, on however old an answer.                                             *)
SucceededWasReached == \A o \in Op : row[o].result = "succeeded" => o \in reached

(* "Reporting a failure for an operation that may well have succeeded is how *)
(* somebody presses Start on a machine that is already starting" (audit.ts): *)
(* what the log calls failed or noop was not carried out, or is a snapshot   *)
(* the provider itself gave up.                                              *)
FailedDidNothing ==
  \A o \in Op : row[o].result \in {"failed", "noop"} /\ o \in carried =>
                  row[o].verb = "snapshot"

WayBack == \E n \in Minute : snap[n] = "ready"

(* "This page does not delete the last way back" (removeSnapshot): the disk   *)
(* has a restore point for ever, whichever deletions overlap and whichever    *)
(* snapshots fail.  The exception is a deletion that looked at its snapshot   *)
(* while it was still being taken, or had failed: only a ready one is         *)
(* compared with the newest, so by the time the request is sent it may be     *)
(* the newest itself, and the one before it deleted in its favour.            *)
LastWayBack == WayBack \/ hasty \cap carried # {}

(* No operation stays in progress: what the handler leaves open, or dies      *)
(* with, the reconciler settles, with unknown if need be.                     *)
EveryOperationSettles ==
  \A o \in Op : row[o].result = "accepted" ~> row[o].result \in Results

=============================================================================
