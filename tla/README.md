# mfarm-cloud: a verification project

MFARM is a farm of Android devices that tenants lease by the session. A control
plane (Fastify on PostgreSQL, `apps/api`) owns the truth about hosts, devices and
sessions; an agent on each host (`workers/agent`) drives the devices, beats every
few seconds and reports what it did; tenants, CI jobs through the WebDriver hub and
operators in the console call the control plane's routes. This project models the
control plane, the agent and the protocols between them in TLA+, checks them with TLC
on small instances and proves with TLAPS, for instances of any size, every safety
property of every module.

Paths below are relative to the repository root; `migrations/` and `src/` without a
prefix are under `apps/api/`.

## Inventory

| component | state it keeps | operations | what is hard | correct when |
|---|---|---|---|---|
| Allocator and leases (`src/allocator.ts`, `migrations/005 007 017 029 037 039`) | `sessions`, `devices.state`, `devices.fence`, the org's cap | allocate, activate, attach, release, expire by TTL, expire idle hub sessions, promote the queue | concurrent transactions, a cursor over rows that change, the cap, a lease written in two tables | a device has at most one live session, both rows agree, a fence is never reused, the cap is passed by nothing but the promotion |
| Reset and recovery (`migrations/032 035 038`, `src/http/routes/devices.ts`) | CLEANING and its attempt counter, PREPARING, device quarantine | confirm a reset, count a stalled one, escalate, quarantine, release, finish or expire a recovery | late and duplicated reports, silent hosts, budgets | nobody gets a device that was not reset; no device waits without a person being told, while its host beats and nothing renews the wait; a quarantine somebody decided is lifted only through a recovery |
| Hosts (`src/http/routes/workers.ts`, `src/infra/operations.ts`, `migrations/035 058 059 067 068 069`) | `hosts.state`, `quarantine_source`, `retired_at`, what each device was doing when its host went | register, beat, silence sweep, drain, resume, stop, retire, restore, forget a device | the three ways out and the three ways back overlap; operators act on a row read earlier; beats of a dying machine | devices leave and return with their host, to the state they left |
| Worker agent (`workers/agent/src/agent.ts`, `dataplane.ts`, `gateway.ts`) | pending reports, in-flight resets and actions, fence high-water mark, meters (all in memory) | take offers, reset, recover, install, meter, flush, accept or refuse a token | restart, partition, duplicate offers, loops that overlap | the next tenant finds nothing of the last one; only the holder is let in |
| Idempotency keys (`src/http/idempotency.ts`) | one row per key | claim, take over, complete, abandon | two requests under one key, a claim older than its TTL, a failure after the work | one key, one session; a stored answer is final |
| Evidence store (`src/appstore.ts`, `src/http/routes/artifacts.ts`, `migrations/019 046 047`) | rows, and files shared by content | upload, delete, expire | file and row are not one transaction | a row has its bytes |
| Operations log and power (`src/infra/audit.ts`, `operations.ts`, `snapshots.ts`, `reconcile.ts`, `cloud.ts`) | one row per operation, its result | open, settle, reconcile | the provider's answer lost, a process that dies in between | every operation is settled once, and truthfully |
| App actions (`src/appactions.ts`, `src/http/routes/apps.ts`) | rows offered on beats, closed by reports or by the reaper | request, offer, perform, report, sweep, wait | duplicates, sessions that end first, restarts | settled once, and whoever waits is told the truth |
| Metering (`src/metering.ts`, `migrations/008`) | meters and a bounded buffer in the agent, a ledger | start, stop, flush, record | retries, overflow, restarts | no second is billed twice or to two sessions |
| Attempts, execution events, runs, results | accounting rows | open, close, read | none reads them back | written beside the lease |
| WebDriver hub (`src/http/routes/webdriver.ts`) | `webdriver_sessions`, the requests under way | allocate or bind, wait, install, open, record, activate, proxy, quit | many awaits, each a place where the session may end; releases that fail | a refused client leaves nothing held; the hub never swaps a client's driver for another |
| AI runs (`src/ai/queue.ts`, `runner.ts`) | queued and running plans | claim, run, recover after a restart | restarts, budgets | a run is executed by one runner |
| Pairing, enrollment, shares, accounts | one-time codes, tokens, links | issue, claim, expire | double claim | a code works once |
| Tunnels, data plane, device backends, console, CLI, deploy | connections, processes | relay, render | I/O | outside a model checker's reach |

Interaction: every arrow ends in the database. Tenants, hub and operators call
routes, routes call SQL functions in transactions (`withTenant`, `withSystem`);
workers only ever *post* (register, heartbeat, events) and learn what to do from the
answer to a beat; the reaper (`reap()`, every few seconds, one transaction) is the
only source of time. There are no callbacks from the control plane to a worker, so
every report is about a past that may be over.

`PROJECT.json` lists the hazards found in reading the code, each at its line, with
the properties aimed at it or the reason none is.

## Modules

| module | models | composed with |
|---|---|---|
| `Lease` | what the farm promises of a device (abstract) | implemented by `Fleet`, extended by `Farm` |
| `Fleet` | hosts, devices, sessions and every writer of their states | `Lease` by refinement |
| `AllocatorTx` | the lease functions statement by statement | `Lease` by refinement |
| `Idempotency` | one key and its requests | |
| `Farm` | the agent's resets and recoveries, tokens and viewers | the control plane is `Lease` |
| `AppActions` | app actions from request to outcome | |
| `Meter` | device-seconds from meter to ledger | |
| `Evidence` | artifact rows and the files they share | |
| `Operations` | the operations log, the provider, the reconciler | |
| `Hub` | the WebDriver hub over one session | |
| `FleetProofs`, `AllocatorTxProofs`, `FarmProofs`, `AppActionsProofs`, `EvidenceProofs`, `OperationsProofs`, `HubProofs` | theorems about the module each is named after | |
| `RetryProofs` | theorems about `Idempotency` and `Meter`, where a retry must not count twice | |
| `MC*` | constants, symmetry and features for TLC | |

Operators whose comment starts with "Mutant:" are plausible bugs used to confirm that
each property can fail; nothing else refers to them.

### `Lease`: the promise

A device is free, leased, dirty, preparing, either of the two but held by its host's
outage, judged unfit, or out of the pool; `Moves` says which way each may go in one
step. A lease begins only from free, at a new fence; after it the device is dirty or
judged; only a reset's confirmation or an authorised recovery at a new fence leads
back. `Fleet` shows that the rows, with all their writers, keep this promise
(`LeaseHolds`, through the mapping `LeaseOf`), and `Farm` builds on the promise rather
than on the rows.

### `Fleet`: hosts, devices, sessions and every writer of their states

One variable, `db`, a record of the tables. Each SQL function that changes a row is
an operator from a database to a database with its own name (`QuarantineHost`,
`ClearSilenceQuarantine`, `LiftHostDown`, `ReleaseDeviceQuarantine`, ...), built from
operators on one row (`CollapseRow`, `RestoreRow`, `HoldRow`, ...). Each action is a
whole handler and composes the functions in the order of the code:

| action | code |
|---|---|
| `CreateSession` | `POST /sessions` → `allocate_device` (037) |
| `ReleaseDevice` | `DELETE /sessions/:id`, the hub's releases → `release_device` (005) |
| `SessionAttach` | `activate`, `sessionAttach` → `session_activate` (005), `session_attach` (017) |
| `ReportReset`, `ReportRecovery` | one outcome of `POST /workers/events`; each is its own transaction |
| `Heartbeat` | `POST /workers/heartbeat`: lifts, then `Reconcile` (advertised automation, which renews `updated_at`), then `applyAway` |
| `Register` | `POST /workers/register`: `Welcome` (host row and lifts), `Upsert`, `Requarantine`, `Withdraw` |
| `OperatorQuarantine`, `OperatorAsksRelease`/`OperatorRelease`, `ClearResetEscalation`, `ForgetDevice`, `RestoreDevice` | `devices.ts` |
| `OperatorAsksDrain`/`DrainHost`, `ResumeHost`, `StopRequested`/`StopTaken`/`StopOver`, `OperatorAsksRetire`/`RetireHost`, `RestoreHost` | `infra/operations.ts` |
| `GoQuiet`, `ComeDue` | time passes without a beat; a reset grows old |
| `SweepReads` | the SELECT of the silent hosts in `reap()` |
| `Reap` | the rest of `reap()`: expire, idle, promote, count stalled resets, expire recoveries, quarantine the hosts that were read |

Operations that check in one transaction and change in another are two actions with
the request (`db.asked`) in between: release of a device quarantine, drain, retire, and
the sweep, whose `quarantine_host` does not ask again what state the host is in.
Resume and restore also act on an earlier row, but the function they call tests the
row again, so a stale resume is a resume or nothing, and a stale restore changes what
`ResumeHost` and `RestoreHost` together change; they are single actions.

`PromoteQueued` is as loose as the cursor of `promote_queued` and its UPDATE are. A tick
may have in hand every session that was ever QUEUED (`InHand`), whatever became of it
since, unless that tick itself ended it; `Recall` then treats it as waiting, and a device
it holds by now is left RESERVED with nobody to give it back (the history `orphan`). The
org's live sessions are counted without its lock, so the count may miss any of them, and
only the promotions of the tick itself are bounded by the cap. What this does to the cap
is a question for `AllocatorTx`, where the statements are apart; `Fleet` claims nothing
about it.

Workers are not trusted here: any host may report any outcome with any fence at any
time. That is more than an agent does (`Farm` models one), so what holds here holds for
every agent.

Abstractions: a device's state, fence and marks are kept, its attributes are the
constant `Fits` (which devices suit which request); of the capabilities that a beat
reconciles only the renewed `updated_at` is kept. ABSENT is a device never registered.
Time is abstract: a deadline (lease, idle, recovery, grace of a stop) may be over at any
tick. Only a host's silence is a level 0..2, because two thresholds compare with it, and
the age of a reset is young or due, because writes that have nothing to do with the
reset renew it (`TouchRow`). History fields (`used`, `listed`, `lost`, `orphan` of a
device, `waited` of a session) exist for the properties and guard nothing, except that a
beat names only devices its registration listed and a tick holds only sessions that have
waited. `Features` leaves groups of optional operations out of an instance to keep it
small; the theorems hold for every choice.

### `AllocatorTx`: the same lease functions statement by statement

Fleet takes a SQL function as atomic; this module drops that. Variables: `com` (what
is committed), `cur` (what the last writer of each row wrote), `lock` (who holds each
row) and `tx` (where each transaction is). Transactions follow READ COMMITTED: reads
see the committed rows and the transaction's own writes, a locked row makes a writer
wait and test again, `SKIP LOCKED` passes over it. `allocate_device`,
`release_device`, `session_activate`, `quarantine_device`, `device_reset_complete`
and the reaper's `expire_sessions` + `promote_queued` interleave, and any of them may
be rolled back between any two statements (a lost connection, a crash, the victim of
a deadlock: `quarantine_device` locks device then session, the others session then
device).

The expiry and promotion of a tick run as one transaction with a cursor taken at its
beginning. `setInterval` in `src/http/server.ts` does not wait for the last tick, so
ticks overlap. Two histories name what the code lets through: `queued`, the sessions
that have been in the queue, and `stranded`, the devices of sessions that a second
promotion gave another one.

`LeaseOf` reads the committed rows as a state of `Lease`, so that the promise Fleet keeps
with atomic functions is shown to be kept by their statements too. The mapping is that
of Fleet with one exception: the row of a stranded device still says RESERVED or
SESSION_ACTIVE, but no session has it and no sweep collects it, so it is mapped to
`judged`. The refinement then says that nothing these functions do gives, cleans or
frees such a device; only an operator's quarantine and release would.

### `Idempotency`: one key and the requests that carry it

Variables: `row` (the key's row in `idempotency_keys`), `reqs` (where each request is),
`made` (sessions the key has created and not given back) and the history `slips`.
`claim()` is one transaction of three statements, each of which sees what others
committed in between: `ClaimInsert`, `ClaimSelect`, `ClaimTakeover`. `Work` is
`createSession` up to the stored answer (its allocation is atomic here; `AllocatorTx`
looks inside), then `Complete` or, for an error anywhere, `Abandon`; `CompleteFails` is
an error after the allocation committed. `Die` ends a request anywhere and leaves the
claim. `Age` is the TTL and `Purge` the reaper's deletion; a key is purged 24 hours
after its claim, and no request lives that long, so `Purge` waits for those at work.

### `Farm`: emptying a device between two tenants

The control plane is `Lease`. A beat's answer becomes a loop of the agent
(`runRequestedResets`), and a new beat starts a new loop beside it. `TakeUp` is the
head of an iteration (retire the fence, cut the viewers off, pass over a device that
another loop resets), `Wipe` and `WipeFails` the reset or recovery, `FlushOver` the end
of the flush the loop waits for. Reports wait in `pending` until an answer drops them;
`net` may lose, repeat and reorder them. A tenant is known by its fence; grants are
verified by the agent alone and outlive their lease (`late`) until they expire. `taint`
is whose data is on the device. `Escalate` spends the reset budget, after which no beat
offers the device (`Due`), until `ClearEscalation` or a recovery. Nothing aborts what was
authorised: of the tenants whose data a wipe removes, any may still have a command in the
proxy, an input in the queue of a closed connection or an app action past its check
(`under`), and `GoOn` lets it act whenever it likes. `Restart` forgets everything in
memory. The history `uncut` names two more exceptions: a grant that outlived a restart,
and a device that was put aside (withdrawn, retired, recovered) before its reset was
confirmed.

### `AppActions`: install, launch, uninstall, capture

`rows` is `app_actions`; a beat offers the oldest pending ones of the lease in force.
Loops overlap here too: `PassedOver` is the guard (in flight, or waiting for a flush),
`AcceptFence` the second lock. `PerformAction` acts on the device at its end, when the
lease may be over. `Events` takes only the first outcome of a row, `Sweep` settles what
no worker will be told about any more, `AwaitAppAction` is the waiting caller. The
histories `ran`, `astray`, `caught`, `stale` say how often an action ran, on whose
device, and why.

### `Meter`: device-seconds

A meter starts with a viewer's hello or an authorised command and stops when an armed
socket closes or the reset after the lease begins. An event's id is its session, its
segment's start and its offset in it, so a copy has the id of its original. The buffer
drops its oldest event when full; a flush adds an event of every meter that runs, in any
order (`Push`), and an answer takes out every event it was about (`Without`), recorded or
refused: `record_metering` joins each event with its session and its device, and after
`PurgeSession` the join finds nothing (`Authorised`), so the seconds are gone (`lost`).
`Arm` is the part of `onHello` after its await: a
socket that closes before it never stops its meter.

### `Evidence`: rows and shared files

Each upload is `Stat`, `Rename` (bytes it did not find), `Record` and, when refused,
`Undo`; each deletion is two statements, a commit and the unlinks after it, except the
reaper's, which unlinks before its transaction commits. No transaction spans the file
system. Histories name the digests two activities met on, those a rolled-back sweep had
unlinked, and those a failure or a crash let go of.

### `Operations`: the log of what is asked of the cloud

A handler is `Begin` (the row), `Look` (answer without acting, or refuse), `Act` (the
provider refuses, carries out, or is silent and may have done either), `Watch`. What it
leaves open a pass of the reconciler settles: `ReconcileLook` asks, `ReconcileSettle`
uses an answer that may be old. `settle` itself may fail. A snapshot is named after its
minute, so two may share a name. The history `hasty` has the deletions that found their
snapshot not ready: no test for the last restore point stops them.

### `Hub`: a WebDriver session

One farm session, the POSTs that allocate or bind it and the DELETEs that quit it; each
await is a boundary between actions: `Allocate`/`Bind`, `WaitForCapacity`, `GiveUp`,
`Prepare`, `InstallBeforeSession`, `CallUpstream`, `Insert`, `Activate`, `Fail`, and
`LookUp`, `QuitUpstream`, `DeleteRow`, `QuitRelease`. Around them: promotion, a viewer
that attaches, expiry, the idle sweep, the owner's DELETE, and the process's death. A
release may fail, and so may the poll of `waitForCapacity`, which runs before the
handler's `try` and releases nothing (`PollFails`). Promotion is two steps, `PickQueued`
and `Promote`, the second of which does not look at the state again (the history
`tardy`). The automation server may lose a driver behind the hub's back, in a crash or by
its own `newCommandTimeout` (`DriverLost`). Sessions do not meet in this code, so one
suffices.

## Runs

| run | instance | shows |
|---|---|---|
| `leases` | 1 host, 2 devices, 2 sessions of 2 orgs with cap 1, one hub session, fences to 2 | `Custody`, `FenceNamesOneSession` with late promotions, quarantines, recoveries, drains and silence |
| `outage` | 1 host, 1 device, 1 session that several ticks may promote, fences to 2, stop, retire, away, dropped and unfit devices | `LeaseHolds` (the refinement), `CleanUnlessWithdrawn`, `NoDeviceStranded`, `JudgementStands`, `OutOfServiceGivesNothing`, `DrainStands` |
| `live` | 1 host, 1 device, 2 sessions, cap 1, reset budget 2, fences to 3, away and forgotten devices, resets whose age is renewed | `ResetIsSettled`, `RecoveryIsSettled` under the reaper's fairness |
| `tx_leases` | 2 devices, 2 sessions of one org with cap 1, two ticks that may overlap, fences to 2 | `CommitsKeepLease` (the refinement), `CommittedCustody`, `BackstopNeverFires`, `OnlyThePromotedPassTheCap`, `OnlyAPromotionRevives` |
| `keys` | 2 requests at once, 2 bodies | `AnswerIsFinal`, `OneSessionUnlessSlipped`, and `KeyStaysUsable` under a client that retries |
| `handover` | 1 device, fences to 2, 2 loops | `PoolIsClean`, `HolderAlone`, `HolderIsLetIn`, and `DirtyIsEmptied` under the agent's timers |
| `actions` | 1 action, 2 leases, 3 loops, run at most twice | `ToldTheTruth`, `StraysOnlyIfCaught`, `RunsAgainOnlyIfStale`, and `EveryActionSettles` |
| `metering` | 2 sessions, 2 ticks of the clock, a buffer of 2, one deleted record | `NeverBilledTwice`, `NothingGivenAway`, `OneSessionAtATime` |
| `evidence` | 2 sessions, 1 digest, 3 uploads, 1 deletion beside the reaper | `RowsHaveBytes`, `NoBytesLeftBehind` |
| `operations` | 2 operations of any kind, 2 snapshot names | `SucceededWasReached`, `FailedDidNothing`, `LastWayBack`, `EveryOperationSettles` |
| `hub` | 2 POSTs, 2 DELETEs | `NothingLeftHeld`, `OwnDriver`, `StraysAreAccountedFor`, `NobodyEndsAnothers` |
| `wiped` | as `handover` | violation: `ResetAfterLease` |

`wiped` is a disagreement between the code and what it says of itself (quoted in
`PROJECT.json`): a beat answered before the confirmation of a reset was taken offers
that reset again. The loop that holds this offer reaches it when the first reset is
over, `resetsInFlight` is empty again and the next tenant has the device, and wipes it
under them. `PoolIsClean` and `HolderAlone` hold all the same: the order does not let one
tenant in with another, but the new one loses its own data.

Several properties name their exceptions (`uncut`, `caught`, `stale`, `crowded`,
`undone`, `lost`, `orphan`, `under`, `slips`, `excused`, `unreleased`, `tardy`, `queued`,
`stranded`, `hasty`). Each
exception is
something the code does, described under "Met while modelling"; the property says that
nothing else has that effect. `TypeOK` of each module is checked on the same instances
whenever it changes and is not listed with the runs; nor is `CommittedFences` of
`AllocatorTx`, which is proved.

### Met while modelling

In the lease core:

* a device that awaited a reset when its host was quarantined, is missing from one
  registration and present in the next, is READY without a reset (`workers.ts:470`; the
  exception of `CleanUnlessWithdrawn`);
* a drained host that is stopped and beats after the grace is UP again (`059:34`;
  `operations.ts:137` says "no heartbeat can lift a human's judgement"), its source
  still `operator`, so the snapshot goes on calling it drained (`snapshot.ts:617`): the
  stop is one of the ends that `DrainStands` allows a drain;
* a host that is drained between the sweep's SELECT and its `quarantine_host`
  (`allocator.ts:380`, `:389`, 035:385) is quarantined again, for silence, and its next
  beat lifts that (the exception of `DrainStands`; `allocator.ts` says of the two kinds
  that "An operator quarantine is stamped differently and stays", `:316`);
* a reset of which no attempt was counted ages from `updated_at` (038:63), which
  registrations (`workers.ts:388`) and beats that reconcile the advertised automation
  (`workers.ts:705`, `:723`) renew: a host whose automation comes and goes keeps the
  budget from ever starting (the exception of `ResetIsSettled`);
* `allocate_device` gives a READY device to a newcomer whatever waits (037:134), so a
  queued session may starve; nothing is claimed of the queue's progress;
* a device in a lease when its host is drained is reset, becomes READY and takes the
  next session (`035:376`; `snapshot.ts:571` says the allocator will not);
* `promote_queued` counts an org without its lock (`039:103`) and updates without
  testing the state (`039:132`): an org may pass its cap, and a cancelled session may
  come back with a device (the exceptions of `OnlyThePromotedPassTheCap` and
  `OnlyAPromotionRevives`);
* two overlapping ticks (`server.ts:709`) may promote the same queued session, each
  with a device; the second's update wins and the first's device stays RESERVED for
  nobody, which no sweep collects (the exceptions `stranded` of `CommittedCustody` and
  `orphan` of `Custody`);
* a device that a beat marked away and a registration then dropped, or registered as
  unfit, is given back by the next beat that does not name it (`workers.ts:75`;
  migration 067:13-16 says "the heartbeat must never promote those");
* a device forgotten between the check and the change of its release goes through a
  recovery (`devices.ts:505`), and a host that beats between those of its retirement is
  retired (`operations.ts:687`).

In the rest:

* an error after the allocation committed frees the key and keeps the session
  (`sessions.ts:207`), and `abandon()` and `complete()` name the key only, so a request
  that outlived its claim deletes the claim of its successor, or answers it
  (`idempotency.ts:141`, `:125`): the exceptions of `OneSessionUnlessSlipped`;
* an app action runs twice when its first outcome was reported, or lost in a restart,
  while another loop still held the offer; one under way at a handover acts on the next
  tenant's device, and may be told as FAILED though it ran;
* a viewer that leaves stops the meter of a session that WebDriver goes on driving
  until the next command starts it again (`dataplane.ts:338`); a socket that closes
  while `onHello` awaits the media endpoint never stops its meter (the reset does). What
  is promised of billing is promised of the seconds a meter ran;
* an event the control plane refuses is dropped with the others (`agent.ts:1099`,
  `:1151`): when a tenant has the record of a session deleted (046:152), the seconds of
  it that still wait are billed to nobody;
* what was authorised before a reset goes on after it: a command in the gateway's proxy
  (`gateway.ts:161`), the queue of a closed connection (`dataplane.ts:291`), an app
  action (`agent.ts:1607`). The next tenant's device may be touched by it, and a device
  in the pool may carry what it left (the exception `under` of `PoolIsClean`);
* an upload that found its bytes, or a deletion that found them orphaned, may be
  overtaken on them by another; the reaper unlinks before it commits
  (`allocator.ts:416`);
* the deletion of a snapshot that is still being taken passes the test for the newest
  restore point, which counts ready ones only (`snapshots.ts:217`); if the snapshot is
  ready, and the only one left, when the provider is called, it goes all the same (the
  exception of `LastWayBack`; it takes a third operation to delete the older one);
* a reconcile pass has no minimum age and may settle a row whose request is still
  running; rows of drain, resume, retire and restore left open by a dead process are
  not reconciled at all;
* the hub answers 200 for a session that ended during its creation (`activate`'s result
  is not looked at, `webdriver.ts:622`); a late quit deletes a newer driver's row
  (`:705`); a release that fails in a quit leaves a live session with no row, which
  neither a lookup nor the idle sweep finds and only the TTL ends; a queued session
  whose hub process died, or whose poll threw (`webdriver.ts:378`, `:1388`), is promoted
  later and held until its TTL, and so is one that was given up while a tick had it in
  hand; `waitForCapacity` takes ACTIVE (a viewer attached) for a session that is gone; a
  driver that Appium lost stays recorded until a quit or a sweep.

### Bounds

Fleet: devices of different hosts never share a row and every operator touches the rows
of one host (or of every silent host alike), so one host exercises what a host does to
its devices. Two devices and two sessions are what a race for a device and a promotion
that moves a session from one device to the other need; a session may be promoted any
number of times, so in `outage` one stands for a tenant and its successor. `MaxFence`
bounds how many leases and recoveries a device sees: 2 or 3 is a tenant, a successor and
a late report about the first. `MaxAsked = 1` is one operator between check and change
while everything else moves. `MaxResetAttempts` is 1 where only the fact of escalation
matters and 2 in `live`. The promotion limit (20) is kept but not reached. The theorems
have none of these bounds.

AllocatorTx: two sessions of an org with cap 1 race for the cap, one's release or
expiry races the other's promotion, and a second device is what `SKIP LOCKED` passes on
to; two ticks over one queue are what an overlap needs. The invariant of
`AllocatorTxProofs` was also checked with three sessions of two orgs and one tick.

Idempotency: two requests at once are a slow holder and the one that takes its claim
over; two bodies tell a retry from a reuse. Slots are used again, so the number of
requests over time is not bounded; `made` is counted to 2.

Farm: two fences are a tenant and its successor, two loops the one that resets and the
one that holds the old offer. AppActions: a third loop lets one run, one wait and one
hold the offer; actions do not read each other's rows. Meter: two sessions share a
clock of two ticks, enough for a segment that is cut and begun again, and a buffer of
two overflows; one deleted record is one session whose events are refused beside one
whose are not. Evidence: one digest, since different digests never meet; three uploads
leave one sharer behind when two are deleted. Operations: two are what an overlap
needs; the exception `hasty` needs a third, which only the theorem covers. Hub: two POSTs
are a driver and one that replaces it after a quit or fails beside it, and two quits let
one be late; the theorems have any number.

Only `hub` disables the deadlock check: its requests and quits are finite and its
session ends.

### Fairness

`live` assumes only what the reaper's timer guarantees (a `setInterval` in
`src/http/server.ts`, which goes on after a tick that failed): weak fairness of a tick
in which a reset that has come due is counted and of one in which a recovery's window
has closed. A recovery's deadline is a timestamp that nothing resets while the state
lasts, so it is past at some tick and at every later one. So is a reset's once an attempt
has been counted (`last_reset_attempt_at`); before that its age grows only if other
writes to the device do not renew it for ever (`PutOff`, the disjunct of `ReaperTicks`
and of `ResetIsSettled`). Nothing is assumed of workers, tenants or operators, and
nothing of the queue: `allocate_device` may serve newcomers first for ever.

`keys` assumes what the client does and what time does: it keeps retrying with the
body of the claim and its retries get through the statements of `claim()` now and then
(strong fairness, since a request may die at any of them), a request at work ends
somehow, and a claim ages. It does not assume that a holder completes, that
`abandon()` works or that the reaper purges.

`handover` and `actions` assume the agent's timers (beat, flush) and its loops go on,
that a wipe does not fail every time it is tried and a report is not lost every time it
is sent (strong fairness), and that the agent does not restart for ever
(`<>[][~Restart]_vars`): the code offers a reset on every beat until its budget is spent,
and `DirtyIsEmptied` counts the spent budget, of which a person is told, as an end.
`operations` assumes the reconciler's timer, that not every write of it fails and that
the process does not die for ever; nothing of the provider, which may be silent for
ever, nor of the handlers.

## Theorems

Every theorem holds for every value of the constants that satisfies the module's named
assumption: any number of hosts, devices, sessions, requests, loops or ticks, and any
bound. The assumptions say that constants have their types and that the names of
different things differ; sets that are counted or folded over (`Session`, `Device` of
`Farm`, `Upload` and `Request` of `Evidence`) are finite, as the tables and the uploads
under way are. No property below is inductive alone. Most modules prove one
invariant `Inv` (theorem `Invariance`), and the theorems follow from it
(`RetryProofs` strengthens each property of `Idempotency` by itself); an action property
follows from `Inv` and one step.

### `FleetProofs`

| theorem | statement |
|---|---|
| `TypeCorrect` | `Spec => []TypeOK` |
| `CustodyHolds` | `Spec => []Custody` |
| `FenceIsUnique` | `Spec => []FenceNamesOneSession` |
| `PoolIsClean` | `Spec => []CleanUnlessWithdrawn` |
| `NothingStranded` | `Spec => []NoDeviceStranded` |
| `JudgementIsKept` | `Spec => JudgementStands` |
| `LeaseIsKept` | `Spec => LeaseHolds`, the refinement of `Lease` |
| `OutMeansOut` | `Spec => OutOfServiceGivesNothing` |
| `DrainIsKept` | `Spec => DrainStands` |

`Inv` is the conjunction of

* `Rows`: types, and per row what the columns say of each other: a counter below its
  budget unless escalated, a device of the cascade remembers a state, a device a
  tenant held is not held for another reason unless marked, and so on (`RowOK`);
* `HeldIn`: a device the cascade holds has a host out of service;
* `CustodyIn`, `FencesIn`: as in the properties;
* `Unserved`: a session that waits, or does not exist yet, has no device.

The argument has three layers. Row lemmas: each operator on one row keeps `RowOK`, is
*mild* when it does not touch a lease, and *calm* when it does not settle what the
device owes the pool either (`Owes`: the end of a lease, a judgement, a reset, a
recovery, nothing). Composition: a database operator made of calm rows is `Safe`, and
`Safe` steps compose, so `Heartbeat` and `Register`, which chain four or five
functions, need no case analysis of their own. Actions: the few operators that do
touch leases (`Reserve`, `Recall`, `EndSessions`, `Attach`, `QuarantineDevice`) keep
`CustodyIn` and `FencesIn` each by a lemma, and `NextInv` puts the actions together.
`JudgementIsKept` uses the same row lemmas on a step.

`LeaseIsKept` goes device by device. A step is `Promised` when each device's abstract
row moves as `Lease` allows or stays, and the lemmas `ByState`, `ByHolder`, `ByGrant`,
`ByRecovery` and `ByOwing` give this from what happened to the row. Steps that settle
nothing are promised at once (`SafePromised`); `Register` is one such step after the
other and then the rows it drops; the reaper's tick, which ends leases, gives others
and settles resets in one transaction, is split by what each of its parts may do to a
device (`TickPromised`): no device takes part in two of them.

`OutMeansOut` is about the many ways back into service: a step with the host out before
and after it makes no device READY, save one whose reset or recovery is over, or that
was away (`Shut`). The lifts that give devices back make their host UP in the same step,
and a registration of a host that stays quarantined takes the devices it lists out again
before it withdraws the ones it does not.

`DrainIsKept` needs only the types: every function writes the row of one host (`Writes`
says which row it leaves there) or no host's (`SameHosts`), and the rows that a lift, a
collapse or a column of another kind leave are drained if they were (`KeepsDrains`).
`Reap` is the exception, a sweep of many hosts: it leaves the drained ones alone but for
those that the sweep had read before, which the property names (`ReaperDrains`).

### `AllocatorTxProofs`

| theorem | statement |
|---|---|
| `TypeCorrect` | `Spec => []TypeOK` |
| `CustodyIsCommitted` | `Spec => []CommittedCustody` |
| `FencesAreUnique` | `Spec => []CommittedFences` |
| `BackstopIsIdle` | `Spec => []BackstopNeverFires` |
| `CapIsExact` | `Spec => []OnlyThePromotedPassTheCap` |
| `EndedStaysEnded` | `Spec => OnlyAPromotionRevives` |
| `CommitsImplementLease` | `Spec => CommitsKeepLease`, the refinement of `Lease` |

This is where the row locks earn their keep. `Inv` relates the committed rows to the
rows as their writers left them: `Committed` is custody and fences of what is committed;
`Written` says of each locked row why its holder wrote it, and what else that one holds
or is about to write (a session that is ending has its device locked too, or next);
`GivenOnce` that no two sessions are being given one device; `Orderly` where each
transaction is and what it holds there; `Capped` that the sessions that did not come
through the queue, with the allocation that has counted them, are within the cap. A
commit then publishes rows that fit each other, and a rollback undoes them: frame lemmas
say what a statement leaves alone, and there is one lemma per statement.

`CommitsImplementLease` follows from the same invariant: only commits and confirmed
resets change what is committed (`Publishes`); the reason a device's row was written is
the move its commit makes (`CommitMoves`); a row the transaction did not write keeps its
holder, or is stranded by it (`CommitLeaves`, `LeftAlone`). For the stranded devices it
needs `Abandoned`, inductive beside `Inv`: such a device has no live session and stays
held until someone quarantines it.

### The other modules

| module | theorems | strengthening |
|---|---|---|
| `RetryProofs`, of `Idempotency` | `KeyTypeCorrect`; `AnswerStaysFinal` (`AnswerIsFinal`); `OneSession` (`OneSessionUnlessSlipped`) | `AnswerKept`: a request that began after an answer was stored is no further than the SELECT of `claim()`, which replays or refuses. `Sole`: of a key nothing went wrong with, one request at most holds the claim, which is in flight and young, and a session was made only if its answer is stored or about to be |
| `RetryProofs`, of `Meter` | `MeterTypeCorrect`; `NeverBilledMore` (`NeverBilledTwice`); `NothingLostUnseen` (`NothingGivenAway`); `BilledInTurn` (`OneSessionAtATime`) | `Books`, per session: what its meter ran is counted once, the sum of the ledger is the seconds in it, what was issued is on its way, in the ledger or lost, and no second is in two events. `Turns`: a session whose lease is over and reset has no meter, and none of its grants is let in again unless it is one that outlived a restart, so two meters share no tick |
| `FarmProofs` | `TypeCorrect`; `PoolStaysClean` (`PoolIsClean`); `HolderStaysAlone` (`HolderAlone`); `HolderGetsIn` (`HolderIsLetIn`) | `Fenced`: the high-water mark is at most one above the fence and not above a holder's. `Offered`, `Reported`: offers and reports, however late, are of leases that are over. `Sealed` and `Emptied` (but for what was under way, `Traces`) in the pool (`InPool`), from the moment a loop takes the reset of the current fence up (`TakenUp`) until its report is taken (`Answered`) |
| `AppActionsProofs` | `TypeCorrect`; `TruthIsTold` (`ToldTheTruth`); `StraysWereCaught` (`StraysOnlyIfCaught`); `SecondRunIsStale` (`RunsAgainOnlyIfStale`) | `Refused`: what loops have ahead of them of a retired lease is below the high-water mark. `Caught`: what is under way of one was so when it was retired. `Once`, `PerformedOnce`: one performer, one outcome waiting, and what was performed is `Spent`. `Truthful` |
| `EvidenceProofs` | `TypeCorrect`; `BytesAreThere` (`RowsHaveBytes`); `BytesGoWithRows` (`NoBytesLeftBehind`) | `Noticed` and `Since` (who met is known), and for each digest nobody met on (`Kept`): stored bytes are there, brought ones are new, orphans are referred to by their remover's rows only, a row has its bytes or its remover unlinked them, and bytes without a row are somebody's to remove |
| `OperationsProofs` | `TypeCorrect`; `SuccessWasReached` (`SucceededWasReached`); `FailureDidNothing` (`FailedDidNothing`); `WayBackIsKept` (`LastWayBack`) | `Evidenced`: an answer a pass of the reconciler holds was true when it was given. `Untouched`: what was carried out is past its call. `Ways`: a snapshot about to be deleted has a newer one that is ready |
| `HubProofs` | `TypeCorrect`; `RefusedHoldsNothing` (`NothingLeftHeld`); `DriverIsOwn` (`OwnDriver`); `StraysAccounted` (`StraysAreAccountedFor`); `OthersAreLeftAlone` (`NobodyEndsAnothers`) | `Begun` and `RowsRecorded`: a row names a request past its insert and says truly who allocated. `Apart`: requests that ran side by side are known. `Drivers`: a driver that is open is in the row or excused, and a quit deletes the row after closing it; one the automation server lost stays in its row |

### Only model-checked

The liveness properties (`ResetIsSettled`, `RecoveryIsSettled`,
`KeyStaysUsable`, `DirtyIsEmptied`, `EveryActionSettles`, `EveryOperationSettles`):
fairness and ENABLED are outside the prover.

## Not modelled

Reset attempts, quarantine log, metrics and messages are written and never read back by
the modelled code; the same holds of attempts, execution events, runs and results, whose
failures the routes swallow. Of the capabilities a beat reconciles only the time of the
write counts here; host statistics change no state. That a session which a second
promotion moved to another device has its events refused is not followed into `Meter`,
nor a second device behind one session into `Hub`. The console (a fifth of the
repository's lines), the CLI, the fleet snapshot and the read routes change nothing
except through the routes that are modelled. Device backends, tunnels and WebRTC move
bytes and drive processes; the AI's prompts, plans and provider calls are data. Pairing
codes, shares and AI runs have small state machines of their own that do not touch the
farm's state; they are the next candidates. Components with status `not_modelled` in
`PROJECT.json` say why.

## Plan

Done: the lease core, the abstract lease and its refinements, by the functions and by
their statements, the transactions beneath it, the agent beside it, app actions,
metering, evidence, the operations log and the hub; and the proofs of all their safety
properties. Next:

1. `Queue`: `promote_queued` with its rank, window and limit as parameters, beside the
   newcomers: when a queued session starves, and when it cannot.
2. The AI run queue, pairing codes and share links.
