# A TLA+ model of DevHotel

DevHotel runs development environments ("Rooms") in containers, virtual machines
and emulators on one Host. People drive it from a desktop application and agents
from an MCP server; both reach one `Orchestrator` object (`packages/core`), which
owns a SQLite database, the container engine, the Host's adb server and a
gateway. This directory models the parts of it whose correctness depends on the
order of events, checks them with TLC on small instances, and proves some of the
results for every instance with TLAPS.

## 1. Inventory of the system

The process is single-threaded JavaScript: code between two `await`s is atomic,
everything else interleaves. The database survives a crash, memory does not, and
containers, adb children, helpers and virtual machines may survive it too.

| Component | State | Operations | What makes it correct |
|---|---|---|---|
| Room queue (`orchestrator.ts`) | `roomOps`, `activeRoomLocks`, `deletingRooms`, `deletingRoomOperations`, `materializingRooms`, `mutationGate` | create, start, sleep, change, undo, clone, sweep, delete, delete all, shutdown | one actor at a time on a Room; calls wait in order; a removal leaves nothing; a shutdown stops everything it may |
| Operation tracker (`operations.ts`, `operationsRepo.ts`, MCP `client.ts`) | `operations` table, `live`, `runningByKey`, the client's connection | run, join, finish, prune, forget, recover, resend | work is done once per id, an answer does not change, every operation ends |
| Device broker (`devices/broker.ts`, `androidDevicesRepo.ts`) | devices, leases, queue; death marks, probe state | request, heartbeat, release, cancel, promote, refresh inventory, reap, rename | one owner per phone, one phone per Room; the queue is served in order; nobody loses a phone without cause, nobody keeps it dead |
| Physical device operations | write intents, proof gate, lease, receipts of installs | begin, spawn, finish, prove, install, drive | a proof and a write never overlap on one phone; what is driven is what was installed |
| Recoveries (locale matrix, acceptance, artifact export) | intents in `settings`, paused web, snapshot | stage, commit, restore, contain, recover | a restart recognises what it finds and puts it back, or fences the Room |
| Room creation and reuse | admission queue, rows, warm pool | acquire, create, clone, undo | one Room per task identity; a clone is one cut; nothing is left without an owner |
| Change engine (`changes/`) | `changes` journal, generations, dumps | apply, verify, undo, interrupt | the row names what is whole, no edit or data is lost |
| Volumes | generations, pointers, ledger of adopted volumes, engine pin | classify, collect, adopt, ensure, remove | what can be undone to stays; nothing foreign is removed; no empty volume replaces data |
| Host sync | folder, generations, confirmation | import, compare, switch, publish, go back | only what was accepted is replaced |
| Commands and run output | workload slot, processes, logs, pins | admit, run, cancel, prune, pin | one command at a time, none left behind, promised output stays |
| OCI backend | containers, networks, relay credentials | create, wake, stop, delete, recreate, services | an operation leaves nothing half made and touches nothing foreign |
| Emulator and helpers | anchor, emulator, attestation, resident helper | command, replace, recover | an answer is from the emulator as it is |
| Status reads | health, snapshot, route | observe, revoke | dead is proven; a new route stays |
| Address pool (`ipam.ts`) | claims, networks | allocate, adopt, release, reclaim | no subnet twice, none lost |
| Managed runtime | manifest, journal, marker, VM, disk; guest connection; Windows features | provision, update, roll back, repair, stop, remove; request, cancel; enable | the version is always known; the Rooms' disk survives; a result is whole |
| Windows VM backend | row, directory, marker, disk, template | create, start, sleep, reset, delete, reconcile | the template is never harmed; a start is offline |
| Client browsers (`browser/`) | rows, live map, locks, profiles; browser processes | allocate, drive, release, shut down, reconcile | a browser has one owner and one profile, ends with its Room, is never lost |
| Gateway, ledger, pairing | routes, consents | open, close, reconcile | not modelled |

Interactions: API and UI calls enter the Orchestrator at the same time; the
Orchestrator calls the broker when a Room sleeps, is deleted or attaches a
phone; the broker asks the Orchestrator whether an owner lives and whether a
lease is protected by a recovery; two timers (`deviceSweeper.ts`,
`roomLifecycleSweeper.ts`) run maintenance between calls; at startup the recovery
steps run before reconciliation, and both before the first call. Everything below
the Room's lock (changes, containers, volumes, emulator) is entered by one call
of a Room at a time, which `RoomMutations` shows and the other modules assume;
what does not take the lock (commands, status reads, helpers, programs in the
Room, other Rooms, other users of the engine) interleaves in every module.

What is hard to test is listed with its line in `PROJECT.json` under `hazards`.
The families are: work interleaved at `await`s; the end of a promise chain
replaced by something that is already settled; gates closed while admitted work
has no Room yet; crashes between two writes to different stores; engine calls
that lose their answer; checks whose subject is replaced before it is used; undo
and garbage collection over the same generations; deadlines that expire with work
in the engine; and phones, emulators and virtual machines that die, come back or
are moved by somebody else.

## 2. Modules

| Module | Models | Checked by |
|---|---|---|
| `DeviceBroker` | `devices/broker.ts`, `store/androidDevicesRepo.ts`, the sweeper, the Room's side of a lease | `device_*` |
| `PhoneLease` | the abstract ownership of one set of phones, which `DeviceBroker` implements | `device_queue`, theorem `ImplementsPhoneLease` |
| `RoomMutations` | the Room queue, operation records, deletion, removal of all data, shutdown, restart | `room_*` |
| `OperationTracker` | request identity from the client to the table: repeat, join, failing saves, retention, restart | `operations` |
| `PhysicalDeviceFence` | commands and the final proof of two Rooms on one phone | `recovery`, part `fences` |
| `TrackedInstall` | what a Room installs on a phone and drives there, command by command | part `install` |
| `LocaleRecovery` | the locale matrix of an emulator, its stored intent and its restoration | part `locale` |
| `RuntimeRecovery` | export and acceptance, which pause the Room's web under an intent | part `runtime` |
| `ArtifactPublication` | the helpers that publish an exported file, below `RuntimeRecovery` | part `artifact` |
| `RoomCreation` | acquire, create, clone, the admission queue and the warm pool | part `creation` |
| `ManagedRuntime` | provisioning, update, rollback, repair and removal of the runtime VM | part `managed` |
| `GuestChannel` | the shared connection to the guest agent of that VM | part `channel` |
| `ClientBrowsers` | the browsers that agents borrow, above their processes on the Host | part `browsers` |
| `WindowsRoom` | a Windows Room on VMware | part `windows` |
| `WindowsFeatures` | enabling Windows features with a restart due | part `features` |
| `RoomChanges` | the change engine and twelve kinds of change, step by step | `components`, part `changes` |
| `RoomContainers` | container and network operations of one Room | part `containers`, `warm_wake` |
| `RoomDisks` | generations of volumes and their garbage collection | part `disks` |
| `HostSync` | replacing a workspace with the linked Host folder | part `sync` |
| `CommandOutput` | workload slot, processes and retained output | part `commands` |
| `EmulatorHelpers` | emulator, control anchor and the helpers that run adb | part `emulator` |
| `RoomNetworks` | the address pool | part `networks` |
| `ScreenWitness` | reading and tapping a screen between two log markers | part `witness` |
| `RoomVolumes` | which volume is a Room's, on which engine | part `owning` |
| `RuntimeStatus` | a status read and the route it may revoke | part `reading` |
| `*Proofs` | theorems, section 4 | tlapm |

**How they are composed.** `DeviceBroker` is refined against `PhoneLease`, and
`RoomMutations` carries the part of the tracker and of reconciliation that its
own properties need. The components below the Room's lock share no variable,
since one call at a time is inside it; `MCRecovery` and `MCComponents` therefore
run eleven and ten of them in one TLC run each. A behaviour chooses its `part` in the
initial state, only that part's `Next` is enabled, and the variables of the others keep
still (`RecoverySpec`, `ComponentsSpec`). Each of the two modules extends one
component, `RoomCreation` and `RoomChanges`, whose `TypeOK` and whose `CreationHolds` and
`ChangesHold` are invariants of the run as they stand; it instantiates the others, and
the property of a component begins with its type invariant. The modules state their action properties as action formulas and the MC
module boxes them, so that every module can be instantiated on renamed variables.
What each instance is bounded by stands in the `INSTANCE ... WITH` of the MC
module and in its `.cfg`.

### DeviceBroker

State: per phone its health and serial; the leases with owner, worker, clock and
state; what each Room waits for; the broker's memory (whether adb answered, whether
the cached inventory may be granted from, a refresh in flight with its scan and
plan, marks of dead owners, a reap pass in flight); and the physical world the
code can only probe (which routes are up, which workers live). Every `await` of
`refreshInventoryOnce`, `reap` and `sleepRoomLocked` is a boundary between two
actions, so requests, releases and heartbeats happen in between.

Actions follow the methods: `RequestGranted` and `RequestQueued` are the two ends of
`requestDevice`, `Release`, `CancelRequest`, `Heartbeat`, `RenewRecoveryLease`,
`SetNickname`; `RefreshInventory`, `ScanDevices`, `PlanInventory`, `UpsertDevice`,
`MarkDisconnected`, `RevokeDisconnected`, `FinishRefresh` are the steps of one probe
and `ProbeFails` its failure; `ReapStart`, `ReapVisit`, `ReapResume`,
`MaxDurationCheck`, `ReapEnd` are those of one pass of the reaper. A handler that
promotes the queue leaves the phones it has to serve in `turn`, and no other handler
runs (`EventLoopFree`) until `Promote` has served each of them. The world's own actions (a worker exits,
time passes, a cable is pulled, the process crashes) are marked external.

Abstractions: a request is a set of phones it would accept, a priority and a
worker; times are small counters compared with the thresholds of the code. Merging
of two device rows that turn out to be one phone, and pairing, are left out; the
authorisation of a single adb command is in `PhysicalDeviceFence`.

### RoomMutations

A job is one call that enters a Room's queue. A promise is a job with what is
awaited of it: the end of its work (`Task`), or the end of its operation with the
terminal record saved (`Op`). `roomOps` holds, as in the code, only the last promise
of each Room; `prev` of a job is the promise that it found there. Promise
continuations (`Turn`, `Finish`, the ends of a drain) run before the event loop
takes another call, timer or engine answer, which is what the guard `Quiet` says of
all the others.

`CallTracked` is `runRoomMutation` (and `beginRoomStart`, with the checks in
`Admitted`): save a record, invoke the task, which takes its place in the queue or
rejects at once, and then make the operation's completion the end of the queue. That
the last step also happens for a task that was rejected is what several findings
are about. `CallUntracked` stands for the sweep and for runs that store a recovery
key while they work; `CallCreate` for creations, which have no queue yet and are
counted in `activeMutations`. `Acquire`, `AcquireStart` and `AcquireClone` are the
turn of a job with the synchronous beginning of its work, `Refuse` a turn that ends
at once. `ContainersUp` is the row a start, a creation or a clone stores before it
verifies the Room, `SweepExpires` the sweep's decision to delete. `WorkEnds`, `CreateEnds`, `CloneEnds`, `EraseBegins` and `EraseEnds` are the
engine's answers, with the row and the records that they leave. `DeleteAll` and
`Wipe*` are "remove DevHotel and all data", `Shutdown`, `Halt*`, `DrainTimesOut`,
`DeadlineExpires` and `StopEnds` the bounded shutdown. `Restart` is a crash at any
point followed by what startup writes: interrupted operations fail, recoveries may
release their keys, and reconciliation gets as far as the engine lets it.

Abstractions: the statuses running, ready and attention are one (`awake`); what a
start, a change or a clone does inside the engine is the row it leaves and whether
it succeeded; the two recovery keys are one fence; Windows Rooms, operation ids
supplied by clients, stages and retention are left out (`WindowsRoom` and
`OperationTracker` have them). A sweep takes the status of a Room from a list; in the
model that list is as fresh as the call.

### OperationTracker

A call is one use of a client method, with an operation id of its agent's or none.
`Serve` is the request arriving at the server (`run` of the tracker under
`runRoomMutation`): known ids are answered, running ones joined, new ones begun
with a record. `TaskEnds` with its `Outcome` is the terminal save, which the table
may refuse; `Prunable` is the retention of a Room's records; `Restart` fails what was
interrupted. `Send`, `Receive`, `Lost`, `Refused`, `TimesOut` are the resilient client.
A creation that is retried after its Room was deleted is performed again, because the
record goes with the Room: `PerformedOnce` counts such deletions. Ids of Rooms are minted,
so no id is given twice (`drawn`). Waits, polls and
stages are left out, and the ends of a client call are one state.

### Phone, install, screen, locale

`PhysicalDeviceFence` keeps the two tables of the code, intents of writers and the
gate of a proof, and the adb children, which outlive their process. `TrackedInstall`
is a list of adb commands per kind of call, with others replacing the application,
switching the user or changing its locale between any two of them; the 20 s cache of
an install check and the retries of a poll are left out, one application per Room is
enough. `ScreenWitness` has the log reader, its markers and the records that may
precede an action; the first dump of a tap is a page chosen at the start.
`LocaleRecovery` numbers the attempts, so that a restart recognises DevHotel's own.

### Export, acceptance, artifact, creation

`RuntimeRecovery` has the two operations that pause a Room's web under a stored
intent, every stage of them, their containment and what the next start does. The mark
that fences a Room (`Broken`) is a write to the database that may be refused (`Unmarked`),
in `Contain` as in `Fence`. After a refused mark the containment still stops the runtime,
and the recovery stops it too but settles nothing (`Settleable` needs the point that only
`Broken` reaches): the intent stays for another start. `UncertainIsFenced` is therefore
stated with `refused`, the history of the last mark: such a Room serves nobody, and its row
is broken unless that mark did not land. `Reconcile` is the end of the start, where a Room
that believes to be awake is put to sleep; calls of agents come after it, since the Control
API listens only when the start is over.
`ArtifactPublication` is the engine's side of an export: the create, start and removal
of two helpers each may lose its answer, helpers may be killed at any point, and the
exact web container comes back. `RoomCreation` has the queue `admitRoom`, in which
acquire and create of one source wait, and clones, which do not; a Windows creation is
in `WindowsRoom`. An acquire that names no task may be answered with the row of a clone
under way, which is what the code does: such a call is at `early` and not at `handed`, and
`HandedIsMade` says that no other call is (section 6, Creation).

### Changes, containers, volumes, sync, commands

`RoomChanges` translates each change into the list of its awaits (`InstallSteps`,
`NormalizeSteps`, ...) and `Effect` says what each one does; the engine's `Execute`,
`ApplyFailed`, `Verified`, `Undo` and `Restart` walk through them. Every step may fail, the
handlers' own included: a run that cannot revoke its receipts ends as `unrevoked`, the
failure whose detail says so. A reset is three kinds, `reset` (services emptied), `wipe`
(removed) and `renew` (kept, or none there), the first and last with a fresh install of the
dependencies; what else may be asked of a reset is the same steps in the same order with
some left out, and caches, browser data and the thumbnail have no state here. A run is that
on the emulator: on a phone the apply runs inside a lease's heartbeat, which
`PhysicalDeviceFence` and `TrackedInstall` have. `RoomContainers`
does the same for the operations of the backend, with `Handler` the catch blocks.
`RoomDisks` looks only at generations of workspace and dependencies and their pointers, so
that one Room can go through several changes, undos and syncs before a sweep; volumes of
services and caches, and the install of a reset, which has no undo, are left out. `RoomVolumes` asks whose a volume
is, on an engine that others use and that may be another one after a restart.
`HostSync` has programs that write at any time, and two callers whose confirmation is
bound to who asked and what was inspected, and expires.
`CommandOutput` joins the workload slot, the process in the container and the
retained files.

### Emulator, networks, status

`EmulatorHelpers` has two proofs around every command and a helper that is shared or
single; what others may do to containers is bounded by `MaxMishaps`. `RoomNetworks`
is the allocator's memory against the networks of the engine. `RuntimeStatus` is one
read of several engine calls, with one anchor standing for the two of an Android Room.

### Managed runtime and Windows

`ManagedRuntime` has the four records of a version (manifest, journal, provider marker,
Notes of the machine) and the steps that move them, each of which may fail or be the
last. `GuestChannel` has frames per connection and a thread per request in the guest.
`WindowsRoom` has the marker in the directory, the VM's files, and a user who may
replace, start or delete them; `WindowsFeatures` the record of an elevated prompt
against boots of Windows.

### Client browsers

`ClientBrowsers` keeps, per session, its row, whether the manager's map `live` has it,
the calls in its lock (`queue`, the first one at work, with the pid that its record
had when it was read), and who has the pid of its browser: nobody, that browser or a
stranger. `Begin`, `Closes`, `Forces`, `Probes`, `Lists` and `ListFails` are the branches
of a release: the launched browser's own `stop`, or `stopOrphan` by port, pid and command
line, each ending in `Settle`. `EndsRoom` to `Erased` release the sessions of a Room that
sleeps or is deleted, before the engine is asked; `Visit` and `ReconcileGoesOn` are
shutdown and the two passes of the next start, over rows and over profiles. Tokens,
pages and what a command does in the browser are left out.

## 3. Runs

| Run | Instance | Shows |
|---|---|---|
| `device_queue` | 2 Rooms, 2 phones, one on 2 transports | exclusive ownership, no idle phone, order of the queue, stable transport, refinement of `PhoneLease` |
| `device_unplug` | 1 phone on 2 transports, crash, protected lease | a finished refresh leaves no unprotected lease on a missing phone |
| `device_reap` | 1 phone, heartbeats during a probe, fairness | the reaper acts on silent owners only, and takes the phone of a dead worker back |
| `room_lock` | 2 Rooms, 3 calls of 7 kinds, rejected calls too, a crash | two jobs are never under one lock; running records have work behind them |
| `room_queue` | 4 calls that start, sleep, clone and delete | order of the queue, one actor per Room, no orphaned start, the deletion's record stays |
| `room_halt` | 3 calls (changes, matrix jobs, creations, deletions), removal, shutdown, hanging engine | neither interleaves with work or touches a fenced Room, a removal is complete, a clean shutdown leaves nothing running |
| `room_settles` | clones and deletions with fairness, removal, shutdown | calls, removals and shutdowns end |
| `operations` | 3 calls about 3 Rooms, repeated, lost, pruned, with a restart | work is done once, answers stay, operations end |
| `recovery` | eleven protocols that survive crashes, one at a time | `FencesHold`, `LocaleHolds`, `RuntimeHolds`, `CreationHolds`, `ManagedRuntimeHolds`, `ChannelHolds`, `ArtifactsHold`, `WindowsHolds` |
| `components` | ten components of a Room, one at a time | `ChangesHold`, `ContainersHold`, `DisksAreKept`, `HostSyncKeepsWork`, `CommandsBehave`, `EmulatorHolds` |
| `room_halt_twice`, `warm_wake` | violations | see section 6 |

The properties of `recovery` and `components` are conjunctions of the named properties
of their modules; the comment above each says what they are.
Every property of a passing run has a mutant in `PROJECT.json`: a change of one
definition, of the kind a bug in that code would be, that TLC must refute.

**Bounds.** Two Rooms are what a queue, a clone with its target and a removal of
several Rooms need; a third call is enough to put somebody behind a job and to break
the queue in front of it, and the fourth one in `room_queue` to wait behind both.
Two phones and two Rooms give every conflict over ownership; a third of either only
repeats one. One crash is enough where a restart resets all memory; the protocols
whose stored record says how far they got have two. In `recovery` and `components` the bounds
are on what goes wrong: one or two failing calls, deaths and acts of others, in any
combination and at any step, which is what the error handlers of the code are written
for (a handler, and the failure of that handler). The pool of addresses has two subnets
for three Rooms, so that it is exhausted. Jobs are used once and operations are
counted, so `CHECK_DEADLOCK FALSE`: the models stop when their calls are used up,
which the system never does.

Known disagreements are kept out of the passing runs by their instance, never by
their guards: `Impatient = FALSE` (nobody deletes or undoes during a deletion) in
`room_queue` and `room_halt`; no sweep with deletion records and no creation with
starts in `room_queue`; no clone with a hanging engine in `room_halt`; no crash in
`room_queue`; `EditsInUndo`, `Aborts`, `Partial`, `Overlaps`, `Unrecorded` and `Midway` are `FALSE` and
`LegacyGen` is 0 in the merged runs, and section 6 says what each of them shows.
`room_halt` and `room_settles` have fewer kinds of calls than the other runs only to
stay small.

**Fairness.** `FairSpec` of `RoomMutations` is weak fairness of continuations, of
the answers of the engine and of the steps of a removal and a shutdown: the event
loop runs what is ready, and every engine call carries a deadline of its own. Calls,
crashes and timeouts are not fair. `DeviceBroker` assumes weak fairness of time, of
promotions and of the loops that end a refresh, which have no await to lose; and strong
fairness of the start of a reap pass, which the sweeper's 15 s timer gives, and of its
steps: a handler whose await returned is queued by the event loop and gets its turn
although others run before it. `OperationTracker` assumes that tasks end, and the
locale matrix that its commands return or fail: both are engine or adb calls with a
deadline. The other modules state safety only.

## 4. Proofs

`tlapm X.tla` checks each of the modules below from nothing; the results are listed
under `theorems` in `PROJECT.json`. They hold for every value of the constants that
meets the assumptions, which are named `ASSUME`s or, in modules that share a run, named
definitions (`SourceAssumption`, `FenceAssumption`, and one called after the module:
`RoomChangesAssumption`, `RoomContainersAssumption`, `RoomDisksAssumption`,
`HostSyncAssumption`, `RoomVolumesAssumption`, `RoomNetworksAssumption`,
`RuntimeStatusAssumption`) that stand as hypotheses of the theorem and that TLC
evaluates in `MCRecovery` and `MCComponents`.
They say what the constants are: `None` is no Room, phone, call or generation; bounds
are natural numbers; ids of clients differ from minted ones. Every inductive invariant
was an invariant of a TLC run before it was proved. The lemmas of a module say first
what each action does to the variables (its types, then its effects), then what it does
to each conjunct of the invariant.

| Module | Theorems | What the induction rests on |
|---|---|---|
| `DeviceBrokerProofs` | `TypeCorrect`, `OneLease`, `ImplementsPhoneLease`, `NoPhoneIsNeglected`, `GrantsKeepTheLine`, `TransportStays`, `GoneLosesLease`, `OnlySilentOwnersLose` | a plan is never made from a scan that did not see adb (`PlanIsSighted`); an exclusive handler leaves phones to serve only in `turn` (`ServedOutsideTurn`), with nobody who waits holding a phone (`WaitersHoldNothing`); the gate of a refresh is shut while phones are planned gone (`GateShut`, `GoneInHand`); a mark of death follows a probe of the owner it is about (`MarkFollowsSilence`) |
| `RoomMutationsProofs` | `TypeCorrect`, `OneHolder`, `RunningDriven`, `OneActor`, `EngineAlone`, `FencesHoldOthersOff`, `RemovalFinal`, `CleanShutdown`, `ReceiptOutlives`, `NoStartIsOrphaned` | a job inside its work is in `activeRoomLocks` (`HoldersLocked`), whatever the queue does; a running record belongs to a job that is not over; behind every unfinished call is an unbroken chain of promises (`Order`, `PrevIsEarlier`), whose end is in `roomOps` while the gate is open (`Chained`); a closed gate waits for all of it (`Drains`), so that removal and shutdown are alone (`StopsAlone`, `WipeErases`, `HaltStops`); a stored key is its job's (`FencesOwned`) |
| `OperationTrackerProofs` | `TypeCorrect`, `WorkIsDoneOnce`, `EndIsFinal` | a request that is on its way has begun nothing (`SentOnce`); what runs in memory has its row, and what has begun is on record until its Room goes (`BusyRuns`, `RowsBehind`, `OnRecord`); a Room is created by one call (`Creating`), and every performed piece of work is accounted for by a row or a deletion (`Accounted`) |
| `DeviceBrokerProofs`, about `PhysicalDeviceFence` | `FenceTypeCorrect`, `OneWriterAtATime`, `NoWriterWhileProving`, `InstallIsTracked`, `ReportsAreWhole`, `ProofsKeepReceipt` | an intent outlives process, lease and child, so one writer is unresolved at most (`Writing`); a proof starts with none and lets none start (`Gating`); a lease id is given once (`Leasing`); a command that still has its lease was alone since it asked (`Alone`) |
| `RoomCreationProofs` | `TypeCorrect`, `CreationIsSafe` and its seven parts | only the head of the admission queue is admitted (`HeadOnly`), so what it read of the rows stays true until it writes (`Tasked`, `Handed`); a clone's row is answered to no call but one without a task identity, since it has none (`Spared`); an unfinished row has one maker (`Owned`); one call at a time claims from the pool (`Earned`); the clone holds the source's lock and resumes what it paused (`Cut`, `Whole`, `Resumes`) |
| `RoomDisksProofs` | `TypeCorrect`, `RowKeepsItsDisks`, `ChangesKeepTheirDisks`, `UndoKeepsItsDisks`, `BusyRoomsAreSpared` | a publication that is still the latest replaced the generation before the row's, which is on disk and not the retained one (`Held`); what its undo throws away is newer than any generation that a clean install goes back to (`Apart`) |
| `RoomChangesProofs` | `TypeCorrect`, `WorkspaceIsWhole`, `DataSurvives`, `ReceiptsHold`, `RunsItsGeneration`, `EditsSurvive`, `PublishedHolds`, `EveryChangeHolds` | what is left of a list of steps is its end in one order of all steps (`Rank`, `Shape`), so that a step which is not left was done; the status of an entry fits what the engine does with it (`Working`); nothing is left to do when a revocation has failed (`Unrevoked`); numbers are reserved once and above all in use (`Numbered`, `Distinct`); volumes, container and data are what the steps that were done made of them (`Bases`, `Trees`, `Layers`, `Runs`, `Dumps`); the revision tells apart the changes that a generation went through (`Dated`) |
| `RoomContainersProofs` | `TypeCorrect`, `NothingIsLeft`, `RelayIsOpened`, `NamespaceIsShared`, `StrangersAreSpared` | what is left of an operation's list of calls says what was done, because no later call takes an effect back (`InOrder`); each call is moderate: it spares strangers, makes and starts what it is named for, and keeps the authority unless it is one that shifts it |
| `RoomContainersProofs`, about `RoomNetworks` | `AddressesAreKept` | only the call of a Room makes its network, and a Room whose row is gone never comes back, so what the allocator gave is the address of its network or of none (`Housed`, `AimsAtGone`); what a call that is alone saw in use stays in use until it reclaims it (`KnowsPool`) |
| `RoomContainersProofs`, about `RuntimeStatus` | `ReadsAreTrue` | what a read concluded so far it saw since it began, or two calls had no answer and a third is beyond the bound (`Found`, `ReliesOn`); a route that was published meanwhile has an operation that waited when the read began or is later than the identity it took (`TellsOperations`) |
| `ComponentsProofs` | `SyncKeepsWork`, `VolumesAreKept`, `ContainersAreSafe` | a generation that was never reserved is empty and a sync stages the last one that was (`Generations`); a label or record of DevHotel's is on a volume it made or took over (`LabelsAreTrue`, `RecordsAreTrue`), what an operation saw stays until it acts (`SeenStays`) on the engine it pinned (`Pinned`) |

`MCComponents` runs components that share no variable, so a behaviour of the run is a
behaviour of each of them (`BoxesBehave`, `PoolBehaves`, `ReadsBehave`), and what was
proved of one alone holds in the run. The proofs about the address pool and status reads
stand in `RoomContainersProofs`, and those about the fences of a phone in
`DeviceBrokerProofs`, with variables of their own.

**Hypotheses.** Those on a theorem exclude exactly the disagreements of section 6 and
are satisfied by the instances of the runs: `~Impatient` (nobody deletes a Room twice
or undoes during a deletion) and `~EngineHangs \/ "clone" \notin Kinds` for the queue; no
sweep among deletions for `ReceiptOutlives`, no creation or sweep among starts for
`NoStartIsOrphaned`; `RenamesChangeNothing` (a nickname is not one that a waiting request
asks for) for the broker's queue; `LegacyGen = 0` for the undo of a Node switch and for
`VolumesAreKept`, which needs `~Midway` too (nobody exchanges the engine between the calls
of one operation); `MaxHiccups <= 2` for status reads;
`~EditsInUndo` for `EditsSurvive`; and for `PublishedHolds` `ChangesApart`: not both package
and clean installs, unless the journal is too short for the undo of both. Section 6
describes what TLC finds without them. `OneHolder`, `RunningDriven`,
`RowKeepsItsDisks`, `SyncKeepsWork`, the other theorems about changes and containers and
all of `OperationTracker`, `PhysicalDeviceFence` and `RoomCreation` need none.

**What the proofs found.** The catch block of a creation (`Handler`) was written as a CASE
whose arms overlapped for a creation that fails at its anchor: TLC takes the first, the
logic allows either, and `NothingIsLeft` could not be proved until the arms were apart.
`PublishedIsWhole` is not inductive without `ChangesApart`, nor the undo of a Node switch
without `LegacyGen = 0`, nor a read without its bound: in each case the step at which the
proof failed is the scenario of section 6.

`ImplementsPhoneLease` shows the refinement by mapping the owner of a phone to the Room
of its lease: every step of the broker is a grant, a return or a stutter of
`PhoneLease`.

**Only model-checked.** Liveness under fairness (`EveryCallSettles`, `OperationsEnd`,
`DeadOwnerLosesPhone` and the end of a locale matrix) and `ENABLED`: tlapm has no rule for
them. `CommandsBehave` rests on the retention of logs, which folds over a sequence; what a
fold returns is induction over data. The rest of `recovery` and `EmulatorHolds` are
within reach and not proved yet (see the plan). Elsewhere the models use quantifiers over
sets and sequences instead of recursion, so that they can be reasoned about.

## 5. Not modelled, and the plan

- Merging of device rows (`broker.ts:265`), pairing, the ingress ledger and the
  gateway: each is a component of its own that could follow `RoomNetworks` in
  `MCComponents`.
- The plan of startup reconciliation as a pure function: what it writes is in `Restart`
  of `RoomMutations` and `Crash` of `RoomCreation`.
- Quotas, the shared cache, the store of captured artifacts, migrations, deadlines and
  budgets of garbage collection.
- User interface, parsing of adb and container output, detection, checks and redaction
  are pure functions or I/O and stay with unit tests.

What a proof could take next, in this order: the tracked install in `FencesHold`, whose other
half is proved (`DeviceBrokerProofs`); `EmulatorHolds` (an answer is from the emulator that
was attested before and after it); `RuntimeHolds` and `ArtifactsHold` (the stored stage says
what may exist), `WindowsHolds`, `ManagedRuntimeHolds` and `ChannelHolds`, each as a module of
its own that `MCRecovery` instantiates, as `MCComponents` does with `RoomDisksProofs`.

## 6. Disagreements between code and documentation

Two are runs that expect a violation, with the quoted line in `PROJECT.json`.

- `room_halt_twice`: a second deletion of a Room is rejected at once, and still its
  settled completion becomes the end of the Room's queue (`orchestrator.ts:4627`). A
  shutdown then does not wait for the first deletion and stops the Room under it.
- `warm_wake`: the retained web is compared with the name of its anchor, while it is
  created with the anchor's id (`ociCli.ts:2264`), so that no wake is ever warm.

Others show in the modules under another instance, which is given in brackets, or are
visible in one step of the model.

**Devices.** A reclaim by the reaper turns a failed physical target into the emulator
(`broker.ts:901`), which `orchestrator.ts:8492` and `docs/android-device-broker.md:123`
rule out. `setNickname` (`broker.ts:408`) does not promote the queue, so a newer request
may take a phone that was renamed to what an older one waits for (`ServedInOrder`; 3
Rooms, 2 names).

**Room queue.**
- `QueueIsOrdered` and `DeleteKeepsReceipt` (delete, sleep; `Impatient`): after the
  rejected second deletion the next call runs at once and fails on `activeRoomLocks`
  instead of waiting, and the first deletion's record has lost its protection. A
  deletion that waits behind a sweep whose erasure fails runs without its reservation,
  so a third one takes its receipt.
- `EngineExclusive` (clone; `Quits`, `EngineHangs`): after a drain that timed out a
  shutdown stops the target that a clone is still filling, because it asks
  `activeRoomLocks` and not `materializingRooms` (`orchestrator.ts:2612`).
- `DeleteKeepsReceipt` (delete; one crash): a deletion that reconciliation resumes is not
  given the id of the interrupted operation (`reconcile.ts:114`), so its record goes too.
- `NoOrphanRecord` (start with sweep or create): a start that queued behind one of them
  writes its record after the Room went. Sleeps, changes and clones that are admitted
  during a deletion do so too, and a failed clone does not forget the operations of its
  target (`orchestrator.ts:4462`).
- A shutdown writes `sleeping` over a row that is half deleted (`TombstoneStays`), so the
  next start does not resume the deletion.

**Changes and containers.**
- The undo of an install compares fingerprints and recreates the web without pausing it,
  so an edit in between is lost (`EditsInUndo`; `packageInstall.ts:333`). When unpausing and
  recreating both fail the Room stays paused while the journal says `rolled-back`.
- A clean install whose process dies while it is verified stays `applied` and does not move
  the revision (`orchestrator.ts:9724`). Its undo may write the pointer back and then fail to
  recreate the web; the package install before it can then be undone too, which removes the
  dependency volume that a second undo of the clean install points the Room to
  (`PublishedIsWhole`; install and clean, `MaxEntries = 4`).
- When the receipts of a failed Android run cannot be revoked (`androidRun.ts:299`) only the
  entry's detail says so: they stay, and nothing tries again, since a start looks at pending
  entries only. `ReceiptsAreEarned` makes this exception.
- Changing the port recreates anchor and web but no service (`internalPort.ts:32`), which
  contradicts `orchestrator.ts:4809` (`ServicesShareWeb`, checked by no run).
- The pointer `depsGen:<room>` of an old version (`LegacyGen = 1`) makes the sweep take a
  generation an undo goes back to (`volumeGc.ts:595`). `gcHostFootprint` holds no lock
  (`orchestrator.ts:5459`) although `ociCli.ts:6106` relies on one.
- A volume that is missing at generation 0 is silently made empty; an unlabelled volume of
  others under the Room's name is adopted; an engine that was exchanged without a failing
  call is noticed late, and docker removes by name (`Midway`).
- A plain Host sync does not pause, so edits between check and switch land in the retained
  generation.
- An allocation: `adopt` (`ipam.ts:131`) does not look for another claim, two concurrent
  reclaims can refuse although one freed a subnet, and overlap errors of the engine are told as
  an exhausted pool.
- `readHostPort` (`ociCli.ts:8172`) returns a binding of the anchor directly, so a managed
  Room normally gets no Host forwarder, contrary to `ociCli.ts:8163` and
  `managedRoomBackend.ts:100`.

**Status.** `webState` (`ociCli.ts:3078`) does not recognise a transport failure: when two
calls get no answer the Room is told dead and loses its route (`MaxHiccups = 3`), contrary
to the invariant at `orchestrator.ts:3704`; the bulk read does check it.

**Creation.** An acquire that names no task and comes during a clone finds the clone's
`preparing` row as a compatible Room (`roomIdentity.ts:28` refuses only `deleting`), wakes
nothing and answers with it (`README.md:97`). When the clone fails it removes that Room
under the caller (`orchestrator.ts:4459`). `HandedIsMade` states this as its exception;
without the last two lines of the property, that is, with `early` taken for `handed`, TLC
refutes it in a few steps.

**Emulator and screens.** An emulator whose recovery died before its attestation, with a
restarted anchor, can never be recovered (`ociCli.ts:5399`). Two concurrent first commands
each start a resident helper and one record is lost, contrary to "one per Room"
(`ociCli.ts:4223`). The screen witness may abort a locale setter under way, after which a
mark can stay (`Aborts`; `orchestrator.ts:1926`). A marker that arrives after readiness
refuses an action that was in order.

**Artifacts.** A helper killed while staging leaves a partial stage; later finalizers say
`incomplete`, the intent is never released and the Room stays fenced until it is deleted
(`ociCli.ts:482`, comment at 2969). Staged bytes of a copy that failed stay in the guest
(`managedRoomBackend.ts:117`).

**Client browsers.**
- A browser may be allocated while its Room's sleep, which has released the others, still
  waits for the engine; it then runs in a sleeping Room, contrary to
  `docs/client-browser.md:105` (`SleepersDriveNone`; `Overlaps`).
- A second release that waited in the lock, or one that took its record before the Room's
  release began, works on a session that is gone: on a shared persistent profile it stops the
  browser of the next session (`OthersGoOn`; `Overlaps`), and the kill after the grace period
  does not ask whose the pid is by then (`StrangersLive`; `Overlaps`).
- A crash before `markLaunched` leaves a row without a pid. The next start then believes a
  browser stopped as soon as it was asked to close (`hostChromiumRuntime.ts:341`), or when the
  processes of the Host could not be listed (347), and removes row and profile under it
  (`NoneForgotten`, `ProfilesAreOwn`; `Unrecorded`).
- The browser of a persistent profile that could not be stopped when its Room was deleted is
  never found again, since its row goes with the Room's, although `orchestrator.ts:8165` leaves
  it for the next reconcile. `NoneForgotten` makes this exception.

**Managed runtime.** (a) A failed download is journalled as `rolled-back` and bars the
version for ever, although "a download that fails leaves the install exactly where it was"
(`managedRuntimeManager.ts:439`). (b) One crash between `adoptVersion` and the marker's swap
ends in a rollback, although two attempts are promised. (c) `ensureRunning` never marks the
manifest ready. (d) A rollback that failed before the adoption leaves marker and manifest
apart, and every later launch fails. (e) A shutdown during a preparation can leave the
version unknown (`Overlaps`). The guest agent drops input for a request whose sink is
not registered yet (`managedRuntimeGuestAgent.ts:168`), so `put` is not the atomic write that
`managedRuntimeGuestProtocol.ts:139` promises (`PutIsWhole`, checked by no run); a cancel before the registration kills
nothing.

**Windows.** Reconciliation turns a `deleting` Windows row into another status, against
`orchestrator.ts:10943`; `delete` stops only softly, so a guest that ignores it cannot be
deleted (`windowsVm.ts:84`); it stops before it asks whether the clone is the template; and
a refused reset marks the row broken although nothing changed (`windowsVm.ts:347`). An
elevated child that enabled some of the features and failed (`Partial`), an `observe` during `enable`
(`Overlaps`), and a death between prompt and record make `completed` told, or a prompt
repeated, while a restart is due (`managedRuntimeWindowsFeature.ts:240`, 346).
