---------------------------- MODULE MCComponents ----------------------------
(***************************************************************************)
(* Components that share no state, in one run: a behaviour is one of them, *)
(* and the others keep still.                                              *)
(***************************************************************************)
EXTENDS RoomChanges

CONSTANTS
    None,
    Ops, MaxOps, MaxFaults,                                 \* RoomContainers
    Majors, MaxVolumeGen, MaxChanges, MaxSweeps, LegacyGen, \* RoomDisks
    Volumes, Recorded, Engines, MaxCalls, MaxMoves, Midway, \* RoomVolumes
    SyncEdits, MaxGen, MaxHost, MaxMishaps,                 \* HostSync
    Commands, MaxRuns, MaxBytes, MaxSize, MaxAtOnce,        \* CommandOutput
    Tenants, PoolSize, MaxWakes, MaxTrouble,                \* RoomNetworks
    MaxMutations, MaxLooks, MaxDeaths, MaxHiccups           \* RuntimeStatus

VARIABLES
    part,
    android, want, box, nets, relay, state, act, last, moved, ops, faults,
    home, pointer, top, log, disks, used, sweep, changes, sweeps,
    folder, gens, record, token, sync, runtime, written, mishaps,
    status, awake, idle, lifecycle, stage, slot, aborted, closed, guest, leaked,
    size, disk, finished, owed, pinned, swept, turns, deaths,
    anchor, phone, workload, attested, helper, known, call, task, lost, failures, accidents, started,
    roomRow, network, attached, others, allocated, claimed, ask, answers, wakes, glitches, outside,
    screen, events, reader, witness, node, input, outcome, nudges, troubles,
    engine, there, stamps, pin, proven, registry, loaded, manifest, ours, rowNames, doing, noticed, calls, moves,
    handset, served, real, waiting, latest, look, told, since, mutations, looks, fallen, hiccups

\* What is proved of these two alone is cited in ComponentsProofs.
B == INSTANCE RoomContainersProofs
D == INSTANCE RoomDisksProofs WITH MaxGen <- MaxVolumeGen
H == INSTANCE HostSync WITH Edits <- SyncEdits
W == INSTANCE CommandOutput WITH box <- awake, ops <- turns, crashes <- deaths, MaxOps <- 2
E == INSTANCE EmulatorHelpers
       WITH Calls <- Commands, Plain <- {CHOOSE c \in Commands : TRUE},
            MaxFaults <- 1, MaxMishaps <- 2, MaxRuns <- 2,
            emulator <- phone, job <- task, faults <- failures, mishaps <- accidents, runs <- started
N == INSTANCE RoomNetworks WITH row <- roomRow
S == INSTANCE ScreenWitness WITH Attempts <- 2, Budget <- 2, TapRecords <- 3, MaxNudges <- 2, MaxTroubles <- 1
V == INSTANCE RoomVolumes
U == INSTANCE RuntimeStatus WITH phone <- handset, room <- served, deaths <- fallen

ASSUME ComponentsAssumption ==
    /\ B!RoomContainersAssumption /\ D!RoomDisksAssumption
    /\ H!HostSyncAssumption /\ V!RoomVolumesAssumption /\ W!RetentionAssumption
    /\ N!RoomNetworksAssumption /\ U!RuntimeStatusAssumption

containers == <<android, want, box, nets, relay, state, act, last, moved, ops, faults>>
volumes == <<home, pointer, top, log, disks, used, sweep, changes, sweeps>>
host == <<folder, gens, record, token, sync, runtime, written, mishaps>>
commands == <<status, awake, idle, lifecycle, stage, slot, aborted, closed, guest, leaked,
              size, disk, finished, owed, pinned, swept, turns, deaths>>
screens == <<anchor, phone, workload, attested, helper, known, call, task, lost, failures, accidents, started>>
pool == <<roomRow, network, attached, others, allocated, claimed, ask, answers, wakes, glitches, outside>>
screening == <<screen, events, reader, witness, node, input, outcome, nudges, troubles>>
ownership == <<engine, there, stamps, pin, proven, registry, loaded, manifest, ours, rowNames, doing, noticed, calls, moves>>
statuses == <<handset, served, real, waiting, latest, look, told, since, mutations, looks, fallen, hiccups>>
allVars == <<part, vars, containers, volumes, host, commands, screens, pool, screening, ownership, statuses>>

\* Where a behaviour starts does not matter to the parts that keep still.
AllInit ==
    /\ part \in {"changes", "containers", "disks", "sync", "commands", "emulator", "networks", "witness", "owning", "reading"}
    /\ Init /\ B!Init /\ D!Init /\ H!Init /\ W!Init /\ E!Init /\ N!Init /\ S!Init /\ V!Init /\ U!Init
    /\ part = "containers" \/ android = FALSE
    /\ part = "disks" \/ home.node = CHOOSE m \in Majors : TRUE
    /\ part = "changes" \/ web.mode = "down"
    /\ part = "witness" \/ witness.kind = "dump"
    /\ part = "owning" \/ stamps = 0
    /\ part = "reading" \/ handset = FALSE
    /\ part = "networks" \/ network = [r \in Tenants |-> None]

InChanges == part = "changes" /\ UNCHANGED <<part, containers, volumes, host, commands, screens, pool, screening, ownership, statuses>>
InContainers == part = "containers" /\ UNCHANGED <<part, vars, volumes, host, commands, screens, pool, screening, ownership, statuses>>
InDisks == part = "disks" /\ UNCHANGED <<part, vars, containers, host, commands, screens, pool, screening, ownership, statuses>>
InSync == part = "sync" /\ UNCHANGED <<part, vars, containers, volumes, commands, screens, pool, screening, ownership, statuses>>
InCommands == part = "commands" /\ UNCHANGED <<part, vars, containers, volumes, host, screens, pool, screening, ownership, statuses>>
InEmulator == part = "emulator" /\ UNCHANGED <<part, vars, containers, volumes, host, commands, pool, screening, ownership, statuses>>
InNetworks == part = "networks" /\ UNCHANGED <<part, vars, containers, volumes, host, commands, screens, screening, ownership, statuses>>
InWitness == part = "witness" /\ UNCHANGED <<part, vars, containers, volumes, host, commands, screens, pool, ownership, statuses>>
InOwning == part = "owning" /\ UNCHANGED <<part, vars, containers, volumes, host, commands, screens, pool, screening, statuses>>
InReading == part = "reading" /\ UNCHANGED <<part, vars, containers, volumes, host, commands, screens, pool, screening, ownership>>

AllNext ==
    \/ InChanges /\ Next
    \/ InContainers /\ B!Next
    \/ InDisks /\ D!Next
    \/ InSync /\ H!Next
    \/ InCommands /\ W!Next
    \/ InEmulator /\ E!Next
    \/ InNetworks /\ N!Next
    \/ InWitness /\ S!Next
    \/ InOwning /\ V!Next
    \/ InReading /\ U!Next

ComponentsSpec == AllInit /\ [][AllNext]_allVars

(***************************************************************************)
(* What must hold of the changes is TypeOK and ChangesHold of RoomChanges, *)
(* whose variables keep still in the other behaviours.  The property of    *)
(* another component begins with its type invariant.                       *)
(***************************************************************************)

\* Operations on the containers of a Room leave nothing behind, their relay is
\* opened by the credential that is kept and their joiners are in the namespace
\* that is there; they leave strangers alone and stop in order. No address of the
\* pool is lost or given twice, and a Room keeps its network. A status read calls a
\* Room dead or running only when it was, and takes no route that was made meanwhile.
ContainersHold ==
    /\ [](part = "containers" => B!TypeOK /\ B!NothingLeftOver /\ B!RelayOpensAnchor /\ B!SharedNamespace)
    /\ [](part = "networks" => N!TypeOK /\ N!ClaimsAreBacked)
    /\ [](part = "reading" => U!TypeOK /\ U!NewRouteStays /\ U!DeadIsProven /\ U!RunningWasSeen /\ U!StrayIsTold)
    /\ [][/\ part = "containers" => B!ForeignUntouched /\ B!LeavesFirst
          /\ part = "networks" => N!RoomKeepsNetwork /\ N!RefusalIsTrue]_allVars

\* A sweep of the volumes leaves what the row, the last Host sync and every
\* change that can still be undone go back to, and a Room that is busy.  No operation
\* removes a volume that DevHotel did not make or take over, works on another engine
\* once that was noticed, or goes on with an empty volume in place of a recorded one.
DisksAreKept ==
    /\ [](part = "disks" => D!TypeOK /\ D!RowHasItsDisks /\ D!UndoFindsItsDisks)
    /\ [](part = "owning" => V!TypeOK /\ V!ListingIsTrue)
    /\ [][/\ part = "disks" => D!SweepSparesTheBusy
          /\ part = "owning" => V!RemovesOwn /\ V!EngineIsPinned /\ V!DataIsTheSame]_allVars

\* A Host sync replaces only what was accepted, imports into a generation that
\* is new, and ends with a Room that runs what its row names or is marked.
HostSyncKeepsWork ==
    /\ [](part = "sync" => H!TypeOK /\ H!RunsWhatItNames /\ H!WorkIsThere)
    /\ [][part = "sync" => H!ReplacesWhatWasSeen /\ H!ImportsIntoNew]_allVars

\* The commands of a Room run one after the other and leave no process behind;
\* a cancelled one starts none, the idle sweep cancels none, and the output that
\* is promised or pinned stays while the rest keeps within its limits.
CommandsBehave ==
    /\ [](part = "commands" => W!TypeOK /\ W!OneAtATime /\ W!NothingLeftRunning /\ W!PromiseKept /\ W!Bounded)
    /\ [][part = "commands" => W!CancelledStaysOut /\ W!SweepSparesCommands]_allVars

\* An answer of the emulator is from the emulator as it is, in the namespace that is
\* there; a helper that exists has an owner or a failed removal behind it; what vouches
\* for an emulator is true, a creation that failed leaves none half made, and a
\* recovery gives back the emulator and the workload it found. A screen that is returned
\* or tapped is the tracked application's, and a tap told as failed touched nothing.
EmulatorHolds ==
    /\ [](part = "emulator" => E!TypeOK /\ E!HelpersHaveOwners /\ E!ProvedIsJoined /\ E!NoHalfEmulator)
    /\ [](part = "witness" => S!TypeOK /\ S!ScreenIsOurs /\ S!NoBlindRetry)
    /\ [][part = "emulator" => E!AnswersAreCurrent /\ E!RecoveryKeepsWorkload]_allVars
=============================================================================
