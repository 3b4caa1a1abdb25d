----------------------------- MODULE MCRecovery ------------------------------
(***************************************************************************)
(* Protocols that survive failing calls and restarts, in one run: a        *)
(* behaviour is one of them, and the others keep still.                    *)
(***************************************************************************)
EXTENDS RoomCreation, TLC

CONSTANTS
    r1, r2, install, tracked, drive, accept,                \* PhysicalDeviceFence
    Old, New,                                               \* ManagedRuntime
    q1, q2,                                                 \* GuestChannel
    b1, b2                                                  \* ClientBrowsers

VARIABLES
    part,
    lease, granted, process, intents, gate, op, child, app, writes, receipt, seen,
    revision, published,
    device, localeIntent, setter, stray, localeRun, visited, attempts, localeStarts,
    unseen, localeForeign,
    intent, runtimeWeb, routed, snapshot, room, roomRevision, tree, helper, run, ok, safe,
    starts, since, foreign, refused, reports,
    manifest, journal, marker, machine, roomDisk, isos, fetched, carried, prep, halt,
    wiping, removed, hits, kills,
    lines, dial, asks, outbound, inbound, threads, damage,
    stage, dest, source, helpers, artifactWeb, at, mode, outcome, losses, deaths,
    row, dir, vmx, running, template, harmed, byUser, job, ops, vmFaults, mishaps,
    feature, boot, record, answer, elevated, enabling, stageTold, unheard, prompts,
    target, born, logged, installed, session, sessions, moves, troubles,
    lodging, ending, owed, seat, kept, minted, folders, proc, flying, alive, queue, host,
    left, begun, mishits

F == INSTANCE PhysicalDeviceFence
       WITH boot <- process, Ops <- {install, tracked, drive, accept},
            KindOf <- install :> "install" @@ tracked :> "tracked" @@ drive :> "drive" @@ accept :> "accept",
            RoomFor <- install :> r2 @@ tracked :> r1 @@ drive :> r1 @@ accept :> r1, Rooms <- {r1, r2},
            MaxLeases <- 2, MaxStarts <- 1
L == INSTANCE LocaleRecovery
       WITH Captures <- 2, MaxAttempts <- 3, MaxStarts <- 2, Interferes <- TRUE, Aborts <- FALSE,
            intent <- localeIntent, run <- localeRun, starts <- localeStarts, foreign <- localeForeign
R == INSTANCE RuntimeRecovery
       WITH MaxStarts <- 2, MaxRevision <- 4, Others <- TRUE, Old <- TRUE,
            web <- runtimeWeb, revision <- roomRevision
G == INSTANCE ManagedRuntime WITH MaxFaults <- 2, MaxKills <- 2, Overlaps <- FALSE
N == INSTANCE GuestChannel WITH Requests <- {q1, q2}, Size <- q1 :> 2 @@ q2 :> 0, MaxLines <- 2, MaxDamage <- 1
P == INSTANCE ArtifactPublication WITH MaxLosses <- 3, MaxDeaths <- 2, helper <- helpers, web <- artifactWeb
W == INSTANCE WindowsRoom WITH MaxOps <- 4, MaxFaults <- 2, MaxMishaps <- 2, faults <- vmFaults
H == INSTANCE WindowsFeatures WITH Features <- Fresh, MaxCalls <- 2, MaxBoots <- 1, Partial <- FALSE, Overlaps <- FALSE
T == INSTANCE TrackedInstall WITH Drives <- {"install", "status", "launch", "stop", "logcat", "crash", "seal", "prove"},
            MaxCalls <- 1, MaxMoves <- 2, MaxTroubles <- 1, app <- target, lines <- logged, receipt <- installed, ask <- session, calls <- sessions
B == INSTANCE ClientBrowsers
       WITH Sessions <- {b1, b2}, Rooms <- {r1}, RoomOf <- b1 :> r1 @@ b2 :> r1,
            MaxAsks <- 2, MaxHits <- 2, MaxStarts <- 1, Overlaps <- FALSE, Unrecorded <- FALSE

ASSUME RecoveryAssumption == F!FenceAssumption /\ B!BrowsersAssumption

phone == <<lease, granted, process, intents, gate, op, child, app, writes, receipt, seen,
           revision, published>>
locale == <<device, localeIntent, setter, stray, localeRun, visited, attempts, localeStarts,
            unseen, localeForeign>>
runtime == <<intent, runtimeWeb, routed, snapshot, room, roomRevision, tree, helper, run, ok, safe,
             starts, since, foreign, refused, reports>>
installation == <<manifest, journal, marker, machine, roomDisk, isos, fetched, carried, prep, halt,
    wiping, removed, hits, kills>>
agent == <<lines, dial, asks, outbound, inbound, threads, damage>>
publication == <<stage, dest, source, helpers, artifactWeb, at, mode, outcome, losses, deaths>>
windowsVM == <<row, dir, vmx, running, template, harmed, byUser, job, ops, vmFaults, mishaps>>
hostFeatures == <<feature, boot, record, answer, elevated, enabling, stageTold, unheard, prompts>>
driving == <<target, born, logged, installed, session, sessions, moves, troubles>>
browsing == <<lodging, ending, owed, seat, kept, minted, folders, proc, flying, alive, queue,
              host, left, begun, mishits>>
allVars == <<part, vars, phone, locale, runtime, installation, agent, publication, windowsVM, hostFeatures, driving, browsing>>

\* Where a behaviour starts does not matter to the parts that keep still.
AllInit ==
    /\ part \in {"fences", "locale", "runtime", "creation", "managed", "channel", "artifact", "windows", "features", "install", "browsers"}
    /\ Init /\ F!Init /\ L!Init /\ R!Init /\ G!Init /\ N!Init /\ P!Init /\ W!Init /\ H!Init /\ T!Init /\ B!Init
    /\ part = "runtime" \/ intent = None
    /\ part = "creation" \/ web = "down"
    /\ asks[q2].kind = "get" /\ asks[q2].cap # 1
    /\ part = "channel" \/ (asks[q1].kind = "get" /\ asks[q1].cap # 1)
    /\ part = "artifact" \/ dest = "none"
    /\ part = "install" \/ installed = None
    /\ part = "managed" \/ (carried = {New} /\ fetched = {} /\ manifest = None)

InFences == part = "fences" /\ UNCHANGED <<part, vars, locale, runtime, installation, agent, publication, windowsVM, hostFeatures, driving, browsing>>
InLocale == part = "locale" /\ UNCHANGED <<part, vars, phone, runtime, installation, agent, publication, windowsVM, hostFeatures, driving, browsing>>
InRuntime == part = "runtime" /\ UNCHANGED <<part, vars, phone, locale, installation, agent, publication, windowsVM, hostFeatures, driving, browsing>>
InCreation == part = "creation" /\ UNCHANGED <<part, phone, locale, runtime, installation, agent, publication, windowsVM, hostFeatures, driving, browsing>>
InManaged == part = "managed" /\ UNCHANGED <<part, vars, phone, locale, runtime, agent, publication, windowsVM, hostFeatures, driving, browsing>>
InChannel == part = "channel" /\ UNCHANGED <<part, vars, phone, locale, runtime, installation, publication, windowsVM, hostFeatures, driving, browsing>>
InArtifact == part = "artifact" /\ UNCHANGED <<part, vars, phone, locale, runtime, installation, agent, windowsVM, hostFeatures, driving, browsing>>
InWindows == part = "windows" /\ UNCHANGED <<part, vars, phone, locale, runtime, installation, agent, publication, hostFeatures, driving, browsing>>
InFeatures == part = "features" /\ UNCHANGED <<part, vars, phone, locale, runtime, installation, agent, publication, windowsVM, driving, browsing>>
InBrowsers == part = "browsers" /\ UNCHANGED <<part, vars, phone, locale, runtime, installation, agent, publication, windowsVM, hostFeatures, driving>>
InInstall == part = "install" /\ UNCHANGED <<part, vars, phone, locale, runtime, installation, agent, publication, windowsVM, hostFeatures, browsing>>

AllNext ==
    \/ InFences /\ F!Next
    \/ InLocale /\ L!Next
    \/ InRuntime /\ R!Next
    \/ InCreation /\ Next
    \/ InManaged /\ G!Next
    \/ InChannel /\ N!Next
    \/ InArtifact /\ P!Next
    \/ InWindows /\ W!Next
    \/ InFeatures /\ H!Next
    \/ InInstall /\ T!Next
    \/ InBrowsers /\ B!Next

RecoverySpec ==
    /\ AllInit /\ [][AllNext]_allVars
    /\ WF_allVars(InLocale /\ L!Matrix) /\ WF_allVars(InLocale /\ L!SetterFails)

(***************************************************************************)
(* What must hold of creations is TypeOK and CreationHolds of RoomCreation *)
(* whose variables keep still in the other behaviours.  The property of    *)
(* another protocol begins with its type invariant.                        *)
(***************************************************************************)

\* A phone has one writer, and none while a proof stands, also after a crash;
\* nothing changed it under a published report, a tracked install is what is on
\* it, and a writer that a proof refuses does not revoke it. What a Room is told of
\* its application comes from the installation it made itself, and so does its log.
FencesHold ==
    /\ [](part = "fences" => F!TypeOK /\ F!OneWriter /\ F!NoWriterUnderProof /\ F!PublishedUndisturbed /\ F!ReceiptIsTrue)
    /\ [](part = "install" => T!TypeOK /\ T!EvidenceIsTracked /\ T!LogsAreOurs /\ T!FenceIsTrue /\ T!CrashIsReal)
    /\ [][/\ part = "fences" => F!ProofKeepsReceipt
          /\ part = "install" => T!ReceiptStays /\ T!ReadsOnlyRead]_allVars

\* The stored locale intent recognises what a restart finds, nothing of DevHotel
\* is left on the device when it is gone, no choice of the user is overwritten,
\* and a matrix and a recovery of its locale come to an end.
LocaleHolds ==
    /\ [](part = "locale" => L!TypeOK /\ L!Recoverable /\ L!NoMarkLeft)
    /\ [][part = "locale" => L!UserChoiceStays]_allVars
    /\ L!RunEnds

\* When the intent is gone no web stays paused and no snapshot stays; a report is
\* published only for a Room that is back; an export leaves no unknown file: its
\* Room is fenced until it is settled, a file that stays moved the revision, and no
\* export is declared over when somebody else moved the record.
RuntimeHolds ==
    /\ [](part = "runtime" => /\ R!TypeOK /\ R!NothingStaysBehind /\ R!ReportsAreRestored
                              /\ R!PublicationIsKnown /\ R!UncertainIsFenced)
    /\ [][part = "runtime" => R!NoStaleRelease]_allVars

\* The version of the installed runtime is always known and moves only under the
\* journal of its update, an update that failed is undone or finished within two
\* attempts and not tried again, and no step but a removal loses the Rooms' disk
\* or touches a machine that is somebody else's.
ManagedRuntimeHolds ==
    /\ [](part = "managed" => G!TypeOK /\ G!VersionIsKnown /\ G!OutcomeIsTrue /\ G!TwoAttempts)
    /\ [][part = "managed" => G!MovesAreJournaled /\ G!RoomsAreKept]_allVars

\* Over the connection that all Room commands share, a result comes with the
\* whole output, input has no hole, a lost connection fails what waits for it,
\* and a request that was given up stays so.  A browser that an agent has is its
\* own with its profile, ends with its release and its Room or is found by the next
\* start, and is the only process that is stopped for it.
ChannelHolds ==
    /\ [](part = "channel" => N!TypeOK /\ N!OutputIsWhole /\ N!InputHasNoGap /\ N!LostIsTold)
    /\ [](part = "browsers" => /\ B!TypeOK /\ B!NoneForgotten /\ B!ProfilesAreOwn
                               /\ B!SleepersDriveNone /\ B!DrivenIsAlive)
    /\ [][/\ part = "channel" => N!GivenUpStays
          /\ part = "browsers" => B!StrangersLive /\ B!OthersGoOn]_allVars

\* Who is told that an artifact is in the workspace finds it there, and who is
\* told that it failed finds nothing of it; no helper that could write is there
\* when the Room is given back or the publication forgotten; files and containers
\* that are somebody else's stay, and the Room gets back its own container.
ArtifactsHold ==
    /\ [](part = "artifact" => P!TypeOK /\ P!NoWriterLeft /\ P!NoStageLeft)
    /\ [][part = "artifact" => P!OutcomeIsTrue /\ P!OthersUntouched /\ P!RestoredIsOwn]_allVars

\* Whatever fails and whatever the user does to a Windows Room, its template is not
\* harmed, nothing half made is started, every start is offline, a Room asleep or
\* deleted has no VM running, and a reset leaves nothing of before. The features
\* of Windows are said to work only after their restart, and asked for once.
WindowsHolds ==
    /\ [](part = "windows" => /\ W!TypeOK /\ W!TemplateUnharmed /\ W!ReadyIsWhole /\ W!StartsOffline
                              /\ W!SleepersAreOff /\ W!DeletedIsGone)
    /\ [](part = "features" => H!TypeOK)
    /\ [][/\ part = "windows" => W!ResetIsClean
          /\ part = "features" => H!CompletedIsTrue /\ H!NoSecondPrompt]_allVars
=============================================================================
