-------------------------- MODULE RuntimeRecovery --------------------------
(***************************************************************************)
(* The two operations of a Room that pause its web runtime under a stored  *)
(* intent: the export of an artifact into the workspace, and the emulator  *)
(* acceptance with its snapshot; their containment, and what the next      *)
(* start of the application does about an intent that it finds             *)
(* (orchestrator.ts, settingsRepo.ts).  The device's side of an acceptance *)
(* is LocaleRecovery.                                                      *)
(***************************************************************************)
EXTENDS Integers

CONSTANTS
    MaxStarts,      \* bound: restarts of the application
    MaxRevision,    \* bound: how far the Room's revision gets
    Others,         \* work admitted earlier may still move the Room's revision
    Old,            \* an intent of an older build may be found at first
    None

Intents == [kind: {"export", "acceptance"}, phase: {"reserved", "mutating", "legacy"},
            revision: 0..MaxRevision]

VARIABLES
    intent,     \* the stored intent, or None: the keys exclude each other
    web,        \* the web container: up, paused or stopped
    routed,     \* the gateway serves the Room
    snapshot,   \* a snapshot volume of the workspace exists
    room,       \* status: ready, attention, broken, sleeping
    revision,   \* stateRevision
    tree,       \* the workspace has the exported file
    helper,     \* a publication helper that nobody waits for
    run,        \* how far the running operation or recovery is
    ok,         \* it has not failed so far
    safe,       \* the runtime may be restored
    starts,
    since,      \* history: the revision at which the file appeared
    foreign,    \* history: somebody else moved the record since the claim
    refused,    \* history: the database refused the last attempt to fence the Room
    reports     \* history: reports published, and whether the Room was back then

runtime == <<web, routed, snapshot>>
record == <<room, revision>>
flow == <<run, ok, safe>>
history == <<since, foreign, refused, reports>>
vars == <<intent, runtime, record, tree, helper, flow, starts, history>>

-----------------------------------------------------------------------------
(* Helpers *)

Enters(at) == run' = at /\ UNCHANGED <<ok, safe>>

\* An intent of this kind is stored.
Pending(kind) == intent # None /\ intent.kind = kind

Fails(at) == run' = at /\ ok' = FALSE /\ UNCHANGED safe

\* The revision the intent was claimed at, or the next one when the
\* publication was recorded
Expected == IF run \in {"recorded", "resumeNew"} THEN intent.revision + 1 ELSE intent.revision

Appears == tree' = TRUE /\ since' = revision

\* restoreRoomArtifactWeb: exact container or nothing
Resumed == web = "paused" /\ web' = "up"

\* markWorkspaceAmbiguous: the row is written before the route is looked at
Broken == /\ room' = "broken"
          /\ revision < MaxRevision /\ revision' = revision + 1
          /\ routed' = FALSE /\ refused' = FALSE

\* The database refuses it.
Unmarked == refused' = TRUE /\ UNCHANGED record

Claimed(kind, phase, at) ==
    /\ run = "idle" /\ intent = None
    /\ web = "up" /\ room = "ready"
    /\ intent' = [kind |-> kind, phase |-> phase, revision |-> revision]
    /\ run' = at /\ ok' = TRUE /\ safe' = TRUE
    /\ foreign' = FALSE /\ refused' = FALSE

-----------------------------------------------------------------------------
(* Export of an artifact *)

ClaimExport ==
    /\ Claimed("export", "mutating", "claimed")
    /\ tree' = FALSE
    /\ UNCHANGED <<runtime, record, helper, starts, since, reports>>

\* The exact runtime is captured and paused; a failure before the capture
\* leaves nothing that could be restored.
PauseForExport ==
    /\ run = "claimed"
    /\ \/ web' = "paused" /\ Enters("paused")
       \/ web' \in {web, "paused"} /\ Fails("published")
       \/ web' = web /\ run' = "contain" /\ ok' = FALSE /\ safe' = FALSE
    /\ UNCHANGED <<intent, routed, snapshot, record, tree, helper, starts, history>>

SameGeneration == revision = intent.revision

\* publishRoomArtifact: refused, done, or nobody knows
Publish ==
    /\ run = "paused"
    /\ IF ~SameGeneration
         THEN /\ run' = "contain" /\ ok' = FALSE /\ safe' = FALSE
              /\ UNCHANGED <<tree, helper, since>>
         ELSE \/ Enters("publishedNew") /\ Appears /\ UNCHANGED helper
              \/ Fails("published") /\ UNCHANGED <<tree, helper, since>>
              \/ /\ run' = "contain" /\ ok' = FALSE /\ safe' = FALSE
                 /\ Appears \/ UNCHANGED <<tree, since>>
                 /\ helper' = TRUE
    /\ UNCHANGED <<intent, runtime, record, starts, foreign, refused, reports>>

\* markWorkspaceModifiedIfRevision
Record ==
    /\ run = "publishedNew"
    /\ IF SameGeneration /\ revision < MaxRevision
         THEN revision' = revision + 1 /\ Enters("recorded")
         ELSE /\ run' = "contain" /\ ok' = FALSE /\ safe' = FALSE
              /\ UNCHANGED revision
    /\ UNCHANGED <<intent, runtime, room, tree, helper, starts, history>>

\* Staging is cleaned up, and the revision is read again before the resume.
Resumable ==
    /\ run \in {"recorded", "published"} /\ intent.kind = "export"
    /\ \/ revision = Expected /\ Enters(IF run = "recorded" THEN "resumeNew" ELSE "resumeOld")
       \/ run' = "contain" /\ ok' = FALSE /\ safe' = FALSE
    /\ UNCHANGED <<intent, runtime, record, tree, helper, starts, history>>

Releasable == revision = Expected

\* The exact runtime is resumed.  In the turn of its answer the revision is
\* read once more, and the intent is deleted in one statement with it
\* (deleteIfValueAndRoomRevision).
Resume ==
    /\ run \in {"resumeNew", "resumeOld"}
    /\ \/ /\ Resumed \/ (web = "up" /\ web' = web)
          /\ Releasable
          /\ intent' = None /\ Enters("idle")
       \/ /\ Resumed \/ web' = web
          /\ run' = "contain" /\ ok' = FALSE /\ safe' = FALSE
          /\ UNCHANGED intent
    /\ UNCHANGED <<routed, snapshot, record, tree, helper, starts, history>>

\* containArtifactExportRuntime: the route goes first, in memory, and then each
\* part is tried, whatever the others did: the mark, the stop and the helpers.
Contain ==
    /\ run = "contain"
    /\ routed' = FALSE
    /\ Broken \/ Unmarked
    /\ web' \in {web, "stopped"}
    /\ helper' \in {helper, FALSE}
    /\ Enters("idle")
    /\ UNCHANGED <<intent, snapshot, tree, starts, since, foreign, reports>>

-----------------------------------------------------------------------------
(* Emulator acceptance *)

Reserve ==
    /\ Claimed("acceptance", "reserved", "reserved")
    /\ UNCHANGED <<runtime, record, tree, helper, starts, since, reports>>

\* Before anything changes a refusal gives the reservation up.
ReleaseReservation == intent' = None /\ Enters("idle")

\* Every seed is proved again under the reservation: locale, install, runtime,
\* source and generation.
ProveAgain ==
    /\ run = "reserved"
    /\ (SameGeneration /\ UNCHANGED intent /\ Enters("claimProved")) \/ ReleaseReservation
    /\ UNCHANGED <<runtime, record, tree, helper, starts, history>>

\* The initial witness and the screenshots agree; in their turn the phase is
\* stored, before the first change.
Mutate ==
    /\ run = "claimProved"
    /\ \/ intent' = [intent EXCEPT !.phase = "mutating"] /\ Enters("mutating")
       \/ ReleaseReservation
    /\ UNCHANGED <<runtime, record, tree, helper, starts, history>>

\* The web is paused and the workspace is copied.
Snapshot ==
    /\ run = "mutating"
    /\ web' \in {web, "paused"}
    /\ snapshot' \in BOOLEAN
    /\ IF web' = "paused" /\ snapshot' THEN Enters("copied") \/ Fails("sealed") ELSE Fails("sealed")
    /\ UNCHANGED <<intent, routed, record, tree, helper, starts, history>>

\* The crash scenario and the locale that is restored after it
ProveDevice ==
    /\ run = "copied"
    /\ Enters("deviceProved") \/ Fails("sealed")
    /\ UNCHANGED <<intent, runtime, record, tree, helper, starts, history>>

\* Fingerprints and rows are read again in front of the sealed candidate.
Seal ==
    /\ run = "deviceProved"
    /\ (SameGeneration /\ Enters("sealed")) \/ Fails("sealed")
    /\ UNCHANGED <<intent, runtime, record, tree, helper, starts, history>>

\* containPendingAndroidAcceptanceRuntime
Attention(status) == IF status = "ready" THEN "attention" ELSE status

Detached(status) == routed' = FALSE /\ room' = Attention(status)

\* The recovery takes a Room that an older shutdown put to sleep as one that
\* needs attention.
Reopened == IF run = "recover" /\ room = "sleeping" THEN "attention" ELSE room

\* The end of every acceptance, and the recovery of an interrupted one
RestoreWeb ==
    /\ run \in {"sealed", "recover"} /\ intent.kind = "acceptance"
    /\ run = "recover" => SameGeneration
    /\ \/ /\ intent.phase # "legacy"
          /\ Resumed \/ (web = "up" /\ web' = web)
          /\ room' = Reopened
          /\ UNCHANGED <<routed, safe>>
       \/ /\ web' = web /\ Detached(Reopened)
          /\ safe' = IF intent.phase = "legacy" THEN safe ELSE FALSE
    /\ run' = IF run = "sealed" THEN "webBack" ELSE "webRecovered"
    /\ UNCHANGED <<intent, snapshot, revision, tree, helper, ok, starts, history>>

RemoveSnapshot ==
    /\ run \in {"webBack", "webRecovered"}
    /\ \/ snapshot' = FALSE /\ UNCHANGED safe
       \/ snapshot' = snapshot /\ safe' = FALSE
    /\ run' = IF run = "webBack" THEN "cleaned" ELSE "cleanedRecovered"
    /\ UNCHANGED <<intent, web, routed, record, tree, helper, ok, starts, history>>

Complete == intent' = IF safe THEN None ELSE intent

Publishable == safe /\ ok

\* The final proof; in its turn the report is stored with the release of the
\* intent in one transaction, which may roll back.  An acceptance that failed
\* releases its intent alone.
Finish(proved) ==
    /\ run = "cleaned"
    /\ \/ ~proved /\ UNCHANGED <<intent, reports>>
       \/ /\ proved /\ Publishable /\ SameGeneration
          /\ \/ intent' = None /\ reports' = reports \cup {web = "up" /\ ~snapshot}
             \/ UNCHANGED <<intent, reports>>
       \/ proved /\ ~(ok /\ SameGeneration) /\ Complete /\ UNCHANGED reports
    /\ Enters("idle")
    /\ UNCHANGED <<runtime, record, tree, helper, starts, since, foreign, refused>>

-----------------------------------------------------------------------------
(* The next start *)

\* The process dies anywhere, and the gateway with it.  Its successor removes job
\* containers, and then takes up an acceptance; an export waits for that.
Start(absent) ==
    /\ starts < MaxStarts
    /\ starts' = starts + 1
    /\ helper' = IF absent THEN FALSE ELSE helper
    /\ safe' = absent
    /\ ok' = TRUE
    /\ routed' = FALSE
    /\ \/ /\ intent = None
          /\ run' = "reconcile" /\ UNCHANGED <<intent, room>>
       \/ /\ Pending("export")
          /\ run' = "fence" /\ UNCHANGED <<intent, room>>
       \/ /\ Pending("acceptance") /\ intent.phase # "reserved" /\ absent
          /\ run' = "recover" /\ UNCHANGED <<intent, room>>
       \/ /\ Pending("acceptance") /\ intent.phase = "reserved" /\ absent
          /\ run' = "reconcile" /\ intent' = None /\ UNCHANGED room
       \/ /\ Pending("acceptance") /\ (absent => intent.phase = "reserved")
          /\ run' = "reconcile" /\ room' = Attention(room) /\ UNCHANGED intent
    /\ UNCHANGED <<web, snapshot, revision, tree, history>>

\* recoverPendingAndroidAcceptanceRestore, before anything is touched
Unrecoverable ==
    /\ run = "recover" /\ ~SameGeneration
    /\ room' = Attention(room)
    /\ Enters("reconcile")
    /\ UNCHANGED <<intent, runtime, revision, tree, helper, starts, history>>

\* The device is restored last; a legacy runtime is stopped for good.
Recover(proved) ==
    /\ run = "cleanedRecovered"
    /\ IF intent.phase = "legacy"
         THEN \/ web' = "stopped" /\ safe' = safe
              \/ web' = web /\ safe' = FALSE
         ELSE UNCHANGED <<web, safe>>
    /\ intent' = IF proved /\ safe' /\ SameGeneration THEN None ELSE intent
    /\ room' = CASE intent' = None /\ intent.phase = "legacy" -> "sleeping"
                 [] intent' # None -> Attention(room)
                 [] OTHER -> room
    /\ run' = "reconcile"
    /\ UNCHANGED <<routed, snapshot, revision, tree, helper, ok, starts, history>>

\* Mutant: the recovery goes on as if the mark had always landed.
MutantFence ==
    /\ run = "fence"
    /\ Enters("settle")
    /\ Broken \/ (Unmarked /\ UNCHANGED routed)
    /\ UNCHANGED <<intent, web, snapshot, tree, helper, starts, since, foreign, reports>>

\* The row says broken before anything external is asked.  A database that refuses
\* keeps nothing from being stopped, and lets nothing be settled.
Fence ==
    /\ run = "fence"
    /\ \/ Broken /\ Enters("settle")
       \/ Unmarked /\ UNCHANGED routed /\ Enters("unfenced")
    /\ UNCHANGED <<intent, web, snapshot, tree, helper, starts, since, foreign, reports>>

\* Only under a fence that landed, with no job left and every workload stopped
Settleable == run = "settle" /\ safe /\ web' = "stopped"

\* The Room's containers are stopped, and the publication is finished or
\* withdrawn under the stage's own identity; the intent goes last, if it can.
Settle ==
    /\ run \in {"settle", "unfenced"}
    /\ web' \in {web, "stopped"}
    /\ IF Settleable
         THEN intent' \in {None, intent} /\ tree' \in {tree, FALSE}
         ELSE UNCHANGED <<intent, tree>>
    /\ Enters("reconcile")
    /\ UNCHANGED <<routed, snapshot, record, helper, starts, history>>

\* The end of init: a Room that believes it is awake is put to sleep, unless an
\* acceptance still owns it; one that is broken or asleep keeps its status.  The
\* engine may not answer.
Reconcile ==
    /\ run = "reconcile"
    /\ \/ UNCHANGED <<web, room>>
       \/ /\ ~Pending("acceptance")
          /\ web' = "stopped"
          /\ room' = IF room \in {"ready", "attention"} THEN "sleeping" ELSE room
    /\ Enters("idle")
    /\ UNCHANGED <<intent, routed, snapshot, revision, tree, helper, starts, history>>

-----------------------------------------------------------------------------
(* Everything else *)

\* beginRoomStart: the intents gate it.
RoomStarts ==
    /\ run = "idle" /\ intent = None
    /\ room # "ready" \/ ~routed
    /\ web' = "up" /\ routed' = TRUE /\ room' = "ready"
    /\ UNCHANGED <<intent, snapshot, revision, tree, helper, flow, starts, history>>

\* sleepRoom, which an export's intent does not keep out and an acceptance's does
RoomSleeps ==
    /\ run = "idle"
    /\ ~Pending("acceptance")
    /\ routed' = FALSE
    /\ \/ web' = "stopped" /\ room' = IF intent = None THEN "sleeping" ELSE "broken"
       \/ UNCHANGED <<web, room>>
    /\ UNCHANGED <<intent, snapshot, revision, tree, helper, flow, starts, history>>

\* Work that another process admitted before the intent was claimed
OtherWork ==
    /\ Others
    /\ revision < MaxRevision
    /\ revision' = revision + 1 /\ foreign' = TRUE
    /\ UNCHANGED <<intent, runtime, room, tree, helper, flow, starts, since, refused, reports>>

\* A helper that nobody waits for may still publish.
HelperPublishes ==
    /\ helper
    /\ Appears /\ helper' = FALSE
    /\ UNCHANGED <<intent, runtime, record, flow, starts, foreign, refused, reports>>

\* The older build kept no generation of the network authority.
Init ==
    /\ \/ intent = None /\ web = "up" /\ snapshot = FALSE
       \/ /\ Old
          /\ intent = [kind |-> "acceptance", phase |-> "legacy", revision |-> 0]
          /\ web = "paused" /\ snapshot = TRUE
    /\ routed = TRUE /\ room = "ready" /\ revision = 0
    /\ tree = FALSE /\ helper = FALSE
    /\ run = "idle" /\ ok = TRUE /\ safe = TRUE /\ starts = 0
    /\ since = 0 /\ foreign = FALSE /\ refused = FALSE /\ reports = {}

Export == ClaimExport \/ PauseForExport \/ Publish \/ Record \/ Resumable \/ Resume \/ Contain

Acceptance ==
    \/ Reserve \/ ProveAgain \/ Mutate \/ Snapshot \/ ProveDevice \/ Seal \/ RestoreWeb \/ RemoveSnapshot
    \/ \E proved \in BOOLEAN : Finish(proved)

Recovery ==
    \/ \E absent \in BOOLEAN : Start(absent)
    \/ Unrecoverable \/ Fence \/ Settle \/ Reconcile
    \/ \E proved \in BOOLEAN : Recover(proved)

Next == Export \/ Acceptance \/ Recovery \/ RoomStarts \/ RoomSleeps \/ OtherWork \/ HelperPublishes

Spec == Init /\ [][Next]_vars

-----------------------------------------------------------------------------
(* Properties *)

Free == intent = None /\ run = "idle"

\* Every variable has its type.
TypeOK ==
    /\ intent = None \/ intent \in Intents
    /\ web \in {"up", "paused", "stopped"} /\ routed \in BOOLEAN /\ snapshot \in BOOLEAN
    /\ room \in {"ready", "attention", "broken", "sleeping"} /\ revision \in 0..MaxRevision
    /\ tree \in BOOLEAN /\ helper \in BOOLEAN /\ ok \in BOOLEAN /\ safe \in BOOLEAN
    /\ run \in {"idle", "claimed", "paused", "published", "publishedNew", "recorded", "resumeNew",
                "resumeOld", "contain", "reserved", "claimProved", "mutating", "copied",
                "deviceProved", "sealed", "webBack",
                "cleaned", "recover", "webRecovered", "cleanedRecovered", "fence", "settle",
                "unfenced", "reconcile"}
    /\ starts \in 0..MaxStarts /\ since \in 0..MaxRevision /\ foreign \in BOOLEAN
    /\ refused \in BOOLEAN /\ reports \in SUBSET BOOLEAN

\* When the intent is gone the Room is as it was: its web does not stay
\* paused, and no snapshot of the workspace stays behind.
NothingStaysBehind == Free => web # "paused" /\ ~snapshot

\* A file that an export left in the workspace moved the Room's revision
\* before the intent is gone: what was measured at the old revision is not
\* taken for this workspace.
PublicationIsKnown == Free /\ tree => revision > since

\* A Room whose export could not be settled serves nobody, and its row says so
\* unless the database refused the last attempt to write that: then the intent
\* alone keeps the Room closed, until a start can mark it.
UncertainIsFenced ==
    run = "idle" /\ Pending("export") => ~routed /\ (room = "broken" \/ refused)

\* A report is published only for a Room that is back: web up, no snapshot.
ReportsAreRestored == reports \subseteq {TRUE}

\* An export does not declare itself over when somebody else moved the
\* Room's record under it: then the Room stays fenced.
NoStaleRelease ==
    (run \in {"resumeNew", "resumeOld"}) /\ (intent' = None) => ~foreign
=============================================================================
