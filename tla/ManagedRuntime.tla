--------------------------- MODULE ManagedRuntime ----------------------------
(***************************************************************************)
(* The Linux runtime that DevHotel installs on the Host: one virtual       *)
(* machine, its disk with the Rooms, the ownership manifest, the marker of *)
(* the Hyper-V provider and the journal of a version change.  A launch     *)
(* prepares it: it provisions, updates, finishes or undoes an interrupted  *)
(* update, or only starts it.  Any external step can fail, the process can *)
(* die between two writes, and somebody else can take the machine's name.  *)
(*   manifest  ownership.json: the version and how far provisioning got    *)
(*   journal   update.json: the stage of the update Old -> New and how     *)
(*             often it was tried                                          *)
(*   marker    the version the provider's ownership marker names           *)
(*   machine   the version in the Notes of the machine, "user" for one     *)
(*             that is not DevHotel's, and whether it runs                 *)
(*   roomDisk  what state.vhdx holds                                       *)
(*   isos, fetched, carried   boot images the provider owns, downloads,    *)
(*             releases that this build still lists                        *)
(*   prep      the one preparation in flight; up = repair, not migration   *)
(*   halt      the marker that a shutdown read before it saved the machine *)
(*   wiping    a complete removal is between machine and files             *)
(***************************************************************************)
EXTENDS Naturals

CONSTANTS
    Old, New, None,
    MaxFaults,          \* bound: failing steps and strangers in a behaviour
    MaxKills,           \* bound: deaths of the process during a preparation
    Overlaps            \* a shutdown may run during a preparation

VARIABLES manifest, journal, marker, machine, roomDisk, isos, fetched, carried,
          prep, halt, wiping, removed, hits, kills

vars == <<manifest, journal, marker, machine, roomDisk, isos, fetched, carried,
          prep, halt, wiping, removed, hits, kills>>

Versions == {Old, New}
Phases == {"checking", "verifying", "provider", "daemon", "health", "ready", "broken"}
Stages == {"staging", "applying", "verifying", "committed", "rolling-back", "rolled-back", "failed"}
Terminal == {"committed", "rolled-back", "failed"}
MaxAttempts == 2

\* The stages a journal may move to (ALLOWED_TRANSITIONS).
Allowed(from, to) ==
    CASE from = "staging" -> to \in {"applying", "rolling-back", "failed"}
      [] from = "applying" -> to \in {"verifying", "rolling-back", "failed"}
      [] from = "verifying" -> to \in {"committed", "rolling-back", "failed"}
      [] from = "rolling-back" -> to \in {"rolled-back", "failed"}
      [] OTHER -> FALSE

Idle == [job |-> "none", pc |-> "idle", up |-> FALSE]
At(job, pc, up) == [job |-> job, pc |-> pc, up |-> up]

\* The version that the running job puts on the Host.
Target == IF prep.job \in {"rollback", "ensure"} THEN Old ELSE New

\* assertOwnedVm: the Notes of the machine are the ones the marker implies.
Owned == machine # None /\ marker # None /\ machine.version = marker
Running == Owned /\ machine.on

TypeOK ==
    /\ manifest \in [version : Versions, phase : Phases] \cup {None}
    /\ journal \in [stage : Stages, attempts : 1..MaxAttempts + 1] \cup {None}
    /\ marker \in Versions \cup {None}
    /\ machine \in [version : Versions \cup {"user"}, on : BOOLEAN] \cup {None}
    /\ roomDisk \in {"none", "blank", "rooms"}
    /\ isos \subseteq Versions /\ fetched \subseteq Versions /\ New \in carried
    /\ prep.job \in {"none", "provision", "update", "forward", "rollback", "ensure"}
    /\ prep.up \in BOOLEAN /\ halt \in Versions \cup {None} /\ wiping \in BOOLEAN
    /\ hits \in 0..MaxFaults /\ kills \in 0..MaxKills /\ removed \in BOOLEAN

\* A new Host, or one that an older build provisioned.
Init ==
    /\ carried \in {{New}, Versions} /\ fetched \in {{}, {Old}}
    /\ \/ /\ manifest = None /\ marker = None /\ machine = None
          /\ roomDisk = "none" /\ isos = {}
       \/ /\ manifest = [version |-> Old, phase |-> "ready"] /\ marker = Old
          /\ machine = [version |-> Old, on |-> TRUE] /\ roomDisk = "rooms" /\ isos = {Old}
    /\ journal = None /\ prep = Idle /\ halt = None /\ wiping = FALSE /\ removed = FALSE
    /\ hits = 0 /\ kills = 0

----------------------------------------------------------------------------
\* Where a preparation begins (prepareOnce, resumeInterruptedUpdate).

Quiet == prep = Idle /\ (Overlaps \/ (halt = None /\ ~wiping))
Pending == journal # None /\ journal.stage \notin Terminal
Blocked == journal # None /\ journal.stage \in {"rolled-back", "failed"}

\* An update that was tried too often, or that lost its release, is undone.
LaunchUndoes ==
    /\ Quiet /\ Pending /\ manifest # None
    /\ journal.attempts >= MaxAttempts
    /\ prep' = At("rollback", "back", FALSE)
    /\ UNCHANGED <<manifest, journal>>

\* The manifest already names the target: prove what is there and commit.
LaunchFinishes ==
    /\ Quiet /\ Pending /\ manifest # None
    /\ journal.attempts < MaxAttempts /\ manifest.version = New
    /\ prep' = At("forward", "fetch", TRUE)
    /\ UNCHANGED <<manifest, journal>>

\* A plausible mistake: an update that was undone is tried again at every launch.
MutantLaunchUpdates ==
    /\ Quiet /\ manifest # None /\ manifest.version = Old
    /\ Pending => journal.attempts < MaxAttempts
    /\ journal' = [stage |-> "staging",
                   attempts |-> IF journal = None THEN 1 ELSE journal.attempts + 1]
    /\ prep' = At("update", "fetch", FALSE)
    /\ UNCHANGED manifest

\* An older version is installed and its update is not barred: the journal is
\* opened, or opened again and the attempt counted, before anything is touched.
LaunchUpdates ==
    /\ Quiet /\ manifest # None /\ manifest.version = Old
    /\ Pending => journal.attempts < MaxAttempts
    /\ ~Blocked
    /\ journal' = [stage |-> "staging",
                   attempts |-> IF journal = None THEN 1 ELSE journal.attempts + 1]
    /\ prep' = At("update", "fetch", FALSE)
    /\ UNCHANGED manifest

\* The update failed here before: the old version stays and is started.
LaunchKeeps ==
    /\ Quiet /\ manifest # None /\ manifest.version = Old /\ Blocked
    /\ Old \in carried
    /\ prep' = At("ensure", "fetch", TRUE)
    /\ UNCHANGED <<manifest, journal>>

\* Nothing is installed, or the current version: provision from where it was.
LaunchProvisions ==
    /\ Quiet /\ ~Pending
    /\ manifest # None => manifest.version = New
    /\ manifest' = IF manifest = None \/ manifest.phase = "broken"
                   THEN [version |-> New, phase |-> "checking"] ELSE manifest
    /\ prep' = At("provision", "fetch", manifest'.phase \in {"daemon", "ready"})
    /\ UNCHANGED journal

Launch == /\ LaunchUndoes \/ LaunchFinishes \/ LaunchUpdates \/ LaunchKeeps \/ LaunchProvisions
          /\ UNCHANGED <<marker, machine, roomDisk, isos, fetched, carried, halt, wiping,
                         removed, hits, kills>>

----------------------------------------------------------------------------
\* One step of the preparation.

Is(pc) == prep.pc = pc
Next_(pc) == prep' = [prep EXCEPT !.pc = pc]
Done == prep' = Idle

\* What an error makes of the job: an update is undone, the rest is reported.
Fails == prep' = CASE prep.job \in {"update", "forward"} -> At("rollback", "back", FALSE)
                   [] prep.job = "rollback" -> [prep EXCEPT !.pc = "giveUp"]
                   [] OTHER -> [prep EXCEPT !.pc = "break"]

Stage(to) == journal' = [journal EXCEPT !.stage = to]
Phase(to) == manifest' = [manifest EXCEPT !.phase = to]

\* The verified download; a copy that is there is used again.
Fetch ==
    /\ Is("fetch")
    /\ fetched' = fetched \cup {Target}
    /\ CASE prep.job = "update" -> Next_("apply")
         [] prep.job = "rollback" -> Next_("adopt")
         [] prep.job = "forward" -> Next_("walk")
         [] prep.job = "ensure" -> Next_("image")
         [] OTHER -> CASE manifest.phase \in {"checking", "verifying"} -> Next_("verify")
                       [] manifest.phase = "health" -> Next_("prove")
                       [] OTHER -> Next_("image")
    /\ UNCHANGED <<manifest, journal, marker, machine, roomDisk, isos>>

Verify ==
    /\ \/ Is("verify") /\ Phase("verifying") /\ Next_("verified")
       \/ Is("verified") /\ Phase("provider") /\ Next_("image")
    /\ UNCHANGED <<journal, marker, machine, roomDisk, isos, fetched>>

Apply ==
    /\ Is("apply") /\ Stage("applying") /\ Next_("adopt")
    /\ UNCHANGED <<manifest, marker, machine, roomDisk, isos, fetched>>

\* adoptVersion: the only place where the manifest's version changes.
Adopt ==
    /\ Is("adopt")
    /\ manifest' = [version |-> Target, phase |-> "provider"]
    /\ Next_("unload")
    /\ UNCHANGED <<journal, marker, machine, roomDisk, isos, fetched>>

\* A plausible mistake: the marker moves while the old machine is still there.
MutantUnload ==
    /\ Is("unload")
    /\ IF marker \in {Target, None} THEN Next_("image") /\ UNCHANGED isos
       ELSE isos' = isos \cup {Target} /\ Next_("swap")
    /\ UNCHANGED <<manifest, journal, marker, machine, roomDisk, fetched>>

\* migrateFrom: the machine is proved to be the old one and taken away, its
\* disks stay.  A marker that is at the target already, or none, needs no move.
Unload ==
    /\ Is("unload")
    /\ IF marker \in {Target, None}
       THEN Next_("image") /\ UNCHANGED <<machine, isos>>
       ELSE /\ isos' = isos \cup {Target}
            /\ IF machine # None /\ ~Owned THEN Fails /\ UNCHANGED machine
               ELSE machine' = None /\ Next_("swap")
    /\ UNCHANGED <<manifest, journal, marker, roomDisk, fetched>>

Swap ==
    /\ Is("swap") /\ marker' = Target /\ Next_("image")
    /\ UNCHANGED <<manifest, journal, machine, roomDisk, isos, fetched>>

\* provision(): its own copy of the image, then the marker, then the machine.
Image ==
    /\ Is("image") /\ isos' = isos \cup {Target} /\ Next_("mark")
    /\ UNCHANGED <<manifest, journal, marker, machine, roomDisk, fetched>>

Mark ==
    /\ Is("mark")
    /\ IF marker = Target THEN Next_("create") /\ UNCHANGED marker
       ELSE IF marker = None /\ machine = None THEN marker' = Target /\ Next_("create")
       ELSE Fails /\ UNCHANGED marker
    /\ UNCHANGED <<manifest, journal, machine, roomDisk, isos, fetched>>

\* An existing machine must be DevHotel's; a new one reuses the disk that is there.
Create ==
    /\ Is("create")
    /\ IF machine = None
       THEN /\ machine' = [version |-> Target, on |-> FALSE]
            /\ roomDisk' = IF roomDisk = "none" THEN "blank" ELSE roomDisk
            /\ Next_(IF prep.up THEN "start" ELSE "placed")
       ELSE /\ IF Owned THEN Next_(IF prep.up THEN "start" ELSE "placed") ELSE Fails
            /\ UNCHANGED <<machine, roomDisk>>
    /\ UNCHANGED <<manifest, journal, marker, isos, fetched>>

\* The machine is in place: the journal says so, and it is brought up.
Placed ==
    /\ Is("placed")
    /\ IF prep.job = "provision"
       THEN Phase("daemon") /\ prep' = [prep EXCEPT !.pc = "image", !.up = TRUE] /\ UNCHANGED journal
       ELSE /\ IF prep.job = "update" THEN Stage("verifying") ELSE UNCHANGED journal
            /\ Next_("bring") /\ UNCHANGED manifest
    /\ UNCHANGED <<marker, machine, roomDisk, isos, fetched>>

\* A resumed update walks the stages of a fresh one.
Walk ==
    /\ Is("walk")
    /\ IF journal.stage = "staging" THEN Stage("applying") /\ UNCHANGED prep
       ELSE IF journal.stage = "applying" THEN Stage("verifying") /\ UNCHANGED prep
       ELSE Next_("bring") /\ UNCHANGED journal
    /\ UNCHANGED <<manifest, marker, machine, roomDisk, isos, fetched>>

\* bringUp: repair is provision and start.
Bring ==
    /\ Is("bring")
    /\ CASE manifest.phase \in {"checking", "verifying"} -> Fails /\ UNCHANGED manifest
         [] manifest.phase = "provider" ->
              Phase("daemon") /\ prep' = [prep EXCEPT !.pc = "image", !.up = TRUE]
         [] OTHER -> prep' = [prep EXCEPT !.pc = "image", !.up = TRUE] /\ UNCHANGED manifest
    /\ UNCHANGED <<journal, marker, machine, roomDisk, isos, fetched>>

Start ==
    /\ Is("start")
    /\ IF marker = Target /\ Owned
       THEN machine' = [machine EXCEPT !.on = TRUE] /\ Next_("healthy")
       ELSE Fails /\ UNCHANGED machine
    /\ UNCHANGED <<manifest, journal, marker, roomDisk, isos, fetched>>

\* The guest answers with the identity it was provisioned with.
Healthy ==
    /\ Is("healthy")
    /\ IF Running /\ marker = Target /\ manifest.version = Target THEN Next_("proved") ELSE Fails
    /\ UNCHANGED <<manifest, journal, marker, machine, roomDisk, isos, fetched>>

Proved ==
    /\ Is("proved")
    /\ CASE prep.job = "ensure" \/ (prep.job = "provision" /\ manifest.phase = "ready") ->
              Done /\ UNCHANGED manifest
         [] manifest.phase = "daemon" ->
              Phase("health") /\ Next_(IF prep.job = "provision" THEN "prove" ELSE "proved")
         [] manifest.phase = "health" -> Phase("ready") /\ Next_("settle")
         [] manifest.phase = "ready" -> Next_("settle") /\ UNCHANGED manifest
         [] OTHER -> Fails /\ UNCHANGED manifest
    /\ UNCHANGED <<journal, marker, machine, roomDisk, isos, fetched>>

\* A launch that finds the phase health-checking only observes.
Prove ==
    /\ Is("prove")
    /\ IF Running /\ marker = Target THEN Phase("ready") /\ Done ELSE Fails /\ UNCHANGED manifest
    /\ UNCHANGED <<journal, marker, machine, roomDisk, isos, fetched>>

\* The journal ends, the images of other versions go, the journal is forgotten.
Settle ==
    /\ \/ /\ Is("settle") /\ prep.job = "rollback"
          /\ Stage("rolled-back") /\ Done /\ UNCHANGED isos
       \/ /\ Is("settle") /\ prep.job # "rollback"
          /\ IF Allowed(journal.stage, "committed")
             THEN Stage("committed") /\ Next_(IF prep.job = "update" THEN "prune" ELSE "clear")
             ELSE Fails /\ UNCHANGED journal
          /\ UNCHANGED isos
       \/ /\ Is("prune") /\ Next_("clear") /\ UNCHANGED journal
          /\ isos' = IF marker = Target THEN isos \cap {Target} ELSE isos
       \/ Is("clear") /\ journal' = None /\ Done /\ UNCHANGED isos
    /\ UNCHANGED <<manifest, marker, machine, roomDisk, fetched>>

\* rollback(): a version that this build no longer carries cannot be put back.
Back ==
    /\ Is("back")
    /\ IF Old \in carried
       THEN /\ IF Allowed(journal.stage, "rolling-back") THEN Stage("rolling-back") ELSE UNCHANGED journal
            /\ Next_("fetch")
       ELSE Stage("failed") /\ Next_("break")
    /\ UNCHANGED <<manifest, marker, machine, roomDisk, isos, fetched>>

GiveUp ==
    /\ \/ Is("giveUp") /\ Stage("failed") /\ Next_("break") /\ UNCHANGED manifest
       \/ Is("break") /\ Phase("broken") /\ Done /\ UNCHANGED journal
    /\ UNCHANGED <<marker, machine, roomDisk, isos, fetched>>

\* A download, a Hyper-V command or the guest's answer fails; the command that
\* takes the machine away may fail after it did so.
Falters ==
    /\ hits < MaxFaults /\ hits' = hits + 1
    /\ \/ Is("fetch") /\ Target \notin fetched
       \/ prep.pc \in {"verified", "unload", "image", "create", "start", "healthy", "prove"}
    /\ Fails
    /\ \/ UNCHANGED machine
       \/ Is("unload") /\ marker \notin {Target, None} /\ Owned /\ machine' = None
    /\ UNCHANGED <<manifest, journal, marker, roomDisk, isos, fetched, carried, halt, wiping,
                   removed, kills>>

Step == /\ Fetch \/ Verify \/ Apply \/ Adopt \/ Unload \/ Swap \/ Image \/ Mark \/ Create
           \/ Placed \/ Walk \/ Bring \/ Start \/ Healthy \/ Proved \/ Prove \/ Settle
           \/ Back \/ GiveUp
        /\ UNCHANGED <<carried, halt, wiping, removed, hits, kills>>

----------------------------------------------------------------------------
\* Shutdown, removal, and what others do.

\* stop(): the machine is saved, then the marker that was read is written back.
Stop ==
    /\ \/ /\ Overlaps \/ prep = Idle
          /\ halt = None /\ ~wiping /\ manifest # None /\ marker = manifest.version /\ Owned
          /\ machine' = [machine EXCEPT !.on = FALSE] /\ halt' = marker
          /\ UNCHANGED marker
       \/ /\ halt # None /\ marker' = halt /\ halt' = None
          /\ UNCHANGED machine
    /\ UNCHANGED <<manifest, journal, roomDisk, isos, fetched, carried, prep, wiping,
                   removed, hits, kills>>

\* remove("complete"): without the proof nothing is touched; the machine and
\* its disks go first, the provider's files after them.
Remove ==
    /\ \/ /\ prep = Idle /\ halt = None /\ ~wiping /\ manifest # None /\ marker = manifest.version
          /\ machine # None => Owned
          /\ machine' = None /\ roomDisk' = "none" /\ wiping' = TRUE
          /\ UNCHANGED <<marker, isos, removed>>
       \/ /\ wiping /\ wiping' = FALSE /\ marker' = None /\ isos' = {} /\ removed' = TRUE
          /\ UNCHANGED <<machine, roomDisk>>
    /\ UNCHANGED <<manifest, journal, fetched, carried, prep, halt, hits, kills>>

\* roomChannel(): Rooms write on the disk of a runtime that was proved.
Work ==
    /\ manifest # None /\ manifest.phase = "ready" /\ marker = manifest.version /\ Running
    /\ roomDisk' = "rooms"
    /\ UNCHANGED <<manifest, journal, marker, machine, isos, fetched, carried, prep, halt,
                   wiping, removed, hits, kills>>

\* Somebody gives DevHotel's machine away, or takes the free name.
Stranger ==
    /\ hits < MaxFaults /\ hits' = hits + 1
    /\ machine' = [version |-> "user", on |-> TRUE]
    /\ UNCHANGED <<manifest, journal, marker, roomDisk, isos, fetched, carried, prep, halt,
                   wiping, removed, kills>>

\* The process dies; files and the machine stay.
Kill ==
    /\ kills < MaxKills /\ kills' = kills + 1
    /\ prep # Idle \/ halt # None \/ wiping
    /\ prep' = Idle /\ halt' = None /\ wiping' = FALSE
    /\ UNCHANGED <<manifest, journal, marker, machine, roomDisk, isos, fetched, carried,
                   removed, hits>>

Next == Launch \/ Step \/ Falters \/ Stop \/ Remove \/ Work \/ Stranger \/ Kill

Spec == Init /\ [][Next]_vars

----------------------------------------------------------------------------
\* No crash leaves a machine whose version nobody can name
\* (docs/managed-runtime-hyperv.md, "Updating the runtime").
VersionIsKnown == machine # None /\ machine.version # "user" => marker = machine.version

\* A manifest that says ready names the version of the marker, and an update
\* that is over left the version it says it left.
OutcomeIsTrue ==
    /\ (manifest # None /\ manifest.phase = "ready" /\ ~removed) => marker = manifest.version
    /\ (journal # None /\ journal.stage = "rolled-back") => manifest.version = Old
    /\ (journal # None /\ journal.stage = "committed") => manifest.version = New

\* A Host that keeps dying is put back after the second attempt.
TwoAttempts == journal # None => journal.attempts <= MaxAttempts

\* The version on the Host moves only while the journal says so and to the
\* version the manifest names; a failed update is not walked into again.
MovesAreJournaled ==
    /\ (marker # None /\ marker' # None /\ marker' # marker) =>
         /\ journal # None /\ journal.stage \in {"applying", "rolling-back"}
         /\ manifest.version = marker'
    /\ (Blocked /\ journal' # journal) => FALSE

\* Only the removal that the user asked for takes the Rooms' disk, and a
\* machine that is not DevHotel's is never touched.
RoomsAreKept ==
    /\ (roomDisk = "rooms" /\ roomDisk' # "rooms") => (wiping' /\ prep = Idle)
    /\ (machine # None /\ machine.version = "user") => machine' = machine
=============================================================================
