-------------------------- MODULE EmulatorHelpers --------------------------
(***************************************************************************)
(* The Android emulator of one Room and the containers that send it adb    *)
(* commands (ociCli.ts): the emulator is created in the network namespace  *)
(* of its control anchor, replaced, and brought back by a recovery, and a  *)
(* command runs in a helper that joins the emulator, between two proofs of *)
(* what it talks to.  One helper is resident and shared by plain commands, *)
(* a streaming reader builds one of its own.                               *)
(***************************************************************************)
EXTENDS Naturals, TLC

CONSTANTS
    Calls,          \* commands that may be under way at once
    Plain,          \* those of them that may use the resident helper
    MaxFaults,      \* bound: engine calls that fail or lose their answer, and deaths of DevHotel
    MaxMishaps,     \* bound: what other hands do to the containers
    MaxRuns,        \* bound: commands per Room
    None

Slots == Calls \union {"resident", "spare"}     \* the containers that may be helpers

VARIABLES
    anchor,         \* the control anchor: is it up, and its start
    emulator,       \* the emulator container, or None
    workload,       \* the runtime anchor and the web: their state and start
    attested,       \* the stored attestation of a recovery, or None
    helper,         \* the helper in each slot: is, and the emulator it joins
    known,          \* the slot of the resident helper DevHotel remembers, or None
    call,           \* each command: where it is, what it proved, what answered it
    job,            \* the creation, removal or recovery of the emulator
    lost,           \* helpers that a failed removal or a death left to the next start
    faults, mishaps, runs

rig == <<anchor, emulator, workload, attested>>
bounds == <<faults, mishaps, runs>>
vars == <<rig, helper, known, call, job, lost, bounds>>

-----------------------------------------------------------------------------
(* What the engine shows *)

NoHelper == [is |-> "none", of |-> None]

Free(c) == [pc |-> "idle", proof |-> None, slot |-> None, answer |-> None]

Idle == [pc |-> "idle", kind |-> None, seen |-> None, from |-> None]

Faulty == faults < MaxFaults /\ faults' = faults + 1

Identity == [id |-> emulator.id, start |-> emulator.start, net |-> anchor.start]

\* The emulator was created for this start of the anchor.
Labelled == emulator.label = anchor.start

\* matchesNetworkRecoveryAttestation
Attested == attested = Identity

MutantObserved(o) == o # None /\ o.id = emulator.id /\ o.start # emulator.start

\* A recovery saw this very start of the emulator join this start of the anchor.
Observed(o) == /\ o # None
               /\ o.net = anchor.start /\ o.id = emulator.id /\ o.start # emulator.start

\* exactRunningJoinedSandboxId: the engine does not say which namespace a joined
\* container is in, so its label or an attestation has to.
Joined(o) ==
    /\ anchor.up
    /\ emulator # None /\ emulator.is = "running"
    /\ Labelled \/ Attested \/ Observed(o)

\* assertFencedEmulatorRecoveryTopology does without the programs of the Room.
RecoveryProof(o) == Joined(o)

\* assertFencedEmulatorTopology
LiveProof == Joined(None) /\ workload.is \in {"running", "paused"}

Proved(recovery) == IF recovery THEN RecoveryProof(None) ELSE LiveProof

Evidence == Identity @@ [workload |-> workload]

-----------------------------------------------------------------------------
(* Removal of an exact helper: an error is reported for a helper of its own *)
(* and swallowed for a resident one.                                        *)

Drops(s) ==
    \/ helper' = [helper EXCEPT ![s] = NoHelper] /\ UNCHANGED <<lost, faults>>
    \/ /\ helper[s].is # "none"
       /\ Faulty
       /\ lost' = lost \union {s}
       /\ UNCHANGED helper

\* reapResidentFencedHelper
Reaps ==
    /\ known' = None
    /\ IF known = None THEN UNCHANGED <<helper, lost, faults>> ELSE Drops(known)

-----------------------------------------------------------------------------
(* A command *)

At(c, pc) == call[c].pc = pc

Goes(c, pc) == call' = [call EXCEPT ![c].pc = pc]

Fails(c) == call' = [call EXCEPT ![c] = Free(c)]

\* Only a recovery may do without the workload of the Room.
Recovers == job.pc = "recovered"

\* The emulator, its namespace and what surrounds it are proved before anything is built.
Begin(c) ==
    /\ At(c, "idle") /\ runs < MaxRuns
    /\ job.pc \in {"idle", "recovered"}
    /\ Proved(Recovers)
    /\ call' = [call EXCEPT ![c] = [Free(c) EXCEPT !.pc = IF c \in Plain THEN "look" ELSE "create", !.proof = Evidence]]
    /\ runs' = runs + 1
    /\ UNCHANGED <<rig, helper, known, job, lost, faults, mishaps>>

\* reproveTopology
Reproved(c) == Proved(Recovers) /\ Evidence = call[c].proof

\* residentFencedHelperIsOurs
Ours(c) ==
    /\ known # None
    /\ helper[known] = [is |-> "running", of |-> call[c].proof.id]

\* liveResidentFencedHelper
Look(c) ==
    /\ At(c, "look")
    /\ IF Ours(c)
       THEN /\ call' = [call EXCEPT ![c].pc = "exec", ![c].slot = known]
            /\ UNCHANGED <<helper, known, lost, faults>>
       ELSE Reaps /\ Goes(c, "build")
    /\ UNCHANGED <<rig, job, mishaps, runs>>

\* startResidentFencedHelper: an inert container first; a failed create with a
\* lost answer leaves one nobody names.
Build(c) ==
    /\ At(c, "build")
    /\ \E s \in {"resident", "spare"} :
          /\ helper[s].is = "none"
          /\ \/ /\ helper' = [helper EXCEPT ![s] = [is |-> "created", of |-> call[c].proof.id]]
                /\ call' = [call EXCEPT ![c].pc = "built", ![c].slot = s]
                /\ UNCHANGED <<lost, faults>>
             \/ /\ Faulty /\ Goes(c, "create")
                /\ \/ UNCHANGED <<helper, lost>>
                   \/ /\ helper' = [helper EXCEPT ![s] = [is |-> "created", of |-> call[c].proof.id]]
                      /\ lost' = lost \union {s}
    /\ UNCHANGED <<rig, known, job, mishaps, runs>>

\* Both leftovers of earlier failures are in the way of the model, not of the code.
NoRoom(c) ==
    /\ At(c, "build")
    /\ \A s \in {"resident", "spare"} : helper[s].is # "none"
    /\ Goes(c, "create")
    /\ UNCHANGED <<rig, helper, known, job, lost, bounds>>

\* It is proved with the emulator it joins, started and remembered; otherwise the
\* record is dropped and the command builds a helper of its own.
StartResident(c) ==
    /\ At(c, "built")
    /\ LET s == call[c].slot
           ready == helper[s] = [is |-> "created", of |-> call[c].proof.id] /\ Reproved(c)
       IN  \/ /\ ready
              /\ helper' = [helper EXCEPT ![s].is = "running"]
              /\ known' = s
              /\ Goes(c, "exec")
              /\ UNCHANGED <<lost, faults>>
           \/ /\ ~ready
              /\ known' = None
              /\ Drops(s)
              /\ call' = [call EXCEPT ![c].pc = "create", ![c].slot = None]
    /\ UNCHANGED <<rig, job, mishaps, runs>>

StartResidentFails(c) ==
    /\ At(c, "built") /\ Faulty
    /\ known' = None
    /\ helper' = [helper EXCEPT ![call[c].slot] = NoHelper]
    /\ call' = [call EXCEPT ![c].pc = "create", ![c].slot = None]
    /\ UNCHANGED <<rig, job, lost, mishaps, runs>>

\* Whoever is behind the namespace answers: the emulator when it runs there.
Answers(of) ==
    IF emulator # None /\ emulator.is = "running" /\ emulator.id = of /\ emulator.net = anchor.start /\ anchor.up
    THEN Identity ELSE "error"

Exec(c) ==
    /\ At(c, "exec")
    /\ call' = [call EXCEPT ![c].pc = "after",
                            ![c].answer = IF helper[call[c].slot].is = "running"
                                          THEN Answers(helper[call[c].slot].of) ELSE "error"]
    /\ UNCHANGED <<rig, helper, known, job, lost, bounds>>

\* A cancelled command throws before anything is proved; the helper stays.
ExecAborts(c) ==
    /\ At(c, "exec")
    /\ Fails(c)
    /\ UNCHANGED <<rig, helper, known, job, lost, bounds>>

\* The proof after the command decides whether its result is accepted.
Accept(c) ==
    /\ At(c, "after")
    /\ IF c \in Plain /\ call[c].slot \in {"resident", "spare"}
       THEN \/ ~Reproved(c) /\ UNCHANGED <<helper, known, lost, faults>>
            \/ Reproved(c) /\ Ours(c) /\ UNCHANGED <<helper, known, lost, faults>>
            \/ Reproved(c) /\ ~Ours(c) /\ Reaps
       ELSE UNCHANGED <<helper, known, lost, faults>>
    /\ Fails(c)
    /\ UNCHANGED <<rig, job, mishaps, runs>>

\* The results that Accept hands to the caller.
Accepts(c) ==
    /\ At(c, "after") /\ Reproved(c)
    /\ c \in Plain /\ call[c].slot \in {"resident", "spare"} => Ours(c)

-----------------------------------------------------------------------------
(* A helper of its own: inert, proved, started, removed, proved again. *)

Create(c) ==
    /\ At(c, "create")
    /\ \/ /\ helper' = [helper EXCEPT ![c] = [is |-> "created", of |-> call[c].proof.id]]
          /\ call' = [call EXCEPT ![c].pc = "check", ![c].slot = c]
          /\ UNCHANGED faults
       \/ /\ Faulty        \* an id that is not returned is cleaned up by name
          /\ \/ UNCHANGED helper /\ Fails(c)
             \/ /\ helper' = [helper EXCEPT ![c] = [is |-> "created", of |-> call[c].proof.id]]
                /\ call' = [call EXCEPT ![c].pc = "cleanup", ![c].slot = c]
    /\ UNCHANGED <<rig, known, job, lost, mishaps, runs>>

Check(c) ==
    /\ At(c, "check")
    /\ IF helper[c].is = "created" /\ Reproved(c) THEN Goes(c, "start") ELSE Goes(c, "cleanup")
    /\ UNCHANGED <<rig, helper, known, job, lost, bounds>>

\* docker start -a, until the command ends or is cancelled; the container removes
\* itself when it ends (--rm).
Start(c) ==
    /\ At(c, "start")
    /\ helper' = [helper EXCEPT ![c].is = IF helper[c].is = "created" THEN "running" ELSE helper[c].is]
    /\ call' = [call EXCEPT ![c].pc = "remove",
                            ![c].answer = IF helper[c].is = "created" THEN Answers(helper[c].of) ELSE "error"]
    /\ UNCHANGED <<rig, known, job, lost, bounds>>

Aborts(c) ==
    /\ At(c, "start")
    /\ helper' = [helper EXCEPT ![c].is = IF helper[c].is = "created" THEN "running" ELSE helper[c].is]
    /\ Goes(c, "cleanup")
    /\ UNCHANGED <<rig, known, job, lost, bounds>>

RemoveHelper(c) ==
    /\ At(c, "remove")
    /\ Drops(c)
    /\ IF helper[c].is # "none" /\ helper'[c].is # "none" THEN Fails(c) ELSE Goes(c, "after")
    /\ UNCHANGED <<rig, known, job, mishaps, runs>>

\* A command that does not get that far removes its exact helper, or says that it could not.
Cleanup(c) ==
    /\ At(c, "cleanup")
    /\ Drops(c) /\ Fails(c)
    /\ UNCHANGED <<rig, known, job, mishaps, runs>>

-----------------------------------------------------------------------------
(* The emulator is replaced: removed with its resident helper, then created. *)

AtJob(pc) == job.pc = pc

Moves(pc) == job' = [job EXCEPT !.pc = pc]

Quiet == \A c \in Calls : At(c, "idle")

\* The lifecycle lock keeps commands away.
BeginReplace ==
    /\ job.pc \in {"idle", "recovered"} /\ Quiet /\ runs < MaxRuns
    /\ Reaps
    /\ \E kind \in {"image", "managed"} : job' = [Idle EXCEPT !.pc = "remove", !.kind = kind]
    /\ runs' = runs + 1
    /\ UNCHANGED <<rig, call, mishaps>>

RemoveEmulator ==
    /\ AtJob("remove")
    /\ \/ emulator' = None /\ Moves("join") /\ UNCHANGED faults
       \/ Faulty /\ job' = Idle /\ UNCHANGED emulator
    /\ UNCHANGED <<anchor, workload, attested, helper, known, call, lost, mishaps, runs>>

\* assertAndroidControlAnchorForEmulator, then an inert container with the label
\* of the anchor's start; ids are never used twice.
Inert == [id |-> runs, is |-> "created", start |-> 0, net |-> 0, label |-> anchor.start]

CreateEmulator ==
    /\ AtJob("join") /\ job.kind = "image"
    /\ \/ ~anchor.up /\ job' = Idle /\ UNCHANGED <<emulator, faults>>
       \/ /\ anchor.up
          /\ emulator' = Inert
          /\ job' = [job EXCEPT !.pc = "boot", !.seen = [net |-> anchor.start]]
          /\ UNCHANGED faults
       \/ anchor.up /\ Faulty /\ Moves("undo") /\ (emulator' = Inert \/ UNCHANGED emulator)
    /\ UNCHANGED <<anchor, workload, attested, helper, known, call, lost, mishaps, runs>>

\* An Android version with a pinned image of the managed runtime: provisioned first, its container carries its configuration.
CreateManaged ==
    /\ AtJob("join") /\ job.kind = "managed"
    /\ \/ ~anchor.up /\ job' = Idle /\ UNCHANGED <<emulator, faults>>
       \/ Faulty /\ job' = Idle /\ UNCHANGED emulator
       \/ /\ anchor.up
          /\ emulator' = Inert
          /\ Moves("boot") /\ UNCHANGED faults
       \/ anchor.up /\ Faulty /\ Moves("undo") /\ (emulator' = Inert \/ UNCHANGED emulator)
    /\ UNCHANGED <<anchor, workload, attested, helper, known, call, lost, mishaps, runs>>

Boots == /\ emulator.is = "created" /\ anchor.up
         /\ emulator' = [emulator EXCEPT !.is = "running", !.start = @ + 1, !.net = anchor.start]

\* It starts in the namespace of the anchor, and the start is verified.
StartEmulator ==
    /\ AtJob("boot") /\ job.kind = "image"
    /\ \/ Boots /\ Moves("verify") /\ UNCHANGED faults
       \/ ~anchor.up /\ Moves("undo") /\ UNCHANGED <<emulator, faults>>
       \/ Faulty /\ Moves("undo") /\ UNCHANGED emulator
    /\ UNCHANGED <<anchor, workload, attested, helper, known, call, lost, mishaps, runs>>

\* The managed emulator is not verified after its start.
StartManaged ==
    /\ AtJob("boot") /\ job.kind = "managed"
    /\ \/ Boots /\ job' = Idle /\ UNCHANGED faults
       \/ ~anchor.up /\ Moves("undo") /\ UNCHANGED <<emulator, faults>>
       \/ Faulty /\ Moves("undo") /\ UNCHANGED emulator
    /\ UNCHANGED <<anchor, workload, attested, helper, known, call, lost, mishaps, runs>>

\* The anchor must still be the start that was proved before the creation.
Verify ==
    /\ AtJob("verify")
    /\ IF emulator.is = "running" /\ anchor.up /\ anchor.start = job.seen.net THEN job' = Idle ELSE Moves("undo")
    /\ UNCHANGED <<rig, helper, known, call, lost, bounds>>

\* removeAbortedEmulatorCreate
UndoCreate ==
    /\ AtJob("undo")
    /\ job' = Idle
    /\ \/ emulator' = None /\ UNCHANGED <<lost, faults>>
       \/ Faulty /\ lost' = lost \union {"emulator"} /\ UNCHANGED emulator
    /\ UNCHANGED <<anchor, workload, attested, helper, known, call, mishaps, runs>>

-----------------------------------------------------------------------------
(* A recovery starts the exact anchor and emulator that are there, and     *)
(* nothing else (startExistingEmulatorForRecovery).                        *)

BeginRecovery ==
    /\ job.pc = "idle" /\ Quiet /\ runs < MaxRuns
    /\ emulator # None
    /\ job' = [pc |-> "anchor", kind |-> "recovery", from |-> None,
               seen |-> [id |-> emulator.id, start |-> emulator.start, workload |-> workload]]
    /\ runs' = runs + 1
    /\ UNCHANGED <<rig, helper, known, call, lost, faults, mishaps>>

StartAnchor ==
    /\ AtJob("anchor")
    /\ \/ anchor.up /\ Moves("witness") /\ UNCHANGED <<anchor, faults>>
       \/ /\ ~anchor.up
          /\ anchor' = [up |-> TRUE, start |-> anchor.start + 1]
          /\ Moves("witness") /\ UNCHANGED faults
       \/ ~anchor.up /\ Faulty /\ job' = Idle /\ UNCHANGED anchor
    /\ UNCHANGED <<emulator, workload, attested, helper, known, call, lost, mishaps, runs>>

\* The start of the anchor is witnessed before the emulator may join it.
Witness ==
    /\ AtJob("witness")
    /\ IF emulator # None /\ emulator.is = "running" THEN Moves("prove")
       ELSE IF emulator # None /\ emulator.is = "exited" /\ anchor.up
       THEN job' = [job EXCEPT !.pc = "prepare",
                               !.from = [net |-> anchor.start, id |-> emulator.id, start |-> job.seen.start]]
       ELSE job' = Idle
    /\ UNCHANGED <<rig, helper, known, call, lost, bounds>>

\* prepareDockerAndroidEmulatorRestart: the bootstrap identity of the image goes back
\* into the stopped container.
Prepare ==
    /\ AtJob("prepare")
    /\ \/ Moves("restart") /\ UNCHANGED faults
       \/ Faulty /\ job' = Idle
    /\ UNCHANGED <<rig, helper, known, call, lost, mishaps, runs>>

RestartEmulator ==
    /\ AtJob("restart")
    /\ \/ /\ anchor.up /\ emulator.is = "exited"
          /\ emulator' = [emulator EXCEPT !.is = "running", !.start = @ + 1, !.net = anchor.start]
          /\ Moves("prove") /\ UNCHANGED faults
       \/ emulator.is = "running" /\ Moves("prove") /\ UNCHANGED <<emulator, faults>>
       \/ ~anchor.up /\ emulator.is = "exited" /\ job' = Idle /\ UNCHANGED <<emulator, faults>>
       \/ Faulty /\ job' = Idle /\ UNCHANGED emulator
    /\ UNCHANGED <<anchor, workload, attested, helper, known, call, lost, mishaps, runs>>

\* writeNetworkRecoveryAttestation
Attests == attested' = Identity

\* Nothing but the anchor and the emulator may have moved; what was witnessed is
\* attested when the label of the emulator is of an older start of the anchor.
Attest ==
    /\ AtJob("prove")
    /\ IF RecoveryProof(job.from) /\ emulator.id = job.seen.id /\ workload = job.seen.workload
       THEN /\ Moves("recovered")
            /\ IF job.from # None /\ ~Labelled THEN Attests ELSE UNCHANGED attested
       ELSE job' = Idle /\ UNCHANGED attested
    /\ UNCHANGED <<anchor, emulator, workload, helper, known, call, lost, bounds>>

EndRecovery ==
    /\ AtJob("recovered") /\ Quiet
    /\ job' = Idle
    /\ UNCHANGED <<rig, helper, known, call, lost, bounds>>

-----------------------------------------------------------------------------
(* What happens to DevHotel and to the containers *)

\* A death loses the record of the resident helper and every command.
Die ==
    /\ Faulty
    /\ call' = [c \in Calls |-> Free(c)]
    /\ job' = Idle /\ known' = None
    /\ lost' = lost \union {s \in Slots : helper[s].is # "none"}
                 \union (IF job.pc \in {"boot", "verify", "undo"} THEN {"emulator"} ELSE {})
    /\ UNCHANGED <<rig, helper, mishaps, runs>>

\* removeStartupStaleJobs
Startup ==
    /\ Quiet /\ job = Idle /\ known = None
    /\ \E s \in lost \intersect Slots :
          /\ helper' = [helper EXCEPT ![s] = NoHelper]
          /\ lost' = lost \ {s}
    /\ UNCHANGED <<rig, known, call, job, bounds>>

\* A resident helper ends by itself when it is idle and stays as an exited
\* container; one that was left by its command goes when the command's time is over.
HelperEnds ==
    /\ \E s \in Slots :
          /\ helper[s].is = "running"
          /\ IF s \in Calls THEN helper' = [helper EXCEPT ![s] = NoHelper] /\ lost' = lost \ {s}
             ELSE helper' = [helper EXCEPT ![s].is = "exited"] /\ UNCHANGED lost
    /\ mishaps < MaxMishaps /\ mishaps' = mishaps + 1
    /\ UNCHANGED <<rig, known, call, job, faults, runs>>

\* The container engine restarts.
EngineRestarts ==
    /\ mishaps < MaxMishaps /\ mishaps' = mishaps + 1
    /\ anchor' = [anchor EXCEPT !.up = FALSE]
    /\ emulator' = IF emulator = None \/ emulator.is = "created" THEN emulator
                   ELSE [emulator EXCEPT !.is = "exited"]
    /\ workload' = [workload EXCEPT !.is = "exited"]
    /\ helper' = [s \in Slots |-> CASE helper[s].is # "running" -> helper[s]
                                     [] s \in Calls -> NoHelper
                                     [] OTHER -> [helper[s] EXCEPT !.is = "exited"]]
    /\ UNCHANGED <<attested, known, call, job, lost, faults, runs>>

\* Its user stops or restarts a container.
Outside ==
    /\ mishaps < MaxMishaps /\ mishaps' = mishaps + 1
    /\ \/ /\ \/ anchor' = [anchor EXCEPT !.up = FALSE]
             \/ anchor' = [up |-> TRUE, start |-> anchor.start + 1]
          /\ UNCHANGED <<emulator, workload>>
       \/ /\ emulator # None /\ emulator.is # "created"
          /\ \/ emulator' = [emulator EXCEPT !.is = "exited"]
             \/ anchor.up /\ emulator' = [emulator EXCEPT !.is = "running", !.start = @ + 1, !.net = anchor.start]
          /\ UNCHANGED <<anchor, workload>>
       \/ /\ workload' = [is |-> IF workload.is = "exited" THEN "running" ELSE "exited",
                          start |-> workload.start + 1]
          /\ UNCHANGED <<anchor, emulator>>
    /\ UNCHANGED <<attested, helper, known, call, job, lost, faults, runs>>

-----------------------------------------------------------------------------

Init ==
    /\ anchor = [up |-> TRUE, start |-> 1]
    /\ emulator = [id |-> 0, is |-> "running", start |-> 1, net |-> 1, label |-> 1]
    /\ workload = [is |-> "running", start |-> 1]
    /\ attested = None
    /\ helper = [s \in Slots |-> NoHelper]
    /\ known = None
    /\ call = [c \in Calls |-> Free(c)]
    /\ job = Idle
    /\ lost = {}
    /\ faults = 0 /\ mishaps = 0 /\ runs = 0

Command(c) ==
    \/ Begin(c) \/ Look(c) \/ Build(c) \/ NoRoom(c) \/ StartResident(c) \/ StartResidentFails(c)
    \/ Exec(c) \/ ExecAborts(c) \/ Accept(c)
    \/ Create(c) \/ Check(c) \/ Start(c) \/ Aborts(c) \/ RemoveHelper(c) \/ Cleanup(c)

Replace == BeginReplace \/ RemoveEmulator \/ CreateEmulator \/ CreateManaged \/ StartEmulator \/ StartManaged
           \/ Verify \/ UndoCreate

Recover == BeginRecovery \/ StartAnchor \/ Witness \/ Prepare \/ RestartEmulator \/ Attest \/ EndRecovery

Next ==
    \/ \E c \in Calls : Command(c)
    \/ Replace \/ Recover
    \/ Die \/ Startup \/ HelperEnds \/ EngineRestarts \/ Outside

Spec == Init /\ [][Next]_vars

-----------------------------------------------------------------------------
(* Properties *)

\* Every variable has its type.
TypeOK ==
    /\ anchor.up \in BOOLEAN /\ anchor.start \in Nat
    /\ emulator # None => emulator.is \in {"created", "running", "exited"}
    /\ known \in {None, "resident", "spare"}
    /\ \A s \in Slots : helper[s].is \in {"none", "created", "running", "exited"}
    /\ lost \subseteq Slots \union {"emulator"}

\* A result that the caller gets is from the emulator as it is now, in the namespace
\* that is there now: a restart or a replacement between the two proofs is noticed.
AnswersAreCurrent ==
    \A c \in Calls : Accepts(c) /\ ~At(c, "after")' => call[c].answer \in {Identity, "error"}

\* A helper that exists belongs to a command that is under way or is the resident one,
\* and otherwise a removal failed or DevHotel died.
HelpersHaveOwners ==
    \A s \in Slots : helper[s].is # "none" =>
        \/ s = known \/ s \in lost
        \/ \E c \in Calls : call[c].slot = s

\* What is attested of a restart is true: an emulator that is proved by it shares the
\* namespace of the anchor it is vouched for with.
ProvedIsJoined ==
    Joined(None) => emulator.net = anchor.start

\* A replacement that failed leaves no emulator that nobody started.
NoHalfEmulator ==
    job = Idle /\ emulator # None => emulator.is # "created" \/ "emulator" \in lost

\* A recovery ends with the emulator it found and leaves the workload as it was.
RecoveryKeepsWorkload ==
    (job.kind = "recovery" /\ job.pc # "recovered" /\ job'.pc = "recovered") =>
       emulator.id = job.seen.id /\ workload = job.seen.workload
=============================================================================
