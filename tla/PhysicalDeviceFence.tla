------------------------ MODULE PhysicalDeviceFence ------------------------
(***************************************************************************)
(* One leased phone, the adb commands that Rooms run on it and the final,  *)
(* read-only acceptance proof (orchestrator.ts).                           *)
(*                                                                         *)
(* Two tables fence the phone across processes: a row per writer that may  *)
(* be running (an intent), and one row for a proof (the gate).  The adb    *)
(* child of a command outlives the process that spawned it.  A process is  *)
(* named by the number of its start; who gets the phone is DeviceBroker's. *)
(***************************************************************************)
EXTENDS Integers

CONSTANTS
    Rooms,
    Ops,            \* the commands of a behaviour
    KindOf,         \* install, tracked, drive: writers; accept: a proof
    RoomFor,
    MaxLeases,      \* bound: leases granted
    MaxStarts,      \* bound: restarts of the application
    None

Writers == {"install", "tracked", "drive"}

Kinds == Writers \cup {"accept"}

Busy == {"captured", "fenced", "running", "evidence", "recorded", "proving", "proved"}

LeaseIds == 0..MaxLeases

Leases == [id: LeaseIds, room: Rooms, purpose: {"development", "acceptance"}]

Gates == [op: Ops, boot: 0..MaxStarts, lease: LeaseIds]

Receipts == [app: Ops, lease: LeaseIds]

\* What the constants are; None stands for a row that is not there.
FenceAssumption ==
    /\ KindOf \in [Ops -> Kinds]
    /\ RoomFor \in [Ops -> Rooms]
    /\ MaxLeases \in Nat
    /\ MaxStarts \in Nat
    /\ None \notin Leases \cup Gates \cup Receipts \cup Ops

VARIABLES
    lease,      \* the active lease of the phone, or None
    granted,    \* how many leases there have been
    boot,       \* the process that is running
    intents,    \* android_physical_operation_intents
    gate,       \* android_physical_acceptance_proof_gates, None or the row
    op,         \* per command, how far it is, its process and its captured lease
    child,      \* writers whose adb child lives
    app,        \* the command whose APK is on the phone, or None
    writes,     \* history: writers that changed the phone, in bits of Ops
    receipt,    \* android_app_installs: whose install is tracked, under which lease
    seen,       \* per proof, the writes at its first read and the Room's revision
    revision,   \* per Room, stateRevision
    published   \* history: per published report, whether its proof was disturbed

fence == <<intents, gate>>
phone == <<app, writes>>
broker == <<lease, granted>>
report == <<seen, published>>
vars == <<broker, boot, fence, op, child, phone, receipt, report, revision>>

-----------------------------------------------------------------------------
(* What the code asks *)

Holds(o) == lease # None /\ lease.id = op[o].lease

\* workerProcessLiveness: false only for a process that certainly ended; the
\* pid of a dead one may be taken by another, which counts as alive.
DeadOwner(row, certain) == row.boot # boot /\ certain

\* removeDeadPhysicalAcceptanceProofGate, in the caller's transaction
GateAfter(certain) == IF gate # None /\ DeadOwner(gate, certain) THEN None ELSE gate

\* The Room's lock
Locked(r) == \E o \in Ops : RoomFor[o] = r /\ op[o].at \in Busy

Idle == [at |-> "idle", lease |-> 0]

Over == [at |-> "over", lease |-> 0]

Moves(o, at) == op' = [op EXCEPT ![o] = IF at = "over" THEN Over ELSE [@ EXCEPT !.at = at]]

\* Mutant: only live writers count
MutantUnresolved == {o \in intents : op[o].at # "over"}

\* Writers that may still be at the phone
Unresolved == intents

-----------------------------------------------------------------------------
(* The broker and the process *)

LeaseGranted(r, purpose) ==
    /\ lease = None /\ granted < MaxLeases
    /\ granted' = granted + 1
    /\ lease' = [id |-> granted', room |-> r, purpose |-> purpose]
    /\ UNCHANGED <<boot, fence, op, child, phone, receipt, report, revision>>

\* Released, expired, revoked or gone stale
LeaseClosed ==
    /\ lease # None
    /\ lease' = None
    /\ UNCHANGED <<granted, boot, fence, op, child, phone, receipt, report, revision>>

\* Commands end with their process; their children may not.
Interrupted == [o \in Ops |-> IF op[o].at \in Busy THEN Over ELSE op[o]]

\* The process died; a new one removes gates of dead owners, and no intents,
\* because the children of the old process may still write.
Start(certain) ==
    /\ boot < MaxStarts
    /\ boot' = boot + 1
    /\ gate' = IF gate # None /\ certain THEN None ELSE gate
    /\ op' = Interrupted
    /\ UNCHANGED <<broker, intents, child, phone, receipt, report, revision>>

-----------------------------------------------------------------------------
(* Commands *)

\* A proof asks for a lease that is for acceptance, and for a tracked install
\* under it.
MayProve == lease.purpose = "acceptance" /\ receipt # None /\ receipt.lease = lease.id

\* The Room's turn: the lease is captured by the first authorization, and
\* bytes are staged.
Capture(o) ==
    /\ op[o].at = "idle" /\ ~Locked(RoomFor[o])
    /\ lease # None /\ lease.room = RoomFor[o]
    /\ KindOf[o] = "accept" => MayProve
    /\ op' = [op EXCEPT ![o] = [at |-> "captured", lease |-> lease.id]]
    /\ seen' = [seen EXCEPT ![o] = [writes |-> {}, revision |-> revision[RoomFor[o]]]]
    /\ UNCHANGED <<broker, boot, fence, child, phone, receipt, published, revision>>

MayWrite(o, certain) == Holds(o) /\ GateAfter(certain) = None /\ Unresolved = {}

\* beginPhysicalDeviceOperation: one transaction
BeginWrite(o, certain) ==
    /\ KindOf[o] \in Writers /\ op[o].at = "captured"
    /\ IF MayWrite(o, certain)
         THEN /\ intents' = intents \cup {o}
              /\ gate' = GateAfter(certain)
              /\ Moves(o, "fenced")
         ELSE UNCHANGED fence /\ Moves(o, "over")
    /\ UNCHANGED <<broker, boot, child, phone, receipt, report, revision>>

\* The capability of an earlier tracked install ends before bytes move.
Revoked(o) == IF KindOf[o] = "drive" THEN receipt ELSE None

\* withDeviceHeartbeat up to its await: authorize, pulse, revoke, spawn.
Spawn(o) ==
    /\ op[o].at = "fenced"
    /\ IF Holds(o)
         THEN /\ child' = child \cup {o}
              /\ receipt' = Revoked(o)
              /\ Moves(o, "running")
              /\ UNCHANGED intents
         ELSE /\ intents' = intents \ {o}
              /\ Moves(o, "over")
              /\ UNCHANGED <<child, receipt>>
    /\ UNCHANGED <<broker, boot, gate, phone, report, revision>>

\* What the child does to the phone, while anybody or nobody waits for it
ChildWrites(o) ==
    /\ o \in child
    /\ app' = IF KindOf[o] = "drive" THEN app ELSE o
    /\ writes' = writes \cup {o}
    /\ UNCHANGED <<broker, boot, fence, op, child, receipt, report, revision>>

\* It closes: done, failed, killed by a pulse that missed the lease, or at its
\* deadline.
ChildCloses(o) ==
    /\ o \in child
    /\ child' = child \ {o}
    /\ UNCHANGED <<broker, boot, fence, op, phone, receipt, report, revision>>

\* The final pulse and the finally: the intent goes after the child closed.
FinishWrite(o) ==
    /\ op[o].at = "running" /\ o \notin child
    /\ intents' = intents \ {o}
    /\ Moves(o, IF Holds(o) /\ KindOf[o] = "tracked" THEN "evidence" ELSE "over")
    /\ UNCHANGED <<broker, boot, gate, child, phone, receipt, report, revision>>

Authorized(o) == Holds(o)

\* installAndRecordAndroidArtifactLocked after the install: the package on the
\* phone is the tracked one, and the lease is still held.
Record(o) ==
    /\ op[o].at = "evidence"
    /\ IF app = o /\ Authorized(o)
         THEN receipt' = [app |-> o, lease |-> op[o].lease] /\ Moves(o, "recorded")
         ELSE receipt' = receipt /\ Moves(o, "over")
    /\ UNCHANGED <<broker, boot, fence, child, phone, report, revision>>

\* confirmInstallEvidence; the receipt goes when it does not confirm
Confirm(o) ==
    /\ op[o].at = "recorded"
    /\ \/ app = o /\ Holds(o) /\ receipt' = receipt
       \/ receipt' = IF receipt # None /\ receipt.app = o THEN None ELSE receipt
    /\ Moves(o, "over")
    /\ UNCHANGED <<broker, boot, fence, child, phone, report, revision>>

-----------------------------------------------------------------------------
(* The final proof *)

Row(o) == [op |-> o, boot |-> boot, lease |-> op[o].lease]

Gated(o) == gate = Row(o) /\ Holds(o) /\ lease.purpose = "acceptance"

\* beginPhysicalAcceptanceProof: one transaction
BeginProof(o, certain) ==
    /\ KindOf[o] = "accept" /\ op[o].at = "captured"
    /\ IF Holds(o) /\ Unresolved = {} /\ GateAfter(certain) = None
         THEN gate' = Row(o) /\ Moves(o, "proving")
         ELSE gate' = gate /\ Moves(o, "over")
    /\ UNCHANGED <<broker, boot, intents, child, phone, receipt, report, revision>>

\* The seed and the initial two pulses, which only read
FirstProof(o) ==
    /\ op[o].at = "proving"
    /\ Gated(o) /\ receipt # None /\ app = receipt.app
    /\ seen' = [seen EXCEPT ![o].writes = writes]
    /\ Moves(o, "proved")
    /\ UNCHANGED <<broker, boot, fence, child, phone, receipt, published, revision>>

ReleasedGate(o) == IF gate = Row(o) THEN None ELSE gate

\* Anything that does not prove releases the gate.
ProofFails(o) ==
    /\ op[o].at \in {"proving", "proved"}
    /\ gate' = ReleasedGate(o)
    /\ Moves(o, "over")
    /\ UNCHANGED <<broker, boot, intents, child, phone, receipt, report, revision>>

\* The last two pulses and, without an await, the transaction that stores the
\* report: gate, lease, receipt and revision are those of the beginning.
Publish(o) ==
    /\ op[o].at = "proved"
    /\ Gated(o)
    /\ receipt # None /\ receipt.lease = op[o].lease /\ app = receipt.app
    /\ revision[RoomFor[o]] = seen[o].revision
    /\ gate' = None
    /\ published' = published \cup {[op |-> o, whole |-> writes = seen[o].writes]}
    /\ Moves(o, "over")
    /\ UNCHANGED <<broker, boot, intents, child, phone, receipt, seen, revision>>

\* Something else of the Room is stored, by whoever needs no lock for it.
RoomChanges(r) ==
    /\ revision[r] = 0
    /\ revision' = [revision EXCEPT ![r] = 1]
    /\ UNCHANGED <<broker, boot, fence, op, child, phone, receipt, report>>

-----------------------------------------------------------------------------
(* The specification *)

Init ==
    /\ lease = None /\ granted = 0 /\ boot = 0
    /\ intents = {} /\ gate = None
    /\ op = [o \in Ops |-> Idle]
    /\ child = {} /\ app = None /\ writes = {} /\ receipt = None
    /\ seen = [o \in Ops |-> [writes |-> {}, revision |-> 0]]
    /\ published = {}
    /\ revision = [r \in Rooms |-> 0]

World ==
    \/ \E r \in Rooms, purpose \in {"development", "acceptance"} : LeaseGranted(r, purpose)
    \/ LeaseClosed
    \/ \E certain \in BOOLEAN : Start(certain)
    \/ \E r \in Rooms : RoomChanges(r)

Command(o) ==
    \/ Capture(o) \/ Spawn(o) \/ ChildWrites(o) \/ ChildCloses(o) \/ FinishWrite(o)
    \/ Record(o) \/ Confirm(o) \/ FirstProof(o) \/ ProofFails(o) \/ Publish(o)
    \/ \E certain \in BOOLEAN :
          BeginWrite(o, certain) \/ BeginProof(o, certain)

Next == World \/ \E o \in Ops : Command(o)

Spec == Init /\ [][Next]_vars

-----------------------------------------------------------------------------
(* Properties *)

\* Every variable has its type.
TypeOK ==
    /\ lease \in Leases \cup {None}
    /\ granted \in LeaseIds /\ boot \in 0..MaxStarts
    /\ intents \in SUBSET Ops /\ child \in SUBSET Ops /\ writes \in SUBSET Ops
    /\ gate \in Gates \cup {None}
    /\ op \in [Ops -> [at: Busy \cup {"idle", "over"}, lease: LeaseIds]]
    /\ app \in Ops \cup {None}
    /\ receipt \in Receipts \cup {None}
    /\ seen \in [Ops -> [writes: SUBSET Ops, revision: 0..1]]
    /\ revision \in [Rooms -> 0..1]
    /\ published \in SUBSET [op: Ops, whole: BOOLEAN]

\* While a proof of the running process stands, no writer is at the phone: not
\* one whose lease was lost, and not one that a dead process left behind.
NoWriterUnderProof == gate # None /\ gate.boot = boot => child = {}

\* Two writers never share the phone, whoever held the lease, and also after
\* the process died between their start and their end.
OneWriter == \A c, d \in child : c = d

\* A published report was not written under: between its first read and its
\* publication nothing that DevHotel started changed the phone.
PublishedUndisturbed == \A p \in published : p.whole

\* The tracked install is what is on the phone, whatever other Rooms installed
\* and wherever the process died.
ReceiptIsTrue == receipt # None => app = receipt.app

\* A proof that stands keeps the receipt: a refused writer has no effect.
ProofKeepsReceipt ==
    gate # None /\ gate.boot = boot => receipt' = receipt
=============================================================================
