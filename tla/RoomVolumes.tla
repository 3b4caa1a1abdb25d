----------------------------- MODULE RoomVolumes -----------------------------
(***************************************************************************)
(* What is a Room's volume: a name with the labels of the Room, or one of  *)
(* an older version that was written down when it was adopted, on the      *)
(* engine that was pinned (backend/ociCli.ts).  The engine may be another  *)
(* one after a restart, and others use it too.                             *)
(***************************************************************************)
EXTENDS Naturals

CONSTANTS
    Volumes,        \* names of volumes of one Room
    Recorded,       \* those whose generation the Room's row names
    Engines,        \* what may answer at the pinned endpoint
    MaxCalls,       \* bound: operations
    MaxMoves,       \* bound: what others do
    Midway,         \* TRUE: others also take a name or the endpoint between a proof and its use
    None

VARIABLES
    engine,         \* the engine that answers
    there,          \* engine -> name -> the volume: its stamp, labels, whether it is in use
    stamps,         \* volumes there have been
    pin,            \* the identity file
    proven,         \* engineIdentityVerified
    registry,       \* the adoption file: its engine and name -> stamp
    loaded,         \* what the process read of it
    manifest,       \* the Room has a row and a manifest
    ours,           \* the stamps that DevHotel made or took over
    rowNames,       \* name -> the stamp that held the Room's data on the pinned engine
    doing,          \* the operation
    noticed,        \* since the engine changed, a call failed or the health was read
    calls, moves

vars == <<engine, there, stamps, pin, proven, registry, loaded, manifest, ours, rowNames, doing, noticed, calls, moves>>

-----------------------------------------------------------------------------

Stored == [stamp : Nat \ {0}, labels : {"none", "room", "other"}, used : BOOLEAN]

RoomVolumesAssumption ==
    /\ Engines # {} /\ Recorded \subseteq Volumes /\ MaxCalls \in Nat /\ MaxMoves \in Nat
    /\ None \notin Engines \cup Volumes /\ None # "ours" /\ None \notin Nat \cup Stored

Idle == [kind |-> None, name |-> None, at |-> "over", seen |-> None,
         result |-> None, aware |-> FALSE]

At(step) == doing.at = step
Goes(step) == doing' = [doing EXCEPT !.at = step]
Ends(result) == doing' = [doing EXCEPT !.at = "over", !.result = result]

Empty(e) == [engine |-> e, names |-> [n \in Volumes |-> None]]

\* loadLegacyVolumeRegistry: read once; a file of another engine is refused.
Legible == loaded # None \/ registry = None \/ registry.engine = engine
Legacy == CASE loaded # None   -> loaded
            [] registry # None -> registry
            [] OTHER           -> Empty(engine)
Looks == loaded' = Legacy

\* isRecordedLegacyVolume: the record names this very volume.
IsRecorded(n, v) == v.labels = "none" /\ Legacy.names[n] = v.stamp
\* assertRoomVolumeOwnership
Owned(n, v) == v.labels = "room" \/ (Legible /\ IsRecorded(n, v))

Takes(n, v) ==
    /\ ours' = ours \cup {v.stamp}
    /\ rowNames' = IF engine = pin THEN [rowNames EXCEPT ![n] = v.stamp] ELSE rowNames

Volume(labels) == [stamp |-> stamps + 1, labels |-> labels, used |-> FALSE]

Put(n, v) == there' = [there EXCEPT ![engine][n] = v]

-----------------------------------------------------------------------------
(* Operations: "adopt", "ensure", "remove" and "list", which is read only.  *)

Begin(kind, n) ==
    /\ At("over") /\ calls < MaxCalls /\ calls' = calls + 1
    /\ doing' = [Idle EXCEPT !.kind = kind, !.name = n, !.at = "prove", !.aware = noticed]
    /\ UNCHANGED <<engine, there, stamps, pin, proven, registry, loaded, manifest, ours, rowNames, noticed, moves>>

\* verifyEngineIdentity of a fresh reading: the first one is the pin.
Verified == pin' = (IF pin = None THEN engine ELSE pin) /\ proven' = (pin \in {None, engine})

\* assertPinnedEngineIdentity
Prove ==
    /\ At("prove")
    /\ IF proven THEN UNCHANGED <<pin, proven>> ELSE Verified
    /\ IF proven \/ pin \in {None, engine} THEN Goes("inspect") ELSE Ends("refused")
    /\ UNCHANGED <<engine, there, stamps, registry, loaded, manifest, ours, rowNames, noticed, calls, moves>>

Now == there[engine][doing.name]

\* adoptLegacyRoomVolumes: a volume without labels that the Room has no record of.
InspectForAdoption ==
    /\ At("inspect") /\ doing.kind = "adopt"
    /\ IF Now = None \/ Now.labels = "room" THEN Ends("done") /\ UNCHANGED loaded
       ELSE IF ~Legible THEN Ends("refused") /\ UNCHANGED loaded
       ELSE /\ Looks
            /\ IF IsRecorded(doing.name, Now) THEN Ends("done")
               ELSE IF manifest /\ Now.labels = "none"
                    THEN doing' = [doing EXCEPT !.at = "write", !.seen = Now]
                    ELSE Ends("refused")
    /\ UNCHANGED <<engine, there, stamps, pin, proven, registry, manifest, ours, rowNames, noticed, calls, moves>>

\* The file is replaced as a whole.
Write ==
    /\ At("write")
    /\ registry' = [Legacy EXCEPT !.names[doing.name] = doing.seen.stamp] /\ loaded' = registry'
    /\ Takes(doing.name, doing.seen) /\ Ends("done")
    /\ UNCHANGED <<engine, there, stamps, pin, proven, manifest, noticed, calls, moves>>

\* ensureRoomVolume
InspectForUse ==
    /\ At("inspect") /\ doing.kind = "ensure"
    /\ IF Now = None
       THEN /\ UNCHANGED <<loaded, ours, rowNames>>
            /\ IF doing.name \in Recorded /\ rowNames[doing.name] # None THEN Ends("lost") ELSE Goes("create")
       ELSE /\ IF Now.labels = "none" /\ Legible THEN Looks ELSE UNCHANGED loaded
            /\ IF Owned(doing.name, Now) THEN Ends("done") /\ Takes(doing.name, Now)
               ELSE Ends("refused") /\ UNCHANGED <<ours, rowNames>>
    /\ UNCHANGED <<engine, there, stamps, pin, proven, registry, manifest, noticed, calls, moves>>

\* docker volume create gives back a volume of that name that has come meanwhile.
Create ==
    /\ At("create")
    /\ IF Now = None
       THEN Put(doing.name, Volume("room")) /\ stamps' = stamps + 1 /\ ours' = ours \cup {stamps'}
       ELSE UNCHANGED <<there, stamps, ours>>
    /\ Goes("made")
    /\ UNCHANGED <<engine, pin, proven, registry, loaded, manifest, rowNames, noticed, calls, moves>>

Made ==
    /\ At("made")
    /\ IF Now # None /\ Owned(doing.name, Now) THEN Ends("done") /\ Takes(doing.name, Now)
       ELSE Ends("refused") /\ UNCHANGED <<ours, rowNames>>
    /\ UNCHANGED <<engine, there, stamps, pin, proven, registry, loaded, manifest, noticed, calls, moves>>

\* removeManagedVolume, removeRoomVolume
InspectForRemoval ==
    /\ At("inspect") /\ doing.kind = "remove"
    /\ IF Now # None /\ Now.labels = "none" /\ Legible THEN Looks ELSE UNCHANGED loaded
    /\ IF Now = None THEN Ends("done")
       ELSE IF Owned(doing.name, Now) THEN doing' = [doing EXCEPT !.at = "rm", !.seen = Now]
       ELSE Ends("refused")
    /\ UNCHANGED <<engine, there, stamps, pin, proven, registry, manifest, ours, rowNames, noticed, calls, moves>>

\* docker volume rm refuses a volume in use.
Rm ==
    /\ At("rm")
    /\ IF Now # None /\ ~Now.used THEN Put(doing.name, None) /\ Goes("gone")
       ELSE Ends("refused") /\ UNCHANGED there
    /\ UNCHANGED <<engine, stamps, pin, proven, registry, loaded, manifest, ours, rowNames, noticed, calls, moves>>

\* The record of a volume that is gone goes too.
Gone ==
    /\ At("gone")
    /\ IF Now # None THEN Ends("refused") /\ UNCHANGED <<registry, loaded>>
       ELSE /\ Ends("done")
            /\ IF doing.seen.labels = "none"
               THEN registry' = [Legacy EXCEPT !.names[doing.name] = None] /\ loaded' = registry'
               ELSE UNCHANGED <<registry, loaded>>
    /\ UNCHANGED <<engine, there, stamps, pin, proven, manifest, ours, rowNames, noticed, calls, moves>>

\* completeVolumeUsage: whose a listed volume is; nothing it cannot read makes it ours.
List ==
    /\ At("inspect") /\ doing.kind = "list"
    /\ IF Now # None /\ Now.labels = "none" /\ Legible THEN Looks ELSE UNCHANGED loaded
    /\ doing' = [doing EXCEPT !.at = "over", !.seen = Now,
                              !.result = IF Now # None /\ Owned(doing.name, Now) THEN "ours" ELSE "unowned"]
    /\ UNCHANGED <<engine, there, stamps, pin, proven, registry, manifest, ours, rowNames, noticed, calls, moves>>

-----------------------------------------------------------------------------
(* Around the operations *)

Moves == moves < MaxMoves /\ moves' = moves + 1
Quiet == Midway \/ At("over")

\* A health read proves the identity again, at any time.
Health ==
    /\ ~noticed /\ Verified /\ noticed' = TRUE
    /\ UNCHANGED <<engine, there, stamps, registry, loaded, manifest, ours, rowNames, doing, calls, moves>>

\* A call, of this operation or another, fails in the transport.
CallFails ==
    /\ Moves /\ proven' = FALSE /\ noticed' = TRUE
    /\ IF At("over") THEN UNCHANGED doing ELSE Ends("failed")
    /\ UNCHANGED <<engine, there, stamps, pin, registry, loaded, manifest, ours, rowNames, calls>>

EngineChanges ==
    /\ Moves /\ Quiet /\ \E e \in Engines \ {engine} : engine' = e
    /\ noticed' = FALSE
    /\ UNCHANGED <<there, stamps, pin, proven, registry, loaded, manifest, ours, rowNames, doing, calls>>

\* DevHotel dies; what is on disk stays.
Restart ==
    /\ Moves /\ proven' = FALSE /\ loaded' = None /\ doing' = Idle
    /\ UNCHANGED <<engine, there, stamps, pin, registry, manifest, ours, rowNames, noticed, calls>>

\* Others make, use and remove volumes; a container that names a missing one makes it,
\* without labels.
Others(n) ==
    /\ Moves
    /\ LET v == there[engine][n]
       IN  \/ v = None /\ (\E labels \in {"none", "other"} : Put(n, Volume(labels))) /\ stamps' = stamps + 1
           \/ v # None /\ Put(n, [v EXCEPT !.used = ~@]) /\ UNCHANGED stamps
           \/ v # None /\ ~v.used /\ (Quiet \/ n # doing.name) /\ Put(n, None) /\ UNCHANGED stamps
    /\ UNCHANGED <<engine, pin, proven, registry, loaded, manifest, ours, rowNames, doing, noticed, calls>>

\* The Room's row and manifest go.
Forget ==
    /\ Moves /\ manifest /\ At("over") /\ manifest' = FALSE
    /\ UNCHANGED <<engine, there, stamps, pin, proven, registry, loaded, ours, rowNames, doing, noticed, calls>>

-----------------------------------------------------------------------------

\* What an older version left: volumes without labels that hold the Room's data.
Left(old) ==
    /\ there = [e \in Engines |-> [n \in Volumes |->
                   IF e = engine /\ n \in old THEN [stamp |-> 1, labels |-> "none", used |-> FALSE] ELSE None]]
    /\ rowNames = [n \in Volumes |-> IF n \in old THEN 1 ELSE None]
    /\ stamps = IF old = {} THEN 0 ELSE 1

Init ==
    /\ engine \in {CHOOSE e \in Engines : TRUE}
    /\ \E old \in {{}} \cup {{n} : n \in Volumes} : Left(old)
    /\ pin = None /\ proven = FALSE /\ registry = None /\ loaded = None /\ manifest = TRUE
    /\ ours = {} /\ doing = Idle /\ noticed = FALSE /\ calls = 0 /\ moves = 0

Next ==
    \/ \E kind \in {"adopt", "ensure", "remove", "list"}, n \in Volumes : Begin(kind, n)
    \/ Prove \/ InspectForAdoption \/ Write \/ InspectForUse \/ Create \/ Made
    \/ InspectForRemoval \/ Rm \/ Gone \/ List
    \/ Health \/ CallFails \/ EngineChanges \/ Restart \/ Forget
    \/ \E n \in Volumes : Others(n)

Spec == Init /\ [][Next]_vars

-----------------------------------------------------------------------------
(* Properties *)

\* Every variable has its type.
TypeOK ==
    /\ engine \in Engines /\ pin \in Engines \cup {None} /\ proven \in BOOLEAN
    /\ doing.kind \in {None, "adopt", "ensure", "remove", "list"}
    /\ \A e \in Engines, n \in Volumes : there[e][n] # None => there[e][n].stamp \in 1 .. stamps
    /\ \A n \in Volumes : rowNames[n] \in (1 .. stamps) \cup {None}

\* What DevHotel removes it made or took over, and nothing uses it.
RemovesOwn ==
    \A e \in Engines, n \in Volumes :
      At("rm") /\ doing' # doing /\ there[e][n] # None /\ there'[e][n] = None
      => e = engine /\ there[e][n].stamp \in ours /\ ~there[e][n].used

\* Once a changed engine was noticed, no operation that begins makes or removes a volume there.
EngineIsPinned ==
    doing.aware /\ doing.at \in {"create", "rm"} /\ there' # there /\ doing' # doing => engine = pin

\* What the Room goes on with is what held its data, or what was taken over by name;
\* an empty volume never stands in for a generation that the row names.
DataIsTheSame ==
    \A n \in Recorded :
      rowNames[n] # None /\ rowNames'[n] # rowNames[n] => there[engine][n].labels = "none"

\* A listing calls a volume the Room's only when it is.
ListingIsTrue == doing.kind = "list" /\ doing.result = "ours" => doing.seen.stamp \in ours \/ doing.seen.labels = "room"
=============================================================================
