------------------------------ MODULE HostSync ------------------------------
(***************************************************************************)
(* Replacing the workspace of a Room with the Host folder it is linked to. *)
(* The folder is imported into a generation that was never used; the safe  *)
(* variant inspects the Room first, asks for a confirmation of what it     *)
(* found, and compares again while the Room is paused.  Then the Room is   *)
(* recreated on the new generation and row, baseline and the generation    *)
(* that is retained are published in one transaction.  Programs of the     *)
(* Room write meanwhile, every engine call may fail, and the app may die   *)
(* between any two steps.                                                  *)
(***************************************************************************)
EXTENDS Naturals, FiniteSets

CONSTANTS
    None,
    Edits,      \* what programs may write into the workspace, each once
    MaxGen,     \* bound on the generations
    MaxHost,    \* bound on the changes of the Host folder
    MaxMishaps  \* bound on failing calls, crashes and expired confirmations

VARIABLES
    folder,     \* the version of the Host folder
    gens,       \* generation -> content, or None
    record,     \* the Room's row and the settings beside it
    token,      \* the pending confirmation: what it is bound to, or None
    sync,       \* the sync under way
    runtime,    \* the web: the generation that it runs on and its mode
    written, mishaps

vars == <<folder, gens, record, token, sync, runtime, written, mishaps>>

Gens == 0 .. MaxGen
Content == [host : 0 .. MaxHost, edits : SUBSET Edits]

HostSyncAssumption ==
    /\ MaxGen \in Nat \ {0} /\ MaxHost \in Nat /\ MaxMishaps \in Nat
    /\ None \notin Gens \cup Content

Imported == [host |-> folder, edits |-> {}]
Idle == [step |-> "idle", safe |-> FALSE, accepted |-> None, next |-> 0, drop |-> None]

Init ==
    /\ folder = 0 /\ gens = [g \in Gens |-> IF g = 1 THEN Imported ELSE None]
    /\ record = [status |-> "awake", ws |-> 1, top |-> 1, kept |-> None, base |-> Imported, label |-> "synced"]
    /\ token = None /\ sync = Idle /\ runtime = [gen |-> 1, mode |-> "running"]
    /\ written = {} /\ mishaps = 0

Current == gens[record.ws]
Awake == record.status = "awake" /\ runtime.mode = "running"

At(step) == sync.step = step
Goto(step) == sync' = [sync EXCEPT !.step = step]
Over == sync' = Idle
Broken == record' = [record EXCEPT !.status = "broken"]
Mishap == mishaps < MaxMishaps /\ mishaps' = mishaps + 1

----------------------------------------------------------------------------
(* Inspection and confirmation.                                             *)

Callers == {"user", "agent"}

\* What a confirmation is bound to: who asked, the facts of the row and the
\* content that was inspected.
Confirmation(caller) ==
    [by |-> caller, ws |-> record.ws, label |-> record.label, base |-> record.base, content |-> Current]

AskPlain ==
    /\ At("idle") /\ Awake
    /\ sync' = [Idle EXCEPT !.step = "check"]
    /\ UNCHANGED <<folder, gens, record, token, runtime, written, mishaps>>

\* The caller brings no confirmation, the one that is pending, or one that is
\* not.  Without one a clean Room goes ahead; one that is presented must be the
\* pending one and fit, even when the Room is clean.
AskSafe(caller, presented) ==
    /\ At("idle") /\ Awake
    /\ LET accepted ==
            \/ presented = "none" /\ Current = record.base
            \/ presented = "pending" /\ token = Confirmation(caller)
       IN /\ token' = IF accepted THEN None ELSE Confirmation(caller)
          /\ sync' = IF accepted THEN [Idle EXCEPT !.step = "check", !.safe = TRUE, !.accepted = Current]
                     ELSE Idle
    /\ UNCHANGED <<folder, gens, record, runtime, written, mishaps>>

Expire ==
    /\ token # None /\ Mishap /\ token' = None
    /\ UNCHANGED <<folder, gens, record, sync, runtime, written>>

\* The workload of the Room is cancelled and the workspace is read again.  The
\* plain sync accepts what the baseline describes.
Check ==
    /\ At("check")
    /\ IF Current = IF sync.safe THEN sync.accepted ELSE record.base
       THEN Goto("reserve") /\ UNCHANGED record
       ELSE Over /\ record' = [record EXCEPT !.label = "modified"]
    /\ UNCHANGED <<folder, gens, token, runtime, written, mishaps>>

----------------------------------------------------------------------------
(* Staging.                                                                 *)

\* The number is spent before the import begins.
Reserve ==
    /\ At("reserve") /\ record.top < MaxGen
    /\ record' = [record EXCEPT !.top = @ + 1]
    /\ sync' = [sync EXCEPT !.step = "import", !.next = record.top + 1]
    /\ UNCHANGED <<folder, gens, token, runtime, written, mishaps>>

Import ==
    /\ At("import") /\ gens' = [gens EXCEPT ![sync.next] = Imported]
    /\ Goto(IF sync.safe THEN "pause" ELSE "switch")
    /\ UNCHANGED <<folder, record, token, runtime, written, mishaps>>

\* A failed import is removed, when that can be done.
ImportFails ==
    /\ At("import") /\ Mishap
    /\ \E left \in {None, Imported} : gens' = [gens EXCEPT ![sync.next] = left]
    /\ Over /\ UNCHANGED <<folder, record, token, runtime, written>>

----------------------------------------------------------------------------
(* The safe sync compares once more while nothing can write.                *)

MutantPause ==
    /\ At("pause") /\ Goto("compare")
    /\ UNCHANGED <<folder, gens, record, token, runtime, written, mishaps>>
Pause ==
    /\ At("pause") /\ runtime' = [runtime EXCEPT !.mode = "paused"] /\ Goto("compare")
    /\ UNCHANGED <<folder, gens, record, token, written, mishaps>>
PauseFails ==
    /\ At("pause") /\ Mishap /\ Goto("discard")
    /\ UNCHANGED <<folder, gens, record, token, runtime, written>>

Compare ==
    /\ At("compare")
    /\ IF Current = sync.accepted THEN Goto("switch") /\ UNCHANGED record
       ELSE Goto("unpause") /\ record' = [record EXCEPT !.label = "modified"]
    /\ UNCHANGED <<folder, gens, token, runtime, written, mishaps>>
CompareFails ==
    /\ At("compare") /\ Mishap /\ Goto("unpause")
    /\ UNCHANGED <<folder, gens, record, token, runtime, written>>

Unpause ==
    /\ At("unpause") /\ runtime' = [runtime EXCEPT !.mode = "running"] /\ Goto("discard")
    /\ UNCHANGED <<folder, gens, record, token, written, mishaps>>
UnpauseFails ==
    /\ At("unpause") /\ Mishap /\ Goto("restore")
    /\ UNCHANGED <<folder, gens, record, token, runtime, written>>

----------------------------------------------------------------------------
(* Switching, publishing, and the ways back.                                *)

RunsOn(g) == runtime' = [gen |-> g, mode |-> "running"]
Down == runtime' = [runtime EXCEPT !.mode = "down"]

Switch ==
    /\ At("switch") /\ RunsOn(sync.next) /\ Goto("publish")
    /\ UNCHANGED <<folder, gens, record, token, written, mishaps>>
SwitchFails ==
    /\ At("switch") /\ Mishap /\ Down /\ Goto("switchBack")
    /\ UNCHANGED <<folder, gens, record, token, written>>

\* Row, baseline and retained generation change together.
Publish ==
    /\ At("publish")
    /\ record' = [record EXCEPT !.ws = sync.next, !.kept = record.ws, !.label = "synced",
                                !.base = [host |-> gens[sync.next].host, edits |-> {}]]
    /\ sync' = [sync EXCEPT !.step = "drop", !.drop = record.kept]
    /\ UNCHANGED <<folder, gens, token, runtime, written, mishaps>>
PublishFails ==
    /\ At("publish") /\ Mishap /\ Goto("switchBack")
    /\ UNCHANGED <<folder, gens, record, token, runtime, written>>

\* The previous runtime is recreated after a failed unpause, switch or publish.
GoesBack ==
    /\ At("restore") \/ At("switchBack")
    /\ RunsOn(record.ws) /\ Goto(IF At("restore") THEN "discard" ELSE "discardOrBreak")
    /\ UNCHANGED <<folder, gens, record, token, written, mishaps>>
GoBackFails ==
    /\ At("restore") \/ At("switchBack")
    /\ Mishap /\ Down /\ Broken /\ Over
    /\ UNCHANGED <<folder, gens, token, written>>

Discard ==
    /\ At("discard") \/ At("discardOrBreak")
    /\ gens' = [gens EXCEPT ![sync.next] = None] /\ Over
    /\ UNCHANGED <<folder, record, token, runtime, written, mishaps>>
DiscardFails ==
    /\ At("discard") \/ At("discardOrBreak")
    /\ Mishap /\ Over
    /\ IF At("discard") THEN UNCHANGED record ELSE Broken
    /\ UNCHANGED <<folder, gens, token, runtime, written>>

\* The generation that the sync before this one retained goes away.
Drop ==
    /\ At("drop") /\ Over
    /\ \/ sync.drop # None /\ gens' = [gens EXCEPT ![sync.drop] = None] /\ UNCHANGED mishaps
       \/ sync.drop = None /\ UNCHANGED <<gens, mishaps>>
       \/ sync.drop # None /\ Mishap /\ UNCHANGED gens
    /\ UNCHANGED <<folder, record, token, runtime, written>>

----------------------------------------------------------------------------
(* Around a sync.                                                           *)

\* The current files are accepted as the baseline.
ResetSyncBaseline ==
    /\ At("idle") /\ record' = [record EXCEPT !.base = Current, !.label = "synced"]
    /\ UNCHANGED <<folder, gens, token, sync, runtime, written, mishaps>>

Write(e) ==
    /\ runtime.mode = "running" /\ gens[runtime.gen] # None /\ e \notin written
    /\ written' = written \cup {e} /\ gens' = [gens EXCEPT ![runtime.gen].edits = @ \cup {e}]
    /\ UNCHANGED <<folder, record, token, sync, runtime, mishaps>>

HostChanges ==
    /\ folder < MaxHost /\ folder' = folder + 1
    /\ UNCHANGED <<gens, record, token, sync, runtime, written, mishaps>>

\* Confirmations are kept in memory; the next start puts the Room to sleep.
Crash ==
    /\ Mishap /\ sync' = Idle /\ token' = None /\ Down
    /\ record' = [record EXCEPT !.status = "asleep"]
    /\ UNCHANGED <<folder, gens, written>>

Wake ==
    /\ At("idle") /\ record.status # "awake"
    /\ record' = [record EXCEPT !.status = "awake"] /\ RunsOn(record.ws)
    /\ UNCHANGED <<folder, gens, token, sync, written, mishaps>>

Next ==
    \/ AskPlain
    \/ \E caller \in Callers, presented \in {"none", "pending", "stale"} : AskSafe(caller, presented)
    \/ Expire \/ Check \/ Reserve \/ Import \/ ImportFails
    \/ Pause \/ PauseFails \/ Compare \/ CompareFails \/ Unpause \/ UnpauseFails
    \/ Switch \/ SwitchFails \/ Publish \/ PublishFails \/ GoesBack \/ GoBackFails
    \/ Discard \/ DiscardFails \/ Drop
    \/ ResetSyncBaseline \/ \E e \in Edits : Write(e)
    \/ HostChanges \/ Crash \/ Wake

Spec == Init /\ [][Next]_vars

----------------------------------------------------------------------------
\* Every variable has its type.
TypeOK ==
    /\ folder \in 0 .. MaxHost /\ gens \in [Gens -> Content \cup {None}]
    /\ record.status \in {"awake", "asleep", "broken"} /\ record.label \in {"synced", "modified"}
    /\ record.ws \in Gens /\ record.top \in record.ws .. MaxGen /\ record.kept \in {None} \cup Gens
    /\ record.base \in Content
    /\ token # None =>
        token \in [by : Callers, ws : Gens, label : {"synced", "modified"}, base : Content, content : Content]
    /\ sync.next \in Gens /\ sync.accepted \in {None} \cup Content
    /\ runtime \in [gen : Gens, mode : {"running", "paused", "down"}]
    /\ written \subseteq Edits /\ mishaps \in 0 .. MaxMishaps

\* Between syncs a Room that is not marked broken runs on the generation that
\* its row names and is not paused.
RunsWhatItNames ==
    At("idle") /\ record.status = "awake" => runtime = [gen |-> record.ws, mode |-> "running"]

\* The working state and the retained generation are there.
WorkIsThere ==
    /\ Current # None
    /\ record.kept # None => gens[record.kept] # None

\* A safe sync replaces exactly the content that the inspection accepted, or
\* that the caller had seen and confirmed.
ReplacesWhatWasSeen ==
    record'.ws # record.ws /\ sync.safe => Current = sync.accepted

\* A Host folder is imported only into a generation that nothing was in.
ImportsIntoNew ==
    At("import") /\ sync'.step \in {"pause", "switch"} => gens[sync.next] = None
=============================================================================
