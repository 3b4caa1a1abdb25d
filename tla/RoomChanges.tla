----------------------------- MODULE RoomChanges -----------------------------
(***************************************************************************)
(* The change engine of one Room and the changes it applies: installing a  *)
(* package or normalising scripts in a copy of the workspace that is then  *)
(* published, a clean install of the dependencies, a reset that empties,   *)
(* removes or keeps the service, removing, replacing and restoring a       *)
(* service whose data a dump must cover, other settings, a domain, and an  *)
(* Android build and run from a snapshot.                                  *)
(* Each change is the sequence of its awaits; any of them may fail and the *)
(* process may die before any of them.  The Room lock (RoomMutations) lets *)
(* one change run at a time, yet the programs inside the Room write        *)
(* whenever its web container runs.                                        *)
(***************************************************************************)
EXTENDS Naturals, Sequences

CONSTANTS
    Kinds,          \* the kinds of changes that are asked for
    Edits,          \* writes of the programs inside the Room
    MaxEntries,     \* bound on the journal
    MaxCrashes,     \* bound on the number of crashes
    EditsInUndo     \* TRUE: programs write while an undo runs

RoomChangesAssumption ==
    /\ Kinds \subseteq {"install", "normalize", "clean", "reset", "wipe", "renew", "remove", "version",
                       "load", "config", "domain", "run"}
    /\ MaxEntries \in Nat /\ MaxCrashes \in Nat /\ EditsInUndo \in BOOLEAN

VARIABLES
    row,        \* the Room's row: generations, revision, service, domain, settings
    spent,      \* the generation numbers that were ever reserved
    trees,      \* generation -> workspace volume
    layers,     \* generation -> dependency volume
    web,        \* the web container, the generation that it mounts and its settings
    data,       \* the volume of the service
    journal,    \* the changes of the Room
    snapshots,  \* entries whose build snapshot exists
    receipts,   \* entries with a tracked Android install
    job,        \* what the engine does
    seen,       \* edits made on the published generation of an idle Room
    crashes

vars == <<row, spent, trees, layers, web, data, journal, snapshots, receipts, job, seen, crashes>>

NoEntry == MaxEntries + 1
Gens == 0 .. MaxEntries
NoTree == [state |-> "none", edits |-> {}]
Idle == [mode |-> "idle", entry |-> 0, todo |-> <<>>]
Awake == web.mode # "down"
Cap == journal[job.entry].cap
Kind == journal[job.entry].kind

NoCapture == [gen |-> 0, next |-> NoEntry, deps |-> 0, layer |-> NoEntry, rev |-> 0,
              src |-> {}, out |-> {}, switched |-> FALSE, dump |-> "no"]

Init ==
    /\ row = [gen |-> 0, deps |-> 0, rev |-> 0, service |-> "old", domain |-> "old", config |-> "old"]
    /\ spent = [gen |-> 0, deps |-> 0]
    /\ trees = [g \in Gens |-> IF g = 0 THEN [state |-> "whole", edits |-> {}] ELSE NoTree]
    /\ layers = [g \in Gens |-> IF g = 0 THEN "whole" ELSE "none"]
    /\ web \in [mode : {"running", "down"}, gen : {0}, config : {"old"}]
    /\ data = "whole" /\ journal = <<>> /\ snapshots = {} /\ receipts = {}
    /\ job = Idle /\ seen = {} /\ crashes = 0

----------------------------------------------------------------------------
(* The changes: the awaits of each apply(), and of each undo().             *)

\* An apply() leaves the steps on the container out while the Room sleeps.
InstallSteps ==
    IF Awake
    THEN <<"reserve", "pause", "copy", "resume", "recheck", "layer", "hold", "compare", "switch", "publish">>
    ELSE <<"reserve", "copy", "layer", "compare", "publish">>
NormalizeSteps ==
    IF Awake
    THEN <<"reserve", "pause", "copy", "resume", "rewrite", "hold", "compare", "switch", "publish">>
    ELSE <<"reserve", "copy", "rewrite", "compare", "publish">>
CleanSteps ==
    IF Awake THEN <<"reserveLayer", "layer", "point", "recreate">> ELSE <<"reserveLayer", "layer", "point">>

\* A reset empties the services ("reset"), removes them ("wipe") or keeps them, or
\* finds none ("renew"); the dependencies are installed afresh in the first and last.
ResetSteps ==
    IF Awake
    THEN <<"drop", "create", "reserveLayer", "layer", "point", "recreate">>
    ELSE <<"drop", "create", "reserveLayer", "layer", "point">>
WipeSteps == IF Awake THEN <<"drop", "delist", "recreate">> ELSE <<"drop", "delist">>
RenewSteps == CleanSteps

ConfigSteps == IF Awake THEN <<"set", "recreate">> ELSE <<"set">>
RemoveSteps == <<"unlist", "drop">>
VersionSteps == <<"dump", "listNew", "drop", "create", "restore">>
LoadSteps == <<"load">>
DomainSteps == <<"rename">>
RunSteps == <<"pause", "snapshot", "resume", "build", "unsnapshot", "boot", "install", "launch">>

ApplySteps(k) ==
    CASE k = "install" -> InstallSteps [] k = "normalize" -> NormalizeSteps
      [] k = "clean" -> CleanSteps     [] k = "remove" -> RemoveSteps
      [] k = "version" -> VersionSteps [] k = "domain" -> DomainSteps
      [] k = "reset" -> ResetSteps     [] k = "wipe" -> WipeSteps
      [] k = "renew" -> RenewSteps     [] k = "load" -> LoadSteps
      [] k = "config" -> ConfigSteps   [] k = "run" -> RunSteps

\* What a catch or finally still awaits after a step failed.
CatchSteps(k, s) ==
    IF k = "run" THEN IF s \in {"boot", "install", "launch"} THEN <<"revoke">>
                      ELSE IF s = "unsnapshot" THEN <<"revoke">>
                      ELSE <<"resume", "unsnapshot", "revoke">>
    ELSE IF s \in {"copy", "hold", "compare"} THEN <<"resume">>
    ELSE <<>>

\* undo of a package install and of a normalisation: which side of the change
\* the Room is on, and what is left to take back.  Without a reserved
\* generation nothing was staged; a third state is refused.
Staged(k, c) == row.gen = c.next /\ (k = "install" => row.deps = c.layer)
Untouched(k, c) == row.gen = c.gen /\ (k = "install" => row.deps = c.deps)
LaterWork(c) == row.rev # c.rev + 1

\* A rollback that leaves the container on the staged generation.
MutantUndoGenerations(k, c) ==
    IF c.next = NoEntry THEN <<>>
    ELSE IF Staged(k, c) THEN IF LaterWork(c) THEN <<"refuse">>
                              ELSE <<"fingerprint", "switchBack", "publishBack", "forget">>
    ELSE IF Untouched(k, c) THEN <<"discard">>
    ELSE <<"refuse">>

UndoGenerations(k, c) ==
    IF c.next = NoEntry THEN <<>>
    ELSE IF Staged(k, c) THEN IF LaterWork(c) THEN <<"refuse">>
                              ELSE <<"fingerprint", "switchBack", "publishBack", "forget">>
    ELSE IF Untouched(k, c) THEN IF c.switched THEN <<"switchBack", "discard">> ELSE <<"discard">>
    ELSE <<"refuse">>

UndoClean == IF Awake THEN <<"pointBack", "recreate">> ELSE <<"pointBack">>
UndoConfig == IF Awake THEN <<"setBack", "recreate">> ELSE <<"setBack">>
UndoLoad == IF Awake THEN <<"restore">> ELSE <<"refuse">>
UndoRemove(c) == IF c.dump # "no" /\ Awake THEN <<"listOld", "create", "restore">> ELSE <<"refuse">>
UndoVersion == IF Awake THEN <<"listOld", "drop", "create", "restore">> ELSE <<"listOld">>
UndoDomain == <<"renameBack">>

UndoSteps(k, c) ==
    CASE k \in {"install", "normalize"} -> UndoGenerations(k, c)
      [] k = "clean" -> UndoClean
      [] k = "remove" -> UndoRemove(c)
      [] k = "version" -> UndoVersion
      [] k = "domain" -> UndoDomain
      [] k = "load" -> UndoLoad
      [] k = "config" -> UndoConfig
      [] k \in {"run", "reset", "wipe", "renew"} -> <<"refuse">>

\* A failed change is rolled back unless it has no inverse or its dump does
\* not exist yet.
Undoable(k) == k \notin {"run", "reset", "wipe", "renew"}

MayRollback(k, c) == Undoable(k) /\ (k \in {"remove", "version"} => c.dump # "no")

----------------------------------------------------------------------------
(* The engine.                                                              *)

\* preflight and capture come before the entry: the dump that covers a removal,
\* a reset or another dump's data is taken here; a failed dump refuses the change.
DumpsFirst(k) == k \in {"remove", "reset", "wipe", "load"}

Admissible(k) ==
    /\ DumpsFirst(k) \/ k = "version" => Awake /\ row.service # "none" /\ data # "none"
    /\ k = "version" => row.service = "old"
    /\ k = "run" => Awake
    /\ k = "domain" => row.domain = "old"
    /\ k = "config" => row.config = "old"

Execute(k) ==
    /\ job = Idle /\ Len(journal) < MaxEntries /\ Admissible(k)
    /\ journal' = Append(journal,
           [kind |-> k, status |-> "pending",
            cap |-> [NoCapture EXCEPT !.gen = row.gen, !.deps = row.deps, !.rev = row.rev,
                                      !.dump = IF DumpsFirst(k) THEN data ELSE "no"]])
    /\ job' = [mode |-> "apply", entry |-> Len(journal) + 1, todo |-> ApplySteps(k)]
    /\ UNCHANGED <<row, spent, trees, layers, web, data, snapshots, receipts, seen, crashes>>

Status(s) == [journal EXCEPT ![job.entry].status = s]

\* apply returned: the entry is applied, then verified.  Only a domain (and
\* https) is rolled back when its verification fails.  A clean install moves
\* the revision, whatever the verification says.
Applied ==
    /\ job.mode = "apply" /\ job.todo = <<>>
    /\ journal' = Status("applied")
    /\ job' = [job EXCEPT !.mode = "verify"]
    /\ UNCHANGED <<row, spent, trees, layers, web, data, snapshots, receipts, seen, crashes>>

AfterWork == row' = [row EXCEPT !.rev = IF Kind = "clean" THEN @ + 1 ELSE @]

Verified ==
    /\ job.mode = "verify"
    /\ \E ok \in BOOLEAN :
          \/ ok /\ journal' = Status("verified") /\ job' = Idle /\ AfterWork
          \/ ~ok /\ Kind # "domain" /\ journal' = Status("applied") /\ job' = Idle /\ AfterWork
          \/ /\ ~ok /\ Kind = "domain" /\ UNCHANGED <<row, journal>>
             /\ job' = [job EXCEPT !.mode = "rollback", !.todo = UndoSteps(Kind, Cap)]
    /\ UNCHANGED <<spent, trees, layers, web, data, snapshots, receipts, seen, crashes>>

\* apply threw, and what its handlers awaited is over. "unrevoked" is the failure
\* whose detail says that receipts could not be revoked.
ApplyFailed ==
    /\ job.mode \in {"catch", "unrevoked"} /\ job.todo = <<>>
    /\ journal' = Status(IF job.mode = "unrevoked" THEN "unrevoked" ELSE "failed")
    /\ job' = IF MayRollback(Kind, Cap)
              THEN [job EXCEPT !.mode = "rollback", !.todo = UndoSteps(Kind, Cap)]
              ELSE Idle
    /\ UNCHANGED <<row, spent, trees, layers, web, data, snapshots, receipts, seen, crashes>>

RolledBack ==
    /\ job.mode = "rollback" /\ job.todo = <<>>
    /\ journal' = Status("rolled-back") /\ job' = Idle
    /\ UNCHANGED <<row, spent, trees, layers, web, data, snapshots, receipts, seen, crashes>>

\* undo(): only a verified or applied change that has an inverse.
Undo(e) ==
    /\ job = Idle /\ e \in 1 .. Len(journal) /\ Len(journal) < MaxEntries
    /\ Undoable(journal[e].kind) /\ journal[e].status \in {"verified", "applied"}
    /\ journal[e].kind # "undo"
    /\ job' = [mode |-> "undo", entry |-> e, todo |-> UndoSteps(journal[e].kind, journal[e].cap)]
    /\ UNCHANGED <<row, spent, trees, layers, web, data, journal, snapshots, receipts, seen, crashes>>

Undone ==
    /\ job.mode = "undo" /\ job.todo = <<>>
    /\ \E s \in {"verified", "applied"} :
          journal' = Append(Status("undone"), [kind |-> "undo", status |-> s, cap |-> NoCapture])
    /\ job' = Idle /\ AfterWork
    /\ UNCHANGED <<spent, trees, layers, web, data, snapshots, receipts, seen, crashes>>

----------------------------------------------------------------------------
(* The effects of the steps.                                                *)

\* A reserved number that a crash forgot is reserved again, and the next one.
MutantNextTree == IF spent.gen > row.gen THEN spent.gen + 2 ELSE row.gen + 2

NextTree == IF spent.gen > row.gen THEN spent.gen + 1 ELSE row.gen + 1
NextLayer == IF spent.deps > row.deps THEN spent.deps + 1 ELSE row.deps + 1

Captured(c) == journal' = [journal EXCEPT ![job.entry].cap = c]

\* The names are reserved before a volume is touched.
Reserve ==
    LET layer == IF Kind = "install" THEN NextLayer ELSE NoEntry IN
    /\ spent' = [gen |-> NextTree, deps |-> IF Kind = "install" THEN layer ELSE spent.deps]
    /\ Captured([Cap EXCEPT !.next = NextTree, !.layer = layer])
    /\ UNCHANGED <<row, trees, layers, web, data, snapshots, receipts>>

ReserveLayer ==
    /\ spent' = [spent EXCEPT !.deps = NextLayer]
    /\ Captured([Cap EXCEPT !.layer = NextLayer])
    /\ UNCHANGED <<row, trees, layers, web, data, snapshots, receipts>>

Copy ==
    /\ trees' = [trees EXCEPT ![Cap.next] = [state |-> "whole", edits |-> trees[Cap.gen].edits]]
    /\ Captured([Cap EXCEPT !.src = trees[Cap.gen].edits, !.out = trees[Cap.gen].edits])
    /\ UNCHANGED <<row, spent, layers, web, data, snapshots, receipts>>

Layer ==
    /\ layers' = [layers EXCEPT ![Cap.layer] = "whole"]
    /\ UNCHANGED <<row, spent, trees, web, data, journal, snapshots, receipts>>

\* The workspace that staging was copied from has not changed.
Compare ==
    /\ trees[Cap.gen].edits = Cap.src
    /\ UNCHANGED <<row, spent, trees, layers, web, data, journal, snapshots, receipts>>

Mounted(mode, g) ==
    /\ web' = [mode |-> mode, gen |-> g, config |-> row.config]
    /\ UNCHANGED <<row, spent, trees, layers, data, journal, snapshots, receipts>>

Suspended(mode) ==
    /\ web' = [web EXCEPT !.mode = mode]
    /\ UNCHANGED <<row, spent, trees, layers, data, journal, snapshots, receipts>>

Switch ==
    /\ web' = [mode |-> "running", gen |-> Cap.next, config |-> row.config]
    /\ Captured([Cap EXCEPT !.switched = TRUE])
    /\ UNCHANGED <<row, spent, trees, layers, data, snapshots, receipts>>

\* One transaction moves both pointers, if nobody moved them before.
Publish(from, to, layerFrom, layerTo, rev) ==
    /\ row.gen = from /\ row.deps = layerFrom /\ row.rev = rev
    /\ row' = [row EXCEPT !.gen = to, !.deps = layerTo, !.rev = @ + 1]
    /\ UNCHANGED <<spent, trees, layers, web, data, journal, snapshots, receipts>>

PublishStaged == Publish(Cap.gen, Cap.next, Cap.deps, IF Kind = "install" THEN Cap.layer ELSE Cap.deps, Cap.rev)
PublishBack == Publish(Cap.next, Cap.gen, IF Kind = "install" THEN Cap.layer ELSE Cap.deps, Cap.deps, Cap.rev + 1)

SetRow(r) == row' = r /\ UNCHANGED <<spent, trees, layers, web, data, journal, snapshots, receipts>>
SetData(d) == data' = d /\ UNCHANGED <<row, spent, trees, layers, web, journal, snapshots, receipts>>

\* A dump of the service; it is captured before anything is destroyed.
Dump ==
    /\ Captured([Cap EXCEPT !.dump = data])
    /\ UNCHANGED <<row, spent, trees, layers, web, data, snapshots, receipts>>

Restore == SetData(IF Cap.dump = "no" THEN data ELSE Cap.dump)

\* The staged generations are removed.
Discard ==
    /\ trees' = [trees EXCEPT ![Cap.next] = NoTree]
    /\ layers' = IF Cap.layer = NoEntry THEN layers ELSE [layers EXCEPT ![Cap.layer] = "none"]
    /\ UNCHANGED <<row, spent, web, data, journal, snapshots, receipts>>

Keep(s, r) ==
    /\ snapshots' = s /\ receipts' = r
    /\ UNCHANGED <<row, spent, trees, layers, web, data, journal>>

Nothing == UNCHANGED <<row, spent, trees, layers, web, data, journal, snapshots, receipts>>

\* The effect of a step that succeeds.  What the engine of the Room still does
\* is idempotent: resume finds a container that runs already.
Effect(s) ==
    CASE s = "reserve" -> Reserve            [] s = "reserveLayer" -> ReserveLayer
      [] s \in {"pause", "hold"} -> Suspended("paused")
      [] s = "copy" -> Copy                  [] s = "layer" -> Layer
      [] s = "resume" -> IF web.mode = "paused" THEN Suspended("running") ELSE Nothing
      [] s \in {"recheck", "compare"} -> Compare
      [] s = "rewrite" -> Nothing
      [] s = "switch" -> Switch              [] s = "publish" -> PublishStaged
      [] s = "point" -> SetRow([row EXCEPT !.deps = Cap.layer])
      [] s = "pointBack" -> SetRow([row EXCEPT !.deps = Cap.deps])
      [] s = "recreate" -> Mounted("running", row.gen)
      [] s \in {"unlist", "delist"} -> SetRow([row EXCEPT !.service = "none"])
      [] s = "listNew" -> SetRow([row EXCEPT !.service = "new"])
      [] s = "listOld" -> SetRow([row EXCEPT !.service = "old"])
      [] s = "set" -> SetRow([row EXCEPT !.config = "new"])
      [] s = "setBack" -> SetRow([row EXCEPT !.config = "old"])
      [] s = "drop" -> SetData("none")       [] s = "dump" -> Dump
      [] s = "load" -> SetData("whole")
      [] s = "create" -> SetData(IF data = "none" THEN "empty" ELSE data)
      [] s = "restore" -> Restore
      [] s = "rename" -> SetRow([row EXCEPT !.domain = "new"])
      [] s = "renameBack" -> SetRow([row EXCEPT !.domain = "old"])
      [] s = "snapshot" -> Keep(snapshots \cup {job.entry}, receipts)
      [] s = "unsnapshot" -> Keep(snapshots \ {job.entry}, receipts)
      [] s \in {"build", "boot", "launch"} -> Nothing
      [] s = "install" -> Keep(snapshots, receipts \cup {job.entry})
      [] s = "revoke" -> Keep(snapshots, receipts \ {job.entry})
      [] s = "fingerprint" -> Nothing
      [] s = "switchBack" -> IF Awake THEN Mounted("running", Cap.gen) ELSE Nothing
      [] s = "publishBack" -> PublishBack
      [] s \in {"forget", "discard"} -> Discard
      [] s = "refuse" -> FALSE

\* What a step leaves behind when it fails: a half written volume, a container
\* that was not replaced or is gone, a service without its data.
Residue(s) ==
    CASE s = "copy" -> /\ trees' = [trees EXCEPT ![Cap.next] = [state |-> "partial", edits |-> {}]]
                       /\ UNCHANGED <<row, spent, layers, web, data, journal, snapshots, receipts>>
      [] s = "layer" -> /\ layers' = [layers EXCEPT ![Cap.layer] = "partial"]
                        /\ UNCHANGED <<row, spent, trees, web, data, journal, snapshots, receipts>>
      [] s = "switch" -> /\ web' \in {web, [web EXCEPT !.mode = "down"]}
                         /\ Captured([Cap EXCEPT !.switched = TRUE])
                         /\ UNCHANGED <<row, spent, trees, layers, data, snapshots, receipts>>
      [] s \in {"recreate", "switchBack"} -> Nothing \/ Suspended("down")
      [] s = "resume" -> Nothing \/ Mounted("running", row.gen)
      [] s = "snapshot" -> Keep(snapshots \cup {job.entry}, receipts)
      [] s = "install" -> Nothing \/ Keep(snapshots, receipts \cup {job.entry})
      [] s = "revoke" -> Nothing \/ Keep(snapshots, receipts \ {job.entry})
      [] s = "drop" -> Nothing \/ SetData("none")
      [] s \in {"restore", "load"} -> SetData("half")
      [] s = "publishBack" -> \/ Mounted("running", Cap.next) \/ Suspended("down")
      [] s \in {"forget", "discard"} ->
           Nothing \/ (trees' = [trees EXCEPT ![Cap.next] = NoTree]
                       /\ UNCHANGED <<row, spent, layers, web, data, journal, snapshots, receipts>>)
      [] OTHER -> Nothing

\* A comparison that fails records that the Room was modified.
Modified == row' = [row EXCEPT !.rev = @ + 1]

Rest == Tail(job.todo)

\* An undo refuses to discard what was written after the change.
Unchanged(s) == s = "fingerprint" => trees[Cap.next].edits = Cap.out

StepDone ==
    /\ job.todo # <<>> /\ LET s == Head(job.todo) IN Unchanged(s) /\ Effect(s)
    /\ job' = [job EXCEPT !.todo = Rest]
    /\ UNCHANGED <<seen, crashes>>

\* A failure in apply runs the handlers; in a handler the others still run; in
\* an undo it ends the undo, except for the removal of what is not mounted. A
\* revocation that fails is the last await, and its error is the one recorded.
Failing(s) ==
    CASE job.mode = "apply" -> [job EXCEPT !.mode = "catch", !.todo = CatchSteps(Kind, s)]
      [] s = "revoke" -> [job EXCEPT !.mode = "unrevoked", !.todo = Rest]
      [] (job.mode = "catch" /\ s # "revoke") \/ s = "forget" -> [job EXCEPT !.todo = Rest]
      [] OTHER -> Idle

StepFails ==
    /\ job.todo # <<>>
    /\ LET s == Head(job.todo) IN
          /\ IF s \in {"recheck", "compare"} /\ trees[Cap.gen].edits # Cap.src
             THEN Modified /\ UNCHANGED <<spent, trees, layers, web, data, journal, snapshots, receipts>>
             ELSE Residue(s)
          /\ job' = Failing(s)
    /\ UNCHANGED <<seen, crashes>>

----------------------------------------------------------------------------
(* What happens around the engine.                                          *)

\* A program in the Room writes to the workspace that its container mounts.
Write(e) ==
    /\ web.mode = "running" /\ \A g \in Gens : e \notin trees[g].edits
    /\ EditsInUndo \/ job.mode # "undo"
    /\ trees' = [trees EXCEPT ![web.gen].edits = @ \cup {e}]
    /\ seen' = IF web.gen = row.gen THEN seen \cup {e} ELSE seen
    /\ UNCHANGED <<row, spent, layers, web, data, journal, snapshots, receipts, job, crashes>>

\* Between two changes the Room is put to sleep, or started from its row.
RoomSleeps ==
    /\ job = Idle /\ Awake /\ web' = [web EXCEPT !.mode = "down"]
    /\ UNCHANGED <<row, spent, trees, layers, data, journal, snapshots, receipts, job, seen, crashes>>

RoomStarts ==
    /\ job = Idle /\ ~Awake /\ trees[row.gen].state # "none"
    /\ web' = [mode |-> "running", gen |-> row.gen, config |-> row.config]
    /\ data' = IF row.service # "none" /\ data = "none" THEN "empty" ELSE data
    /\ UNCHANGED <<row, spent, trees, layers, journal, snapshots, receipts, job, seen, crashes>>

\* The process dies and the next one puts the Room to sleep.  A change that was
\* pending has failed; an Android run is settled once its snapshot is removed,
\* which may fail and is tried again after the next restart.
Pending == {i \in 1 .. Len(journal) : journal[i].status = "pending"}

Restart ==
    /\ crashes < MaxCrashes /\ crashes' = crashes + 1
    /\ job' = Idle /\ web' = [web EXCEPT !.mode = "down"]
    /\ \E stuck \in SUBSET (Pending \cap snapshots) :
          /\ snapshots' = snapshots \ (Pending \ stuck)
          /\ journal' = [i \in DOMAIN journal |->
                IF i \in Pending \ stuck THEN [journal[i] EXCEPT !.status = "failed"] ELSE journal[i]]
    /\ receipts' = receipts \ Pending
    /\ UNCHANGED <<row, spent, trees, layers, data, seen>>

Next ==
    \/ \E k \in Kinds : Execute(k)
    \/ \E e \in 1 .. MaxEntries : Undo(e)
    \/ \E e \in Edits : Write(e)
    \/ StepDone \/ StepFails \/ Applied \/ Verified \/ ApplyFailed \/ RolledBack \/ Undone
    \/ RoomSleeps \/ RoomStarts \/ Restart

Spec == Init /\ [][Next]_vars

----------------------------------------------------------------------------
Captures == [gen : Gens, next : Gens \cup {NoEntry}, deps : Gens, layer : Gens \cup {NoEntry}, rev : Nat,
             src : SUBSET Edits, out : SUBSET Edits, switched : BOOLEAN,
             dump : {"no", "none", "empty", "half", "whole"}]

\* Every variable has its type.
TypeOK ==
    /\ row \in [gen : Gens, deps : Gens, rev : Nat, service : {"old", "new", "none"}, domain : {"old", "new"},
               config : {"old", "new"}]
    /\ spent \in [gen : Gens, deps : Gens]
    /\ trees \in [Gens -> [state : {"none", "partial", "whole"}, edits : SUBSET Edits]]
    /\ layers \in [Gens -> {"none", "partial", "whole"}]
    /\ web \in [mode : {"running", "paused", "down"}, gen : Gens, config : {"old", "new"}]
    /\ data \in {"none", "empty", "half", "whole"}
    /\ \A i \in DOMAIN journal :
          /\ journal[i].status \in {"pending", "applied", "verified", "failed", "unrevoked",
                                   "rolled-back", "undone"}
          /\ journal[i].kind \in Kinds \cup {"undo"} /\ journal[i].cap \in Captures
    /\ Len(journal) <= MaxEntries /\ snapshots \cup receipts \subseteq DOMAIN journal
    /\ job.mode \in {"idle", "apply", "catch", "unrevoked", "verify", "rollback", "undo"}
    /\ job # Idle => job.entry \in DOMAIN journal
    /\ seen \subseteq Edits /\ crashes \in 0 .. MaxCrashes

\* The Room's row never names a generation that is missing or half written,
\* whichever step failed and wherever the process died.
PublishedIsWhole == trees[row.gen].state = "whole" /\ layers[row.deps] = "whole"

\* What was written to the published workspace is in the published workspace:
\* neither publishing a staged copy nor taking it back loses a write.
NoEditLost == seen \subseteq trees[row.gen].edits

\* The data of a service is in its volume or in a dump that the journal names.
DataIsCovered == data = "whole" \/ \E i \in DOMAIN journal : journal[i].cap.dump = "whole"

HalfUndone == row.config = "old" /\ \E i \in DOMAIN journal :
                  journal[i].kind = "config" /\ journal[i].status \in {"verified", "applied"}

\* As long as no change is recorded as failed, a running Room runs on the
\* generation that its row names, also after a rollback and after an undo, and
\* with the settings of its row unless an undo of them stopped half way.
RunsWhatIsPublished ==
    /\ job = Idle /\ web.mode = "running"
    /\ \A i \in DOMAIN journal : journal[i].status \in {"verified", "applied", "rolled-back", "undone"}
    => /\ web.gen = row.gen
       /\ web.config = row.config \/ HalfUndone

\* A tracked install belongs to a run that is under way or succeeded, or to one
\* whose failure says that its receipts could not be revoked; nothing revokes those
\* later. A build snapshot that could not be removed has a change that did not succeed.
ReceiptsAreEarned ==
    /\ \A e \in receipts : job.entry = e \/ journal[e].status \in {"applied", "verified", "unrevoked"}
    /\ \A e \in snapshots : job.entry = e \/ journal[e].status \in {"pending", "failed", "unrevoked"}

\* A change is whole, loses nothing and is what the Room runs, or is taken back.
ChangesHold ==
    /\ PublishedIsWhole /\ NoEditLost /\ DataIsCovered
    /\ RunsWhatIsPublished /\ ReceiptsAreEarned
=============================================================================
