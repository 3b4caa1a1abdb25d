---------------------------- MODULE RoomCreation ----------------------------
(***************************************************************************)
(* How Rooms come into being (Orchestrator): acquire and create for one    *)
(* source and project, which share a queue, the warm pool that remembers   *)
(* which baselines were proved ready (lifecycle/warmRoomPool.ts), and the  *)
(* clone of a Room, which holds the source's lock and a barrier on the     *)
(* target but is not in that queue.  Engine calls fail, Rooms are slept    *)
(* and deleted, and the application is restarted in between.               *)
(***************************************************************************)
EXTENDS Naturals, Sequences, FiniteSets

CONSTANTS
    Source,         \* the Room that is there and may be cloned
    Fresh,          \* bound: identifiers that are minted
    Calls,          \* bound: acquire, create and clone calls
    Tasks,          \* task identities of the calls
    None,
    Slots,          \* slotsPerProfile
    MaxEdits,       \* bound: versions of what the source's programs write
    MaxFaults,      \* bound: engine calls that fail
    MaxEvents       \* bound: sleeps, deletions, restarts and times the pool forgets

Rooms == Fresh \cup {Source}

SourceAssumption ==
    /\ Source \notin Fresh /\ None \notin Tasks \cup Rooms
    /\ Slots \in Nat \ {0} /\ MaxEdits \in Nat /\ MaxFaults \in Nat /\ MaxEvents \in Nat

VARIABLES
    rows,       \* the rows of the Rooms
    made,       \* what the engine has for a Room
    web,        \* the web container of the source
    edits,      \* the version of the source's data
    admission,  \* roomAdmissions, the queue of the calls
    call,       \* per call, where it is and with which Room
    clone,      \* the clone under way
    pool,       \* the entry of the warm pool: known, and its ready slots
    credit,     \* history: proofs of readiness that no Room has used up
    stuck,      \* history: calls to unpause the source that failed
    faults, events

vars == <<rows, made, web, edits, admission, call, clone, pool, credit, stuck, faults, events>>

Row(st, task, by) == [st |-> st, task |-> task, by |-> by]
NoRow == Row("none", None, "none")
Gone == Row("gone", None, "none")

There(r) == rows[r].st \notin {"none", "gone"}
NoClone == [at |-> "idle", room |-> None, holds |-> FALSE, cut |-> {}, deps |-> FALSE, data |-> FALSE]

Making == {"import", "pod", "setup", "verify", "failed"}

\* Somebody has the lifecycle lock of the Room, or its barrier.
Busy(r) ==
    \/ \E c \in Calls : call[c].room = r /\ call[c].at \in Making
    \/ clone.at # "idle" /\ r \in {Source, clone.room}
    \/ rows[r].st = "deleting"

\* The clone may still remove its target.
BeingCloned(r) == clone.at \notin {"idle", "last"} /\ clone.room = r

\* An identifier is used once.
Unused == {r \in Fresh : rows[r].st = "none"}
Minted == IF Unused = {} THEN {} ELSE {CHOOSE r \in Unused : TRUE}

\* A step that fails takes one of the faults.
Works(works) == IF works THEN UNCHANGED faults ELSE faults < MaxFaults /\ faults' = faults + 1

Event == events < MaxEvents /\ events' = events + 1

\* What a failing call of the engine may have done
Partly(r, what) == {made[r], made[r] \cup what}

-----------------------------------------------------------------------------
(* The warm pool *)

Full(n) == IF n < Slots THEN n ELSE Slots

\* Mutant: a claim does not ask whether a slot is ready
MutantClaim(p) == [p EXCEPT !.slots = @ - 1]

Claim(p) == IF p.known /\ p.slots > 0 THEN [p EXCEPT !.slots = @ - 1] ELSE p

ObserveReady(p) == [known |-> TRUE, slots |-> Full(IF p.known THEN p.slots + 1 ELSE 1)]

\* Mutant: a claim comes back also after its Room was allocated
MutantRelease(p, lease) == IF lease # "none" /\ p.known THEN [p EXCEPT !.slots = Full(@ + 1)] ELSE p

Release(p, lease) == IF lease = "held" /\ p.known THEN [p EXCEPT !.slots = Full(@ + 1)] ELSE p

\* cleanup after the idle period, or trimProfiles for another profile
Forget ==
    /\ Event /\ pool.known
    /\ pool' = [known |-> FALSE, slots |-> 0]
    /\ UNCHANGED <<rows, made, web, edits, admission, call, clone, credit, stuck, faults>>

-----------------------------------------------------------------------------
(* Acquire and create *)

\* isCompatibleRoom, for calls that ask for the same source and project
Compatible(task) ==
    {r \in Rooms : There(r) /\ rows[r].st # "deleting" /\ (task = None \/ rows[r].task = task)}

\* Calls differ in what they ask for only.
Coming(c) == call[c].at = "new" /\ c = CHOOSE d \in Calls : call[d].at = "new"

Enter(c, kind, task) ==
    /\ Coming(c)
    /\ call' = [call EXCEPT ![c] = [@ EXCEPT !.kind = kind, !.task = task, !.at = "queued"]]
    /\ admission' = Append(admission, c)
    /\ UNCHANGED <<rows, made, web, edits, clone, pool, credit, stuck, faults, events>>

\* The call at the head answers, and the next one of the queue is admitted.
Leave(c, answer, r) ==
    /\ call' = [call EXCEPT ![c] = [@ EXCEPT !.at = answer, !.room = r, !.lease = "none"]]
    /\ admission' = Tail(admission)

\* Mutant: calls are not put in one queue
MutantTurn(c) == call[c].at = "queued"

Turn(c) == call[c].at = "queued" /\ admission # <<>> /\ Head(admission) = c

\* A compatible Room answers an acquire and refuses an agent's create.  Only one that
\* sleeps is waited for: the row of a clone under way answers as it is, which is told
\* apart here as "early".
Admit(c) ==
    /\ Turn(c)
    /\ LET found == Compatible(call[c].task)
           kind == call[c].kind
       IN  \/ kind = "create" /\ found # {} /\ Leave(c, "refused", None)
           \/ \E r \in found :
                 /\ kind = "acquire"
                 /\ IF rows[r].st = "sleeping"
                      THEN /\ call' = [call EXCEPT ![c] = [@ EXCEPT !.at = "waking", !.room = r]]
                           /\ UNCHANGED admission
                      ELSE Leave(c, IF BeingCloned(r) THEN "early" ELSE "handed", r)
           \/ /\ kind = "desk" \/ found = {}
              /\ call' = [call EXCEPT ![c].at = "detecting"]
              /\ UNCHANGED admission
    /\ UNCHANGED <<rows, made, web, edits, clone, pool, credit, stuck, faults, events>>

\* startRoom waits for the Room's lock and reads the row again.
Wake(c, works) ==
    LET r == call[c].room
        wakes == rows[r].st = "sleeping"
    IN  /\ call[c].at = "waking" /\ ~Busy(r)
        /\ rows' = IF wakes THEN [rows EXCEPT ![r].st = IF works THEN "ready" ELSE "broken"] ELSE rows
        /\ web' = IF wakes /\ works /\ r = Source THEN "running" ELSE web
        /\ IF wakes THEN Works(works) ELSE works /\ UNCHANGED faults
        /\ IF rows'[r].st = "ready" THEN Leave(c, "handed", r) ELSE Leave(c, "refused", None)
        /\ UNCHANGED <<made, edits, clone, pool, credit, stuck, events>>

\* The source is read, the row is written and a warm slot claimed.
Detect(c) ==
    \E r \in Minted :
        /\ call[c].at = "detecting"
        /\ rows' = [rows EXCEPT ![r] = Row("preparing", call[c].task, call[c].kind)]
        /\ pool' = Claim(pool)
        /\ call' = [call EXCEPT ![c] = [@ EXCEPT !.at = "import", !.room = r,
                                        !.lease = IF pool' # pool THEN "held" ELSE "none"]]
        /\ UNCHANGED <<made, web, edits, admission, clone, credit, stuck, faults, events>>

DetectFails(c) ==
    /\ call[c].at = "detecting"
    /\ Works(FALSE)
    /\ Leave(c, "refused", None)
    /\ UNCHANGED <<rows, made, web, edits, clone, pool, credit, stuck, events>>

\* One step of the creation under the lock of the Room
Make(c, at, what, next, works) ==
    LET r == call[c].room
    IN  /\ call[c].at = at
        /\ Works(works)
        /\ made' \in IF works THEN {[made EXCEPT ![r] = @ \cup what]}
                              ELSE {[made EXCEPT ![r] = parts] : parts \in Partly(r, what)}
        /\ call' = [call EXCEPT ![c].at = IF works THEN next ELSE "failed"]
        /\ UNCHANGED <<web, edits, admission, clone, stuck, events>>

Import(c, works) ==
    Make(c, "import", {"ws"}, "pod", works) /\ UNCHANGED <<rows, pool, credit>>

\* createRoomPod: what was claimed is now in use.
Pod(c) ==
    LET r == call[c].room
        used == call[c].lease = "held"
    IN  /\ call[c].at = "pod"
        /\ made' = [made EXCEPT ![r] = @ \cup {"pod", "web"}]
        /\ rows' = [rows EXCEPT ![r].st = "running"]
        /\ call' = [call EXCEPT ![c] = [@ EXCEPT !.at = "setup", !.lease = IF used THEN "used" ELSE "none"]]
        /\ credit' = IF used THEN credit - 1 ELSE credit
        /\ UNCHANGED <<web, edits, admission, clone, pool, stuck, faults, events>>

PodFails(c) ==
    Make(c, "pod", {"pod", "web"}, "setup", FALSE) /\ UNCHANGED <<rows, pool, credit>>

\* Dependencies of a web Room; an emulator that does not start is tolerated.
Setup(c, works) ==
    Make(c, "setup", {"deps"}, "verify", works) /\ UNCHANGED <<rows, pool, credit>>

Verify(c, up) ==
    /\ call[c].at = "verify"
    /\ rows' = [rows EXCEPT ![call[c].room].st = IF up THEN "ready" ELSE "attention"]
    /\ pool' = IF up THEN ObserveReady(pool) ELSE pool
    /\ credit' = IF up THEN credit + 1 ELSE credit
    /\ Leave(c, "handed", call[c].room)
    /\ UNCHANGED <<made, web, edits, clone, stuck, faults, events>>

\* deleteRoomPod removes containers and networks first, then the volumes.
Left(r) == {made[r], made[r] \ {"web"}, made[r] \ {"web", "pod"}}

\* The Room of a failed creation or clone is removed, or its row stays as the
\* owner of what could not be removed.
Removed(r, works) ==
    IF works
      THEN made' = [made EXCEPT ![r] = {}] /\ rows' = [rows EXCEPT ![r] = Gone]
      ELSE /\ \E rest \in Left(r) : made' = [made EXCEPT ![r] = rest]
           /\ rows' = [rows EXCEPT ![r].st = "broken"]

Undo(c, works) ==
    /\ call[c].at = "failed"
    /\ Works(works)
    /\ pool' = Release(pool, call[c].lease)
    /\ Removed(call[c].room, works)
    /\ Leave(c, "refused", None)
    /\ UNCHANGED <<web, edits, clone, credit, stuck, events>>

-----------------------------------------------------------------------------
(* The clone *)

\* The row of the target is written before anything is made for it.
StartClone(c, deps, data) ==
    \E r \in Minted :
        /\ Coming(c) /\ call' = [call EXCEPT ![c].at = "cloning"]
        /\ clone.at = "idle" /\ ~Busy(Source) /\ There(Source) /\ rows[Source].st # "preparing"
        /\ rows' = [rows EXCEPT ![r] = Row("preparing", None, "clone")]
        /\ clone' = [NoClone EXCEPT !.at = "pause", !.room = r, !.deps = deps, !.data = data]
        /\ UNCHANGED <<made, web, edits, admission, pool, credit, stuck, faults, events>>

\* A step of the clone, which may make something for the target
CloneStep(at, what, after, works) ==
    LET r == clone.room
    IN  /\ clone.at = at
        /\ Works(works)
        /\ made' \in IF works THEN {[made EXCEPT ![r] = @ \cup what]}
                              ELSE {[made EXCEPT ![r] = parts] : parts \in Partly(r, what)}
        /\ clone' = IF works THEN after ELSE [clone EXCEPT !.at = "undo"]
        /\ UNCHANGED <<edits, admission, call, pool, credit, events>>

Then(next) == [clone EXCEPT !.at = next]

\* What is read now belongs to the cut.
Reads(next) == [clone EXCEPT !.at = next, !.cut = @ \cup {edits}]

\* The web process of the source is paused when it runs.
Pause(works) ==
    /\ web = "running" \/ works
    /\ CloneStep("pause", {}, [Then("workspace") EXCEPT !.holds = web = "running"], works)
    /\ web' = IF works /\ web = "running" THEN "paused" ELSE web
    /\ UNCHANGED <<rows, stuck>>

CopyWorkspace(works) ==
    /\ CloneStep("workspace", {"ws"}, Reads("deps"), works)
    /\ UNCHANGED <<rows, web, stuck>>

CopyDeps(works) ==
    /\ IF clone.deps THEN CloneStep("deps", {"deps"}, Reads("data"), works)
                     ELSE works /\ CloneStep("deps", {}, Then("data"), works)
    /\ UNCHANGED <<rows, web, stuck>>

\* The volume of a service that sleeps is copied, of one that runs a dump.
CopyData(works) ==
    /\ IF ~clone.data THEN works /\ CloneStep("data", {}, Then("resume"), works)
       ELSE IF rows[Source].st = "sleeping"
              THEN CloneStep("data", {"db"}, Reads("resume"), works)
              ELSE CloneStep("data", {}, Reads("resume"), works)
    /\ UNCHANGED <<rows, web, stuck>>

\* resumeSourceWeb
Unpaused(works) ==
    /\ web' = IF works /\ clone.holds THEN "running" ELSE web
    /\ stuck' = IF works THEN stuck ELSE stuck + 1

Resume(works) ==
    /\ clone.holds \/ works
    /\ CloneStep("resume", {}, [Then("target") EXCEPT !.holds = FALSE], works)
    /\ Unpaused(works)
    /\ UNCHANGED rows

\* createRoomPod with a web container that is not started
Target(works) ==
    /\ CloneStep("target", {"ws", "pod"}, Then("install"), works)
    /\ UNCHANGED <<rows, web, stuck>>

Install(works) ==
    /\ IF clone.deps THEN works /\ CloneStep("install", {}, Then("services"), works)
                     ELSE CloneStep("install", {"deps"}, Then("services"), works)
    /\ UNCHANGED <<rows, web, stuck>>

\* Every service is created, answers, and is restored from its dump.
Services(works) ==
    /\ CloneStep("services", IF clone.data THEN {"db"} ELSE {}, Then("web"), works)
    /\ UNCHANGED <<rows, web, stuck>>

StartWeb(works) ==
    /\ CloneStep("web", {"web"}, Then("verify"), works)
    /\ rows' = IF works THEN [rows EXCEPT ![clone.room].st = "running"] ELSE rows
    /\ UNCHANGED <<web, stuck>>

VerifyClone(up) ==
    /\ clone.at = "verify"
    /\ rows' = [rows EXCEPT ![clone.room].st = IF up THEN "ready" ELSE "attention"]
    /\ clone' = Then("last")
    /\ UNCHANGED <<made, web, edits, admission, call, pool, credit, stuck, faults, events>>

\* The route or the manifest fails, before or after the row says how the application
\* came up.
VerifyCloneFails ==
    /\ clone.at = "verify"
    /\ Works(FALSE)
    /\ rows' \in {rows} \cup {[rows EXCEPT ![clone.room].st = st] : st \in {"ready", "attention"}}
    /\ clone' = Then("undo")
    /\ UNCHANGED <<made, web, edits, admission, call, pool, credit, stuck, events>>

\* catch: the source is resumed first, then the target is removed.
UndoClone(resumes, works) ==
    /\ clone.at = "undo"
    /\ clone.holds \/ resumes
    /\ faults' = faults + (IF resumes THEN 0 ELSE 1) + (IF works THEN 0 ELSE 1) /\ faults' <= MaxFaults
    /\ Unpaused(resumes)
    /\ Removed(clone.room, works)
    /\ clone' = [clone EXCEPT !.at = "last", !.holds = @ /\ ~resumes]
    /\ UNCHANGED <<edits, admission, call, pool, credit, events>>

\* Mutant: the source is not resumed again at the end
MutantLast(resumes) ==
    /\ clone.at = "last" /\ resumes
    /\ clone' = NoClone
    /\ UNCHANGED <<rows, made, web, edits, admission, call, pool, credit, stuck, faults, events>>

\* finally: the source is resumed if it is still paused, the barrier released.
Last(resumes) ==
    /\ clone.at = "last"
    /\ clone.holds \/ resumes
    /\ Works(resumes)
    /\ Unpaused(resumes)
    /\ clone' = NoClone
    /\ UNCHANGED <<rows, made, edits, admission, call, pool, credit, events>>

-----------------------------------------------------------------------------
(* What happens around it *)

\* The programs of the source write; before a clone it makes no difference.
Edit ==
    /\ web = "running" /\ clone.at # "idle" /\ edits < MaxEdits
    /\ edits' = edits + 1
    /\ UNCHANGED <<rows, made, web, admission, call, clone, pool, credit, stuck, faults, events>>

Sleep(r) ==
    /\ Event /\ ~Busy(r) /\ rows[r].st \in {"running", "ready", "attention"}
    /\ rows' = [rows EXCEPT ![r].st = "sleeping"]
    /\ web' = IF r = Source THEN "down" ELSE web
    /\ UNCHANGED <<made, edits, admission, call, clone, pool, credit, stuck, faults>>

Delete(r) ==
    /\ Event /\ ~Busy(r) /\ rows[r].st \in {"ready", "attention", "sleeping", "broken"}
    /\ rows' = [rows EXCEPT ![r].st = "deleting"]
    /\ UNCHANGED <<made, web, edits, admission, call, clone, pool, credit, stuck, faults>>

Deleted(r) ==
    /\ rows[r].st = "deleting"
    /\ rows' = [rows EXCEPT ![r] = Gone]
    /\ made' = [made EXCEPT ![r] = {}]
    /\ web' = IF r = Source THEN "down" ELSE web
    /\ UNCHANGED <<edits, admission, call, clone, pool, credit, stuck, faults, events>>

\* A restart resumes deletions, marks what was being prepared as broken, and
\* puts every other Room to sleep; the warm pool and every queue are gone.
Crash ==
    LET after(st) == CASE st = "preparing" -> "broken"
                       [] st \in {"running", "ready", "attention"} -> "sleeping"
                       [] OTHER -> st
        gone == {r \in Rooms : rows[r].st = "deleting"}
    IN  /\ Event
        /\ rows' = [r \in Rooms |-> IF r \in gone THEN Gone ELSE [rows[r] EXCEPT !.st = after(rows[r].st)]]
        /\ made' = [r \in Rooms |-> IF r \in gone THEN {} ELSE made[r]]
        /\ web' = "down"
        /\ call' = [c \in Calls |-> IF call[c].at = "new" THEN call[c]
                                    ELSE [call[c] EXCEPT !.at = "refused", !.room = None, !.lease = "none"]]
        /\ admission' = <<>>
        /\ clone' = NoClone
        /\ pool' = [known |-> FALSE, slots |-> 0] /\ credit' = 0 /\ stuck' = 0
        /\ UNCHANGED <<edits, faults>>

-----------------------------------------------------------------------------
(* The specification *)

Init ==
    /\ \E st \in {"ready", "sleeping"} :
          /\ rows = [r \in Rooms |-> IF r = Source THEN Row(st, None, "desk") ELSE NoRow]
          /\ web = IF st = "ready" THEN "running" ELSE "down"
    /\ made = [r \in Rooms |-> IF r = Source THEN {"ws", "deps", "db", "pod", "web"} ELSE {}]
    /\ edits = 0 /\ admission = <<>>
    /\ call = [c \in Calls |-> [kind |-> "none", task |-> None, at |-> "new", room |-> None, lease |-> "none"]]
    /\ clone = NoClone
    /\ pool = [known |-> FALSE, slots |-> 0]
    /\ credit = 0 /\ stuck = 0 /\ faults = 0 /\ events = 0

Creates(c) ==
    \/ \E kind \in {"acquire", "create", "desk"}, task \in Tasks \cup {None} : Enter(c, kind, task)
    \/ Admit(c) \/ Detect(c) \/ DetectFails(c) \/ Pod(c) \/ PodFails(c)
    \/ \E works \in BOOLEAN : Wake(c, works) \/ Import(c, works) \/ Setup(c, works)
                              \/ Verify(c, works) \/ Undo(c, works)

Clones ==
    \/ \E c \in Calls, deps, data \in BOOLEAN : StartClone(c, deps, data)
    \/ \E works \in BOOLEAN :
          \/ Pause(works) \/ CopyWorkspace(works) \/ CopyDeps(works) \/ CopyData(works) \/ Resume(works)
          \/ Target(works) \/ Install(works) \/ Services(works) \/ StartWeb(works) \/ VerifyClone(works)
          \/ Last(works)
          \/ \E resumes \in BOOLEAN : UndoClone(resumes, works)
    \/ VerifyCloneFails

Next ==
    \/ \E c \in Calls : Creates(c)
    \/ Clones
    \/ \E r \in Rooms : Sleep(r) \/ Delete(r) \/ Deleted(r)
    \/ Edit \/ Forget \/ Crash

Spec == Init /\ [][Next]_vars

-----------------------------------------------------------------------------
(* Properties *)

Parts == {"ws", "deps", "db", "pod", "web"}

Statuses == {"none", "preparing", "running", "ready", "attention", "sleeping", "broken", "deleting", "gone"}

Kinds == {"none", "acquire", "create", "desk"}

Stages == {"new", "queued", "detecting", "waking", "handed", "early", "refused", "cloning"} \cup Making

CloneStages == {"idle", "pause", "workspace", "deps", "data", "resume", "target", "install", "services",
                "web", "verify", "undo", "last"}

\* Every variable has its type.
TypeOK ==
    /\ rows \in [Rooms -> [st: Statuses, task: Tasks \cup {None}, by: Kinds \cup {"clone"}]]
    /\ made \in [Rooms -> SUBSET Parts]
    /\ web \in {"running", "paused", "down"} /\ edits \in 0..MaxEdits
    /\ admission \in Seq(Calls)
    /\ call \in [Calls -> [kind: Kinds, task: Tasks \cup {None}, at: Stages, room: Rooms \cup {None},
                           lease: {"none", "held", "used"}]]
    /\ clone \in [at: CloneStages, room: Rooms \cup {None}, holds: BOOLEAN, cut: SUBSET (0..MaxEdits),
                   deps: BOOLEAN, data: BOOLEAN]
    /\ pool \in [known: BOOLEAN, slots: 0..Slots]
    /\ credit \in Nat /\ stuck \in Nat /\ faults \in 0..MaxFaults /\ events \in 0..MaxEvents

\* What the engine has of a Room has a row that owns it, and a row that is being
\* prepared has somebody at work on it, also after steps that fail and restarts.
OwnedOrNothing ==
    \A r \in Rooms : /\ made[r] # {} => There(r)
                     /\ rows[r].st \in {"preparing", "running"} => Busy(r)

\* Agents that ask at the same time do not get two Rooms for one task identity.
OneRoomPerTask ==
    \A r, q \in Rooms : r # q /\ {rows[r].by, rows[q].by} \subseteq {"acquire", "create"}
                        /\ {rows[r].st, rows[q].st} \cap {"deleting"} = {}
                        => rows[r].task # rows[q].task

\* A Room that a call answered with is not one that a creation or a clone can still
\* undo.  There is one exception, and it is the code's: an acquire without a task
\* identity also finds the row of a clone under way, which the clone may remove after
\* the answer (findCompatible looks at no status but deleting).  A caller that names
\* its task is never answered so, because a clone has no task identity.
HandedIsMade ==
    \A c \in Calls :
        /\ call[c].at \in {"handed", "early"} =>
              \A d \in Calls : call[d].room = call[c].room => call[d].at \notin Making
        /\ call[c].at = "handed" => ~BeingCloned(call[c].room)
        /\ call[c].at = "early" => call[c].task = None

\* A proof of readiness is claimed once, and no more slots are ready than fit.
PoolIsEarned ==
    pool.slots + Cardinality({c \in Calls : call[c].lease = "held"}) <= credit

\* Workspace, dependencies and services of a clone are copied from one state of
\* the source, whose programs write while it runs.
OneCut == Cardinality(clone.cut) <= 1

\* The application of a clone starts when its services are restored.
StartsWhole ==
    clone.at \in {"verify", "last"} /\ rows[clone.room].st \in {"running", "ready", "attention"}
        => "deps" \in made[clone.room] /\ (clone.data => "db" \in made[clone.room])

\* When the clone is over its source does not stay paused, unless the engine
\* refused to resume it twice.
SourceResumes == clone.at = "idle" /\ web = "paused" => stuck >= 2

\* Agents get one Room per task identity, and none that a creation can still undo, or a
\* clone if they name their task; what the engine has is owned by a row, a proof of
\* readiness is used once, and a clone is one cut of its source, starts whole and leaves
\* the source running.
CreationHolds ==
    /\ OwnedOrNothing /\ OneRoomPerTask /\ HandedIsMade /\ PoolIsEarned
    /\ OneCut /\ StartsWhole /\ SourceResumes
=============================================================================
