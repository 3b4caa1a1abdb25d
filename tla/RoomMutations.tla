--------------------------- MODULE RoomMutations ---------------------------
(***************************************************************************)
(* How the Orchestrator (packages/core/src/orchestrator.ts) serializes     *)
(* what happens to Rooms: the promise chain `roomOps' with the set         *)
(* `activeRoomLocks', the operation records wrapped around it              *)
(* (operations.ts, store/operationsRepo.ts), deletion, "remove all data",  *)
(* shutdown, and the restart over the same database.                       *)
(*                                                                         *)
(* A job is one call that enters a Room's queue.  A promise is the pair of *)
(* a job and what is awaited of it: "task", the end of its work, or "op",  *)
(* the end of its operation with the terminal record saved.  Promise       *)
(* continuations run before the event loop takes another call, timer or    *)
(* engine answer: those are enabled only in a Quiet state.                 *)
(***************************************************************************)
EXTENDS Integers, FiniteSets

CONSTANTS
    Rooms,
    Existing,       \* the Rooms that exist at the start
    Jobs,           \* bound: calls over one behaviour, each used once
    Kinds,          \* the calls that clients make
    Impatient,      \* clients delete or undo while a deletion is under way
    Removal,        \* somebody asks to remove all data
    Quits,          \* somebody quits the application
    EngineFails,    \* an engine call may fail
    EngineHangs,    \* admitted work may outlast the drain of a shutdown
    MaxCrashes,     \* bound: crashes of the process
    None

\* The calls whose operation ends the queue of their Room
Queued == {"start", "sleep", "change", "undo", "delete", "clone"}

\* The calls with an operation record
Tracked == Queued \cup {"create"}

RowStates == {"none", "preparing", "awake", "sleeping", "broken", "deleting"}

AllKinds == Tracked \cup {"sweep", "matrix"}

ASSUME JobsAssumption == Jobs = 1..Cardinality(Jobs)
ASSUME KindsAssumption == Kinds \subseteq AllKinds
ASSUME ExistingAssumption == Existing \subseteq Rooms
ASSUME NoneRoomAssumption == None \notin Rooms /\ None \notin Jobs
ASSUME BoundAssumption == MaxCrashes \in Nat

VARIABLES
    row,        \* rooms.status, "none" when there is no row
    fence,      \* an Android recovery key of the Room is stored
    record,     \* operations.status of a job's operation, "none" when no row
    job,        \* the calls made so far
    roomOps,    \* the promise the next call of the Room waits for
    active,     \* activeRoomLocks
    deleting,   \* deletingRooms
    receipt,    \* deletingRoomOperations
    making,     \* materializingRooms
    live,       \* OperationTracker.live
    gate,       \* mutationGate
    wipe,       \* deleteAllRoomsLocked in flight
    halt,       \* shutdownLocked in flight
    crashes

durable == <<row, fence, record>>
queueVars == <<roomOps, active, deleting, receipt, making>>
vars == <<durable, job, queueVars, live, gate, wipe, halt, crashes>>

-----------------------------------------------------------------------------
(* Jobs and promises *)

Unused == [kind |-> None, room |-> None, target |-> None, prev |-> None,
           phase |-> "unused", ok |-> FALSE]

Task(j) == [of |-> j, end |-> "task"]
Op(j) == [of |-> j, end |-> "op"]

Promises == {Task(j) : j \in Jobs} \cup {Op(j) : j \in Jobs}

ASSUME NonePromiseAssumption == None \notin Promises

\* Mutant: a rejection is not caught, so nobody behind it gets a turn
MutantSettled(p) ==
    p # None => /\ job[p.of].ok
                /\ job[p.of].phase \in {"done", "lost"}
                     \cup (IF p.end = "task" THEN {"finishing"} ELSE {})

\* `previous.catch(() => undefined)': a rejection is a settlement too
Settled(p) ==
    p # None => job[p.of].phase \in {"done", "lost"}
                  \cup (IF p.end = "task" THEN {"finishing"} ELSE {})

Inside(j) == job[j].phase \in {"holding", "releasing", "erasing"}

\* The continuation of withRoomLock is due
Ready(j) == job[j].phase = "waiting" /\ Settled(job[j].prev)

Drained(w) == w.phase = "draining" /\ \A p \in w.awaits : Settled(p)

Awaited == halt.phase = "awaiting" /\ wipe.phase \in {"idle", "done"}

Quiet ==
    /\ \A j \in Jobs : job[j].phase # "finishing" /\ ~Ready(j)
    /\ ~Drained(wipe) /\ ~Drained(halt) /\ ~Awaited

\* The call may be made now, and j is the job that stands for it
Calls(j, k) ==
    /\ Quiet
    /\ k \in Kinds
    /\ halt.phase # "done"
    /\ job[j].phase = "unused"
    /\ \A i \in Jobs : i < j => job[i].phase # "unused"

\* The work is over: a tracked job still has its record to save
Over(k) == IF k \in Tracked THEN "finishing" ELSE "done"

-----------------------------------------------------------------------------
(* Calls *)

\* deleteRoom and undoChange look at the reservation of a deletion themselves.
Reserved(k, r) ==
    \/ k = "delete" /\ r \in deleting
    \/ k = "undo" /\ (r \in deleting \/ row[r] = "deleting")

\* The task rejects before it queues; withRoomLock does so on a closed gate.
RejectedAtOnce(k, r) == gate # "open" \/ Reserved(k, r)

\* Mutant: the reservation of a deletion is not looked at
MutantAdmitted(k, r) == row[r] # "none" /\ (Reserved(k, r) => Impatient)

\* What a call checks before its operation is published
Admitted(k, r) ==
    /\ row[r] # "none"
    /\ Reserved(k, r) => Impatient
    /\ k \in {"start", "change"} => r \notin deleting /\ row[r] # "deleting"
    /\ k = "start" =>
          /\ gate = "open"
          /\ r \notin making
          /\ \A i \in live : job[i].kind = "start" => job[i].room # r

\* runRoomMutation and beginRoomStart: publish the record, invoke the task,
\* then put the operation's completion at the end of the Room's queue.
CallTracked(j, k, r) ==
    LET rejected == RejectedAtOnce(k, r)
    IN  /\ k \in Queued
        /\ Calls(j, k)
        /\ Admitted(k, r)
        /\ job' = [job EXCEPT ![j] =
                      [Unused EXCEPT !.kind = k, !.room = r, !.prev = roomOps[r],
                         !.phase = IF rejected THEN "finishing" ELSE "waiting"]]
        /\ roomOps' = [roomOps EXCEPT ![r] = Op(j)]
        /\ record' = [record EXCEPT ![j] = "running"]
        /\ live' = live \cup {j}
        /\ deleting' = IF k = "delete" /\ ~rejected THEN deleting \cup {r} ELSE deleting
        /\ receipt' = IF k = "delete" THEN [receipt EXCEPT ![r] = j] ELSE receipt
        /\ UNCHANGED <<row, fence, active, making, gate, wipe, halt, crashes>>

\* sweepRoomLifecycle, and a run that leaves a recovery key while it works
CallUntracked(j, k, r) ==
    /\ Calls(j, k)
    /\ gate = "open"
    /\ \/ k = "sweep" /\ r \notin deleting /\ row[r] \notin {"none", "preparing", "deleting"}
       \/ k = "matrix" /\ row[r] = "awake"
    /\ job' = [job EXCEPT ![j] = [Unused EXCEPT !.kind = k, !.room = r,
                                    !.prev = roomOps[r], !.phase = "waiting"]]
    /\ roomOps' = [roomOps EXCEPT ![r] = Task(j)]
    /\ UNCHANGED <<durable, active, deleting, receipt, making, live, gate, wipe,
                   halt, crashes>>

\* A Room id that no job ever named
Unclaimed(r) ==
    row[r] = "none" /\ \A i \in Jobs : job[i].room # r /\ job[i].target # r

\* createRoomOperation: a record for a Room that does not exist yet, and a task
\* in activeMutations, which is rejected on a closed gate
CallCreate(j, r) ==
    /\ Calls(j, "create")
    /\ Unclaimed(r)
    /\ job' = [job EXCEPT ![j] = [Unused EXCEPT !.kind = "create", !.room = r,
                                    !.phase = IF gate = "open" THEN "detecting" ELSE "finishing"]]
    /\ record' = [record EXCEPT ![j] = "running"]
    /\ live' = live \cup {j}
    /\ UNCHANGED <<row, fence, queueVars, gate, wipe, halt, crashes>>

\* createRoomAdmitted stores the row and takes the lock, whatever the gate says.
CreateRow(j) ==
    /\ Quiet
    /\ job[j].phase = "detecting"
    /\ row' = [row EXCEPT ![job[j].room] = "preparing"]
    /\ job' = [job EXCEPT ![j].phase = "waiting", ![j].prev = roomOps[job[j].room]]
    /\ roomOps' = [roomOps EXCEPT ![job[j].room] = Task(j)]
    /\ UNCHANGED <<fence, record, active, deleting, receipt, making, live, gate,
                   wipe, halt, crashes>>

CreateRefused(j) ==
    /\ Quiet
    /\ job[j].phase = "detecting"
    /\ job' = [job EXCEPT ![j].phase = "finishing"]
    /\ UNCHANGED <<durable, queueVars, live, gate, wipe, halt, crashes>>

-----------------------------------------------------------------------------
(* The turn of a job, its work and its end *)

\* Mutant: activeRoomLocks is not looked at
MutantRefused(j) == fence[job[j].room] \/ row[job[j].room] = "none"

\* withRoomLock at its turn: a fence, an ambiguous lock, or no Room any more
Refused(j) == fence[job[j].room] \/ job[j].room \in active \/ row[job[j].room] = "none"

\* The promise of withRoomLock settled without work: deleteRoom gives up its
\* reservation.
Refuse(j) ==
    /\ Ready(j)
    /\ Refused(j)
    /\ job' = [job EXCEPT ![j].phase = Over(job[j].kind)]
    /\ deleting' = IF job[j].kind = "delete" THEN deleting \ {job[j].room} ELSE deleting
    /\ UNCHANGED <<durable, roomOps, active, receipt, making, live, gate, wipe,
                   halt, crashes>>

Acquire(j) ==
    /\ Ready(j)
    /\ ~Refused(j)
    /\ job[j].kind \notin {"clone", "start"}
    /\ active' = active \cup {job[j].room}
    /\ job' = [job EXCEPT ![j].phase = "holding"]
    /\ fence' = IF job[j].kind = "matrix" THEN [fence EXCEPT ![job[j].room] = TRUE] ELSE fence
    /\ UNCHANGED <<row, record, roomOps, deleting, receipt, making, live, gate,
                   wipe, halt, crashes>>

\* startRoomLocked: a Room that is proven to be awake is left alone, any other
\* one is preparing while its containers start.
AcquireStart(j, s) ==
    /\ Ready(j)
    /\ ~Refused(j)
    /\ job[j].kind = "start"
    /\ s = "preparing" \/ (s = "awake" /\ row[job[j].room] = "awake")
    /\ active' = active \cup {job[j].room}
    /\ job' = [job EXCEPT ![j].phase = "holding"]
    /\ row' = [row EXCEPT ![job[j].room] = s]
    /\ UNCHANGED <<fence, record, roomOps, deleting, receipt, making, live, gate,
                   wipe, halt, crashes>>

\* Mutant: the target is not reserved
MutantAcquireClone(j, t) ==
    /\ Ready(j)
    /\ ~Refused(j)
    /\ job[j].kind = "clone"
    /\ row[job[j].room] \notin {"preparing", "none"}
    /\ Unclaimed(t)
    /\ active' = active \cup {job[j].room}
    /\ job' = [job EXCEPT ![j].phase = "holding", ![j].target = t]
    /\ row' = [row EXCEPT ![t] = "preparing"]
    /\ UNCHANGED <<fence, record, roomOps, deleting, receipt, making, live, gate,
                   wipe, halt, crashes>>

\* cloneRoomLocked up to its first await: the target's row and its barrier
AcquireClone(j, t) ==
    /\ Ready(j)
    /\ ~Refused(j)
    /\ job[j].kind = "clone"
    /\ row[job[j].room] \notin {"preparing", "none"}
    /\ Unclaimed(t)
    /\ active' = active \cup {job[j].room}
    /\ job' = [job EXCEPT ![j].phase = "holding", ![j].target = t]
    /\ row' = [row EXCEPT ![t] = "preparing"]
    /\ making' = making \cup {t}
    /\ roomOps' = [roomOps EXCEPT ![t] = Task(j)]
    /\ UNCHANGED <<fence, record, deleting, receipt, live, gate, wipe, halt, crashes>>

\* The source is still preparing, or there is no room left for a copy
RefuseClone(j) ==
    /\ Ready(j)
    /\ ~Refused(j)
    /\ job[j].kind = "clone"
    /\ row[job[j].room] = "preparing" \/ \A t \in Rooms : ~Unclaimed(t)
    /\ job' = [job EXCEPT ![j].phase = "finishing"]
    /\ UNCHANGED <<durable, queueVars, live, gate, wipe, halt, crashes>>

Leaves(j, ok) ==
    /\ active' = active \ {job[j].room}
    /\ job' = [job EXCEPT ![j].phase = Over(job[j].kind), ![j].ok = ok]

\* Mutant: a status that the store does not know
MutantStartRows(ok) == IF ok THEN {"started"} ELSE {"broken"}

\* The containers are up, or up without an answer from the web process, or not
StartRows(ok) == IF ok THEN {"awake"} ELSE {"awake", "broken"}

\* The row is stored before the manifest is written.
SleepRows(ok, old) == IF ok THEN {"sleeping"} ELSE {old, "sleeping"}

\* The sweep may put an idle Room to sleep, or only mark it as expired.
SweepRows(ok, old) == IF old = "awake" THEN {old, "sleeping"} ELSE {old}

\* The rows a job may leave behind; a change or an undo keeps it.
RowsAfter(k, ok, old) ==
    CASE k = "start" -> StartRows(ok)
      [] k = "sleep" -> SleepRows(ok, old)
      [] k = "sweep" -> SweepRows(ok, old)
      [] OTHER -> {old}

MayFail(ok) == ok \/ EngineFails

\* The containers run, and the web process is still to be verified.
ContainersUp(j) ==
    LET r == IF job[j].kind = "clone" THEN job[j].target ELSE job[j].room
    IN  /\ Quiet
        /\ job[j].phase = "holding"
        /\ job[j].kind \in {"start", "create", "clone"}
        /\ row[r] = "preparing"
        /\ row' = [row EXCEPT ![r] = "awake"]
        /\ UNCHANGED <<fence, record, job, queueVars, live, gate, wipe, halt, crashes>>

\* startRoomLocked, sleepRoomLocked, a change, a sweep that keeps the Room, or a
\* deletion that fails to release the Room's phone or browsers
WorkEnds(j, ok) ==
    LET r == job[j].room
    IN  /\ Quiet
        /\ job[j].phase = "holding"
        /\ job[j].kind \notin {"clone", "create"}
        /\ MayFail(ok)
        /\ job[j].kind = "delete" => ~ok
        /\ \E s \in RowsAfter(job[j].kind, ok, row[r]) : row' = [row EXCEPT ![r] = s]
        /\ fence' = IF job[j].kind = "matrix" THEN [fence EXCEPT ![r] = ~ok] ELSE fence
        /\ deleting' = IF job[j].kind = "delete" THEN deleting \ {r} ELSE deleting
        /\ Leaves(j, ok)
        /\ UNCHANGED <<record, roomOps, receipt, making, live, gate, wipe, halt,
                       crashes>>

\* Mutant: the operation that deletes the Room goes with it
MutantCascade(r, kept) ==
    record' = [j \in Jobs |-> IF job[j].room = r THEN "none" ELSE record[j]]

\* The rows of a Room's operations go with it, but for the kept one.
Cascade(r, kept) ==
    record' = [j \in Jobs |-> IF job[j].room = r /\ j # kept THEN "none" ELSE record[j]]

\* rooms.delete and operations.forgetRoom
Erase(r, kept) ==
    /\ row' = [row EXCEPT ![r] = "none"]
    /\ Cascade(r, kept)
    /\ live' = {j \in live : job[j].room # r \/ j = kept}

\* createRoomAdmitted under its lock: the Room is up (its manifest is written
\* after that), or rolled back with all its operations, or kept as broken when the
\* rollback fails too.
CreateEnds(j, ok) ==
    LET r == job[j].room
    IN  /\ Quiet
        /\ job[j].phase = "holding"
        /\ job[j].kind = "create"
        /\ MayFail(ok)
        /\ \/ /\ \E s \in StartRows(ok) : row' = [row EXCEPT ![r] = s]
              /\ UNCHANGED <<record, live>>
           \/ ~ok /\ Erase(r, None)
        /\ Leaves(j, ok)
        /\ UNCHANGED <<fence, roomOps, deleting, receipt, making, gate, wipe, halt,
                       crashes>>

\* cloneRoomLocked likewise for its target, whose live operations are not
\* forgotten, and the end of the barrier
CloneEnds(j, ok) ==
    LET t == job[j].target
    IN  /\ Quiet
        /\ job[j].phase = "holding"
        /\ job[j].kind = "clone"
        /\ MayFail(ok)
        /\ making' = making \ {t}
        /\ \/ /\ row' = [row EXCEPT ![t] = IF ok THEN "awake" ELSE "broken"]
              /\ UNCHANGED record
           \/ /\ ~ok
              /\ row' = [row EXCEPT ![t] = "none"]
              /\ Cascade(t, None)
        /\ Leaves(j, ok)
        /\ UNCHANGED <<fence, roomOps, deleting, receipt, live, gate, wipe, halt,
                       crashes>>

\* The grace of an expired Room elapsed: the sweep reserves the deletion.
SweepExpires(j) ==
    /\ Quiet
    /\ job[j].phase = "holding"
    /\ job[j].kind = "sweep"
    /\ job' = [job EXCEPT ![j].phase = "releasing"]
    /\ deleting' = deleting \cup {job[j].room}
    /\ UNCHANGED <<durable, roomOps, active, receipt, making, live, gate, wipe, halt,
                   crashes>>

\* deleteRoomLocked: the phone and the browsers are released, and the tombstone
\* is stored before the pod is removed.
EraseBegins(j) ==
    /\ Quiet
    /\ job[j].phase = "releasing" \/ (job[j].phase = "holding" /\ job[j].kind = "delete")
    /\ job' = [job EXCEPT ![j].phase = "erasing"]
    /\ row' = [row EXCEPT ![job[j].room] = "deleting"]
    /\ UNCHANGED <<fence, record, roomOps, active, deleting, receipt, making, live,
                   gate, wipe, halt, crashes>>

\* The pod and the rows are gone (the Room's directory may still resist), or a
\* step before that failed: the reservation is given up either way.
EraseEnds(j, ok) ==
    LET r == job[j].room
    IN  /\ Quiet
        /\ job[j].phase \in {"releasing", "erasing"}
        /\ MayFail(ok)
        /\ \/ job[j].phase = "erasing" /\ Erase(r, receipt[r])
           \/ ~ok /\ UNCHANGED <<row, record, live>>
        /\ deleting' = deleting \ {r}
        /\ Leaves(j, ok)
        /\ UNCHANGED <<fence, roomOps, receipt, making, gate, wipe, halt, crashes>>

\* OperationTracker.finish: the terminal record is an INSERT OR UPDATE.
Finish(j) ==
    LET r == job[j].room
    IN  /\ job[j].phase = "finishing"
        /\ job' = [job EXCEPT ![j].phase = "done"]
        /\ record' = [record EXCEPT ![j] = IF job[j].ok THEN "succeeded" ELSE "failed"]
        /\ live' = live \ {j}
        /\ receipt' = IF receipt[r] = j THEN [receipt EXCEPT ![r] = None] ELSE receipt
        /\ UNCHANGED <<row, fence, roomOps, active, deleting, making, gate, wipe,
                       halt, crashes>>

-----------------------------------------------------------------------------
(* Remove all data *)

NoWipe == [phase |-> "idle", awaits |-> {}, todo |-> {}, room |-> None, failed |-> FALSE]

\* Mutant: creations that have no Room yet are not awaited
MutantAdmissions == {roomOps[r] : r \in {s \in Rooms : roomOps[s] # None}}

\* drainRoomMutations: the end of every queue and the creations under way
Admissions ==
    {roomOps[r] : r \in {s \in Rooms : roomOps[s] # None}}
      \cup {Task(j) : j \in {i \in Jobs : /\ job[i].kind = "create"
                                          /\ ~Settled(Task(i))}}

Listed == {r \in Rooms : row[r] # "none"}

DeleteAll ==
    /\ Removal
    /\ Quiet
    /\ wipe.phase = "idle"
    /\ gate = "open"
    /\ gate' = "delete-all"
    /\ wipe' = [NoWipe EXCEPT !.phase = "draining", !.awaits = Admissions]
    /\ UNCHANGED <<durable, job, queueVars, live, halt, crashes>>

\* The task rejected: the gate opens again unless the application quits.
WipeFails ==
    /\ wipe' = NoWipe
    /\ gate' = IF gate = "delete-all" THEN "open" ELSE gate

\* Every Room is looked at before the first one is deleted.
WipeDrained ==
    /\ Drained(wipe)
    /\ \/ /\ \E r \in Listed : fence[r]
          /\ WipeFails
       \/ /\ \A r \in Listed : ~fence[r]
          /\ wipe' = [NoWipe EXCEPT !.phase = "erasing", !.todo = Listed]
          /\ UNCHANGED gate
    /\ UNCHANGED <<durable, job, queueVars, live, halt, crashes>>

\* deleteRoomLocked without the lock: it asks for the fence and the row again, and
\* releases the phone and the browsers before it stores the tombstone.
WipeBegins(r) ==
    /\ Quiet
    /\ wipe.phase = "erasing" /\ wipe.room = None
    /\ r \in wipe.todo
    /\ \/ /\ fence[r] \/ row[r] = "none" \/ EngineFails
          /\ wipe' = [wipe EXCEPT !.todo = @ \ {r}, !.failed = TRUE]
          /\ UNCHANGED row
       \/ /\ ~fence[r] /\ row[r] # "none"
          /\ wipe' = [wipe EXCEPT !.room = r, !.todo = @ \ {r}]
          /\ row' = [row EXCEPT ![r] = "deleting"]
    /\ UNCHANGED <<fence, record, job, queueVars, live, gate, halt, crashes>>

WipeEnds(ok) ==
    /\ Quiet
    /\ wipe.room # None
    /\ MayFail(ok)
    /\ wipe' = [wipe EXCEPT !.room = None, !.failed = @ \/ ~ok]
    /\ \/ Erase(wipe.room, receipt[wipe.room])
       \/ ~ok /\ UNCHANGED <<row, record, live>>
    /\ UNCHANGED <<fence, job, queueVars, gate, halt, crashes>>

WipeReturns ==
    /\ Quiet
    /\ wipe.phase = "erasing" /\ wipe.room = None /\ wipe.todo = {}
    /\ IF wipe.failed
         THEN WipeFails
         ELSE wipe' = [NoWipe EXCEPT !.phase = "done"] /\ UNCHANGED gate
    /\ UNCHANGED <<durable, job, queueVars, live, halt, crashes>>

-----------------------------------------------------------------------------
(* Shutdown *)

NoHalt == [phase |-> "idle", awaits |-> {}, drained |-> TRUE, stops |-> {}, failed |-> FALSE]

\* Mutant: the gate stays as it is
MutantShutdown ==
    /\ Quits
    /\ Quiet
    /\ halt.phase = "idle"
    /\ halt' = IF wipe.phase \in {"draining", "erasing"}
                 THEN [NoHalt EXCEPT !.phase = "awaiting"]
                 ELSE [NoHalt EXCEPT !.phase = "draining", !.awaits = Admissions]
    /\ UNCHANGED <<durable, job, queueVars, live, gate, wipe, crashes>>

Shutdown ==
    /\ Quits
    /\ Quiet
    /\ halt.phase = "idle"
    /\ gate' = "shutdown"
    /\ halt' = IF wipe.phase \in {"draining", "erasing"}
                 THEN [NoHalt EXCEPT !.phase = "awaiting"]
                 ELSE [NoHalt EXCEPT !.phase = "draining", !.awaits = Admissions]
    /\ UNCHANGED <<durable, job, queueVars, live, wipe, crashes>>

HaltAwaited ==
    /\ Awaited
    /\ halt' = [halt EXCEPT !.phase = "draining", !.awaits = Admissions]
    /\ UNCHANGED <<durable, job, queueVars, live, gate, wipe, crashes>>

\* Mutant: a fenced Room is stopped like the others
MutantStoppable(drained) == {r \in Listed : row[r] # "sleeping" /\ (drained \/ r \notin active)}

\* Mutant: a Room with work in the engine is stopped all the same
MutantStoppableBusy(drained) == {r \in Listed : row[r] # "sleeping" /\ ~fence[r]}

\* The Rooms that shutdown stops, each with the locked implementation itself
Stoppable(drained) ==
    {r \in Listed : /\ row[r] # "sleeping"
                    /\ ~fence[r]
                    /\ drained \/ r \notin active}

StopRooms(drained) ==
    /\ halt' = [halt EXCEPT !.phase = "stopping", !.awaits = {}, !.drained = drained,
                  !.stops = Stoppable(drained),
                  !.failed = ~drained \/ \E r \in Listed : fence[r]]
    /\ UNCHANGED <<durable, job, queueVars, live, gate, wipe, crashes>>

HaltDrained == Drained(halt) /\ StopRooms(TRUE)

DrainTimesOut ==
    /\ EngineHangs
    /\ Quiet
    /\ halt.phase = "draining"
    /\ StopRooms(FALSE)

\* The clean removal outlasts the deadline: no Room is attempted.
DeadlineExpires ==
    /\ EngineHangs
    /\ Quiet
    /\ halt.phase = "awaiting"
    /\ halt' = [halt EXCEPT !.phase = "stopping", !.drained = FALSE, !.failed = TRUE]
    /\ UNCHANGED <<durable, job, queueVars, live, gate, wipe, crashes>>

\* A broken Room keeps its status.
StopEnds(r, ok) ==
    /\ Quiet
    /\ r \in halt.stops
    /\ MayFail(ok)
    /\ halt' = [halt EXCEPT !.stops = @ \ {r}, !.failed = @ \/ ~ok]
    /\ IF row[r] \in {"broken", "none"}
         THEN UNCHANGED row
         ELSE \E s \in SleepRows(ok, row[r]) : row' = [row EXCEPT ![r] = s]
    /\ UNCHANGED <<fence, record, job, queueVars, live, gate, wipe, crashes>>

HaltReturns ==
    /\ Quiet
    /\ halt.phase = "stopping" /\ halt.stops = {}
    /\ halt' = [halt EXCEPT !.phase = "done"]
    /\ UNCHANGED <<durable, job, queueVars, live, gate, wipe, crashes>>

-----------------------------------------------------------------------------
(* Crash and restart over the same database *)

\* What reconcile writes for a Room, unless the engine does not answer it
Reconciled(r) ==
    CASE row[r] = "deleting" -> "none"
      [] row[r] = "preparing" -> "broken"
      [] row[r] = "awake" /\ ~fence'[r] -> "sleeping"
      [] OTHER -> row[r]

\* Mutant: recoverInterrupted is not called
MutantRecovered(status) == status

\* recoverInterrupted: nothing drives a running operation any more
Recovered(status) == IF status = "running" THEN "failed" ELSE status

\* The pending recoveries, recoverInterrupted, and reconcile as far as it gets
Restart ==
    /\ crashes < MaxCrashes
    /\ crashes' = crashes + 1
    /\ fence' \in [Rooms -> BOOLEAN]
    /\ \A r \in Rooms : fence'[r] => fence[r]
    /\ \E stalled \in SUBSET Rooms :
          row' = [r \in Rooms |-> IF r \in stalled THEN row[r] ELSE Reconciled(r)]
    /\ record' = [j \in Jobs |->
                     IF \E r \in Rooms : job[j].room = r /\ row[r] = "deleting" /\ row'[r] = "none"
                       THEN "none"
                       ELSE Recovered(record[j])]
    /\ job' = [j \in Jobs |->
                  IF job[j].phase \in {"unused", "done"} THEN job[j]
                                                        ELSE [job[j] EXCEPT !.phase = "lost"]]
    /\ roomOps' = [r \in Rooms |-> None]
    /\ active' = {}
    /\ deleting' = {}
    /\ receipt' = [r \in Rooms |-> None]
    /\ making' = {}
    /\ live' = {}
    /\ gate' = "open"
    /\ wipe' = NoWipe
    /\ halt' = NoHalt

-----------------------------------------------------------------------------
(* The specification *)

Init ==
    /\ row \in [Rooms -> {"none", "awake", "sleeping"}]
    /\ \A r \in Rooms : row[r] = "none" <=> r \notin Existing
    /\ fence = [r \in Rooms |-> FALSE]
    /\ record = [j \in Jobs |-> "none"]
    /\ job = [j \in Jobs |-> Unused]
    /\ roomOps = [r \in Rooms |-> None]
    /\ active = {}
    /\ deleting = {}
    /\ receipt = [r \in Rooms |-> None]
    /\ making = {}
    /\ live = {}
    /\ gate = "open"
    /\ wipe = NoWipe
    /\ halt = NoHalt
    /\ crashes = 0

Call(j) ==
    \E r \in Rooms :
        \/ \E k \in Queued : CallTracked(j, k, r)
        \/ \E k \in {"sweep", "matrix"} : CallUntracked(j, k, r)
        \/ CallCreate(j, r)

\* Continuations of settled promises
Turn(j) ==
    \/ Refuse(j) \/ Acquire(j) \/ (\E s \in RowStates : AcquireStart(j, s))
    \/ (\E t \in Rooms : AcquireClone(j, t)) \/ RefuseClone(j)

Work(j) ==
    \/ CreateRow(j) \/ CreateRefused(j) \/ ContainersUp(j)
    \/ SweepExpires(j) \/ EraseBegins(j)
    \/ \E ok \in BOOLEAN :
          WorkEnds(j, ok) \/ CreateEnds(j, ok) \/ CloneEnds(j, ok) \/ EraseEnds(j, ok)

WipeStep ==
    WipeDrained \/ (\E r \in Rooms : WipeBegins(r)) \/ (\E ok \in BOOLEAN : WipeEnds(ok))
        \/ WipeReturns

HaltStep ==
    HaltAwaited \/ HaltDrained \/ (\E r \in Rooms, ok \in BOOLEAN : StopEnds(r, ok))
        \/ HaltReturns

Next ==
    \/ \E j \in Jobs : Call(j) \/ Turn(j) \/ Work(j) \/ Finish(j)
    \/ DeleteAll \/ WipeStep
    \/ Shutdown \/ DrainTimesOut \/ DeadlineExpires \/ HaltStep
    \/ Restart

Spec == Init /\ [][Next]_vars

\* The event loop runs what is ready, and every engine call returns: they all
\* carry a deadline.
Fairness ==
    /\ \A j \in Jobs : WF_vars(Turn(j)) /\ WF_vars(Work(j)) /\ WF_vars(Finish(j))
    /\ WF_vars(WipeStep)
    /\ WF_vars(HaltStep)

FairSpec == Spec /\ Fairness

-----------------------------------------------------------------------------
(* Properties *)

Phases == {"unused", "detecting", "waiting", "holding", "releasing", "erasing", "finishing",
           "done", "lost"}

JobRecords == [kind: AllKinds \cup {None}, room: Rooms \cup {None}, target: Rooms \cup {None},
               prev: Promises \cup {None}, phase: Phases, ok: BOOLEAN]

\* Every variable has its type.
TypeOK ==
    /\ row \in [Rooms -> RowStates]
    /\ fence \in [Rooms -> BOOLEAN]
    /\ record \in [Jobs -> {"none", "running", "succeeded", "failed"}]
    /\ job \in [Jobs -> JobRecords]
    /\ roomOps \in [Rooms -> Promises \cup {None}]
    /\ active \in SUBSET Rooms
    /\ deleting \in SUBSET Rooms
    /\ receipt \in [Rooms -> Jobs \cup {None}]
    /\ making \in SUBSET Rooms
    /\ live \in SUBSET Jobs
    /\ gate \in {"open", "delete-all", "shutdown"}
    /\ wipe \in [phase: {"idle", "draining", "erasing", "done"}, awaits: SUBSET Promises,
                 todo: SUBSET Rooms, room: Rooms \cup {None}, failed: BOOLEAN]
    /\ halt \in [phase: {"idle", "awaiting", "draining", "stopping", "done"},
                 awaits: SUBSET Promises, drained: BOOLEAN, stops: SUBSET Rooms,
                 failed: BOOLEAN]
    /\ crashes \in 0..MaxCrashes

\* Who works on the engine resources of a Room now
Workers(r) == {j \in Jobs : Inside(j) /\ r \in {job[j].room, job[j].target}}

\* One actor at a time works on a Room's resources: a job under the lock, a
\* clone that fills its target, the removal of all data, or the shutdown, the
\* last two of which do not take the lock (orchestrator.ts 2612, 5280).
EngineExclusive ==
    \A r \in Rooms :
        Cardinality(Workers(r)) + (IF wipe.room = r THEN 1 ELSE 0)
            + (IF r \in halt.stops THEN 1 ELSE 0) <= 1

\* Two jobs are never under the lock of one Room.
HoldersExclusive ==
    \A i, j \in Jobs : Inside(i) /\ Inside(j) /\ job[i].room = job[j].room => i = j

\* When the turn of a job comes, the lock is free and no older job of the Room
\* still waits: calls queue, they do not fail because others are under way.
QueueIsOrdered ==
    \A j \in Jobs : Ready(j) =>
        /\ job[j].room \notin active
        /\ \A i \in Jobs : i < j /\ job[i].phase = "waiting" => job[i].room # job[j].room

\* Nobody else touches a Room or a clone's target under a call, and the calls
\* of a Room run in order.
QueueOrdered == EngineExclusive /\ QueueIsOrdered

\* While a deletion removes the Room, its own operation record stays readable.
DeleteKeepsReceipt ==
    [][\A j \in Jobs :
          job[j].kind = "delete" /\ job[j].phase = "erasing" => record'[j] # "none"]_vars

\* Once a Room is gone no record of a start of it is left or comes back: a start
\* is not admitted behind a deletion (beginRoomStart, 4523).
NoOrphanRecord ==
    \A j \in Jobs :
        /\ record[j] # "none" /\ job[j].phase \in {"done", "lost"}
        /\ row[job[j].room] = "none"
        => job[j].kind # "start"

\* A record that says running has its work in this process, so a caller who
\* polls it does not wait forever.
RunningIsDriven ==
    \A j \in Jobs : record[j] = "running" =>
        j \in live /\ job[j].phase \notin {"done", "lost"}

\* Nobody works on a Room whose recovery key is stored but the run that owns it.
FencedRoomUntouched ==
    \A r \in Rooms : fence[r] =>
        /\ wipe.room # r
        /\ r \notin halt.stops
        /\ \A j \in Workers(r) : job[j].kind = "matrix"

\* After "remove all data" succeeded no Room is left and none appears before
\* the process ends, although creations may have been under way.
RemovalIsFinal == wipe.phase = "done" => Listed = {}

\* A shutdown that reports no failure leaves no Room awake and no work behind.
CleanShutdownIsQuiet ==
    halt.phase = "done" /\ ~halt.failed =>
        /\ \A r \in Listed : row[r] \in {"sleeping", "broken"}
        /\ \A j \in Jobs : job[j].phase \in {"unused", "done", "lost"}

\* A Room marked for deletion is deleted or stays marked.
TombstoneStays ==
    [][\A r \in Rooms : row[r] = "deleting" => row'[r] \in {"deleting", "none"}]_vars

\* Every call gets its turn and its answer, and neither a removal nor a
\* shutdown waits forever.
EveryCallSettles ==
    /\ \A j \in Jobs : job[j].phase = "waiting" ~> job[j].phase \in {"done", "lost"}
    /\ wipe.phase = "draining" ~> wipe.phase \in {"idle", "done"}
    /\ halt.phase # "idle" ~> halt.phase \in {"idle", "done"}
=============================================================================
