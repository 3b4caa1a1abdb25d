------------------------ MODULE RoomMutationsProofs ------------------------
(***************************************************************************)
(* Type correctness of RoomMutations, and that no two jobs are under the   *)
(* lock of one Room, for any number of Rooms and calls and whatever the    *)
(* clients do.  The lock does not rest on the order of the queue: it is    *)
(* activeRoomLocks that keeps a second job out.                            *)
(***************************************************************************)
EXTENDS RoomMutations, FiniteSetTheorems, WellFoundedInduction, TLAPS

USE NoneRoomAssumption

-----------------------------------------------------------------------------
(* Type correctness *)

\* A call that was made names a Room.
JobsNamed == \A j \in Jobs : job[j].phase # "unused" => job[j].room \in Rooms

TypeInv == TypeOK /\ JobsNamed

\* Steps that leave the jobs alone keep what is known of them.
LEMMA JobsKept ==
    ASSUME TypeInv, UNCHANGED job
    PROVE  job' \in [Jobs -> JobRecords] /\ JobsNamed'
BY DEF TypeInv, TypeOK, JobsNamed

LEMMA UnusedTyped == Unused \in JobRecords
BY DEF Unused, JobRecords, Phases

LEMMA PromisesTyped == \A j \in Jobs : Task(j) \in Promises /\ Op(j) \in Promises
BY DEF Promises

LEMMA TypeInit == Init => TypeInv
BY UnusedTyped, BoundAssumption, ExistingAssumption
   DEF Init, TypeInv, TypeOK, JobsNamed, Unused, NoWipe, NoHalt, RowStates

\* A job that was called stays well typed when its record is replaced by one of
\* the same Room.
LEMMA JobTyped ==
    ASSUME TypeInv, NEW j \in Jobs, NEW q \in JobRecords,
           q.room \in Rooms,
           job' = [job EXCEPT ![j] = q]
    PROVE  job' \in [Jobs -> JobRecords] /\ JobsNamed'
BY DEF TypeInv, TypeOK, JobsNamed

\* ... by a new phase
LEMMA JobPhaseTyped ==
    ASSUME TypeInv, NEW j \in Jobs, NEW ph \in Phases,
           job[j].phase # "unused",
           job' = [job EXCEPT ![j].phase = ph]
    PROVE  job' \in [Jobs -> JobRecords] /\ JobsNamed'
<1> DEFINE q == [job[j] EXCEPT !.phase = ph]
<1>1. job[j] \in JobRecords /\ job[j].room \in Rooms
  BY DEF TypeInv, TypeOK, JobsNamed
<1>2. q \in JobRecords /\ q.room \in Rooms
  BY <1>1 DEF JobRecords
<1>3. job' = [job EXCEPT ![j] = q]
  OBVIOUS
<1> HIDE DEF q
<1> QED
  BY <1>2, <1>3, JobTyped

\* ... by a new phase and an outcome
LEMMA JobOkTyped ==
    ASSUME TypeInv, NEW j \in Jobs, NEW ph \in Phases, NEW b \in BOOLEAN,
           job[j].phase # "unused",
           job' = [job EXCEPT ![j].phase = ph, ![j].ok = b]
    PROVE  job' \in [Jobs -> JobRecords] /\ JobsNamed'
<1> DEFINE q == [job[j] EXCEPT !.phase = ph, !.ok = b]
<1>1. job[j] \in JobRecords /\ job[j].room \in Rooms
  BY DEF TypeInv, TypeOK, JobsNamed
<1>2. q \in JobRecords /\ q.room \in Rooms
  BY <1>1 DEF JobRecords
<1>3. job' = [job EXCEPT ![j] = q]
  OBVIOUS
<1> HIDE DEF q
<1> QED
  BY <1>2, <1>3, JobTyped

\* ... by a new phase and a target
LEMMA JobTargetTyped ==
    ASSUME TypeInv, NEW j \in Jobs, NEW ph \in Phases, NEW t \in Rooms,
           job[j].phase # "unused",
           job' = [job EXCEPT ![j].phase = ph, ![j].target = t]
    PROVE  job' \in [Jobs -> JobRecords] /\ JobsNamed'
<1> DEFINE q == [job[j] EXCEPT !.phase = ph, !.target = t]
<1>1. job[j] \in JobRecords /\ job[j].room \in Rooms
  BY DEF TypeInv, TypeOK, JobsNamed
<1>2. q \in JobRecords /\ q.room \in Rooms
  BY <1>1 DEF JobRecords
<1>3. job' = [job EXCEPT ![j] = q]
  OBVIOUS
<1> HIDE DEF q
<1> QED
  BY <1>2, <1>3, JobTyped

\* ... by a new phase and a predecessor
LEMMA JobPrevTyped ==
    ASSUME TypeInv, NEW j \in Jobs, NEW ph \in Phases, NEW p \in Promises \cup {None},
           job[j].phase # "unused",
           job' = [job EXCEPT ![j].phase = ph, ![j].prev = p]
    PROVE  job' \in [Jobs -> JobRecords] /\ JobsNamed'
<1> DEFINE q == [job[j] EXCEPT !.phase = ph, !.prev = p]
<1>1. job[j] \in JobRecords /\ job[j].room \in Rooms
  BY DEF TypeInv, TypeOK, JobsNamed
<1>2. q \in JobRecords /\ q.room \in Rooms
  BY <1>1 DEF JobRecords
<1>3. job' = [job EXCEPT ![j] = q]
  OBVIOUS
<1> HIDE DEF q
<1> QED
  BY <1>2, <1>3, JobTyped

LEMMA CallTypes ==
    ASSUME TypeInv, NEW j \in Jobs, Call(j)
    PROVE  TypeInv'
<1> USE DEF TypeInv, TypeOK, JobsNamed
<1>1. PICK r \in Rooms : \/ \E k \in Queued : CallTracked(j, k, r)
                        \/ \E k \in {"sweep", "matrix"} : CallUntracked(j, k, r)
                        \/ CallCreate(j, r)
  BY DEF Call
<1>2. ASSUME NEW k \in Queued, CallTracked(j, k, r)
      PROVE  TypeInv'
  <2>1. [Unused EXCEPT !.kind = k, !.room = r, !.prev = roomOps[r],
           !.phase = IF RejectedAtOnce(k, r) THEN "finishing" ELSE "waiting"] \in JobRecords
    BY UnusedTyped DEF JobRecords, Phases, AllKinds, Tracked
  <2>2. job' \in [Jobs -> JobRecords] /\ JobsNamed'
    BY <1>2, <2>1 DEF CallTracked, JobRecords, Unused
  <2> QED
    BY <1>2, <2>2, PromisesTyped DEF CallTracked
<1>3. ASSUME NEW k \in {"sweep", "matrix"}, CallUntracked(j, k, r)
      PROVE  TypeInv'
  <2>1. [Unused EXCEPT !.kind = k, !.room = r, !.prev = roomOps[r],
           !.phase = "waiting"] \in JobRecords
    BY UnusedTyped DEF JobRecords, Phases, AllKinds
  <2>2. job' \in [Jobs -> JobRecords] /\ JobsNamed'
    BY <1>3, <2>1 DEF CallUntracked, JobRecords, Unused
  <2> QED
    BY <1>3, <2>2, PromisesTyped DEF CallUntracked, durable
<1>4. CASE CallCreate(j, r)
  <2>1. [Unused EXCEPT !.kind = "create", !.room = r,
           !.phase = IF gate = "open" THEN "detecting" ELSE "finishing"] \in JobRecords
    BY UnusedTyped DEF JobRecords, Phases, AllKinds, Tracked
  <2>2. job' \in [Jobs -> JobRecords] /\ JobsNamed'
    BY <1>4, <2>1 DEF CallCreate, JobRecords, Unused
  <2> QED
    BY <1>4, <2>2 DEF CallCreate, queueVars
<1> QED
  BY <1>1, <1>2, <1>3, <1>4

LEMMA TurnTypes ==
    ASSUME TypeInv, NEW j \in Jobs, Turn(j)
    PROVE  TypeInv'
<1> USE DEF TypeInv, TypeOK, JobsNamed, Ready
<1>1. CASE Refuse(j)
  <2>1. Over(job[j].kind) \in Phases /\ Over(job[j].kind) # "unused"
    BY DEF Over, Phases
  <2>2. job' \in [Jobs -> JobRecords] /\ JobsNamed'
    BY <1>1, <2>1, JobPhaseTyped DEF Refuse
  <2> QED
    BY <1>1, <2>2 DEF Refuse, durable
<1>2. CASE Acquire(j)
  <2>1. job' \in [Jobs -> JobRecords] /\ JobsNamed'
    BY <1>2, JobPhaseTyped DEF Acquire, Phases
  <2> QED
    BY <1>2, <2>1 DEF Acquire
<1>3. ASSUME NEW t \in Rooms, AcquireClone(j, t)
      PROVE  TypeInv'
  <2>1. job' \in [Jobs -> JobRecords] /\ JobsNamed'
    BY <1>3, JobTargetTyped DEF AcquireClone, Phases
  <2> QED
    BY <1>3, <2>1, PromisesTyped DEF AcquireClone, RowStates
<1>4. CASE RefuseClone(j)
  <2>1. job' \in [Jobs -> JobRecords] /\ JobsNamed'
    BY <1>4, JobPhaseTyped DEF RefuseClone, Phases
  <2> QED
    BY <1>4, <2>1 DEF RefuseClone, durable, queueVars
<1>5. ASSUME NEW s \in RowStates, AcquireStart(j, s)
      PROVE  TypeInv'
  <2>1. job' \in [Jobs -> JobRecords] /\ JobsNamed'
    BY <1>5, JobPhaseTyped DEF AcquireStart, Phases
  <2> QED
    BY <1>5, <2>1 DEF AcquireStart
<1> QED
  BY <1>1, <1>2, <1>3, <1>4, <1>5 DEF Turn

LEMMA LeavesTypes ==
    ASSUME TypeInv, NEW j \in Jobs, NEW ok \in BOOLEAN, job[j].phase # "unused", Leaves(j, ok)
    PROVE  job' \in [Jobs -> JobRecords] /\ JobsNamed' /\ active' \in SUBSET Rooms
<1>1. Over(job[j].kind) \in Phases /\ Over(job[j].kind) # "unused"
  BY DEF Over, Phases
<1> QED
  BY <1>1, JobOkTyped DEF TypeInv, TypeOK, JobsNamed, Leaves

LEMMA CascadeTypes ==
    ASSUME TypeInv, NEW r, NEW kept, Cascade(r, kept)
    PROVE  record' \in [Jobs -> {"none", "running", "succeeded", "failed"}]
BY DEF TypeInv, TypeOK, Cascade

LEMMA EraseTypes ==
    ASSUME TypeInv, NEW r, NEW kept, Erase(r, kept)
    PROVE  /\ row' \in [Rooms -> RowStates]
           /\ record' \in [Jobs -> {"none", "running", "succeeded", "failed"}]
           /\ live' \in SUBSET Jobs
BY CascadeTypes DEF TypeInv, TypeOK, Erase, RowStates

LEMMA RowsAfterTypes ==
    ASSUME NEW k, NEW ok \in BOOLEAN, NEW old \in RowStates
    PROVE  RowsAfter(k, ok, old) \subseteq RowStates
BY DEF RowsAfter, StartRows, SleepRows, SweepRows, RowStates

LEMMA WorkTypes ==
    ASSUME TypeInv, NEW j \in Jobs, Work(j)
    PROVE  TypeInv'
<1> USE DEF TypeInv, TypeOK, JobsNamed
<1>1. CASE CreateRow(j)
  <2>1. job' \in [Jobs -> JobRecords] /\ JobsNamed'
    BY <1>1, JobPrevTyped, ZenonT(60) DEF CreateRow, Phases
  <2> QED
    BY <1>1, <2>1, PromisesTyped DEF CreateRow, RowStates
<1>2. CASE CreateRefused(j)
  <2>1. job' \in [Jobs -> JobRecords] /\ JobsNamed'
    BY <1>2, JobPhaseTyped DEF CreateRefused, Phases
  <2> QED
    BY <1>2, <2>1 DEF CreateRefused, durable, queueVars
<1>3. CASE EraseBegins(j)
  <2>1. job' \in [Jobs -> JobRecords] /\ JobsNamed'
    BY <1>3, JobPhaseTyped DEF EraseBegins, Phases
  <2> QED
    BY <1>3, <2>1 DEF EraseBegins, RowStates
<1>8. CASE ContainersUp(j)
  <2>1. row' \in [Rooms -> RowStates]
    BY <1>8 DEF ContainersUp, RowStates
  <2> QED
    BY <1>8, <2>1, JobsKept DEF ContainersUp, queueVars
<1>9. CASE SweepExpires(j)
  <2>1. job' \in [Jobs -> JobRecords] /\ JobsNamed'
    BY <1>9, JobPhaseTyped DEF SweepExpires, Phases
  <2>2. deleting' \in SUBSET Rooms
    BY <1>9 DEF SweepExpires
  <2> QED
    BY <1>9, <2>1, <2>2 DEF SweepExpires, durable
<1>4. ASSUME NEW ok \in BOOLEAN, WorkEnds(j, ok)
      PROVE  TypeInv'
  <2>1. job[j].room \in Rooms /\ job[j].phase # "unused" /\ Leaves(j, ok)
    BY <1>4 DEF WorkEnds
  <2>2. row' \in [Rooms -> RowStates]
    BY <1>4, <2>1, RowsAfterTypes DEF WorkEnds
  <2> QED
    BY <1>4, <2>1, <2>2, LeavesTypes DEF WorkEnds
<1>5. ASSUME NEW ok \in BOOLEAN, CloneEnds(j, ok)
      PROVE  TypeInv'
  <2>1. job[j].phase # "unused" /\ Leaves(j, ok)
    BY <1>5 DEF CloneEnds
  <2>2. row' \in [Rooms -> RowStates]
    BY <1>5 DEF CloneEnds, RowStates
  <2>3. record' \in [Jobs -> {"none", "running", "succeeded", "failed"}]
    BY <1>5, CascadeTypes DEF CloneEnds
  <2> QED
    BY <1>5, <2>1, <2>2, <2>3, LeavesTypes DEF CloneEnds
<1>6. ASSUME NEW ok \in BOOLEAN, EraseEnds(j, ok)
      PROVE  TypeInv'
  <2>1. job[j].phase # "unused" /\ Leaves(j, ok)
    BY <1>6 DEF EraseEnds
  <2>2. /\ row' \in [Rooms -> RowStates]
        /\ record' \in [Jobs -> {"none", "running", "succeeded", "failed"}]
        /\ live' \in SUBSET Jobs
    BY <1>6, EraseTypes DEF EraseEnds
  <2> QED
    BY <1>6, <2>1, <2>2, LeavesTypes DEF EraseEnds
<1>7. ASSUME NEW ok \in BOOLEAN, CreateEnds(j, ok)
      PROVE  TypeInv'
  <2>1. job[j].phase # "unused" /\ Leaves(j, ok)
    BY <1>7 DEF CreateEnds
  <2>2. /\ row' \in [Rooms -> RowStates]
        /\ record' \in [Jobs -> {"none", "running", "succeeded", "failed"}]
        /\ live' \in SUBSET Jobs
    BY <1>7, EraseTypes DEF CreateEnds, StartRows, RowStates
  <2> QED
    BY <1>7, <2>1, <2>2, LeavesTypes DEF CreateEnds
<1> QED
  BY <1>1, <1>2, <1>3, <1>4, <1>5, <1>6, <1>7, <1>8, <1>9 DEF Work

LEMMA FinishTypes ==
    ASSUME TypeInv, NEW j \in Jobs, Finish(j)
    PROVE  TypeInv'
<1> USE DEF TypeInv, TypeOK, JobsNamed
<1>1. job' \in [Jobs -> JobRecords] /\ JobsNamed'
  BY JobPhaseTyped DEF Finish, Phases
<1> QED
  BY <1>1 DEF Finish

WipeRecords == [phase: {"idle", "draining", "erasing", "done"}, awaits: SUBSET Promises,
                todo: SUBSET Rooms, room: Rooms \cup {None}, failed: BOOLEAN]

HaltRecords == [phase: {"idle", "awaiting", "draining", "stopping", "done"},
                awaits: SUBSET Promises, drained: BOOLEAN, stops: SUBSET Rooms,
                failed: BOOLEAN]

LEMMA AdmissionsTyped ==
    ASSUME TypeInv
    PROVE  Admissions \subseteq Promises
BY PromisesTyped DEF TypeInv, TypeOK, Admissions

LEMMA WipeRecordsTyped ==
    ASSUME NEW R \in SUBSET Rooms
    PROVE  /\ NoWipe \in WipeRecords
           /\ [NoWipe EXCEPT !.phase = "erasing", !.todo = R] \in WipeRecords
           /\ [NoWipe EXCEPT !.phase = "done"] \in WipeRecords
BY DEF NoWipe, WipeRecords

LEMMA WipeTypes ==
    ASSUME TypeInv, DeleteAll \/ WipeStep
    PROVE  TypeInv'
<1> USE DEF TypeInv, TypeOK
<1>0. wipe \in WipeRecords
  BY DEF WipeRecords
<1>1. CASE DeleteAll
  <2>1. wipe' \in WipeRecords
    BY <1>1, AdmissionsTyped DEF DeleteAll, NoWipe, WipeRecords
  <2> QED
    BY <1>1, <2>1, JobsKept DEF DeleteAll, durable, queueVars, WipeRecords
<1>2. CASE WipeDrained
  <2>1. wipe' \in WipeRecords
    <3>1. Listed \in SUBSET Rooms
      BY DEF Listed
    <3>2. wipe' = NoWipe \/ wipe' = [NoWipe EXCEPT !.phase = "erasing", !.todo = Listed]
      BY <1>2 DEF WipeDrained, WipeFails
    <3> QED
      BY <3>1, <3>2, WipeRecordsTyped
  <2>2. gate' \in {"open", "delete-all", "shutdown"}
    BY <1>2 DEF WipeDrained, WipeFails
  <2> QED
    BY <1>2, <2>1, <2>2, JobsKept DEF WipeDrained, durable, queueVars, WipeRecords
<1>3. ASSUME NEW r \in Rooms, WipeBegins(r)
      PROVE  TypeInv'
  <2>1. wipe' \in WipeRecords
    <3>1. /\ [wipe EXCEPT !.todo = @ \ {r}, !.failed = TRUE] \in WipeRecords
          /\ [wipe EXCEPT !.room = r, !.todo = @ \ {r}] \in WipeRecords
      BY <1>0 DEF WipeRecords
    <3> QED
      BY <1>3, <3>1 DEF WipeBegins
  <2>2. row' \in [Rooms -> RowStates]
    BY <1>3 DEF WipeBegins, RowStates
  <2> QED
    BY <1>3, <2>1, <2>2, JobsKept DEF WipeBegins, queueVars, WipeRecords
<1>4. ASSUME NEW ok \in BOOLEAN, WipeEnds(ok)
      PROVE  TypeInv'
  <2>1. wipe' \in WipeRecords
    BY <1>0, <1>4 DEF WipeEnds, WipeRecords
  <2>2. /\ row' \in [Rooms -> RowStates]
        /\ record' \in [Jobs -> {"none", "running", "succeeded", "failed"}]
        /\ live' \in SUBSET Jobs
    BY <1>4, EraseTypes DEF WipeEnds
  <2> QED
    BY <1>4, <2>1, <2>2, JobsKept DEF WipeEnds, queueVars, WipeRecords
<1>5. CASE WipeReturns
  <2>1. wipe' \in WipeRecords
    <3>1. wipe' = NoWipe \/ wipe' = [NoWipe EXCEPT !.phase = "done"]
      BY <1>5 DEF WipeReturns, WipeFails
    <3> QED
      BY <3>1, WipeRecordsTyped
  <2>2. gate' \in {"open", "delete-all", "shutdown"}
    BY <1>5 DEF WipeReturns, WipeFails
  <2> QED
    BY <1>5, <2>1, <2>2, JobsKept DEF WipeReturns, durable, queueVars, WipeRecords
<1> QED
  BY <1>1, <1>2, <1>3, <1>4, <1>5 DEF WipeStep

LEMMA StopRoomsTypes ==
    ASSUME TypeInv, NEW d \in BOOLEAN, StopRooms(d)
    PROVE  TypeInv'
<1> USE DEF TypeInv, TypeOK
<1>1. Stoppable(d) \subseteq Rooms
  BY DEF Stoppable, Listed
<1>2. halt \in HaltRecords
  BY DEF HaltRecords
<1>3. halt' \in HaltRecords
  BY <1>1, <1>2 DEF StopRooms, HaltRecords
<1> QED
  BY <1>3, JobsKept DEF StopRooms, durable, queueVars, HaltRecords

LEMMA HaltTypes ==
    ASSUME TypeInv, Shutdown \/ DrainTimesOut \/ DeadlineExpires \/ HaltStep
    PROVE  TypeInv'
<1> USE DEF TypeInv, TypeOK
<1>0. halt \in HaltRecords
  BY DEF HaltRecords
<1>1. CASE Shutdown
  <2>1. halt' \in HaltRecords
    BY <1>1, AdmissionsTyped DEF Shutdown, NoHalt, HaltRecords
  <2> QED
    BY <1>1, <2>1, JobsKept DEF Shutdown, durable, queueVars, HaltRecords
<1>2. CASE DrainTimesOut
  BY <1>2, StopRoomsTypes DEF DrainTimesOut
<1>3. CASE DeadlineExpires
  <2>1. halt' \in HaltRecords
    BY <1>0, <1>3 DEF DeadlineExpires, HaltRecords
  <2> QED
    BY <1>3, <2>1, JobsKept DEF DeadlineExpires, durable, queueVars, HaltRecords
<1>4. CASE HaltAwaited
  <2>1. halt' \in HaltRecords
    BY <1>0, <1>4, AdmissionsTyped DEF HaltAwaited, HaltRecords
  <2> QED
    BY <1>4, <2>1, JobsKept DEF HaltAwaited, durable, queueVars, HaltRecords
<1>5. CASE HaltDrained
  BY <1>5, StopRoomsTypes DEF HaltDrained
<1>6. ASSUME NEW r \in Rooms, NEW ok \in BOOLEAN, StopEnds(r, ok)
      PROVE  TypeInv'
  <2>1. halt' \in HaltRecords
    BY <1>0, <1>6 DEF StopEnds, HaltRecords
  <2>2. row' \in [Rooms -> RowStates]
    BY <1>6 DEF StopEnds, SleepRows, RowStates
  <2> QED
    BY <1>6, <2>1, <2>2, JobsKept DEF StopEnds, queueVars, HaltRecords
<1>7. CASE HaltReturns
  <2>1. halt' \in HaltRecords
    BY <1>0, <1>7 DEF HaltReturns, HaltRecords
  <2> QED
    BY <1>7, <2>1, JobsKept DEF HaltReturns, durable, queueVars, HaltRecords
<1> QED
  BY <1>1, <1>2, <1>3, <1>4, <1>5, <1>6, <1>7 DEF HaltStep

LEMMA RestartTypes ==
    ASSUME TypeInv, Restart
    PROVE  TypeInv'
<1> USE DEF TypeInv, TypeOK
<1>1. row' \in [Rooms -> RowStates]
  <2>1. \A r \in Rooms : Reconciled(r) \in RowStates
    BY DEF Reconciled, RowStates
  <2> QED
    BY <2>1 DEF Restart
<1>2. record' \in [Jobs -> {"none", "running", "succeeded", "failed"}]
  <2>1. \A j \in Jobs : Recovered(record[j]) \in {"none", "running", "succeeded", "failed"}
    BY DEF Recovered
  <2> QED
    BY <2>1 DEF Restart
<1>3. job' \in [Jobs -> JobRecords] /\ JobsNamed'
  <2>1. ASSUME NEW j \in Jobs
        PROVE  job'[j] \in JobRecords /\ job'[j].room = job[j].room
                 /\ (job'[j].phase # "unused" => job[j].phase # "unused")
    <3>1. job[j] \in JobRecords
      OBVIOUS
    <3>2. [job[j] EXCEPT !.phase = "lost"] \in JobRecords
          /\ [job[j] EXCEPT !.phase = "lost"].room = job[j].room
      BY <3>1 DEF JobRecords, Phases
    <3> QED
      BY <3>1, <3>2 DEF Restart
  <2> QED
    BY <2>1 DEF Restart, JobsNamed
<1>4. wipe' \in WipeRecords /\ halt' \in HaltRecords
  BY DEF Restart, NoWipe, NoHalt, WipeRecords, HaltRecords
<1>5. crashes' \in 0..MaxCrashes
  BY BoundAssumption DEF Restart
<1> QED
  BY <1>1, <1>2, <1>3, <1>4, <1>5 DEF Restart, WipeRecords, HaltRecords

LEMMA TypeStep ==
    ASSUME TypeInv, [Next]_vars
    PROVE  TypeInv'
<1>1. CASE UNCHANGED vars
  BY <1>1, JobsKept DEF TypeInv, TypeOK, vars, durable, queueVars
<1>2. CASE Next
  BY <1>2, CallTypes, TurnTypes, WorkTypes, FinishTypes, WipeTypes, HaltTypes, RestartTypes
     DEF Next
<1> QED
  BY <1>1, <1>2

\* Every reachable state of the Room queue has its type, for any Rooms, calls
\* and bound on crashes (the fields of the Orchestrator, 1428-1444).
THEOREM TypeCorrect == Spec => []TypeOK
<1>1. Spec => []TypeInv
  BY TypeInit, TypeStep, PTL DEF Spec
<1> QED
  BY <1>1, PTL DEF TypeInv

-----------------------------------------------------------------------------
(* The lock of a Room has one holder *)

\* Whoever works under a lock is in activeRoomLocks.
HoldersLocked == \A j \in Jobs : Inside(j) => job[j].room \in active

LockInv == TypeInv /\ HoldersLocked /\ HoldersExclusive

\* A step that lets nobody in and takes nobody's lock away keeps both.
LEMMA NobodyEnters ==
    ASSUME LockInv, active' = active,
           \A j \in Jobs : Inside(j)' => Inside(j) /\ job'[j].room = job[j].room
    PROVE  HoldersLocked' /\ HoldersExclusive'
BY DEF LockInv, HoldersLocked, HoldersExclusive

\* A job enters a lock that nobody holds.
LEMMA OneEnters ==
    ASSUME LockInv, NEW i \in Jobs, job[i].room \notin active,
           active' = active \cup {job[i].room},
           \A j \in Jobs : job'[j].room = job[j].room,
           \A j \in Jobs : Inside(j)' => Inside(j) \/ j = i
    PROVE  HoldersLocked' /\ HoldersExclusive'
BY DEF LockInv, HoldersLocked, HoldersExclusive

\* The holder leaves and takes only its own lock with it.
LEMMA OneLeaves ==
    ASSUME LockInv, NEW i \in Jobs, Inside(i),
           active' = active \ {job[i].room},
           \A j \in Jobs : job'[j].room = job[j].room,
           \A j \in Jobs : Inside(j)' => Inside(j) /\ j # i
    PROVE  HoldersLocked' /\ HoldersExclusive'
BY DEF LockInv, HoldersLocked, HoldersExclusive

LEMMA LockStep ==
    ASSUME LockInv, [Next]_vars
    PROVE  LockInv'
<1>0. TypeInv'
  BY TypeStep DEF LockInv
<1>a. job \in [Jobs -> JobRecords]
  BY DEF LockInv, TypeInv, TypeOK
<1>b. SUFFICES HoldersLocked' /\ HoldersExclusive'
  BY <1>0 DEF LockInv
<1>1. ASSUME NEW j \in Jobs, Call(j)
      PROVE  HoldersLocked' /\ HoldersExclusive'
  <2>1. active' = active
    BY <1>1 DEF Call, CallTracked, CallUntracked, CallCreate, queueVars
  <2>2. ASSUME NEW i \in Jobs, Inside(i)'
        PROVE  Inside(i) /\ job'[i].room = job[i].room
    <3>1. i # j => job'[i] = job[i]
      BY <1>1, <1>a DEF Call, CallTracked, CallUntracked, CallCreate
    <3>2. job'[j].phase \in {"finishing", "waiting", "detecting"}
      <4>1. ASSUME NEW k, NEW r, CallTracked(j, k, r)
            PROVE  job'[j].phase \in {"finishing", "waiting"}
        BY <4>1, <1>a DEF CallTracked, Unused
      <4>2. ASSUME NEW k, NEW r, CallUntracked(j, k, r)
            PROVE  job'[j].phase = "waiting"
        BY <4>2, <1>a DEF CallUntracked, Unused
      <4>3. ASSUME NEW r, CallCreate(j, r)
            PROVE  job'[j].phase \in {"finishing", "detecting"}
        BY <4>3, <1>a DEF CallCreate, Unused
      <4> QED
        BY <1>1, <4>1, <4>2, <4>3 DEF Call
    <3> QED
      BY <2>2, <3>1, <3>2 DEF Inside
  <2> QED
    BY <2>1, <2>2, NobodyEnters
<1>2. ASSUME NEW j \in Jobs, Refuse(j) \/ RefuseClone(j) \/ CreateRow(j) \/ CreateRefused(j)
                                \/ SweepExpires(j) \/ EraseBegins(j) \/ Finish(j)
      PROVE  HoldersLocked' /\ HoldersExclusive'
  <2>1. active' = active
    BY <1>2 DEF Refuse, RefuseClone, CreateRow, CreateRefused, SweepExpires, EraseBegins,
                        Finish, queueVars
  <2>2. ASSUME NEW i \in Jobs, Inside(i)'
        PROVE  Inside(i) /\ job'[i].room = job[i].room
    <3>1. job'[i].room = job[i].room
      BY <1>2, <1>a DEF Refuse, RefuseClone, CreateRow, CreateRefused, SweepExpires, EraseBegins,
                        Finish,
                        JobRecords
    <3>2. i # j => job'[i] = job[i]
      BY <1>2, <1>a DEF Refuse, RefuseClone, CreateRow, CreateRefused, SweepExpires, EraseBegins,
                        Finish
    <3>3. SweepExpires(j) \/ EraseBegins(j) => Inside(j)
      BY DEF SweepExpires, EraseBegins, Inside
    <3>4. ~SweepExpires(j) /\ ~EraseBegins(j) => job'[j].phase \in {"finishing", "done", "waiting"}
      BY <1>2, <1>a DEF Refuse, RefuseClone, CreateRow, CreateRefused, Finish, Over, JobRecords
    <3> QED
      BY <2>2, <3>1, <3>2, <3>3, <3>4 DEF Inside
  <2> QED
    BY <2>1, <2>2, NobodyEnters
<1>3. ASSUME NEW j \in Jobs,
             Acquire(j) \/ (\E s \in RowStates : AcquireStart(j, s))
               \/ \E t \in Rooms : AcquireClone(j, t)
      PROVE  HoldersLocked' /\ HoldersExclusive'
  <2>1. job[j].room \notin active /\ active' = active \cup {job[j].room}
    BY <1>3 DEF Acquire, AcquireStart, AcquireClone, Refused
  <2>2. \A i \in Jobs : job'[i].room = job[i].room /\ (i # j => job'[i] = job[i])
    BY <1>3, <1>a DEF Acquire, AcquireStart, AcquireClone, JobRecords
  <2> QED
    BY <2>1, <2>2, OneEnters DEF Inside
<1>4. ASSUME NEW j \in Jobs, NEW ok \in BOOLEAN,
             WorkEnds(j, ok) \/ CreateEnds(j, ok) \/ CloneEnds(j, ok) \/ EraseEnds(j, ok)
      PROVE  HoldersLocked' /\ HoldersExclusive'
  <2>1. Inside(j) /\ Leaves(j, ok)
    BY <1>4 DEF WorkEnds, CreateEnds, CloneEnds, EraseEnds, Inside
  <2>2. \A i \in Jobs : job'[i].room = job[i].room /\ (i # j => job'[i] = job[i])
    BY <1>a, <2>1 DEF Leaves, JobRecords
  <2>3. job'[j].phase \in {"finishing", "done"}
    BY <1>a, <2>1 DEF Leaves, Over, JobRecords
  <2> QED
    BY <2>1, <2>2, <2>3, OneLeaves DEF Inside, Leaves
<1>5. CASE UNCHANGED <<job, active>>
  BY <1>5, NobodyEnters DEF Inside
<1>6. DeleteAll \/ WipeStep => UNCHANGED <<job, active>>
  BY DEF DeleteAll, WipeStep, WipeDrained, WipeBegins, WipeEnds, WipeReturns, queueVars
<1>7. Shutdown \/ DrainTimesOut \/ DeadlineExpires \/ HaltStep => UNCHANGED <<job, active>>
  BY DEF Shutdown, DrainTimesOut, DeadlineExpires, HaltStep, HaltAwaited, HaltDrained,
         StopRooms, StopEnds, HaltReturns, queueVars
<1>8. CASE Restart
  <2>1. \A i \in Jobs : ~Inside(i)'
    BY <1>8, <1>a DEF Restart, Inside, JobRecords
  <2> QED
    BY <2>1 DEF HoldersLocked, HoldersExclusive
<1>9. UNCHANGED vars \/ (\E j \in Jobs : ContainersUp(j)) => UNCHANGED <<job, active>>
  BY DEF vars, ContainersUp, queueVars
<1> QED
  BY <1>1, <1>2, <1>3, <1>4, <1>5, <1>6, <1>7, <1>8, <1>9 DEF Next, Turn, Work

\* No two jobs are ever inside the lock of one Room (withRoomLock, 2676-2708),
\* for any Rooms and any number of calls, also when calls that were rejected
\* before they queued have broken the order of the Room's promise chain.
THEOREM OneHolder == Spec => []HoldersExclusive
<1>1. Init => LockInv
  BY TypeInit DEF Init, LockInv, HoldersLocked, HoldersExclusive, Inside, Unused
<1>2. LockInv /\ [Next]_vars => LockInv'
  BY LockStep
<1>3. LockInv => HoldersExclusive
  BY DEF LockInv
<1> QED
  BY <1>1, <1>2, <1>3, PTL DEF Spec

-----------------------------------------------------------------------------
(* A running record has its work in this process *)

\* Only a tracked call that is not over has a running record.
DrivenInv ==
    /\ TypeInv
    /\ \A j \in Jobs : record[j] = "running" =>
          /\ j \in live
          /\ job[j].kind \in Tracked
          /\ job[j].phase \notin {"unused", "done", "lost"}

\* No step but the publication of a record makes one that runs; it is enough
\* that the tracked jobs keep going or end with their record.
LEMMA DrivenKept ==
    ASSUME DrivenInv,
           \A j \in Jobs : record'[j] = "running" =>
              /\ record[j] = "running"
              /\ j \in live'
              /\ job'[j].kind = job[j].kind
              /\ job[j].kind \in Tracked =>
                    job'[j].phase = job[j].phase \/ job'[j].phase \notin {"unused", "done", "lost"},
           TypeInv'
    PROVE  DrivenInv'
BY DEF DrivenInv

LEMMA DrivenStep ==
    ASSUME DrivenInv, [Next]_vars
    PROVE  DrivenInv'
<1>0. TypeInv'
  BY TypeStep DEF DrivenInv
<1>a. job \in [Jobs -> JobRecords] /\ record \in [Jobs -> {"none", "running", "succeeded", "failed"}]
  BY DEF DrivenInv, TypeInv, TypeOK
<1>1. ASSUME NEW j \in Jobs, Call(j)
      PROVE  DrivenInv'
  <2>1. ASSUME NEW k \in Queued, NEW r \in Rooms, CallTracked(j, k, r)
        PROVE  DrivenInv'
    <3>1. \A i \in Jobs \ {j} : job'[i] = job[i] /\ record'[i] = record[i]
      BY <1>a, <2>1 DEF CallTracked
    <3>2. job'[j].kind \in Tracked /\ job'[j].phase \in {"finishing", "waiting"}
      BY <1>a, <2>1 DEF CallTracked, Unused, Tracked
    <3>3. live' = live \cup {j}
      BY <2>1 DEF CallTracked
    <3> QED
      BY <1>0, <3>1, <3>2, <3>3 DEF DrivenInv
  <2>2. ASSUME NEW k \in {"sweep", "matrix"}, NEW r \in Rooms, CallUntracked(j, k, r)
        PROVE  DrivenInv'
    <3>1. \A i \in Jobs \ {j} : job'[i] = job[i]
      BY <1>a, <2>2 DEF CallUntracked
    <3>2. record' = record /\ live' = live /\ job[j].phase = "unused"
      BY <2>2 DEF CallUntracked, Calls, durable
    <3> QED
      BY <1>0, <3>1, <3>2 DEF DrivenInv
  <2>3. ASSUME NEW r \in Rooms, CallCreate(j, r)
        PROVE  DrivenInv'
    <3>1. \A i \in Jobs \ {j} : job'[i] = job[i] /\ record'[i] = record[i]
      BY <1>a, <2>3 DEF CallCreate
    <3>2. job'[j].kind \in Tracked /\ job'[j].phase \in {"finishing", "detecting"}
      BY <1>a, <2>3 DEF CallCreate, Unused, Tracked
    <3>3. live' = live \cup {j}
      BY <2>3 DEF CallCreate
    <3> QED
      BY <1>0, <3>1, <3>2, <3>3 DEF DrivenInv
  <2> QED
    BY <1>1, <2>1, <2>2, <2>3 DEF Call
<1>2. ASSUME NEW j \in Jobs, Turn(j) \/ CreateRow(j) \/ CreateRefused(j)
                                \/ SweepExpires(j) \/ EraseBegins(j)
      PROVE  DrivenInv'
  <2>1. record' = record /\ live' = live
    BY <1>2 DEF Turn, Refuse, Acquire, AcquireStart, AcquireClone, RefuseClone, CreateRow, CreateRefused,
                SweepExpires, EraseBegins, durable
  <2>2. \A i \in Jobs : job'[i].kind = job[i].kind /\ (i # j => job'[i] = job[i])
    BY <1>2, <1>a DEF Turn, Refuse, Acquire, AcquireStart, AcquireClone, RefuseClone, CreateRow,
                      CreateRefused, SweepExpires, EraseBegins, JobRecords
  <2>3. job[j].kind \in Tracked => job'[j].phase \notin {"unused", "done", "lost"}
    BY <1>2, <1>a DEF Turn, Refuse, Acquire, AcquireStart, AcquireClone, RefuseClone, CreateRow,
                      CreateRefused, SweepExpires, EraseBegins, JobRecords, Over
  <2> QED
    BY <1>0, <2>1, <2>2, <2>3, DrivenKept DEF DrivenInv
<1>3. ASSUME NEW j \in Jobs, NEW ok \in BOOLEAN,
             WorkEnds(j, ok) \/ CreateEnds(j, ok) \/ CloneEnds(j, ok) \/ EraseEnds(j, ok)
      PROVE  DrivenInv'
  <2>1. Leaves(j, ok)
    BY <1>3 DEF WorkEnds, CreateEnds, CloneEnds, EraseEnds
  <2>2. \A i \in Jobs : job'[i].kind = job[i].kind /\ (i # j => job'[i] = job[i])
    BY <1>a, <2>1 DEF Leaves, JobRecords
  <2>3. job[j].kind \in Tracked => job'[j].phase = "finishing"
    BY <1>a, <2>1 DEF Leaves, Over, JobRecords
  <2>4. \A i \in Jobs : record'[i] = "running" =>
           record[i] = "running" /\ (i \in live => i \in live')
    BY <1>3, <1>a DEF WorkEnds, CreateEnds, CloneEnds, EraseEnds, Erase, Cascade
  <2> QED
    BY <1>0, <2>2, <2>3, <2>4, DrivenKept DEF DrivenInv
<1>4. ASSUME NEW j \in Jobs, Finish(j)
      PROVE  DrivenInv'
  <2>1. \A i \in Jobs \ {j} : job'[i] = job[i] /\ record'[i] = record[i]
    BY <1>4, <1>a DEF Finish
  <2>2. record'[j] # "running" /\ live' = live \ {j}
    BY <1>4, <1>a DEF Finish
  <2> QED
    BY <1>0, <2>1, <2>2 DEF DrivenInv
<1>5. CASE DeleteAll \/ WipeStep
  <2>1. job' = job
    BY <1>5 DEF DeleteAll, WipeStep, WipeDrained, WipeBegins, WipeEnds, WipeReturns
  <2>2. \A i \in Jobs : record'[i] = "running" =>
           record[i] = "running" /\ (i \in live => i \in live')
    BY <1>5, <1>a DEF DeleteAll, WipeStep, WipeDrained, WipeBegins, WipeEnds, WipeReturns,
                      Erase, Cascade, durable
  <2> QED
    BY <1>0, <2>1, <2>2, DrivenKept DEF DrivenInv
<1>6. CASE Shutdown \/ DrainTimesOut \/ DeadlineExpires \/ HaltStep
             \/ UNCHANGED vars \/ \E j \in Jobs : ContainersUp(j)
  <2>1. UNCHANGED <<job, record, live>>
    BY <1>6 DEF Shutdown, DrainTimesOut, DeadlineExpires, HaltStep, HaltAwaited, HaltDrained,
                StopRooms, StopEnds, HaltReturns, ContainersUp, vars, durable
  <2> QED
    BY <1>0, <2>1, DrivenKept DEF DrivenInv
<1>7. CASE Restart
  <2>1. \A i \in Jobs : record'[i] # "running"
    BY <1>7, <1>a DEF Restart, Recovered
  <2> QED
    BY <1>0, <2>1 DEF DrivenInv
<1> QED
  BY <1>1, <1>2, <1>3, <1>4, <1>5, <1>6, <1>7 DEF Next, Work

\* An operation record that says running always has its work in this process,
\* also after crashes (recoverInterrupted, operations.ts 108) and after the
\* deletion of its Room, so polling it ends, for any Rooms and calls.
THEOREM RunningDriven == Spec => []RunningIsDriven
<1>1. Init => DrivenInv
  BY TypeInit DEF Init, DrivenInv
<1>2. DrivenInv /\ [Next]_vars => DrivenInv'
  BY DrivenStep
<1>3. DrivenInv => RunningIsDriven
  BY DEF DrivenInv, RunningIsDriven
<1> QED
  BY <1>1, <1>2, <1>3, PTL DEF Spec

-----------------------------------------------------------------------------
(***************************************************************************)
(* The order of the Rooms' queues, and what rests on it:                   *)
(* one actor works on a Room at a time, nobody touches a Room whose        *)
(* recovery key is stored, removal and shutdown mean what they say, and    *)
(* the records of starts and deletions go and stay with their Room.        *)
(*                                                                         *)
(* The argument.  A promise chain has no list of the calls that wait: each *)
(* call knows only the promise in front of it, and roomOps the last one.   *)
(* The invariant says that behind every call that is not over there is an  *)
(* unbroken chain on its Room (Order), that the chain ends in roomOps as   *)
(* long as the gate lets calls in (Chained), and that a closed gate waits  *)
(* for the whole of it (Drains).  A clone belongs to two chains; that of   *)
(* its target is new, so that all others on it are younger.                *)
(***************************************************************************)

HIDE NoneRoomAssumption

-----------------------------------------------------------------------------
(* Jobs on a Room *)

\* The job is admitted and not over.
Queueing(j) == job[j].phase \in {"waiting", "holding", "releasing", "erasing"}

\* ... or a creation that has no row yet
Pending(j) == Queueing(j) \/ job[j].phase = "detecting"

On(j, r) == r \in {job[j].room, job[j].target}

NobodyPending == \A j \in Jobs : ~Pending(j)

LEMMA JobsNumbered == Jobs \subseteq Nat
<1>1. \A j \in 1..Cardinality(Jobs) : j \in Nat
  OBVIOUS
<1> QED
  BY <1>1, JobsAssumption

LEMMA PromisesOf ==
    /\ \A j \in Jobs : /\ Task(j) \in Promises /\ Task(j).of = j
                       /\ Op(j) \in Promises /\ Op(j).of = j
    /\ \A p \in Promises : p.of \in Jobs /\ p # None
<1>1. \A j \in Jobs : /\ Task(j) \in Promises /\ Task(j).of = j
                     /\ Op(j) \in Promises /\ Op(j).of = j
  BY DEF Promises, Task, Op
<1>2. \A p \in Promises : \E j \in Jobs : p = Task(j) \/ p = Op(j)
  BY DEF Promises
<1> QED
  BY <1>1, <1>2, NonePromiseAssumption

\* A promise that is settled has nobody pending behind it.
LEMMA SettledIsOver ==
    ASSUME NEW p \in Promises, Settled(p)
    PROVE  ~Pending(p.of)
BY PromisesOf DEF Settled, Pending, Queueing

-----------------------------------------------------------------------------
(* What a step may do to the queues *)

Frame == UNCHANGED <<gate, wipe, halt>>

Others(j) == \A i \in Jobs \ {j} : job'[i] = job[i]

\* The first call that is not used yet, with the gate open
Enters(j, r) ==
    /\ gate = "open" /\ halt.phase # "done"
    /\ job[j].phase = "unused"
    /\ \A i \in Jobs : i < j => job[i].phase # "unused"
    /\ row[r] # "none" /\ row' = row
    /\ job'[j].room = r /\ job'[j].target = None /\ job'[j].prev = roomOps[r]
    /\ job'[j].phase = "waiting" /\ job'[j].kind \in Kinds
    /\ \E p \in {Task(j), Op(j)} : roomOps' = [roomOps EXCEPT ![r] = p]

\* A call that is rejected at once; it may still become the end of the queue.
Bounces(j) ==
    /\ gate # "open" /\ halt.phase # "done" /\ row' = row
    /\ job[j].phase = "unused"
    /\ \A i \in Jobs : i < j => job[i].phase # "unused"
    /\ job'[j].room \in Rooms /\ job'[j].target = None
    /\ job'[j].phase = "finishing" /\ job'[j].kind \in Kinds
    /\ \/ roomOps' = roomOps /\ Unclaimed(job'[j].room)
       \/ /\ roomOps' = [roomOps EXCEPT ![job'[j].room] = Op(j)]
          /\ row[job'[j].room] # "none"

\* A creation starts to look at its project.
Detects(j) ==
    /\ gate = "open" /\ halt.phase # "done" /\ row' = row
    /\ job[j].phase = "unused"
    /\ \A i \in Jobs : i < j => job[i].phase # "unused"
    /\ job'[j].room \in Rooms /\ Unclaimed(job'[j].room)
    /\ job'[j].target = None
    /\ job'[j].phase = "detecting" /\ job'[j].kind = "create" /\ "create" \in Kinds
    /\ roomOps' = roomOps

\* ... and takes its place at the end of the empty queue of its Room.
Stores(j) ==
    /\ job[j].phase = "detecting"
    /\ job'[j].room = job[j].room /\ job'[j].target = job[j].target
    /\ job'[j].kind = job[j].kind
    /\ job'[j].phase = "waiting" /\ job'[j].prev = roomOps[job[j].room]
    /\ roomOps' = [roomOps EXCEPT ![job[j].room] = Task(j)]

\* A job goes on or ends.
Advances(j) ==
    /\ job'[j].room = job[j].room /\ job'[j].target = job[j].target
    /\ job'[j].kind = job[j].kind /\ job'[j].prev = job[j].prev
    /\ job[j].phase \notin {"unused", "done", "lost"}
    /\ job[j].phase = "waiting" => Ready(j)
    /\ ~Queueing(j) => job'[j].phase \in {"finishing", "done"}
    /\ job'[j].phase \notin {"unused", "detecting", "waiting"}
    /\ roomOps' = roomOps

\* A clone gets its turn and a target.
Targets(j, t) ==
    /\ Ready(j) /\ Unclaimed(t)
    /\ job[j].kind = "clone"
    /\ job'[j].room = job[j].room /\ job'[j].target = t
    /\ job'[j].kind = job[j].kind /\ job'[j].prev = job[j].prev
    /\ job'[j].phase = "holding"
    /\ roomOps' = [roomOps EXCEPT ![t] = Task(j)]

\* One job moves, the gate and those who wait for it stay.
Moves(j) ==
    /\ Others(j) /\ Frame
    /\ \/ \E r \in Rooms : Enters(j, r)
       \/ Bounces(j) \/ Detects(j) \/ Stores(j) \/ Advances(j)
       \/ \E t \in Rooms : Targets(j, t)

LEMMA CallMoves ==
    ASSUME TypeInv, ~Impatient, NEW j \in Jobs, Call(j)
    PROVE  Moves(j)
<1>1. job \in [Jobs -> JobRecords] /\ roomOps \in [Rooms -> Promises \cup {None}]
  BY DEF TypeInv, TypeOK
<1>2. Others(j) /\ Frame
  BY <1>1 DEF Call, CallTracked, CallUntracked, CallCreate, Others, Frame
<1>3. ASSUME NEW k \in Queued, NEW r \in Rooms, CallTracked(j, k, r)
      PROVE  Moves(j)
  <2>1. /\ job'[j] = [Unused EXCEPT !.kind = k, !.room = r, !.prev = roomOps[r],
                         !.phase = IF RejectedAtOnce(k, r) THEN "finishing" ELSE "waiting"]
        /\ roomOps' = [roomOps EXCEPT ![r] = Op(j)]
    BY <1>1, <1>3 DEF CallTracked
  <2>2. RejectedAtOnce(k, r) <=> gate # "open"
    BY <1>3 DEF CallTracked, Admitted, RejectedAtOnce
  <2>3. Calls(j, k) /\ row[r] # "none" /\ row' = row
    BY <1>3 DEF CallTracked, Admitted
  <2>4. CASE gate = "open"
    <3>1. job'[j].phase = "waiting"
      BY <2>1, <2>2, <2>4 DEF Unused
    <3> QED
      BY <1>2, <2>1, <2>3, <2>4, <3>1 DEF Moves, Enters, Calls, Unused
  <2>5. CASE gate # "open"
    <3>1. job'[j].phase = "finishing"
      BY <2>1, <2>2, <2>5 DEF Unused
    <3> QED
      BY <1>2, <2>1, <2>3, <2>5, <3>1 DEF Moves, Bounces, Calls, Unused
  <2> QED
    BY <2>4, <2>5
<1>4. ASSUME NEW k \in {"sweep", "matrix"}, NEW r \in Rooms, CallUntracked(j, k, r)
      PROVE  Moves(j)
  <2>1. /\ job'[j] = [Unused EXCEPT !.kind = k, !.room = r, !.prev = roomOps[r],
                                    !.phase = "waiting"]
        /\ roomOps' = [roomOps EXCEPT ![r] = Task(j)]
    BY <1>1, <1>4 DEF CallUntracked
  <2>2. Calls(j, k) /\ row[r] # "none" /\ gate = "open" /\ row' = row
    BY <1>4 DEF CallUntracked, durable
  <2> QED
    BY <1>2, <2>1, <2>2 DEF Moves, Enters, Calls, Unused
<1>5. ASSUME NEW r \in Rooms, CallCreate(j, r)
      PROVE  Moves(j)
  <2>1. job'[j] = [Unused EXCEPT !.kind = "create", !.room = r,
                      !.phase = IF gate = "open" THEN "detecting" ELSE "finishing"]
    BY <1>1, <1>5 DEF CallCreate
  <2>2. Calls(j, "create") /\ Unclaimed(r) /\ roomOps' = roomOps /\ row' = row
    BY <1>5 DEF CallCreate, queueVars
  <2>3. CASE gate = "open"
    BY <1>2, <2>1, <2>2, <2>3 DEF Moves, Detects, Calls, Unused
  <2>4. CASE gate # "open"
    BY <1>2, <2>1, <2>2, <2>4 DEF Moves, Bounces, Calls, Unused
  <2> QED
    BY <2>3, <2>4
<1> QED
  BY <1>3, <1>4, <1>5 DEF Call

LEMMA WorkMoves ==
    ASSUME TypeInv, NEW j \in Jobs, Turn(j) \/ Work(j) \/ Finish(j), job' # job
    PROVE  Moves(j)
<1>1. job \in [Jobs -> JobRecords]
  BY DEF TypeInv, TypeOK
<1>2. Over(job[j].kind) \in {"finishing", "done"}
  BY DEF Over
<1>3. ASSUME Refuse(j) \/ RefuseClone(j) \/ Acquire(j) \/ \E s \in RowStates : AcquireStart(j, s)
      PROVE  Others(j) /\ Frame /\ Advances(j)
  BY <1>1, <1>2, <1>3
     DEF Refuse, RefuseClone, Acquire, AcquireStart, queueVars, Others, Frame, Advances, Ready,
         Queueing, JobRecords
<1>4. ASSUME NEW t \in Rooms, AcquireClone(j, t)
      PROVE  Others(j) /\ Frame /\ Targets(j, t)
  BY <1>1, <1>4 DEF AcquireClone, Others, Frame, Targets, JobRecords
<1>5. ASSUME CreateRefused(j) \/ SweepExpires(j) \/ EraseBegins(j) \/ Finish(j)
      PROVE  Others(j) /\ Frame /\ Advances(j)
  BY <1>1, <1>5
     DEF CreateRefused, SweepExpires, EraseBegins, Finish, queueVars, Others, Frame, Advances,
         Queueing, JobRecords
<1>6. ASSUME CreateRow(j)
      PROVE  Others(j) /\ Frame /\ Stores(j)
  BY <1>1, <1>6 DEF CreateRow, Others, Frame, Stores, JobRecords
<1>7. ASSUME NEW ok \in BOOLEAN,
             WorkEnds(j, ok) \/ CreateEnds(j, ok) \/ CloneEnds(j, ok) \/ EraseEnds(j, ok)
      PROVE  Others(j) /\ Frame /\ Advances(j)
  <2>1. Inside(j) /\ Leaves(j, ok) /\ roomOps' = roomOps /\ Frame
    BY <1>7 DEF WorkEnds, CreateEnds, CloneEnds, EraseEnds, Inside, Frame
  <2> QED
    BY <1>1, <1>2, <2>1 DEF Leaves, Inside, Others, Advances, Queueing, JobRecords
<1>8. ~ContainersUp(j)
  BY DEF ContainersUp
<1> QED
  BY <1>3, <1>4, <1>5, <1>6, <1>7, <1>8 DEF Turn, Work, Moves

\* A job that works without moving has its containers up.
LEMMA StillJob ==
    ASSUME TypeInv, NEW j \in Jobs, Turn(j) \/ Work(j) \/ Finish(j), job' = job
    PROVE  ContainersUp(j)
<1>1. job \in [Jobs -> JobRecords]
  BY DEF TypeInv, TypeOK
<1>2. Over(job[j].kind) \in {"finishing", "done"}
  BY DEF Over
<1>3. job[j] = job'[j]
  OBVIOUS
<1>4. ~Turn(j) /\ ~Finish(j)
  BY <1>1, <1>2, <1>3
     DEF Turn, Refuse, RefuseClone, Acquire, AcquireStart, AcquireClone, Ready, Finish, JobRecords
<1>5. \A ok \in BOOLEAN :
         ~WorkEnds(j, ok) /\ ~CreateEnds(j, ok) /\ ~CloneEnds(j, ok) /\ ~EraseEnds(j, ok)
  BY <1>1, <1>2, <1>3 DEF WorkEnds, CreateEnds, CloneEnds, EraseEnds, Leaves, JobRecords
<1>6. ~CreateRow(j) /\ ~CreateRefused(j) /\ ~SweepExpires(j) /\ ~EraseBegins(j)
  BY <1>1, <1>3 DEF CreateRow, CreateRefused, SweepExpires, EraseBegins, JobRecords
<1> QED
  BY <1>4, <1>5, <1>6 DEF Work

\* A step moves one job, or none, or is a restart.
LEMMA Steps ==
    ASSUME TypeInv, ~Impatient, Next
    PROVE  \/ \E j \in Jobs : Moves(j)
           \/ UNCHANGED <<job, roomOps>>
           \/ Restart
<1>1. (\E j \in Jobs : ContainersUp(j)) \/ DeleteAll \/ WipeStep \/ Shutdown \/ DrainTimesOut
        \/ DeadlineExpires \/ HaltStep
      => UNCHANGED <<job, roomOps>>
  BY DEF ContainersUp, DeleteAll, WipeStep, WipeDrained, WipeBegins, WipeEnds, WipeReturns,
         Shutdown, DrainTimesOut, DeadlineExpires, HaltStep, HaltAwaited, HaltDrained, StopRooms,
         StopEnds, HaltReturns, queueVars
<1> QED
  BY <1>1, CallMoves, WorkMoves, StillJob DEF Next

\* A Room appears when its creation stores it or a clone begins; nothing else
\* gives a Room that is gone a row again.
LEMMA RowsAppear ==
    ASSUME TypeInv, Next, NEW r \in Rooms, row[r] = "none", row'[r] # "none"
    PROVE  \/ \E j \in Jobs : CreateRow(j) /\ job[j].room = r
           \/ \E j \in Jobs : AcquireClone(j, r)
           \/ \E j \in Jobs : Inside(j) /\ On(j, r)
<1>1. row \in [Rooms -> RowStates] /\ job \in [Jobs -> JobRecords] /\ JobsNamed
  BY DEF TypeInv, TypeOK
<1>2. ASSUME NEW j \in Jobs, Call(j) \/ Finish(j)
      PROVE  FALSE
  BY <1>2 DEF Call, CallTracked, CallUntracked, CallCreate, Finish, durable
<1>3. ASSUME NEW j \in Jobs, Turn(j)
      PROVE  AcquireClone(j, r)
  <2>1. ~Refuse(j) /\ ~Acquire(j) /\ ~RefuseClone(j)
    BY DEF Refuse, Acquire, RefuseClone, durable
  <2>2. ASSUME NEW s \in RowStates, AcquireStart(j, s)
        PROVE  FALSE
    BY <1>1, <2>2 DEF AcquireStart, Refused
  <2>3. ASSUME NEW t \in Rooms, AcquireClone(j, t)
        PROVE  t = r
    BY <1>1, <2>3 DEF AcquireClone
  <2> QED
    BY <1>3, <2>1, <2>2, <2>3 DEF Turn
<1>4. ASSUME NEW j \in Jobs, Work(j)
      PROVE  (CreateRow(j) /\ job[j].room = r) \/ (Inside(j) /\ On(j, r))
  <2>1. ~CreateRefused(j) /\ ~SweepExpires(j) /\ ~ContainersUp(j)
    <3>1. ASSUME ContainersUp(j) PROVE FALSE
      BY <1>1, <3>1 DEF ContainersUp
    <3> QED
      BY <3>1 DEF CreateRefused, SweepExpires, durable
  <2>2. CreateRow(j) => job[j].room = r
    BY <1>1 DEF CreateRow
  <2>3. EraseBegins(j) => Inside(j) /\ On(j, r)
    BY <1>1 DEF EraseBegins, Inside, On
  <2>4. ASSUME NEW ok \in BOOLEAN,
               WorkEnds(j, ok) \/ CreateEnds(j, ok) \/ CloneEnds(j, ok) \/ EraseEnds(j, ok)
        PROVE  Inside(j) /\ On(j, r)
    <3>1. Inside(j)
      BY <2>4 DEF WorkEnds, CreateEnds, CloneEnds, EraseEnds, Inside
    <3>2. WorkEnds(j, ok) \/ CreateEnds(j, ok) => job[j].room = r
      BY <1>1 DEF WorkEnds, CreateEnds, Erase
    <3>3. CloneEnds(j, ok) => job[j].target = r
      BY <1>1 DEF CloneEnds
    <3>4. ~EraseEnds(j, ok)
      BY <1>1 DEF EraseEnds, Erase
    <3> QED
      BY <2>4, <3>1, <3>2, <3>3, <3>4 DEF On
  <2> QED
    BY <1>4, <2>1, <2>2, <2>3, <2>4 DEF Work
<1>5. ~DeleteAll /\ ~WipeStep
  <2>1. ASSUME NEW s \in Rooms, WipeBegins(s) PROVE FALSE
    BY <1>1, <2>1 DEF WipeBegins
  <2>2. ASSUME NEW ok \in BOOLEAN, WipeEnds(ok) PROVE FALSE
    BY <1>1, <2>2 DEF WipeEnds, Erase
  <2> QED
    BY <2>1, <2>2 DEF DeleteAll, WipeStep, WipeDrained, WipeReturns, durable
<1>6. ~Shutdown /\ ~DrainTimesOut /\ ~DeadlineExpires /\ ~HaltStep
  <2>1. ASSUME NEW s \in Rooms, NEW ok \in BOOLEAN, StopEnds(s, ok) PROVE FALSE
    BY <1>1, <2>1 DEF StopEnds
  <2> QED
    BY <2>1 DEF Shutdown, DrainTimesOut, DeadlineExpires, HaltStep, HaltAwaited, HaltDrained,
                StopRooms, HaltReturns, durable
<1>7. ~Restart
  BY <1>1 DEF Restart, Reconciled
<1> QED
  BY <1>2, <1>3, <1>4, <1>5, <1>6, <1>7 DEF Next

-----------------------------------------------------------------------------
(* The chains *)

\* The calls are used in their order, and each names its Room for good.
UsedInOrder ==
    \A i, j \in Jobs : i < j /\ job[i].phase = "unused" => job[j].phase = "unused"

BlankUntilCalled ==
    \A j \in Jobs : job[j].phase = "unused" => job[j].room = None /\ job[j].target = None

\* The target of a clone is a Room that nobody named before.
TargetsAreNew ==
    \A j \in Jobs : job[j].target # None =>
        /\ job[j].kind = "clone"
        /\ job[j].phase \notin {"unused", "detecting", "waiting"}
        /\ \A i \in Jobs : /\ job[i].room = job[j].target => j < i
                           /\ i # j => job[i].target # job[j].target

\* Nobody else knows the Room of a creation that has no row yet.
DetectingAlone ==
    \A j \in Jobs : job[j].phase = "detecting" =>
        /\ job[j].kind = "create"
        /\ row[job[j].room] = "none"
        /\ \A i \in Jobs \ {j} : ~On(i, job[j].room)

Names == UsedInOrder /\ BlankUntilCalled /\ TargetsAreNew /\ DetectingAlone

\* The promise is not settled and belongs to a job on the Room.
Open(p, r) == p # None /\ Queueing(p.of) /\ On(p.of, r)

\* Whoever has an older call in front of it waits for a promise that is still
\* open, of a call that is at least as young as that one.
Order ==
    \A i, k \in Jobs : i < k /\ Queueing(i) /\ Queueing(k) /\ On(i, job[k].room) =>
        /\ job[k].phase = "waiting"
        /\ Open(job[k].prev, job[k].room)
        /\ i <= job[k].prev.of /\ job[k].prev.of < k

\* A call waits for an older one of its Room.
PrevIsEarlier ==
    \A k \in Jobs : job[k].phase = "waiting" /\ job[k].prev # None =>
        /\ job[k].prev.of < k
        /\ On(job[k].prev.of, job[k].room)
        /\ job[job[k].prev.of].phase \notin {"unused", "detecting"}

\* The end of a queue is a call on its Room.
EndsAreCalled ==
    \A r \in Rooms : roomOps[r] # None =>
        /\ On(roomOps[r].of, r)
        /\ job[roomOps[r].of].phase \notin {"unused", "detecting"}

\* While calls are let in, the end of a Room's queue is open and at least as young
\* as everybody on it.
Chained ==
    gate = "open" => \A i \in Jobs, r \in Rooms :
        Queueing(i) /\ On(i, r) => Open(roomOps[r], r) /\ i <= roomOps[r].of

QueueInv == TypeInv /\ Names /\ Order /\ PrevIsEarlier /\ EndsAreCalled /\ Chained

\* A call cannot be under way or get its turn while an older one on its Room is not over.
LEMMA Blocked ==
    ASSUME QueueInv, NEW i \in Jobs, NEW k \in Jobs, i < k,
           Queueing(i), Queueing(k), On(i, job[k].room)
    PROVE  job[k].phase = "waiting" /\ ~Ready(k)
<1>1. job[k].phase = "waiting" /\ Open(job[k].prev, job[k].room)
  BY DEF QueueInv, Order
<1>2. job[k].prev \in Promises
  BY <1>1 DEF QueueInv, TypeInv, TypeOK, JobRecords, Open
<1> QED
  BY <1>1, <1>2, SettledIsOver DEF Open, Ready, Pending

\* An older call on a Room is not over, so a job on that Room does not move.
LEMMA OlderFirst ==
    ASSUME QueueInv, NEW i \in Jobs, NEW j \in Jobs, NEW r, i < j,
           Queueing(i), Queueing(j), On(i, r), On(j, r), r # None,
           job[j].phase = "waiting" => Ready(j)
    PROVE  FALSE
<1>1. CASE job[j].room = r
  BY <1>1, Blocked
<1>2. CASE job[j].target = r
  BY <1>2, JobsNumbered DEF QueueInv, Names, TargetsAreNew, On
<1> QED
  BY <1>1, <1>2 DEF On

\* Names that a job carries are carried on; a step that names no new Room keeps
\* what they say.
LEMMA NamesKept ==
    ASSUME QueueInv, Next,
           \A j \in Jobs : /\ job'[j].room = job[j].room /\ job'[j].target = job[j].target
                           /\ job'[j].kind = job[j].kind
                           /\ job'[j].phase = "unused" <=> job[j].phase = "unused"
                           /\ job'[j].phase = "detecting" => job[j].phase = "detecting"
                                                               /\ ~CreateRow(j)
                           /\ job'[j].phase = "waiting" => job[j].phase \in {"detecting", "waiting"}
           PROVE  Names'
<1>1. UsedInOrder' /\ BlankUntilCalled'
  BY DEF QueueInv, Names, UsedInOrder, BlankUntilCalled
<1>2. TargetsAreNew'
  <2>1. ASSUME NEW j \in Jobs, job[j].phase = "detecting"
        PROVE  job[j].target = None
    BY <2>1 DEF QueueInv, Names, TargetsAreNew
  <2> QED
    BY <2>1 DEF QueueInv, Names, TargetsAreNew
<1>3. ASSUME NEW j \in Jobs, job'[j].phase = "detecting"
      PROVE  /\ job'[j].kind = "create"
             /\ row'[job'[j].room] = "none"
             /\ \A i \in Jobs \ {j} : ~On(i, job[j].room)'
  <2> DEFINE r == job[j].room
  <2>1. /\ job[j].phase = "detecting" /\ ~CreateRow(j) /\ job[j].kind = "create" /\ row[r] = "none"
        /\ \A i \in Jobs \ {j} : ~On(i, r)
    BY <1>3 DEF QueueInv, Names, DetectingAlone
  <2>2. r \in Rooms
    BY <2>1 DEF QueueInv, TypeInv, JobsNamed
  <2>3. row'[r] = "none"
    <3>1. ~\E i \in Jobs : CreateRow(i) /\ job[i].room = r
      BY <2>1 DEF On
    <3>2. ~\E i \in Jobs : AcquireClone(i, r)
      BY DEF AcquireClone, Unclaimed
    <3>3. ~\E i \in Jobs : Inside(i) /\ On(i, r)
      BY <2>1 DEF Inside
    <3> QED
      BY <2>1, <2>2, <3>1, <3>2, <3>3, RowsAppear DEF QueueInv
  <2> QED
    BY <2>1, <2>3 DEF On
<1> QED
  BY <1>1, <1>2, <1>3 DEF Names, DetectingAlone

\* What the proofs below use of the types
LEMMA QueueTypes ==
    ASSUME TypeInv
    PROVE  /\ job \in [Jobs -> JobRecords]
           /\ \A j \in Jobs : job[j].phase # "unused" => job[j].room \in Rooms /\ job[j].room # None
           /\ \A j \in Jobs : job[j].prev # None => job[j].prev \in Promises /\ job[j].prev.of \in Jobs
           /\ \A r \in Rooms : roomOps[r] # None => roomOps[r] \in Promises /\ roomOps[r].of \in Jobs
           /\ \A r \in Rooms : r # None
           /\ roomOps \in [Rooms -> Promises \cup {None}]
BY PromisesOf, NoneRoomAssumption DEF TypeInv, TypeOK, JobsNamed, JobRecords

LEMMA QueueInit == Init => QueueInv
<1> SUFFICES ASSUME Init PROVE QueueInv
  OBVIOUS
<1>1. \A j \in Jobs : job[j] = Unused
  BY DEF Init
<1>2. \A j \in Jobs : job[j].phase = "unused" /\ job[j].room = None /\ job[j].target = None
  BY <1>1 DEF Unused
<1>3. \A r \in Rooms : roomOps[r] = None
  BY DEF Init
<1>4. Names /\ Order /\ PrevIsEarlier
  BY <1>2 DEF Names, UsedInOrder, BlankUntilCalled, TargetsAreNew, DetectingAlone, Order,
              PrevIsEarlier, Queueing
<1>5. EndsAreCalled /\ Chained
  BY <1>2, <1>3 DEF EndsAreCalled, Chained, Queueing
<1> QED
  BY <1>4, <1>5, TypeInit DEF QueueInv

LEMMA QueueStays ==
    ASSUME QueueInv, Next, UNCHANGED <<job, roomOps>>, gate' = "open" => gate = "open" \/ NobodyPending
    PROVE  QueueInv'
<1>1. TypeInv'
  BY TypeStep DEF QueueInv
<1>2. \A j \in Jobs : ~CreateRow(j) \/ job[j].phase # "detecting"
  <2>1. ASSUME NEW j \in Jobs, CreateRow(j) PROVE FALSE
    <3>1. job[j].phase = "detecting" /\ job'[j].phase = "waiting"
      BY <2>1, QueueTypes DEF CreateRow, QueueInv, JobRecords
    <3> QED
      BY <3>1
  <2> QED
    BY <2>1
<1>3. Names'
  BY <1>2, NamesKept
<1>4. Order' /\ PrevIsEarlier' /\ EndsAreCalled'
  BY DEF QueueInv, Order, PrevIsEarlier, EndsAreCalled, Open, Queueing, On
<1>5. Chained'
  BY DEF QueueInv, Chained, NobodyPending, Pending, Open, Queueing, On
<1> QED
  BY <1>1, <1>3, <1>4, <1>5 DEF QueueInv

LEMMA QueueRestart ==
    ASSUME QueueInv, Restart
    PROVE  QueueInv'
<1>0. TypeInv'
  BY RestartTypes DEF QueueInv
<1>1. \A j \in Jobs : /\ job'[j].room = job[j].room /\ job'[j].target = job[j].target
                      /\ job'[j].kind = job[j].kind
                      /\ job'[j].phase \in {"unused", "done", "lost"}
                      /\ job'[j].phase = "unused" <=> job[j].phase = "unused"
  BY QueueTypes DEF Restart, QueueInv, JobRecords
<1>2. Names'
  BY <1>1 DEF QueueInv, Names, UsedInOrder, BlankUntilCalled, TargetsAreNew, DetectingAlone
<1>3. Order' /\ PrevIsEarlier' /\ Chained'
  BY <1>1 DEF Order, PrevIsEarlier, Chained, Queueing
<1>4. EndsAreCalled'
  BY DEF Restart, EndsAreCalled
<1> QED
  BY <1>0, <1>2, <1>3, <1>4 DEF QueueInv

LEMMA QueueAdvances ==
    ASSUME QueueInv, Next, NEW j \in Jobs, Others(j), Frame, Advances(j)
    PROVE  QueueInv'
<1>0. TypeInv'
  BY TypeStep DEF QueueInv
<1>1. \A i \in Jobs : /\ job'[i].room = job[i].room /\ job'[i].target = job[i].target
                      /\ job'[i].kind = job[i].kind /\ job'[i].prev = job[i].prev
                      /\ \A r : On(i, r)' <=> On(i, r)
  BY DEF Others, Advances, On
<1>2. \A i \in Jobs : /\ job'[i].phase \in {"unused", "detecting", "waiting"} => job'[i] = job[i] /\ i # j
                      /\ job[i].phase = "unused" => job'[i].phase = "unused"
                      /\ Queueing(i)' => Queueing(i)
                      /\ i # j => (Queueing(i)' <=> Queueing(i))
  BY DEF Others, Advances, Queueing
<1>3. ~CreateRow(j) /\ \A i \in Jobs : job[i].phase = "detecting" /\ CreateRow(i) => i = j
  <2>1. ASSUME NEW i \in Jobs, CreateRow(i) PROVE i = j /\ job'[i].phase = "waiting"
    <3>1. job[i].phase = "detecting" /\ job'[i].phase = "waiting"
      BY <2>1, QueueTypes DEF CreateRow, QueueInv, JobRecords
    <3> QED
      BY <3>1, <1>2
  <2> QED
    BY <2>1 DEF Advances
<1>4. Names'
  BY <1>1, <1>2, <1>3, NamesKept
<1>5. ASSUME NEW i \in Jobs, NEW k \in Jobs, i < k, Queueing(i)', Queueing(k)',
             On(i, job'[k].room)
      PROVE  /\ job'[k].phase = "waiting"
             /\ Open(job[k].prev, job[k].room)'
             /\ i <= job'[k].prev.of /\ job'[k].prev.of < k
  <2>1. Queueing(i) /\ Queueing(k) /\ On(i, job[k].room)
    BY <1>1, <1>2, <1>5
  <2>2. /\ job[k].phase = "waiting" /\ ~Ready(k) /\ Open(job[k].prev, job[k].room)
        /\ i <= job[k].prev.of /\ job[k].prev.of < k
    BY <1>5, <2>1, Blocked DEF QueueInv, Order
  <2>3. k # j
    BY <2>2 DEF Advances
  <2>4. job[k].prev.of = j => Queueing(j)'
    <3> SUFFICES ASSUME job[k].prev.of = j, ~Queueing(j)' PROVE FALSE
      OBVIOUS
    <3>1. i < j
      <4>1. i # j
        BY <1>5
      <4> QED
        BY <2>2, <4>1, JobsNumbered
    <3>2. job[k].room # None
      BY <2>2, QueueTypes DEF QueueInv
    <3> QED
      BY <2>1, <2>2, <3>1, <3>2, OlderFirst DEF Open, Advances
  <2>5. job[k].prev.of \in Jobs
    BY <2>2, QueueTypes DEF QueueInv, Open
  <2>6. Queueing(job[k].prev.of)'
    BY <1>1, <1>2, <2>2, <2>4, <2>5 DEF Open
  <2> QED
    BY <1>1, <2>2, <2>3, <2>5, <2>6 DEF Others, Open
<1>6. PrevIsEarlier'
  <2> SUFFICES ASSUME NEW k \in Jobs, job'[k].phase = "waiting", job'[k].prev # None
               PROVE  /\ job'[k].prev.of < k
                      /\ On(job[k].prev.of, job[k].room)'
                      /\ job'[job'[k].prev.of].phase \notin {"unused", "detecting"}
    BY <1>1 DEF PrevIsEarlier
  <2>1. job[k].phase = "waiting" /\ job[k].prev # None
    BY <1>1, <1>2
  <2>2. job[k].prev.of \in Jobs
    BY <2>1, QueueTypes DEF QueueInv
  <2> QED
    BY <1>1, <1>2, <2>1, <2>2 DEF QueueInv, PrevIsEarlier
<1>7. EndsAreCalled'
  BY <1>1, <1>2, QueueTypes DEF QueueInv, EndsAreCalled, Advances
<1>8. Chained'
  <2> SUFFICES ASSUME gate = "open", NEW i \in Jobs, NEW r \in Rooms, Queueing(i)', On(i, r)'
               PROVE  Open(roomOps[r], r)' /\ i <= roomOps'[r].of
    BY DEF Chained, Frame
  <2>1. Queueing(i) /\ On(i, r) /\ roomOps' = roomOps
    BY <1>1, <1>2 DEF Advances
  <2>2. Open(roomOps[r], r) /\ i <= roomOps[r].of /\ roomOps[r].of \in Jobs
    BY <2>1, QueueTypes DEF QueueInv, Chained, Open
  <2>3. CASE Queueing(roomOps[r].of)'
    BY <1>1, <2>1, <2>2, <2>3 DEF Open
  <2>4. CASE ~Queueing(roomOps[r].of)'
    <3>1. roomOps[r].of = j /\ i # j
      BY <1>2, <2>1, <2>2, <2>4 DEF Open
    <3>2. i < j
      BY <2>2, <3>1, JobsNumbered
    <3> QED
      BY <2>1, <2>2, <3>1, <3>2, OlderFirst, QueueTypes DEF Open, Advances, QueueInv
  <2> QED
    BY <2>3, <2>4
<1> QED
  BY <1>0, <1>1, <1>4, <1>5, <1>6, <1>7, <1>8 DEF QueueInv, Order

\* A call that was not used before carries no name: what is known of the other
\* calls stays, and all that is older than it was called.
LEMMA Fresh ==
    ASSUME QueueInv, NEW j \in Jobs, Others(j), job[j].phase = "unused",
           \A i \in Jobs : i < j => job[i].phase # "unused"
    PROVE  /\ ~Queueing(j) /\ job[j].target = None
           /\ \A i \in Jobs : job[i].phase # "unused" => i < j
           /\ \A i \in Jobs : i # j => /\ job'[i] = job[i]
                                       /\ Queueing(i)' <=> Queueing(i)
                                       /\ \A r : On(i, r)' <=> On(i, r)
<1>1. \A i \in Jobs : i # j => job'[i] = job[i]
  BY DEF Others
<1>2. ASSUME NEW i \in Jobs, job[i].phase # "unused" PROVE i < j
  BY <1>2, JobsNumbered DEF QueueInv, Names, UsedInOrder
<1> QED
  BY <1>1, <1>2 DEF QueueInv, Names, BlankUntilCalled, Queueing, On

\* A row that a call finds, or no row at all, is not that of a creation under way.
LEMMA FreshNames ==
    ASSUME QueueInv, Next, NEW j \in Jobs, Others(j), job[j].phase = "unused",
           \A i \in Jobs : i < j => job[i].phase # "unused",
           row' = row, job'[j].room \in Rooms, job'[j].target = None,
           job'[j].phase \in {"waiting", "finishing", "detecting"},
           job'[j].phase = "detecting" => job'[j].kind = "create" /\ Unclaimed(job'[j].room),
           row[job'[j].room] # "none" \/ Unclaimed(job'[j].room)
    PROVE  Names'
<1> DEFINE r == job'[j].room
<1>1. /\ ~Queueing(j) /\ job[j].target = None
      /\ \A i \in Jobs : job[i].phase # "unused" => i < j
      /\ \A i \in Jobs : i # j => job'[i] = job[i] /\ \A s : On(i, s)' <=> On(i, s)
  BY Fresh
<1>2. r # None
  BY NoneRoomAssumption
<1>3. UsedInOrder' /\ BlankUntilCalled'
  <2>1. \A i, k \in Jobs : i < k => i # k
    BY JobsNumbered
  <2> QED
    BY <1>1, <2>1 DEF QueueInv, Names, UsedInOrder, BlankUntilCalled
<1>4. TargetsAreNew'
  <2> SUFFICES ASSUME NEW c \in Jobs, job'[c].target # None
               PROVE  /\ job'[c].kind = "clone"
                      /\ job'[c].phase \notin {"unused", "detecting", "waiting"}
                      /\ \A i \in Jobs : /\ job'[i].room = job'[c].target => c < i
                                         /\ i # c => job'[i].target # job'[c].target
    BY DEF TargetsAreNew
  <2>1. c # j /\ job'[c] = job[c] /\ c < j
    BY <1>1 DEF QueueInv, Names, TargetsAreNew
  <2> QED
    BY <1>1, <2>1 DEF QueueInv, Names, TargetsAreNew
<1>5. DetectingAlone'
  <2> SUFFICES ASSUME NEW d \in Jobs, job'[d].phase = "detecting"
               PROVE  /\ job'[d].kind = "create"
                      /\ row[job'[d].room] = "none"
                      /\ \A i \in Jobs \ {d} : job'[d].room \notin {job'[i].room, job'[i].target}
    BY DEF DetectingAlone, On
  <2>1. CASE d = j
    BY <1>1, <2>1, <1>2 DEF Unclaimed
  <2>2. CASE d # j
    <3>1. /\ job'[d] = job[d] /\ job[d].kind = "create" /\ row[job[d].room] = "none"
          /\ \A i \in Jobs \ {d} : ~On(i, job[d].room)
      BY <1>1, <2>2 DEF QueueInv, Names, DetectingAlone
    <3>2. job[d].room # None
      BY <2>2, <3>1, QueueTypes DEF QueueInv
    <3>3. job[d].room # r
      BY <3>1 DEF Unclaimed
    <3> QED
      BY <1>1, <3>1, <3>2, <3>3 DEF On
  <2> QED
    BY <2>1, <2>2
<1> QED
  BY <1>3, <1>4, <1>5 DEF Names

LEMMA QueueEnters ==
    ASSUME QueueInv, Next, NEW j \in Jobs, NEW r \in Rooms, Others(j), Frame, Enters(j, r)
    PROVE  QueueInv'
<1>0. TypeInv'
  BY TypeStep DEF QueueInv
<1>1. /\ ~Queueing(j) /\ job[j].target = None
      /\ \A i \in Jobs : job[i].phase # "unused" => i < j
      /\ \A i \in Jobs : i # j => /\ job'[i] = job[i]
                                  /\ Queueing(i)' <=> Queueing(i)
                                  /\ \A s : On(i, s)' <=> On(i, s)
  BY Fresh DEF Enters
<1>2. r # None
  BY QueueTypes DEF QueueInv
<1>3. Names'
  BY FreshNames DEF Enters
<1>4. roomOps'[r] # None /\ roomOps'[r].of = j /\ \A s \in Rooms \ {r} : roomOps'[s] = roomOps[s]
  BY PromisesOf, QueueTypes DEF QueueInv, Enters
<1>5. Queueing(j)' /\ \A s \in Rooms : On(j, s)' <=> s = r
  BY NoneRoomAssumption DEF Enters, Queueing, On
<1>6. ASSUME NEW p, NEW s \in Rooms, p # None, p.of \in Jobs, Open(p, s) PROVE p.of < j /\ Open(p, s)'
  BY <1>1, <1>6 DEF Open, Queueing
<1>7. ASSUME NEW i \in Jobs, NEW k \in Jobs, i < k, Queueing(i)', Queueing(k)',
             On(i, job[k].room)'
      PROVE  /\ job'[k].phase = "waiting"
             /\ Open(job[k].prev, job[k].room)'
             /\ i <= job'[k].prev.of /\ job'[k].prev.of < k
  <2>1. i # j
    <3>1. k # j => k < j
      BY <1>1, <1>7 DEF Queueing
    <3> QED
      BY <1>7, <3>1, JobsNumbered
  <2>2. CASE k = j
    <3>1. Queueing(i) /\ On(i, r)
      BY <1>1, <1>7, <2>1, <2>2 DEF Enters
    <3>2. PICK p \in Promises : p = roomOps[r] /\ Open(p, r) /\ i <= p.of
      BY <3>1, QueueTypes DEF QueueInv, Chained, Enters, Open
    <3>3. p.of < j /\ Open(p, r)'
      BY <1>6, <3>2, PromisesOf
    <3>4. job'[k].prev = p /\ job'[k].room = r /\ job'[k].phase = "waiting"
      BY <2>2, <3>2 DEF Enters
    <3> QED
      BY <2>2, <3>2, <3>3, <3>4 DEF Open
  <2>3. CASE k # j
    <3>1. Queueing(i) /\ Queueing(k) /\ On(i, job[k].room) /\ job'[k] = job[k]
      BY <1>1, <1>7, <2>1, <2>3
    <3>2. /\ job[k].phase = "waiting" /\ Open(job[k].prev, job[k].room)
          /\ i <= job[k].prev.of /\ job[k].prev.of < k
      BY <1>7, <3>1 DEF QueueInv, Order
    <3>3. job[k].prev.of \in Jobs
      BY <3>2, QueueTypes DEF QueueInv, Open
    <3> QED
      BY <1>1, <3>1, <3>2, <3>3 DEF Open
  <2> QED
    BY <2>2, <2>3
<1>8. PrevIsEarlier'
  <2> SUFFICES ASSUME NEW k \in Jobs, job'[k].phase = "waiting", job'[k].prev # None
               PROVE  /\ job'[k].prev.of < k
                      /\ On(job[k].prev.of, job[k].room)'
                      /\ job'[job'[k].prev.of].phase \notin {"unused", "detecting"}
    BY DEF PrevIsEarlier
  <2>1. CASE k = j
    <3>1. PICK p \in Promises : p = roomOps[r] /\ job'[k].prev = p
      BY <2>1, QueueTypes DEF QueueInv, Enters
    <3>2. On(p.of, r) /\ job[p.of].phase \notin {"unused", "detecting"} /\ p.of \in Jobs
      BY <3>1, PromisesOf DEF QueueInv, EndsAreCalled
    <3>3. p.of < j /\ p.of # j
      BY <1>1, <3>2 DEF Enters
    <3>4. On(p.of, r)' /\ job'[p.of].phase \notin {"unused", "detecting"}
      BY <1>1, <3>2, <3>3
    <3> QED
      BY <2>1, <3>1, <3>3, <3>4 DEF Enters
  <2>2. CASE k # j
    <3>1. job'[k] = job[k] /\ job[k].prev.of \in Jobs
      BY <1>1, <2>2, QueueTypes DEF QueueInv
    <3>2. /\ job[k].prev.of < k
          /\ On(job[k].prev.of, job[k].room)
          /\ job[job[k].prev.of].phase \notin {"unused", "detecting"}
      BY <3>1 DEF QueueInv, PrevIsEarlier
    <3>3. job[k].prev.of # j
      BY <3>2 DEF Enters
    <3> QED
      BY <1>1, <3>1, <3>2, <3>3
  <2> QED
    BY <2>1, <2>2
<1>9. EndsAreCalled'
  <2> SUFFICES ASSUME NEW s \in Rooms, roomOps'[s] # None
               PROVE  /\ On(roomOps[s].of, s)'
                      /\ job'[roomOps'[s].of].phase \notin {"unused", "detecting"}
    BY DEF EndsAreCalled
  <2>1. CASE s = r
    BY <1>4, <1>5, <2>1 DEF Enters
  <2>2. CASE s # r
    <3>1. roomOps'[s] = roomOps[s] /\ roomOps[s].of \in Jobs
      BY <1>4, <2>2, QueueTypes DEF QueueInv
    <3>2. On(roomOps[s].of, s) /\ job[roomOps[s].of].phase \notin {"unused", "detecting"}
      BY <3>1 DEF QueueInv, EndsAreCalled
    <3>3. roomOps[s].of # j
      BY <3>2 DEF Enters
    <3> QED
      BY <1>1, <3>1, <3>2, <3>3
  <2> QED
    BY <2>1, <2>2
<1>10. Chained'
  <2> SUFFICES ASSUME NEW i \in Jobs, NEW s \in Rooms, Queueing(i)', On(i, s)'
               PROVE  Open(roomOps[s], s)' /\ i <= roomOps'[s].of
    BY DEF Chained
  <2>1. CASE s = r
    <3>1. i <= j
      BY <1>1, JobsNumbered DEF Queueing
    <3> QED
      BY <1>4, <1>5, <2>1, <3>1 DEF Open
  <2>2. CASE s # r
    <3>1. i # j /\ Queueing(i) /\ On(i, s)
      BY <1>1, <1>5, <2>2
    <3>2. Open(roomOps[s], s) /\ i <= roomOps[s].of /\ roomOps[s].of \in Jobs
      BY <3>1, QueueTypes DEF QueueInv, Chained, Enters, Open
    <3>3. roomOps[s].of # j /\ roomOps'[s] = roomOps[s]
      BY <1>1, <1>4, <2>2, <3>2 DEF Open
    <3> QED
      BY <1>1, <3>2, <3>3 DEF Open
  <2> QED
    BY <2>1, <2>2
<1> QED
  BY <1>0, <1>3, <1>7, <1>8, <1>9, <1>10 DEF QueueInv, Order

\* A call that does not queue leaves the chains as they are.
LEMMA QueueBounces ==
    ASSUME QueueInv, Next, NEW j \in Jobs, Others(j), Frame, Bounces(j) \/ Detects(j)
    PROVE  QueueInv'
<1>0. TypeInv'
  BY TypeStep DEF QueueInv
<1>1. /\ ~Queueing(j) /\ job[j].target = None
      /\ \A i \in Jobs : job[i].phase # "unused" => i < j
      /\ \A i \in Jobs : i # j => /\ job'[i] = job[i]
                                  /\ Queueing(i)' <=> Queueing(i)
                                  /\ \A s : On(i, s)' <=> On(i, s)
  BY Fresh DEF Bounces, Detects
<1>2. ~Queueing(j)' /\ job'[j].phase # "waiting" /\ job[j].phase = "unused"
  BY DEF Bounces, Detects, Queueing
<1>3. Names'
  BY FreshNames DEF Bounces, Detects
<1>4. ASSUME NEW i \in Jobs, NEW k \in Jobs, i < k, Queueing(i)', Queueing(k)',
             On(i, job[k].room)'
      PROVE  /\ job'[k].phase = "waiting"
             /\ Open(job[k].prev, job[k].room)'
             /\ i <= job'[k].prev.of /\ job'[k].prev.of < k
  <2>1. Queueing(i) /\ Queueing(k) /\ On(i, job[k].room) /\ job'[k] = job[k]
    BY <1>1, <1>2, <1>4
  <2>2. /\ job[k].phase = "waiting" /\ Open(job[k].prev, job[k].room)
        /\ i <= job[k].prev.of /\ job[k].prev.of < k
    BY <1>4, <2>1 DEF QueueInv, Order
  <2>3. job[k].prev.of \in Jobs /\ job[k].prev.of # j
    BY <1>1, <2>2, QueueTypes DEF QueueInv, Open
  <2> QED
    BY <1>1, <2>1, <2>2, <2>3 DEF Open
<1>5. PrevIsEarlier'
  <2> SUFFICES ASSUME NEW k \in Jobs, job'[k].phase = "waiting", job'[k].prev # None
               PROVE  /\ job'[k].prev.of < k
                      /\ On(job[k].prev.of, job[k].room)'
                      /\ job'[job'[k].prev.of].phase \notin {"unused", "detecting"}
    BY DEF PrevIsEarlier
  <2>1. job'[k] = job[k] /\ job[k].prev.of \in Jobs
    BY <1>1, <1>2, QueueTypes DEF QueueInv
  <2>2. /\ job[k].prev.of < k
        /\ On(job[k].prev.of, job[k].room)
        /\ job[job[k].prev.of].phase \notin {"unused", "detecting"}
    BY <2>1 DEF QueueInv, PrevIsEarlier
  <2>3. job[k].prev.of # j
    BY <1>2, <2>2
  <2> QED
    BY <1>1, <2>1, <2>2, <2>3
<1>6. EndsAreCalled'
  <2> SUFFICES ASSUME NEW s \in Rooms, roomOps'[s] # None
               PROVE  /\ On(roomOps[s].of, s)'
                      /\ job'[roomOps'[s].of].phase \notin {"unused", "detecting"}
    BY DEF EndsAreCalled
  <2>1. CASE roomOps'[s] = roomOps[s]
    <3>1. /\ On(roomOps[s].of, s) /\ job[roomOps[s].of].phase \notin {"unused", "detecting"}
          /\ roomOps[s].of \in Jobs
      BY <2>1, QueueTypes DEF QueueInv, EndsAreCalled
    <3>2. roomOps[s].of # j
      BY <1>2, <3>1
    <3> QED
      BY <1>1, <2>1, <3>1, <3>2
  <2>2. CASE roomOps'[s] # roomOps[s]
    <3>1. roomOps'[s] = Op(j) /\ s = job'[j].room /\ job'[j].phase = "finishing"
      BY <2>2, QueueTypes DEF QueueInv, Bounces, Detects
    <3>2. roomOps'[s].of = j
      BY <3>1, PromisesOf
    <3> QED
      BY <3>1, <3>2 DEF On
  <2> QED
    BY <2>1, <2>2
<1>7. Chained'
  <2> SUFFICES ASSUME gate = "open", NEW i \in Jobs, NEW r \in Rooms, Queueing(i)', On(i, r)'
               PROVE  Open(roomOps[r], r)' /\ i <= roomOps'[r].of
    BY DEF Chained, Frame
  <2>1. Queueing(i) /\ On(i, r) /\ roomOps' = roomOps
    BY <1>1, <1>2 DEF Bounces, Detects
  <2>2. Open(roomOps[r], r) /\ i <= roomOps[r].of /\ roomOps[r].of \in Jobs
    BY <2>1, QueueTypes DEF QueueInv, Chained, Open
  <2>3. roomOps[r].of # j
    BY <1>1, <2>2 DEF Open
  <2> QED
    BY <1>1, <2>1, <2>2, <2>3 DEF Open
<1> QED
  BY <1>0, <1>3, <1>4, <1>5, <1>6, <1>7 DEF QueueInv, Order

\* A creation takes its place in a queue that is empty.
LEMMA QueueStores ==
    ASSUME QueueInv, Next, NEW j \in Jobs, Others(j), Frame, Stores(j)
    PROVE  QueueInv'
<1> DEFINE r == job[j].room
<1>0. TypeInv'
  BY TypeStep DEF QueueInv
<1>1. /\ \A i \in Jobs : /\ job'[i].room = job[i].room /\ job'[i].target = job[i].target
                         /\ job'[i].kind = job[i].kind
                         /\ i # j => job'[i] = job[i]
      /\ \A i \in Jobs : \A s : On(i, s)' <=> On(i, s)
      /\ \A i \in Jobs \ {j} : Queueing(i)' <=> Queueing(i)
  BY DEF Others, Stores, On, Queueing
<1>2. /\ \A i \in Jobs \ {j} : ~On(i, r)
      /\ r \in Rooms /\ r # None
  BY QueueTypes DEF QueueInv, Names, DetectingAlone, Stores
<1>3. roomOps[r] = None
  <2> SUFFICES ASSUME roomOps[r] # None PROVE FALSE
    OBVIOUS
  <2>1. /\ On(roomOps[r].of, r) /\ job[roomOps[r].of].phase \notin {"unused", "detecting"}
        /\ roomOps[r].of \in Jobs
    BY <1>2, QueueTypes DEF QueueInv, EndsAreCalled
  <2> QED
    BY <1>2, <2>1 DEF Stores
<1>4. job[j].target = None /\ ~Queueing(j) /\ Queueing(j)' /\ job'[j].prev = None
  BY <1>3 DEF QueueInv, Names, TargetsAreNew, Stores, Queueing
<1>5. Names'
  <2>1. \A i \in Jobs : CreateRow(i) => i = j
    <3>1. ASSUME NEW i \in Jobs, CreateRow(i) PROVE job[i].phase = "detecting" /\ job'[i].phase = "waiting"
      BY <3>1, QueueTypes DEF CreateRow, QueueInv, JobRecords
    <3> QED
      BY <3>1, <1>1
  <2>2. \A i \in Jobs : /\ job'[i].phase = "unused" <=> job[i].phase = "unused"
                        /\ job'[i].phase = "detecting" => job[i].phase = "detecting" /\ i # j
                        /\ job'[i].phase = "waiting" => job[i].phase \in {"detecting", "waiting"}
    BY <1>1 DEF Stores
  <2> QED
    BY <1>1, <2>1, <2>2, NamesKept
<1>6. roomOps'[r] # None /\ roomOps'[r].of = j /\ \A s \in Rooms \ {r} : roomOps'[s] = roomOps[s]
  BY <1>2, PromisesOf, QueueTypes DEF QueueInv, Stores
<1>7. ASSUME NEW i \in Jobs, NEW k \in Jobs, i < k, Queueing(i)', Queueing(k)',
             On(i, job[k].room)'
      PROVE  /\ job'[k].phase = "waiting"
             /\ Open(job[k].prev, job[k].room)'
             /\ i <= job'[k].prev.of /\ job'[k].prev.of < k
  <2>1. i # k
    BY <1>7, JobsNumbered
  <2>2. job[k].room \in Rooms /\ job[k].room # None
    BY <1>7, QueueTypes DEF QueueInv, Queueing, Stores, Others
  <2>3. i # j /\ k # j
    BY <1>1, <1>2, <1>4, <1>7, <2>1, <2>2 DEF On
  <2>4. Queueing(i) /\ Queueing(k) /\ On(i, job[k].room) /\ job'[k] = job[k]
    BY <1>1, <1>7, <2>3
  <2>5. /\ job[k].phase = "waiting" /\ Open(job[k].prev, job[k].room)
        /\ i <= job[k].prev.of /\ job[k].prev.of < k
    BY <1>7, <2>4 DEF QueueInv, Order
  <2>6. job[k].prev.of \in Jobs /\ job[k].prev.of # j
    BY <1>4, <2>5, QueueTypes DEF QueueInv, Open
  <2> QED
    BY <1>1, <2>4, <2>5, <2>6 DEF Open
<1>8. PrevIsEarlier'
  <2> SUFFICES ASSUME NEW k \in Jobs, job'[k].phase = "waiting", job'[k].prev # None
               PROVE  /\ job'[k].prev.of < k
                      /\ On(job[k].prev.of, job[k].room)'
                      /\ job'[job'[k].prev.of].phase \notin {"unused", "detecting"}
    BY DEF PrevIsEarlier
  <2>1. k # j
    BY <1>4
  <2>2. job'[k] = job[k] /\ job[k].prev.of \in Jobs
    BY <1>1, <2>1, QueueTypes DEF QueueInv
  <2>3. /\ job[k].prev.of < k
        /\ On(job[k].prev.of, job[k].room)
        /\ job[job[k].prev.of].phase \notin {"unused", "detecting"}
    BY <2>2 DEF QueueInv, PrevIsEarlier
  <2>4. job[k].prev.of # j
    BY <2>3 DEF Stores
  <2> QED
    BY <1>1, <2>2, <2>3, <2>4
<1>9. EndsAreCalled'
  <2> SUFFICES ASSUME NEW s \in Rooms, roomOps'[s] # None
               PROVE  /\ On(roomOps[s].of, s)'
                      /\ job'[roomOps'[s].of].phase \notin {"unused", "detecting"}
    BY DEF EndsAreCalled
  <2>1. CASE s = r
    BY <1>1, <1>6, <2>1 DEF Stores, On
  <2>2. CASE s # r
    <3>1. /\ On(roomOps[s].of, s) /\ job[roomOps[s].of].phase \notin {"unused", "detecting"}
          /\ roomOps[s].of \in Jobs /\ roomOps'[s] = roomOps[s]
      BY <1>6, <2>2, QueueTypes DEF QueueInv, EndsAreCalled
    <3>2. roomOps[s].of # j
      BY <3>1 DEF Stores
    <3> QED
      BY <1>1, <3>1, <3>2
  <2> QED
    BY <2>1, <2>2
<1>10. Chained'
  <2> SUFFICES ASSUME gate = "open", NEW i \in Jobs, NEW s \in Rooms, Queueing(i)', On(i, s)'
               PROVE  Open(roomOps[s], s)' /\ i <= roomOps'[s].of
    BY DEF Chained, Frame
  <2>1. CASE s = r
    <3>1. i = j
      BY <1>1, <1>2, <2>1
    <3> QED
      BY <1>4, <1>6, <2>1, <3>1, JobsNumbered DEF Open
  <2>2. CASE s # r
    <3>1. i # j /\ Queueing(i) /\ On(i, s)
      <4>1. s # None
        BY QueueTypes DEF QueueInv
      <4> QED
        BY <1>1, <1>4, <2>2, <4>1 DEF On
    <3>2. Open(roomOps[s], s) /\ i <= roomOps[s].of /\ roomOps[s].of \in Jobs
      BY <3>1, QueueTypes DEF QueueInv, Chained, Open
    <3>3. roomOps[s].of # j /\ roomOps'[s] = roomOps[s]
      BY <1>4, <1>6, <2>2, <3>2 DEF Open
    <3> QED
      BY <1>1, <3>2, <3>3 DEF Open
  <2> QED
    BY <2>1, <2>2
<1> QED
  BY <1>0, <1>5, <1>7, <1>8, <1>9, <1>10 DEF QueueInv, Order

\* A clone gets its turn, and is the first on its target.
LEMMA QueueTargets ==
    ASSUME QueueInv, Next, NEW j \in Jobs, NEW t \in Rooms, Others(j), Frame, Targets(j, t)
    PROVE  QueueInv'
<1>0. TypeInv'
  BY TypeStep DEF QueueInv
<1>1. /\ \A i \in Jobs : job'[i].room = job[i].room /\ job'[i].kind = job[i].kind
      /\ \A i \in Jobs \ {j} : job'[i] = job[i] /\ \A s : On(i, s)' <=> On(i, s)
      /\ \A i \in Jobs : Queueing(i)' <=> Queueing(i)
  BY DEF Others, Targets, Ready, On, Queueing
<1>2. /\ job[j].phase = "waiting" /\ job'[j].phase = "holding" /\ job'[j].target = t
      /\ \A i \in Jobs : job[i].room # t /\ job[i].target # t
      /\ row[t] = "none" /\ t # None
  BY QueueTypes DEF QueueInv, Targets, Ready, Unclaimed
<1>3. job[j].target = None /\ Queueing(j)
  BY <1>2 DEF QueueInv, Names, TargetsAreNew, Queueing
<1>4. \A s : On(j, s)' <=> s = job[j].room \/ s = t
  BY <1>1, <1>2 DEF On
<1>5. \A i \in Jobs : \A s : On(i, s) /\ s # None => On(i, s)'
  BY <1>1, <1>3, <1>4 DEF On
<1>6. roomOps'[t] # None /\ roomOps'[t].of = j /\ \A s \in Rooms \ {t} : roomOps'[s] = roomOps[s]
  BY PromisesOf, QueueTypes DEF QueueInv, Targets
<1>7. UsedInOrder' /\ BlankUntilCalled'
  BY <1>1, <1>2 DEF QueueInv, Names, UsedInOrder, BlankUntilCalled
<1>8. TargetsAreNew'
  <2> SUFFICES ASSUME NEW c \in Jobs, job'[c].target # None
               PROVE  /\ job'[c].kind = "clone"
                      /\ job'[c].phase \notin {"unused", "detecting", "waiting"}
                      /\ \A i \in Jobs : /\ job'[i].room = job'[c].target => c < i
                                         /\ i # c => job'[i].target # job'[c].target
    BY DEF TargetsAreNew
  <2>1. CASE c = j
    BY <1>1, <1>2, <2>1 DEF Targets
  <2>2. CASE c # j
    BY <1>1, <1>2, <2>2 DEF QueueInv, Names, TargetsAreNew
  <2> QED
    BY <2>1, <2>2
<1>9. DetectingAlone'
  <2> SUFFICES ASSUME NEW d \in Jobs, job'[d].phase = "detecting"
               PROVE  /\ job'[d].kind = "create"
                      /\ row'[job[d].room] = "none"
                      /\ \A i \in Jobs \ {d} : ~On(i, job[d].room)'
    BY <1>1 DEF DetectingAlone, On
  <2>1. d # j /\ job'[d] = job[d]
    BY <1>1, <1>2
  <2>2. /\ job[d].kind = "create" /\ row[job[d].room] = "none"
        /\ \A i \in Jobs \ {d} : ~On(i, job[d].room)
        /\ job[d].room \in Rooms
    BY <2>1, QueueTypes DEF QueueInv, Names, DetectingAlone
  <2>3. row'[job[d].room] = "none"
    <3> SUFFICES ASSUME row'[job[d].room] # "none" PROVE FALSE
      OBVIOUS
    <3>1. ~\E i \in Jobs : CreateRow(i) /\ job[i].room = job[d].room
      <4>1. ASSUME NEW i \in Jobs, CreateRow(i) PROVE job[i].phase = "detecting" /\ job'[i].phase = "waiting"
        BY <4>1, QueueTypes DEF CreateRow, QueueInv, JobRecords
      <4> QED
        BY <1>1, <1>2, <4>1
    <3>2. ~\E i \in Jobs : AcquireClone(i, job[d].room)
      BY DEF AcquireClone, Unclaimed
    <3>3. ~\E i \in Jobs : Inside(i) /\ On(i, job[d].room)
      BY <2>1, <2>2 DEF Inside
    <3> QED
      BY <2>2, <3>1, <3>2, <3>3, RowsAppear DEF QueueInv
  <2>4. job[d].room # t
    BY <1>2
  <2> QED
    BY <1>1, <1>4, <2>1, <2>2, <2>3, <2>4 DEF On
<1>10. ASSUME NEW i \in Jobs, NEW k \in Jobs, i < k, Queueing(i)', Queueing(k)',
              On(i, job[k].room)'
       PROVE  /\ job'[k].phase = "waiting"
              /\ Open(job[k].prev, job[k].room)'
              /\ i <= job'[k].prev.of /\ job'[k].prev.of < k
  <2>1. Queueing(i) /\ Queueing(k) /\ On(i, job[k].room)
    BY <1>1, <1>2, <1>4, <1>10 DEF On
  <2>2. /\ job[k].phase = "waiting" /\ Open(job[k].prev, job[k].room) /\ ~Ready(k)
        /\ i <= job[k].prev.of /\ job[k].prev.of < k
    BY <1>10, <2>1, Blocked DEF QueueInv, Order
  <2>3. k # j /\ job'[k] = job[k] /\ job[k].room # None
    BY <1>1, <2>2, QueueTypes DEF Targets, QueueInv
  <2>4. job[k].prev.of \in Jobs
    BY <2>2, QueueTypes DEF QueueInv, Open
  <2> QED
    BY <1>1, <1>5, <2>2, <2>3, <2>4 DEF Open
<1>11. PrevIsEarlier'
  <2> SUFFICES ASSUME NEW k \in Jobs, job'[k].phase = "waiting", job'[k].prev # None
               PROVE  /\ job'[k].prev.of < k
                      /\ On(job[k].prev.of, job[k].room)'
                      /\ job'[job'[k].prev.of].phase \notin {"unused", "detecting"}
    BY DEF PrevIsEarlier
  <2>1. k # j /\ job'[k] = job[k] /\ job[k].prev.of \in Jobs /\ job[k].room # None
    BY <1>1, <1>2, QueueTypes DEF QueueInv
  <2>2. /\ job[k].prev.of < k
        /\ On(job[k].prev.of, job[k].room)
        /\ job[job[k].prev.of].phase \notin {"unused", "detecting"}
    BY <2>1 DEF QueueInv, PrevIsEarlier
  <2> QED
    BY <1>1, <1>2, <1>5, <2>1, <2>2
<1>12. EndsAreCalled'
  <2> SUFFICES ASSUME NEW s \in Rooms, roomOps'[s] # None
               PROVE  /\ On(roomOps[s].of, s)'
                      /\ job'[roomOps'[s].of].phase \notin {"unused", "detecting"}
    BY DEF EndsAreCalled
  <2>1. CASE s = t
    BY <1>2, <1>4, <1>6, <2>1
  <2>2. CASE s # t
    <3>1. /\ On(roomOps[s].of, s) /\ job[roomOps[s].of].phase \notin {"unused", "detecting"}
          /\ roomOps[s].of \in Jobs /\ roomOps'[s] = roomOps[s] /\ s # None
      BY <1>6, <2>2, QueueTypes DEF QueueInv, EndsAreCalled
    <3>2. On(roomOps[s].of, s)'
      BY <1>5, <3>1
    <3>3. job'[roomOps'[s].of].phase \notin {"unused", "detecting"}
      BY <1>1, <1>2, <3>1
    <3> QED
      BY <3>2, <3>3
  <2> QED
    BY <2>1, <2>2
<1>13. Chained'
  <2> SUFFICES ASSUME gate = "open", NEW i \in Jobs, NEW s \in Rooms, Queueing(i)', On(i, s)'
               PROVE  Open(roomOps[s], s)' /\ i <= roomOps'[s].of
    BY DEF Chained, Frame
  <2>1. CASE s = t
    <3>1. i = j
      BY <1>1, <1>2, <2>1 DEF On
    <3>2. j <= j
      BY JobsNumbered
    <3> QED
      BY <1>1, <1>3, <1>4, <1>6, <2>1, <3>1, <3>2 DEF Open
  <2>2. CASE s # t
    <3>1. Queueing(i) /\ On(i, s) /\ s # None
      BY <1>1, <1>4, <2>2, QueueTypes DEF On, QueueInv
    <3>2. Open(roomOps[s], s) /\ i <= roomOps[s].of /\ roomOps[s].of \in Jobs
      BY <3>1, QueueTypes DEF QueueInv, Chained, Open
    <3>3. roomOps'[s] = roomOps[s]
      BY <1>6, <2>2
    <3>4. On(roomOps[s].of, s)'
      BY <1>5, <3>1, <3>2, <3>3 DEF Open
    <3> QED
      BY <1>1, <3>2, <3>3, <3>4 DEF Open
  <2> QED
    BY <2>1, <2>2
<1> QED
  BY <1>0, <1>7, <1>8, <1>9, <1>10, <1>11, <1>12, <1>13 DEF QueueInv, Names, Order

LEMMA QueueMoves ==
    ASSUME QueueInv, Next, NEW j \in Jobs, Moves(j)
    PROVE  QueueInv'
BY QueueEnters, QueueBounces, QueueStores, QueueAdvances, QueueTargets DEF Moves

-----------------------------------------------------------------------------
(* The gate, and what removal and shutdown wait for *)

\* The promises cover everybody who is pending: for each call one that is open, of
\* a call on the same Room that is at least as young.
Covered(awaits) ==
    /\ \A i \in Jobs : Queueing(i) =>
          \E p \in awaits : Open(p, job[i].room) /\ i <= p.of
    /\ \A j \in Jobs : job[j].phase = "detecting" => Task(j) \in awaits

\* Who closed the gate, and who is excluded by whom
Gates ==
    /\ gate = "shutdown" <=> halt.phase # "idle"
    /\ gate = "delete-all" => wipe.phase # "idle"
    /\ wipe.phase # "idle" => gate # "open"
    /\ wipe.phase # "erasing" => wipe.room = None
    /\ halt.phase # "stopping" => halt.stops = {}
    /\ halt.phase = "draining" => wipe.phase \in {"idle", "done"}
    /\ halt.phase \in {"stopping", "done"} =>
          /\ halt.drained \/ halt.stops # {} => wipe.phase \in {"idle", "done"}
          /\ ~halt.drained => EngineHangs

\* A closed gate knows everybody who is still behind it.
Drains ==
    /\ wipe.phase = "draining" => Covered(wipe.awaits)
    /\ wipe.phase \in {"erasing", "done"} => NobodyPending
    /\ halt.phase = "draining" => Covered(halt.awaits)
    /\ halt.phase = "awaiting" /\ wipe.phase \in {"idle", "done"} => NobodyPending
    /\ halt.phase \in {"stopping", "done"} /\ halt.drained => NobodyPending

DrainInv == QueueInv /\ Gates /\ Drains

LEMMA GateTypes ==
    ASSUME TypeInv
    PROVE  /\ wipe \in WipeRecords /\ halt \in HaltRecords
           /\ gate \in {"open", "delete-all", "shutdown"}
BY DEF TypeInv, TypeOK, WipeRecords, HaltRecords

LEMMA CoveredEmpties ==
    ASSUME NEW awaits \in SUBSET Promises, Covered(awaits), \A p \in awaits : Settled(p)
    PROVE  NobodyPending
<1>1. ASSUME NEW j \in Jobs, Queueing(j) PROVE FALSE
  <2>1. PICK p \in awaits : Open(p, job[j].room)
    BY <1>1 DEF Covered
  <2> QED
    BY <2>1, SettledIsOver DEF Open, Pending
<1>2. ASSUME NEW j \in Jobs, job[j].phase = "detecting" PROVE FALSE
  BY <1>2, SettledIsOver, PromisesOf DEF Covered, Pending
<1> QED
  BY <1>1, <1>2 DEF NobodyPending, Pending

LEMMA AdmissionsCover ==
    ASSUME QueueInv, gate = "open" \/ NobodyPending
    PROVE  Covered(Admissions)
<1>1. ASSUME NEW i \in Jobs, Queueing(i)
      PROVE  \E p \in Admissions : Open(p, job[i].room) /\ i <= p.of
  <2>1. job[i].room \in Rooms /\ On(i, job[i].room)
    BY <1>1, QueueTypes DEF QueueInv, Queueing, On
  <2>2. Open(roomOps[job[i].room], job[i].room) /\ i <= roomOps[job[i].room].of
    BY <1>1, <2>1 DEF QueueInv, Chained, NobodyPending, Pending
  <2>3. roomOps[job[i].room] \in Admissions
    BY <2>1, <2>2 DEF Admissions, Open
  <2> QED
    BY <2>2, <2>3
<1>2. ASSUME NEW j \in Jobs, job[j].phase = "detecting" PROVE Task(j) \in Admissions
  <2>1. job[j].kind = "create"
    BY <1>2 DEF QueueInv, Names, DetectingAlone
  <2>2. ~Settled(Task(j))
    BY <1>2, PromisesOf, SettledIsOver DEF Pending
  <2> QED
    BY <2>1, <2>2 DEF Admissions
<1> QED
  BY <1>1, <1>2 DEF Covered

\* Behind a closed gate nobody becomes pending.
LEMMA NobodyComes ==
    ASSUME NobodyPending, gate # "open", NEW j \in Jobs, Moves(j)
    PROVE  NobodyPending'
<1>1. \A i \in Jobs \ {j} : job'[i] = job[i]
  BY DEF Moves, Others
<1>2. job'[j].phase \in {"finishing", "done"}
  BY DEF NobodyPending, Pending, Queueing, Moves, Enters, Bounces, Detects, Stores, Advances,
         Targets, Ready
<1> QED
  BY <1>1, <1>2 DEF NobodyPending, Pending, Queueing

\* ... and whoever leaves has nobody older behind it.
LEMMA CoveredStays ==
    ASSUME QueueInv, gate # "open", NEW j \in Jobs, Moves(j), NEW awaits \in SUBSET Promises,
           Covered(awaits)
    PROVE  Covered(awaits)'
<1>1. Others(j) /\ (Bounces(j) \/ Stores(j) \/ Advances(j) \/ \E t \in Rooms : Targets(j, t))
  BY DEF Moves, Enters, Detects
<1>2. \A i \in Jobs \ {j} : job'[i] = job[i]
  BY <1>1 DEF Others
<1>3. job[j].phase # "unused" => job'[j].room = job[j].room
  BY <1>1 DEF Bounces, Stores, Advances, Targets
<1>4. \A s \in Rooms : On(j, s) => On(j, s)' \/ job[j].phase = "unused"
  <2>1. CASE \E t \in Rooms : Targets(j, t)
    <3>1. job[j].target = None /\ job'[j].room = job[j].room
      BY <2>1 DEF QueueInv, Names, TargetsAreNew, Targets, Ready
    <3> QED
      BY <3>1, QueueTypes DEF On, QueueInv
  <2>2. CASE Bounces(j) \/ Stores(j) \/ Advances(j)
    BY <2>2 DEF Bounces, Stores, Advances, On
  <2> QED
    BY <1>1, <2>1, <2>2
<1>5. ASSUME NEW i \in Jobs, Queueing(i)'
      PROVE  \E p \in awaits : Open(p, job[i].room)' /\ i <= p.of
  <2>1. CASE ~Queueing(i)
    <3>1. i = j /\ Stores(j)
      BY <1>1, <1>2, <1>5, <2>1 DEF Bounces, Stores, Advances, Targets, Ready, Queueing
    <3>2. Task(j) \in awaits
      BY <3>1 DEF Covered, Stores
    <3>3. Open(Task(j), job[j].room)' /\ j <= Task(j).of
      BY <1>5, <3>1, PromisesOf, JobsNumbered DEF Open, On
    <3> QED
      BY <3>1, <3>2, <3>3
  <2>2. CASE Queueing(i)
    <3>1. PICK p \in awaits : Open(p, job[i].room) /\ i <= p.of
      BY <2>2 DEF Covered
    <3>2. /\ p.of \in Jobs /\ Queueing(p.of) /\ On(p.of, job[i].room) /\ p # None
          /\ job[i].room \in Rooms /\ job[i].room # None /\ job'[i].room = job[i].room
      BY <1>2, <1>3, <2>2, <3>1, PromisesOf, QueueTypes DEF Open, QueueInv, Queueing
    <3>3. Queueing(p.of)'
      <4> SUFFICES ASSUME ~Queueing(p.of)' PROVE FALSE
        OBVIOUS
      <4>1. p.of = j /\ Advances(j)
        BY <1>1, <1>2, <3>2 DEF Bounces, Stores, Targets, Ready, Queueing
      <4>2. i # j /\ i < j
        <5>1. i # j
          BY <1>5, <4>1
        <5> QED
          BY <3>1, <4>1, <5>1, JobsNumbered
      <4>3. On(i, job[i].room)
        BY DEF On
      <4> QED
        BY <2>2, <3>2, <4>1, <4>2, <4>3, OlderFirst DEF Advances
    <3>4. On(p.of, job[i].room)'
      BY <1>2, <1>4, <3>2 DEF On, Queueing
    <3> QED
      BY <3>1, <3>2, <3>3, <3>4 DEF Open
  <2> QED
    BY <2>1, <2>2
<1>6. ASSUME NEW i \in Jobs, job'[i].phase = "detecting"
      PROVE  Task(i) \in awaits
  <2>1. job[i].phase = "detecting"
    BY <1>1, <1>2, <1>6 DEF Bounces, Stores, Advances, Targets
  <2> QED
    BY <2>1 DEF Covered
<1> QED
  BY <1>5, <1>6 DEF Covered, Task

LEMMA JobsStay ==
    ASSUME UNCHANGED job
    PROVE  /\ NobodyPending' <=> NobodyPending
           /\ \A awaits : Covered(awaits)' <=> Covered(awaits)
BY DEF NobodyPending, Covered, Pending, Queueing, Open, On, Task

LEMMA DrainMoves ==
    ASSUME DrainInv, Next, NEW j \in Jobs, Moves(j)
    PROVE  DrainInv'
<1>1. QueueInv'
  BY QueueMoves DEF DrainInv
<1>2. UNCHANGED <<gate, wipe, halt>>
  BY DEF Moves, Frame
<1>3. Gates'
  BY <1>2 DEF DrainInv, Gates
<1>4. Drains'
  <2>1. CASE gate = "open"
    BY <1>2, <2>1 DEF DrainInv, Gates, Drains
  <2>2. CASE gate # "open"
    <3>1. wipe.awaits \in SUBSET Promises /\ halt.awaits \in SUBSET Promises
      BY GateTypes DEF DrainInv, QueueInv, WipeRecords, HaltRecords
    <3>2. NobodyPending => NobodyPending'
      BY <2>2, NobodyComes
    <3>3. \A awaits \in SUBSET Promises : Covered(awaits) => Covered(awaits)'
      BY <2>2, CoveredStays DEF DrainInv
    <3>4. Covered(wipe.awaits) => Covered(wipe.awaits)'
      BY <1>2, <3>1, <3>3
    <3>5. Covered(halt.awaits) => Covered(halt.awaits)'
      BY <1>2, <3>1, <3>3
    <3> QED
      BY <1>2, <3>2, <3>4, <3>5 DEF DrainInv, Drains
  <2> QED
    BY <2>1, <2>2
<1> QED
  BY <1>1, <1>3, <1>4 DEF DrainInv

LEMMA DrainWipe ==
    ASSUME DrainInv, Next, DeleteAll \/ WipeStep
    PROVE  DrainInv'
<1>1. UNCHANGED <<job, roomOps, halt>>
  BY DEF DeleteAll, WipeStep, WipeDrained, WipeBegins, WipeEnds, WipeReturns, queueVars
<1>2. wipe \in WipeRecords /\ wipe.awaits \in SUBSET Promises /\ gate \in {"open", "delete-all", "shutdown"}
  BY GateTypes DEF DrainInv, QueueInv, WipeRecords
<1>3. SUFFICES Gates' /\ Drains' /\ (gate' = "open" => gate = "open" \/ NobodyPending)
  BY <1>1, QueueStays DEF DrainInv
<1>4. CASE DeleteAll
  <2>1. /\ gate = "open" /\ gate' = "delete-all" /\ wipe.phase = "idle" /\ halt.phase = "idle"
        /\ wipe'.phase = "draining" /\ wipe'.awaits = Admissions /\ wipe'.room = None
    BY <1>4 DEF DeleteAll, NoWipe, DrainInv, Gates
  <2>2. Covered(Admissions)
    BY <2>1, AdmissionsCover DEF DrainInv
  <2>3. Covered(wipe.awaits)'
    BY <1>1, <2>1, <2>2, JobsStay
  <2> QED
    BY <1>1, <2>1, <2>3 DEF DrainInv, Gates, Drains
<1>5. CASE WipeDrained
  <2>1. wipe.phase = "draining" /\ NobodyPending /\ NobodyPending'
    BY <1>1, <1>2, <1>5, CoveredEmpties, JobsStay DEF WipeDrained, Drained, DrainInv, Drains
  <2>2. \/ /\ wipe'.phase = "idle" /\ wipe'.room = None
           /\ gate' = IF gate = "delete-all" THEN "open" ELSE gate
        \/ wipe'.phase = "erasing" /\ gate' = gate
    <3>1. CASE WipeFails
      BY <3>1 DEF WipeFails, NoWipe
    <3>2. CASE ~WipeFails
      BY <1>5, <3>2 DEF WipeDrained, NoWipe
    <3> QED
      BY <3>1, <3>2
  <2>3. halt.phase \in {"idle", "awaiting"} \/ halt.phase \in {"stopping", "done"}
    <3>1. halt \in HaltRecords
      BY GateTypes DEF DrainInv, QueueInv
    <3> QED
      BY <2>1, <3>1 DEF DrainInv, Gates, HaltRecords
  <2>4. Gates'
    BY <1>1, <1>2, <2>1, <2>2, <2>3 DEF DrainInv, Gates
  <2>5. Drains'
    BY <1>1, <2>1, <2>2, <2>3 DEF Drains
  <2> QED
    BY <2>1, <2>4, <2>5
<1>6. ASSUME (\E r \in Rooms : WipeBegins(r)) \/ (\E ok \in BOOLEAN : WipeEnds(ok))
      PROVE  Gates' /\ Drains' /\ gate' = gate
  <2>1. wipe.phase = "erasing"
    BY <1>6 DEF WipeBegins, WipeEnds, DrainInv, Gates
  <2>2. wipe'.phase = "erasing" /\ gate' = gate
    BY <1>2, <1>6, <2>1 DEF WipeBegins, WipeEnds, WipeRecords
  <2> QED
    BY <1>1, <2>1, <2>2, JobsStay DEF DrainInv, Gates, Drains
<1>7. CASE WipeReturns
  <2>1. wipe.phase = "erasing" /\ NobodyPending /\ NobodyPending'
    BY <1>1, <1>7, JobsStay DEF WipeReturns, DrainInv, Drains
  <2>2. \/ /\ wipe'.phase = "idle" /\ wipe'.room = None
           /\ gate' = IF gate = "delete-all" THEN "open" ELSE gate
        \/ wipe'.phase = "done" /\ wipe'.room = None /\ gate' = gate
    BY <1>7 DEF WipeReturns, WipeFails, NoWipe
  <2>3. halt.phase \in {"idle", "awaiting"} \/ halt.phase \in {"stopping", "done"}
    <3>1. halt \in HaltRecords
      BY GateTypes DEF DrainInv, QueueInv
    <3> QED
      BY <2>1, <3>1 DEF DrainInv, Gates, HaltRecords
  <2>4. Gates'
    BY <1>1, <1>2, <2>1, <2>2, <2>3 DEF DrainInv, Gates
  <2>5. Drains'
    BY <1>1, <2>1, <2>2, <2>3 DEF Drains
  <2> QED
    BY <2>1, <2>4, <2>5
<1> QED
  BY <1>4, <1>5, <1>6, <1>7 DEF WipeStep

LEMMA DrainHalt ==
    ASSUME DrainInv, Next, Shutdown \/ DrainTimesOut \/ DeadlineExpires \/ HaltStep
    PROVE  DrainInv'
<1>1. UNCHANGED <<job, roomOps, wipe>>
  BY DEF Shutdown, DrainTimesOut, DeadlineExpires, HaltStep, HaltAwaited, HaltDrained, StopRooms,
         StopEnds, HaltReturns, queueVars
<1>2. /\ halt \in HaltRecords /\ halt.awaits \in SUBSET Promises
      /\ wipe.phase \in {"idle", "draining", "erasing", "done"}
      /\ gate \in {"open", "delete-all", "shutdown"}
  BY GateTypes DEF DrainInv, QueueInv, HaltRecords, WipeRecords
<1>3. SUFFICES Gates' /\ Drains' /\ (gate' = "open" => gate = "open")
  BY <1>1, QueueStays DEF DrainInv
<1>4. CASE Shutdown
  <2>1. /\ halt.phase = "idle" /\ gate' = "shutdown" /\ halt'.stops = {}
        /\ IF wipe.phase \in {"draining", "erasing"}
             THEN halt'.phase = "awaiting"
             ELSE halt'.phase = "draining" /\ halt'.awaits = Admissions
    BY <1>4 DEF Shutdown, NoHalt
  <2>2. wipe.phase \notin {"draining", "erasing"} => gate = "open" \/ NobodyPending
    BY <1>2, <2>1 DEF DrainInv, Gates, Drains
  <2>3. wipe.phase \notin {"draining", "erasing"} => Covered(halt.awaits)'
    BY <1>1, <2>1, <2>2, AdmissionsCover, JobsStay DEF DrainInv
  <2> QED
    BY <1>1, <1>2, <2>1, <2>3, JobsStay DEF DrainInv, Gates, Drains
<1>5. CASE HaltAwaited
  <2>1. /\ halt.phase = "awaiting" /\ wipe.phase \in {"idle", "done"} /\ gate' = gate
        /\ halt'.phase = "draining" /\ halt'.awaits = Admissions /\ halt'.stops = {}
    BY <1>2, <1>5 DEF HaltAwaited, Awaited, HaltRecords, DrainInv, Gates
  <2>2. NobodyPending
    BY <2>1 DEF DrainInv, Drains
  <2>3. Covered(halt.awaits)'
    BY <1>1, <2>1, <2>2, AdmissionsCover, JobsStay DEF DrainInv
  <2> QED
    BY <1>1, <2>1, <2>2, <2>3, JobsStay DEF DrainInv, Gates, Drains
<1>6. CASE HaltDrained
  <2>1. /\ halt.phase = "draining" /\ NobodyPending /\ gate' = gate
        /\ halt'.phase = "stopping" /\ halt'.drained = TRUE
    BY <1>2, <1>6, CoveredEmpties DEF HaltDrained, Drained, StopRooms, HaltRecords, DrainInv, Drains
  <2> QED
    BY <1>1, <2>1, JobsStay DEF DrainInv, Gates, Drains
<1>7. CASE DrainTimesOut
  <2>1. /\ halt.phase = "draining" /\ EngineHangs /\ gate' = gate
        /\ halt'.phase = "stopping" /\ halt'.drained = FALSE
    BY <1>2, <1>7 DEF DrainTimesOut, StopRooms, HaltRecords
  <2> QED
    BY <1>1, <2>1, JobsStay DEF DrainInv, Gates, Drains
<1>8. CASE DeadlineExpires
  <2>1. /\ halt.phase = "awaiting" /\ EngineHangs /\ gate' = gate
        /\ halt'.phase = "stopping" /\ halt'.drained = FALSE /\ halt'.stops = {}
    BY <1>2, <1>8 DEF DeadlineExpires, HaltRecords, DrainInv, Gates
  <2> QED
    BY <1>1, <2>1, JobsStay DEF DrainInv, Gates, Drains
<1>9. ASSUME NEW r \in Rooms, NEW ok \in BOOLEAN, StopEnds(r, ok)
      PROVE  Gates' /\ Drains' /\ gate' = gate
  <2>1. /\ halt.phase = "stopping" /\ halt'.phase = "stopping" /\ gate' = gate
        /\ halt'.drained = halt.drained /\ halt'.stops \subseteq halt.stops
    BY <1>2, <1>9 DEF StopEnds, HaltRecords, DrainInv, Gates
  <2> QED
    BY <1>1, <2>1, JobsStay DEF DrainInv, Gates, Drains
<1>10. CASE HaltReturns
  <2>1. /\ halt.phase = "stopping" /\ halt.stops = {} /\ halt'.phase = "done" /\ gate' = gate
        /\ halt'.drained = halt.drained /\ halt'.stops = {}
    BY <1>2, <1>10 DEF HaltReturns, HaltRecords
  <2> QED
    BY <1>1, <2>1, JobsStay DEF DrainInv, Gates, Drains
<1> QED
  BY <1>4, <1>5, <1>6, <1>7, <1>8, <1>9, <1>10 DEF HaltStep

LEMMA DrainInit == Init => DrainInv
BY QueueInit DEF Init, DrainInv, Gates, Drains, NoWipe, NoHalt

LEMMA DrainStep ==
    ASSUME ~Impatient, DrainInv, [Next]_vars
    PROVE  DrainInv'
<1>1. CASE UNCHANGED vars
  <2>1. TypeInv'
    BY <1>1 DEF vars, durable, queueVars, DrainInv, QueueInv, TypeInv, TypeOK, JobsNamed
  <2>2. Names' /\ Order'
    BY <1>1 DEF vars, durable, queueVars, DrainInv, QueueInv, Names, UsedInOrder, BlankUntilCalled, TargetsAreNew,
                DetectingAlone, Order, Queueing, Open, On, Task
  <2>3. PrevIsEarlier' /\ EndsAreCalled' /\ Chained'
    BY <1>1 DEF vars, durable, queueVars, DrainInv, QueueInv, PrevIsEarlier, EndsAreCalled, Chained, Pending,
                Queueing, Open, On, Task
  <2>4. Gates' /\ Drains'
    BY <1>1 DEF vars, durable, queueVars, DrainInv, Gates, Drains, Covered, NobodyPending, Pending, Queueing, Open, On, Task
  <2> QED
    BY <2>1, <2>2, <2>3, <2>4 DEF DrainInv, QueueInv
<1>2. CASE Restart
  <2>1. QueueInv'
    BY <1>2, QueueRestart DEF DrainInv
  <2>2. gate' = "open" /\ wipe' = NoWipe /\ halt' = NoHalt
    BY <1>2 DEF Restart
  <2> QED
    BY <2>1, <2>2 DEF DrainInv, Gates, Drains, NoWipe, NoHalt
<1>3. ASSUME Next, NEW j \in Jobs, ContainersUp(j)
      PROVE  DrainInv'
  <2>1. UNCHANGED <<job, roomOps, gate, wipe, halt>>
    BY <1>3 DEF ContainersUp, queueVars
  <2> QED
    BY <1>3, <2>1, QueueStays, JobsStay DEF DrainInv, Gates, Drains
<1>4. CASE Next /\ \E j \in Jobs : Moves(j)
  BY <1>4, DrainMoves
<1>5. ASSUME Next, NEW j \in Jobs, Call(j) \/ Turn(j) \/ Work(j) \/ Finish(j)
      PROVE  Moves(j) \/ ContainersUp(j)
  BY <1>5, CallMoves, WorkMoves, StillJob DEF DrainInv, QueueInv
<1> QED
  BY <1>1, <1>2, <1>3, <1>4, <1>5, DrainWipe, DrainHalt DEF Next

-----------------------------------------------------------------------------
(* One actor at a time *)

\* A lock that is taken has its holder.
LocksAreHeld == \A r \in active : \E j \in Jobs : Inside(j) /\ job[j].room = r

\* Only the kinds that are asked for are under way.
KindsAsked == \A j \in Jobs : job[j].phase # "unused" => job[j].kind \in Kinds

\* Nobody works on a Room that the shutdown stops, and nobody will.
StopsAlone == \A r \in halt.stops : \A j \in Jobs : Pending(j) => ~On(j, r)

QueueLockInv == DrainInv /\ LockInv /\ LocksAreHeld /\ KindsAsked

LEMMA LocksAreHeldStep ==
    ASSUME TypeInv, LocksAreHeld, [Next]_vars
    PROVE  LocksAreHeld'
<1>a. job \in [Jobs -> JobRecords]
  BY DEF TypeInv, TypeOK
<1>1. ASSUME active' \subseteq active,
             \A j \in Jobs : /\ Inside(j) /\ job[j].room \in active' => Inside(j)'
                             /\ Inside(j) => job'[j].room = job[j].room
      PROVE  LocksAreHeld'
  BY <1>1 DEF LocksAreHeld
<1>2. ASSUME NEW j \in Jobs, Call(j)
      PROVE  LocksAreHeld'
  <2>1. active' = active /\ job[j].phase = "unused"
    BY <1>2 DEF Call, CallTracked, CallUntracked, CallCreate, Calls, queueVars
  <2>2. \A i \in Jobs \ {j} : job'[i] = job[i]
    BY <1>2, <1>a DEF Call, CallTracked, CallUntracked, CallCreate
  <2> QED
    BY <1>1, <2>1, <2>2 DEF Inside
<1>3. ASSUME NEW j \in Jobs, Refuse(j) \/ RefuseClone(j) \/ CreateRow(j) \/ CreateRefused(j)
                                \/ SweepExpires(j) \/ EraseBegins(j) \/ Finish(j)
      PROVE  LocksAreHeld'
  <2>1. active' = active
    BY <1>3 DEF Refuse, RefuseClone, CreateRow, CreateRefused, SweepExpires, EraseBegins,
                Finish, queueVars
  <2>2. \A i \in Jobs : job'[i].room = job[i].room /\ (i # j => job'[i] = job[i])
    BY <1>3, <1>a DEF Refuse, RefuseClone, CreateRow, CreateRefused, SweepExpires, EraseBegins,
                      Finish, JobRecords
  <2>3. Inside(j) => job'[j].phase \in {"releasing", "erasing"}
    BY <1>3, <1>a DEF Refuse, RefuseClone, CreateRow, CreateRefused, SweepExpires, EraseBegins,
                      Finish, Ready, Inside, JobRecords
  <2> QED
    BY <1>1, <2>1, <2>2, <2>3 DEF Inside
<1>4. ASSUME NEW j \in Jobs,
             Acquire(j) \/ (\E s \in RowStates : AcquireStart(j, s))
               \/ \E t \in Rooms : AcquireClone(j, t)
      PROVE  LocksAreHeld'
  <2>1. active' = active \cup {job[j].room} /\ Inside(j)'
    BY <1>4, <1>a DEF Acquire, AcquireStart, AcquireClone, Inside, JobRecords
  <2>2. \A i \in Jobs : job'[i].room = job[i].room /\ (i # j => job'[i] = job[i])
    BY <1>4, <1>a DEF Acquire, AcquireStart, AcquireClone, JobRecords
  <2> QED
    BY <2>1, <2>2 DEF LocksAreHeld, Inside
<1>5. ASSUME NEW j \in Jobs, NEW ok \in BOOLEAN,
             WorkEnds(j, ok) \/ CreateEnds(j, ok) \/ CloneEnds(j, ok) \/ EraseEnds(j, ok)
      PROVE  LocksAreHeld'
  <2>1. Leaves(j, ok)
    BY <1>5 DEF WorkEnds, CreateEnds, CloneEnds, EraseEnds
  <2>2. \A i \in Jobs : job'[i].room = job[i].room /\ (i # j => job'[i] = job[i])
    BY <1>a, <2>1 DEF Leaves, JobRecords
  <2> QED
    BY <1>1, <2>1, <2>2 DEF Leaves, Inside
<1>6. CASE UNCHANGED <<job, active>>
  BY <1>1, <1>6 DEF Inside
<1>7. DeleteAll \/ WipeStep => UNCHANGED <<job, active>>
  BY DEF DeleteAll, WipeStep, WipeDrained, WipeBegins, WipeEnds, WipeReturns, queueVars
<1>8. Shutdown \/ DrainTimesOut \/ DeadlineExpires \/ HaltStep => UNCHANGED <<job, active>>
  BY DEF Shutdown, DrainTimesOut, DeadlineExpires, HaltStep, HaltAwaited, HaltDrained,
         StopRooms, StopEnds, HaltReturns, queueVars
<1>9. Restart => LocksAreHeld'
  BY DEF Restart, LocksAreHeld
<1>10. UNCHANGED vars \/ (\E j \in Jobs : ContainersUp(j)) => UNCHANGED <<job, active>>
  BY DEF vars, ContainersUp, queueVars
<1> QED
  BY <1>2, <1>3, <1>4, <1>5, <1>6, <1>7, <1>8, <1>9, <1>10 DEF Next, Turn, Work

LEMMA KindsAskedStep ==
    ASSUME ~Impatient, TypeInv, KindsAsked, [Next]_vars
    PROVE  KindsAsked'
<1>1. CASE UNCHANGED job
  BY <1>1 DEF KindsAsked
<1>2. ASSUME NEW j \in Jobs, Moves(j)
      PROVE  KindsAsked'
  BY <1>2 DEF KindsAsked, Moves, Others, Enters, Bounces, Detects, Stores, Advances, Targets, Ready
<1>3. CASE Restart
  BY <1>3, QueueTypes DEF Restart, KindsAsked, JobRecords
<1> QED
  BY <1>1, <1>2, <1>3, Steps DEF vars

LEMMA QueueLockInit == Init => QueueLockInv
BY DrainInit, TypeInit
   DEF Init, QueueLockInv, LockInv, HoldersLocked, HoldersExclusive, LocksAreHeld, KindsAsked, Inside,
       Unused

LEMMA QueueLockStep ==
    ASSUME ~Impatient, QueueLockInv, [Next]_vars
    PROVE  QueueLockInv'
BY DrainStep, LockStep, LocksAreHeldStep, KindsAskedStep DEF QueueLockInv, LockInv

\* At most one job is inside a Room, under its own lock or as its clone's target.
LEMMA OneWorker ==
    ASSUME QueueLockInv, NEW i \in Jobs, NEW j \in Jobs, NEW r \in Rooms,
           Inside(i), Inside(j), On(i, r), On(j, r)
    PROVE  i = j
<1>1. ASSUME NEW h \in Jobs, NEW k \in Jobs, h < k, Inside(h), Inside(k), On(h, r), On(k, r)
      PROVE  FALSE
  <2>1. Queueing(h) /\ Queueing(k) /\ job[k].phase # "waiting"
    BY <1>1 DEF Inside, Queueing
  <2> QED
    BY <1>1, <2>1, OlderFirst, QueueTypes DEF QueueLockInv, DrainInv, QueueInv
<1> QED
  BY <1>1, JobsNumbered

LEMMA TurnsAreInOrder ==
    ASSUME QueueLockInv, NEW j \in Jobs, Ready(j)
    PROVE  /\ job[j].room \notin active
           /\ \A i \in Jobs : i < j /\ Queueing(i) => ~On(i, job[j].room)
<1>1. Queueing(j) /\ job[j].phase = "waiting"
  BY DEF Ready, Queueing
<1>2. \A i \in Jobs : i < j /\ Queueing(i) => ~On(i, job[j].room)
  BY <1>1, Blocked DEF QueueLockInv, DrainInv
<1>3. ASSUME job[j].room \in active PROVE FALSE
  <2>1. PICK i \in Jobs : Inside(i) /\ job[i].room = job[j].room
    BY <1>3 DEF QueueLockInv, LocksAreHeld
  <2>2. Queueing(i) /\ job[i].phase # "waiting" /\ i # j
    BY <1>1, <2>1 DEF Inside, Queueing
  <2>3. On(j, job[i].room) /\ On(i, job[j].room)
    BY <2>1 DEF On
  <2>4. j < i
    BY <1>2, <2>2, <2>3, JobsNumbered
  <2> QED
    BY <1>1, <2>2, <2>3, <2>4, Blocked DEF QueueLockInv, DrainInv
<1> QED
  BY <1>2, <1>3

LEMMA OrderedTurns == QueueLockInv => QueueIsOrdered
<1>1. ASSUME NEW i \in Jobs, NEW j \in Jobs, job[i].phase = "waiting", job[i].room = job[j].room
      PROVE  Queueing(i) /\ On(i, job[j].room)
  BY <1>1 DEF Queueing, On
<1> QED
  BY <1>1, TurnsAreInOrder DEF QueueIsOrdered

\* The least of some numbers (the order of Nat is well founded)
LEMMA Below == \E R : IsWellFoundedOn(R, Nat) /\ \A x, y \in Nat : x < y => <<x, y>> \in R
<1>1. IsWellFoundedOn(OpToRel(<, Nat), Nat)
  BY NatLessThanWellFounded
<1>2. \A x, y \in Nat : x < y => <<x, y>> \in OpToRel(<, Nat)
  BY DEF OpToRel
<1> QED
  BY <1>1, <1>2, Zenon

LEMMA Least ==
    ASSUME NEW S \in SUBSET Nat, S # {}
    PROVE  \E x \in S : \A y \in S : x <= y
<1>1. PICK R : IsWellFoundedOn(R, Nat) /\ \A x, y \in Nat : x < y => <<x, y>> \in R
  BY Below
<1>2. IsWellFoundedOn(R, Nat) /\ S \subseteq Nat
  BY <1>1
<1>3. \E x \in S : \A y \in S : ~(<<y, x>> \in R)
  BY ONLY <1>2, S # {}, WFMin, Zenon
<1>4. PICK x \in S : \A y \in S : ~(<<y, x>> \in R)
  BY <1>3
<1>5. ASSUME NEW y \in S
      PROVE  x <= y
  <2>1. x \in Nat /\ y \in Nat
    OBVIOUS
  <2>2. ~(y < x)
    BY <1>1, <1>4, <2>1, Zenon
  <2> QED
    BY <2>1, <2>2
<1> QED
  BY <1>4, <1>5

\* Without clones, whoever is pending on a Room that has a row has somebody inside
\* it once the continuations have run: the oldest call on it waits for nobody.
LEMMA SomebodyInside ==
    ASSUME QueueLockInv, Quiet, "clone" \notin Kinds, NEW j \in Jobs, NEW r \in Rooms,
           Pending(j), On(j, r), row[r] # "none"
    PROVE  r \in active
<1> DEFINE S == {i \in Jobs : Queueing(i) /\ job[i].room = r}
<1>1. \A i \in Jobs : job[i].target = None
  BY DEF QueueLockInv, DrainInv, QueueInv, Names, TargetsAreNew, KindsAsked
<1>2. r # None
  BY NoneRoomAssumption
<1>3. Queueing(j) /\ job[j].room = r
  BY <1>1, <1>2 DEF Pending, On, QueueLockInv, DrainInv, QueueInv, Names, DetectingAlone
<1>4. PICK m \in S : \A i \in S : m <= i
  BY <1>3, JobsNumbered, Least
<1>5. CASE Inside(m)
  BY <1>4, <1>5 DEF QueueLockInv, LockInv, HoldersLocked
<1>6. CASE ~Inside(m)
  <2> DEFINE p == job[m].prev.of
  <2>1. job[m].phase = "waiting" /\ ~Settled(job[m].prev)
    BY <1>4, <1>6 DEF Quiet, Ready, Inside, Queueing
  <2>2. job[m].prev # None /\ p \in Jobs
    BY <2>1, QueueTypes DEF Settled, QueueLockInv, DrainInv, QueueInv
  <2>3. p < m /\ On(p, r) /\ job[p].phase \notin {"unused", "detecting"}
    BY <1>4, <2>1, <2>2 DEF QueueLockInv, DrainInv, QueueInv, PrevIsEarlier
  <2>4. job[p].phase \notin {"done", "lost", "finishing"}
    BY <2>1, <2>2 DEF Settled, Quiet
  <2>5. job[p].phase \in Phases
    BY <2>2, QueueTypes DEF QueueLockInv, DrainInv, QueueInv, JobRecords
  <2>6. p \in S
    BY <1>1, <1>2, <2>2, <2>3, <2>4, <2>5 DEF On, Queueing, Phases
  <2> QED
    BY <1>4, <2>3, <2>6, JobsNumbered
<1> QED
  BY <1>5, <1>6

\* Shutdown attempts the Rooms whose work is over; a clone that outlasts the drain is
\* the one thing it does not see, since its target is not in activeRoomLocks.
StopInv == QueueLockInv /\ StopsAlone

LEMMA StopStep ==
    ASSUME ~Impatient, ~EngineHangs \/ "clone" \notin Kinds, StopInv, [Next]_vars
    PROVE  StopInv'
<1>0. QueueLockInv'
  BY QueueLockStep DEF StopInv
<1>a. halt \in HaltRecords
  BY GateTypes DEF StopInv, QueueLockInv, DrainInv, QueueInv
<1>b. SUFFICES StopsAlone'
  BY <1>0 DEF StopInv
<1>1. ASSUME UNCHANGED job, halt'.stops \subseteq halt.stops
      PROVE  StopsAlone'
  BY <1>1 DEF StopInv, StopsAlone, Pending, Queueing, On
<1>2. ASSUME NEW j \in Jobs, Moves(j)
      PROVE  StopsAlone'
  <2>1. halt' = halt /\ gate' = gate /\ \A i \in Jobs \ {j} : job'[i] = job[i]
    BY <1>2 DEF Moves, Frame, Others
  <2>2. CASE halt.stops = {}
    BY <2>1, <2>2 DEF StopsAlone
  <2>3. CASE halt.stops # {}
    <3>1. halt.phase = "stopping" /\ gate # "open"
      BY <2>3 DEF StopInv, QueueLockInv, DrainInv, Gates
    <3>2. CASE halt.drained
      <4>1. NobodyPending'
        BY <1>2, <3>1, <3>2, NobodyComes DEF StopInv, QueueLockInv, DrainInv, Drains
      <4> QED
        BY <4>1 DEF NobodyPending, StopsAlone
    <3>3. CASE ~halt.drained
      <4>1. "clone" \notin Kinds
        BY <3>1, <3>3 DEF StopInv, QueueLockInv, DrainInv, Gates
      <4>2. ~\E t \in Rooms : Targets(j, t)
        BY <4>1 DEF Targets, Ready, StopInv, QueueLockInv, KindsAsked
      <4>3. Bounces(j) \/ Stores(j) \/ Advances(j)
        BY <1>2, <3>1, <4>2 DEF Moves, Enters, Detects
      <4>4. Pending(j)' => Pending(j) /\ \A r : On(j, r)' <=> On(j, r)
        BY <4>3 DEF Bounces, Stores, Advances, Pending, Queueing, On
      <4> QED
        BY <2>1, <4>4 DEF StopInv, StopsAlone, Pending, Queueing, On
    <3> QED
      BY <3>2, <3>3
  <2> QED
    BY <2>2, <2>3
<1>3. CASE Restart
  BY <1>3 DEF Restart, NoHalt, StopsAlone
<1>4. ASSUME NEW d \in BOOLEAN, StopRooms(d), NobodyPending
      PROVE  StopsAlone'
  BY <1>4 DEF StopRooms, StopsAlone, NobodyPending, Pending, Queueing
<1>5. CASE HaltDrained
  <2>1. wipe.awaits \in SUBSET Promises /\ halt.awaits \in SUBSET Promises
    BY GateTypes DEF StopInv, QueueLockInv, DrainInv, QueueInv, WipeRecords, HaltRecords
  <2>2. NobodyPending
    BY <1>5, <2>1, CoveredEmpties DEF HaltDrained, Drained, StopInv, QueueLockInv, DrainInv, Drains
  <2> QED
    BY <1>4, <1>5, <2>2 DEF HaltDrained
<1>6. CASE DrainTimesOut
  <2>1. "clone" \notin Kinds /\ Quiet /\ UNCHANGED job /\ halt'.stops = Stoppable(FALSE)
    BY <1>6, <1>a DEF DrainTimesOut, StopRooms, HaltRecords
  <2>2. ASSUME NEW r \in Stoppable(FALSE), NEW j \in Jobs, Pending(j), On(j, r)
        PROVE  FALSE
    <3>1. r \in Rooms /\ row[r] # "none" /\ r \notin active
      BY <2>2 DEF Stoppable, Listed
    <3> QED
      BY <2>1, <2>2, <3>1, SomebodyInside DEF StopInv
  <2> QED
    BY <2>1, <2>2 DEF StopsAlone, Pending, Queueing, On
<1>7. Shutdown => UNCHANGED job /\ halt'.stops = {}
  BY DEF Shutdown, NoHalt
<1>8. HaltAwaited \/ DeadlineExpires \/ HaltReturns => UNCHANGED job /\ halt'.stops = halt.stops
  BY <1>a DEF HaltAwaited, DeadlineExpires, HaltReturns, HaltRecords
<1>9. ASSUME NEW r \in Rooms, NEW ok \in BOOLEAN, StopEnds(r, ok)
      PROVE  UNCHANGED job /\ halt'.stops \subseteq halt.stops
  BY <1>9, <1>a DEF StopEnds, HaltRecords
<1>10. DeleteAll \/ WipeStep \/ UNCHANGED vars => UNCHANGED <<job, halt>>
  BY DEF DeleteAll, WipeStep, WipeDrained, WipeBegins, WipeEnds, WipeReturns, vars
<1>11. ASSUME NEW j \in Jobs, ContainersUp(j)
       PROVE  UNCHANGED <<job, halt>>
  BY <1>11 DEF ContainersUp
<1>12. ASSUME NEW j \in Jobs, Call(j) \/ Turn(j) \/ Work(j) \/ Finish(j)
       PROVE  Moves(j) \/ ContainersUp(j)
  BY <1>12, CallMoves, WorkMoves, StillJob DEF StopInv, QueueLockInv, DrainInv, QueueInv
<1> QED
  BY <1>1, <1>2, <1>3, <1>5, <1>6, <1>7, <1>8, <1>9, <1>10, <1>11, <1>12 DEF Next, HaltStep

LEMMA AloneIsExclusive == StopInv => EngineExclusive
<1> SUFFICES ASSUME StopInv, NEW r \in Rooms
             PROVE  Cardinality(Workers(r)) + (IF wipe.room = r THEN 1 ELSE 0)
                      + (IF r \in halt.stops THEN 1 ELSE 0) <= 1
  BY DEF EngineExclusive
<1>1. \A i, j \in Workers(r) : i = j
  BY OneWorker DEF Workers, StopInv, On
<1>2. Cardinality(Workers(r)) \in {0, 1} /\ (Workers(r) = {} => Cardinality(Workers(r)) = 0)
  <2>1. CASE Workers(r) = {}
    BY <2>1, FS_EmptySet
  <2>2. CASE Workers(r) # {}
    <3>1. PICK i \in Workers(r) : TRUE
      BY <2>2
    <3>2. Workers(r) = {i}
      BY <1>1, <3>1
    <3> QED
      BY <3>2, FS_Singleton
  <2> QED
    BY <2>1, <2>2
<1>3. wipe.room = r => wipe.phase = "erasing" /\ r \notin halt.stops /\ Workers(r) = {}
  <2>1. r # None
    BY NoneRoomAssumption
  <2> QED
    BY <2>1 DEF StopInv, QueueLockInv, DrainInv, Gates, Drains, NobodyPending, Pending, Queueing,
                Workers, Inside
<1>4. r \in halt.stops => Workers(r) = {}
  BY DEF StopInv, StopsAlone, Workers, Inside, Pending, Queueing, On
<1> QED
  BY <1>2, <1>3, <1>4

\* Calls of a Room get their turn in the order in which they were made, and one
\* actor at a time works on a Room (withRoomLock, 2676; the clone's target, 4462;
\* deleteAllRoomsLocked, 5280; shutdownLocked, 2612), for any Rooms and any number
\* of calls.  Clients wait for a deletion before they delete or undo again, and
\* work that outlasts the drain of a shutdown is not a clone.
THEOREM OneActor ==
    ASSUME ~Impatient, ~EngineHangs \/ "clone" \notin Kinds
    PROVE  Spec => []QueueOrdered
<1>1. Init => StopInv
  BY QueueLockInit DEF Init, NoHalt, StopInv, StopsAlone
<1>2. StopInv /\ [Next]_vars => StopInv'
  BY StopStep
<1>3. StopInv => QueueOrdered
  BY AloneIsExclusive, OrderedTurns DEF StopInv, QueueOrdered
<1> QED
  BY <1>1, <1>2, <1>3, PTL DEF Spec

\* The half of it that the shutdown is checked for: while stopAll stops a Room (2612),
\* or "remove all data" erases it (5280), neither of which takes the Room's lock, no
\* call works on the Room and no clone fills it.
COROLLARY EngineAlone ==
    ASSUME ~Impatient, ~EngineHangs \/ "clone" \notin Kinds
    PROVE  Spec => []EngineExclusive
<1>1. QueueOrdered => EngineExclusive
  BY DEF QueueOrdered
<1> QED
  BY <1>1, OneActor, PTL

-----------------------------------------------------------------------------
(* A stored recovery key keeps the others out *)

\* A recovery key was stored by a call on the Room, so the Room is no clone's target.
FencesOwned == \A r \in Rooms : fence[r] => \E j \in Jobs : job[j].room = r

FenceInv == StopInv /\ FencesOwned /\ FencedRoomUntouched

\* A step that stores no key and lets nobody in keeps what holds.
LEMMA FenceKept ==
    ASSUME FenceInv,
           \A r \in Rooms : fence'[r] => fence[r],
           wipe'.room \in {wipe.room, None}, halt'.stops \subseteq halt.stops,
           \A j \in Jobs : /\ job[j].phase # "unused" => job'[j].room = job[j].room
                           /\ Inside(j)' => /\ Inside(j)
                                            /\ job'[j].room = job[j].room
                                            /\ job'[j].target = job[j].target
                                            /\ job'[j].kind = job[j].kind
    PROVE  FencesOwned' /\ FencedRoomUntouched'
<1>1. FencesOwned'
  <2> SUFFICES ASSUME NEW r \in Rooms, fence'[r] PROVE \E j \in Jobs : job'[j].room = r
    BY DEF FencesOwned
  <2>1. PICK j \in Jobs : job[j].room = r
    BY DEF FenceInv, FencesOwned
  <2>2. job[j].phase # "unused"
    BY <2>1, NoneRoomAssumption
       DEF FenceInv, StopInv, QueueLockInv, DrainInv, QueueInv, Names, BlankUntilCalled
  <2> QED
    BY <2>1, <2>2
<1>2. FencedRoomUntouched'
  <2> SUFFICES ASSUME NEW r \in Rooms, fence'[r]
               PROVE  /\ wipe'.room # r /\ r \notin halt'.stops
                      /\ \A j \in Workers(r)' : job'[j].kind = "matrix"
    BY DEF FencedRoomUntouched
  <2>1. /\ wipe.room # r /\ r \notin halt.stops
        /\ \A j \in Workers(r) : job[j].kind = "matrix"
    BY DEF FenceInv, FencedRoomUntouched
  <2>2. \A j \in Workers(r)' : j \in Workers(r) /\ job'[j].kind = job[j].kind
    BY DEF Workers
  <2> QED
    BY <2>1, <2>2, NoneRoomAssumption
<1> QED
  BY <1>1, <1>2

\* Whoever is inside a Room is alone there, also as far as removal and shutdown go.
LEMMA PendingAlone ==
    ASSUME StopInv, NEW j \in Jobs, NEW r \in Rooms, Pending(j), On(j, r)
    PROVE  wipe.room # r /\ r \notin halt.stops
<1>1. r # None
  BY NoneRoomAssumption
<1> QED
  BY <1>1 DEF StopInv, QueueLockInv, DrainInv, Gates, Drains, NobodyPending, StopsAlone

LEMMA FenceTurn ==
    ASSUME FenceInv, NEW j \in Jobs, Turn(j)
    PROVE  FencesOwned' /\ FencedRoomUntouched'
<1>a. TypeInv /\ job \in [Jobs -> JobRecords] /\ fence \in [Rooms -> BOOLEAN]
  BY DEF FenceInv, StopInv, QueueLockInv, DrainInv, QueueInv, TypeInv, TypeOK
<1>1. CASE Refuse(j) \/ RefuseClone(j)
  <2>1. fence' = fence /\ wipe' = wipe /\ halt' = halt
    BY <1>1 DEF Refuse, RefuseClone, durable
  <2>2. /\ \A i \in Jobs : job'[i].room = job[i].room /\ (i # j => job'[i] = job[i])
        /\ job'[j].phase \in {"finishing", "done"}
    BY <1>1, <1>a DEF Refuse, RefuseClone, Over, JobRecords
  <2> QED
    BY <2>1, <2>2, FenceKept DEF Inside
<1>2. ASSUME Acquire(j) \/ (\E s \in RowStates : AcquireStart(j, s))
               \/ \E t \in Rooms : AcquireClone(j, t)
      PROVE  FencesOwned' /\ FencedRoomUntouched'
  <2>0. PICK r \in Rooms : r = job[j].room
    BY <1>a, <1>2, QueueTypes DEF Acquire, AcquireStart, AcquireClone, Ready
  <2>1. /\ wipe' = wipe /\ halt' = halt /\ ~fence[r] /\ Ready(j)
        /\ \A i \in Jobs : job'[i].room = job[i].room /\ job'[i].kind = job[i].kind
                             /\ (i # j => job'[i] = job[i])
    BY <1>2, <1>a, <2>0 DEF Acquire, AcquireStart, AcquireClone, Refused, JobRecords
  <2>2. /\ r \in Rooms /\ Pending(j) /\ On(j, r) /\ job[j].phase = "waiting"
        /\ job[j].target = None
    BY <2>0, <2>1, QueueTypes
       DEF FenceInv, StopInv, QueueLockInv, DrainInv, QueueInv, Names, TargetsAreNew, Ready, Pending,
           Queueing, On
  <2>3. wipe.room # r /\ r \notin halt.stops
    BY <2>2, PendingAlone DEF FenceInv
  <2>4. \A s \in Rooms \ {r} : fence'[s] = fence[s]
    BY <1>2, <1>a, <2>0 DEF Acquire, AcquireStart, AcquireClone
  <2>5. fence'[r] => job[j].kind = "matrix"
    BY <1>2, <1>a, <2>1, <2>2 DEF Acquire, AcquireStart, AcquireClone
  <2>6. FencesOwned'
    BY <2>0, <2>1, <2>2, <2>4 DEF FenceInv, FencesOwned
  <2>7. \A i \in Workers(r) : FALSE
    <3> SUFFICES ASSUME NEW i \in Jobs, Inside(i), On(i, r) PROVE FALSE
      BY DEF Workers, On
    <3>1. Queueing(i) /\ i # j /\ job[i].phase # "waiting"
      BY <2>2 DEF Inside, Queueing
    <3>2. Queueing(j)
      BY <2>2 DEF Queueing
    <3>3. i < j \/ j < i
      BY <3>1, JobsNumbered
    <3>4. r # None
      BY QueueTypes, <2>2 DEF FenceInv, StopInv, QueueLockInv, DrainInv, QueueInv
    <3> QED
      BY <2>1, <2>2, <3>1, <3>2, <3>3, <3>4, OlderFirst
         DEF FenceInv, StopInv, QueueLockInv, DrainInv
  <2>8. ASSUME NEW s \in Rooms, fence'[s], s # r
        PROVE  job'[j].target # s
    <3>1. CASE \E t \in Rooms : AcquireClone(j, t)
      <4>1. PICK t \in Rooms : AcquireClone(j, t)
        BY <3>1
      <4>2. job'[j].target = t /\ Unclaimed(t)
        BY <1>a, <4>1 DEF AcquireClone, JobRecords
      <4>3. fence[s]
        BY <2>4, <2>8
      <4> QED
        BY <4>2, <4>3 DEF FenceInv, FencesOwned, Unclaimed
    <3>2. CASE Acquire(j) \/ \E u \in RowStates : AcquireStart(j, u)
      BY <1>a, <2>2, <3>2, NoneRoomAssumption DEF Acquire, AcquireStart, JobRecords
    <3> QED
      BY <1>2, <3>1, <3>2
  <2>9. FencedRoomUntouched'
    <3> SUFFICES ASSUME NEW s \in Rooms, fence'[s]
                 PROVE  /\ wipe'.room # s /\ s \notin halt'.stops
                        /\ \A i \in Workers(s)' : job'[i].kind = "matrix"
      BY DEF FencedRoomUntouched
    <3>1. CASE s = r
      <4>1. \A i \in Workers(s)' : i = j \/ i \in Workers(r)
        BY <2>1, <3>1 DEF Workers, Inside
      <4>2. \A i \in Workers(s)' : i = j
        BY <2>7, <4>1
      <4> QED
        BY <2>1, <2>3, <2>5, <3>1, <4>2
    <3>2. CASE s # r
      <4>1. fence[s]
        BY <2>4, <3>2
      <4>2. /\ wipe.room # s /\ s \notin halt.stops
            /\ \A i \in Workers(s) : job[i].kind = "matrix"
        BY <4>1 DEF FenceInv, FencedRoomUntouched
      <4>3. j \notin Workers(s)'
        BY <2>0, <2>1, <2>8, <3>2 DEF Workers
      <4>4. \A i \in Workers(s)' : i \in Workers(s) /\ i \in Jobs
        BY <2>1, <4>3 DEF Workers, Inside
      <4> QED
        BY <2>1, <4>2, <4>4
    <3> QED
      BY <3>1, <3>2
  <2> QED
    BY <2>6, <2>9
<1> QED
  BY <1>1, <1>2 DEF Turn

LEMMA FenceWork ==
    ASSUME FenceInv, NEW j \in Jobs, Work(j) \/ Finish(j)
    PROVE  FencesOwned' /\ FencedRoomUntouched'
<1>a. job \in [Jobs -> JobRecords] /\ fence \in [Rooms -> BOOLEAN]
  BY DEF FenceInv, StopInv, QueueLockInv, DrainInv, QueueInv, TypeInv, TypeOK
<1>b. wipe' = wipe /\ halt' = halt
  BY DEF Work, Finish, CreateRow, CreateRefused, ContainersUp, SweepExpires, EraseBegins, WorkEnds,
         CreateEnds, CloneEnds, EraseEnds
<1>1. CASE CreateRow(j) \/ CreateRefused(j) \/ SweepExpires(j) \/ EraseBegins(j) \/ Finish(j)
  <2>1. fence' = fence
    BY <1>1 DEF CreateRow, CreateRefused, SweepExpires, EraseBegins, Finish, durable
  <2>2. /\ \A i \in Jobs : /\ job'[i].room = job[i].room /\ job'[i].kind = job[i].kind
                           /\ job'[i].target = job[i].target
                           /\ i # j => job'[i] = job[i]
        /\ Inside(j)' => Inside(j)
    BY <1>1, <1>a
       DEF CreateRow, CreateRefused, SweepExpires, EraseBegins, Finish, Inside, JobRecords
  <2> QED
    BY <1>b, <2>1, <2>2, FenceKept DEF Inside
<1>2. CASE ContainersUp(j)
  BY <1>2, <1>b, FenceKept DEF ContainersUp, Inside
<1>3. ASSUME NEW ok \in BOOLEAN,
             WorkEnds(j, ok) \/ CreateEnds(j, ok) \/ CloneEnds(j, ok) \/ EraseEnds(j, ok)
      PROVE  FencesOwned' /\ FencedRoomUntouched'
  <2>1. Inside(j) /\ Leaves(j, ok)
    BY <1>3 DEF WorkEnds, CreateEnds, CloneEnds, EraseEnds, Inside
  <2>2. /\ \A i \in Jobs : /\ job'[i].room = job[i].room /\ job'[i].kind = job[i].kind
                           /\ job'[i].target = job[i].target
                           /\ i # j => job'[i] = job[i]
        /\ ~Inside(j)'
    BY <1>a, <2>1 DEF Leaves, Over, Inside, JobRecords
  <2>3. CASE fence' = fence
    BY <1>b, <2>2, <2>3, FenceKept DEF Inside
  <2>4. CASE fence' # fence
    <3>0. PICK r \in Rooms : r = job[j].room
      BY <2>1, QueueTypes DEF FenceInv, StopInv, QueueLockInv, DrainInv, QueueInv, Inside
    <3>1. \A s \in Rooms \ {r} : fence'[s] = fence[s]
      BY <1>3, <1>a, <2>4, <3>0 DEF WorkEnds, CreateEnds, CloneEnds, EraseEnds
    <3>2. r \in Rooms /\ On(j, r) /\ Pending(j)
      BY <2>1, <3>0 DEF Inside, Pending, Queueing, On
    <3>3. FencesOwned'
      BY <2>2, <3>0, <3>1, <3>2 DEF FenceInv, FencesOwned
    <3>4. wipe.room # r /\ r \notin halt.stops
      BY <3>2, PendingAlone DEF FenceInv
    <3>5. \A s \in Rooms : \A i \in Workers(s)' : i # j /\ i \in Workers(s)
      BY <2>2 DEF Workers, Inside
    <3>6. Workers(r)' = {}
      BY <2>1, <3>2, <3>5, OneWorker DEF Workers, On, FenceInv, StopInv
    <3>7. FencedRoomUntouched'
      <4> SUFFICES ASSUME NEW s \in Rooms, fence'[s]
                   PROVE  /\ wipe'.room # s /\ s \notin halt'.stops
                          /\ \A i \in Workers(s)' : job'[i].kind = "matrix"
        BY DEF FencedRoomUntouched
      <4>1. CASE s = r
        BY <1>b, <3>4, <3>6, <4>1
      <4>2. CASE s # r
        <5>1. /\ wipe.room # s /\ s \notin halt.stops
              /\ \A i \in Workers(s) : job[i].kind = "matrix"
          BY <3>1, <4>2 DEF FenceInv, FencedRoomUntouched
        <5>2. \A i \in Workers(s)' : i \in Workers(s) /\ i \in Jobs
          BY <3>5 DEF Workers
        <5> QED
          BY <1>b, <2>2, <5>1, <5>2
      <4> QED
        BY <4>1, <4>2
    <3> QED
      BY <3>3, <3>7
  <2> QED
    BY <2>3, <2>4
<1> QED
  BY <1>1, <1>2, <1>3 DEF Work

LEMMA FenceStep ==
    ASSUME ~Impatient, ~EngineHangs \/ "clone" \notin Kinds, FenceInv, [Next]_vars
    PROVE  FenceInv'
<1>0. StopInv'
  BY StopStep DEF FenceInv
<1>a. /\ job \in [Jobs -> JobRecords] /\ wipe \in WipeRecords /\ halt \in HaltRecords
      /\ fence \in [Rooms -> BOOLEAN]
  BY GateTypes DEF FenceInv, StopInv, QueueLockInv, DrainInv, QueueInv, TypeInv, TypeOK
<1>b. SUFFICES FencesOwned' /\ FencedRoomUntouched'
  BY <1>0 DEF FenceInv
<1>1. ASSUME UNCHANGED <<job, fence>>, wipe'.room \in {wipe.room, None}, halt'.stops \subseteq halt.stops
      PROVE  FencesOwned' /\ FencedRoomUntouched'
  BY <1>1, FenceKept DEF Inside
<1>2. ASSUME NEW j \in Jobs, Call(j)
      PROVE  FencesOwned' /\ FencedRoomUntouched'
  <2>1. fence' = fence /\ wipe' = wipe /\ halt' = halt /\ job[j].phase = "unused"
    BY <1>2 DEF Call, CallTracked, CallUntracked, CallCreate, Calls, durable
  <2>2. Moves(j) \/ Impatient
    BY <1>2, CallMoves DEF FenceInv, StopInv, QueueLockInv, DrainInv, QueueInv
  <2>3. \A i \in Jobs \ {j} : job'[i] = job[i]
    BY <2>2 DEF Moves, Others
  <2>4. ~Inside(j)'
    BY <2>1, <2>2 DEF Moves, Enters, Bounces, Detects, Stores, Advances, Targets, Ready, Inside
  <2> QED
    BY <2>1, <2>3, <2>4, FenceKept DEF Inside
<1>3. CASE Restart
  <2>1. \A i \in Jobs : ~Inside(i)' /\ job'[i].room = job[i].room
    BY <1>3, <1>a DEF Restart, Inside, JobRecords
  <2>2. \A r \in Rooms : fence'[r] => fence[r]
    BY <1>3 DEF Restart
  <2>3. wipe'.room = None /\ halt'.stops = {}
    BY <1>3 DEF Restart, NoWipe, NoHalt
  <2> QED
    BY <2>1, <2>2, <2>3, FenceKept
<1>4. ASSUME NEW r \in Rooms, WipeBegins(r)
      PROVE  FencesOwned' /\ FencedRoomUntouched'
  <2>1. UNCHANGED <<job, fence, halt>>
    BY <1>4 DEF WipeBegins, queueVars
  <2>2. CASE wipe'.room = None
    BY <1>1, <2>1, <2>2
  <2>3. CASE wipe'.room # None
    <3>1. wipe'.room = r /\ ~fence[r]
      BY <1>4, <1>a, <2>3 DEF WipeBegins, WipeRecords
    <3>2. FencesOwned'
      BY <2>1 DEF FenceInv, FencesOwned
    <3>3. FencedRoomUntouched'
      BY <2>1, <3>1 DEF FenceInv, FencedRoomUntouched, Workers, Inside
    <3> QED
      BY <3>2, <3>3
  <2> QED
    BY <2>2, <2>3
<1>5. DeleteAll \/ WipeDrained \/ (\E ok \in BOOLEAN : WipeEnds(ok)) \/ WipeReturns
        => UNCHANGED <<job, fence, halt>> /\ wipe'.room \in {wipe.room, None}
  <2>1. DeleteAll => UNCHANGED <<job, fence, halt>> /\ wipe'.room = None
    BY DEF DeleteAll, NoWipe, durable
  <2>2. WipeDrained => UNCHANGED <<job, fence, halt>> /\ wipe'.room = None
    <3>1. WipeFails => wipe'.room = None
      BY DEF WipeFails, NoWipe
    <3> QED
      BY <3>1 DEF WipeDrained, NoWipe, durable
  <2>3. ASSUME NEW ok \in BOOLEAN, WipeEnds(ok)
        PROVE  UNCHANGED <<job, fence, halt>> /\ wipe'.room = None
    BY <1>a, <2>3 DEF WipeEnds, WipeRecords
  <2>4. WipeReturns => UNCHANGED <<job, fence, halt>> /\ wipe'.room = None
    BY DEF WipeReturns, WipeFails, NoWipe, durable
  <2> QED
    BY <2>1, <2>2, <2>3, <2>4
<1>6. ASSUME NEW d \in BOOLEAN, StopRooms(d)
      PROVE  FencesOwned' /\ FencedRoomUntouched'
  <2>1. UNCHANGED <<job, fence, wipe>> /\ halt'.stops = Stoppable(d)
    BY <1>6, <1>a DEF StopRooms, HaltRecords, durable
  <2>2. FencesOwned'
    BY <2>1 DEF FenceInv, FencesOwned
  <2>3. FencedRoomUntouched'
    BY <2>1 DEF FenceInv, FencedRoomUntouched, Stoppable, Workers, Inside
  <2> QED
    BY <2>2, <2>3
<1>7. Shutdown => UNCHANGED <<job, fence, wipe>> /\ halt'.stops = {}
  BY DEF Shutdown, NoHalt, durable
<1>8. HaltAwaited \/ DeadlineExpires \/ HaltReturns
        => UNCHANGED <<job, fence, wipe>> /\ halt'.stops = halt.stops
  BY <1>a DEF HaltAwaited, DeadlineExpires, HaltReturns, HaltRecords, durable
<1>9. ASSUME NEW r \in Rooms, NEW ok \in BOOLEAN, StopEnds(r, ok)
      PROVE  UNCHANGED <<job, fence, wipe>> /\ halt'.stops \subseteq halt.stops
  BY <1>9, <1>a DEF StopEnds, HaltRecords
<1>10. UNCHANGED vars => UNCHANGED <<job, fence, wipe, halt>>
  BY DEF vars, durable
<1> QED
  BY <1>1, <1>2, <1>3, <1>4, <1>5, <1>6, <1>7, <1>8, <1>9, <1>10, FenceTurn, FenceWork
     DEF Next, WipeStep, HaltStep, HaltDrained, DrainTimesOut

\* While an Android recovery key of a Room is stored (androidMatrixRecovery,
\* orchestrator.ts 1926), only the run that stored it works on the Room, and no
\* removal or shutdown touches it, for any Rooms and calls; also when the run
\* failed, and after a restart that could not undo it.
THEOREM FencesHoldOthersOff ==
    ASSUME ~Impatient, ~EngineHangs \/ "clone" \notin Kinds
    PROVE  Spec => []FencedRoomUntouched
<1>1. Init => FenceInv
  BY QueueLockInit
     DEF Init, NoHalt, StopInv, StopsAlone, FenceInv, FencesOwned, FencedRoomUntouched
<1>2. FenceInv /\ [Next]_vars => FenceInv'
  BY FenceStep
<1>3. FenceInv => FencedRoomUntouched
  BY DEF FenceInv
<1> QED
  BY <1>1, <1>2, <1>3, PTL DEF Spec

-----------------------------------------------------------------------------
(* Remove all data, and a clean shutdown *)

\* The Rooms that are left are still to be deleted, and after that there are none.
WipeErases ==
    /\ wipe.phase = "erasing" /\ ~wipe.failed => Listed \subseteq wipe.todo \cup {wipe.room}
    /\ wipe.phase = "done" => Listed = {}

WipeInv == DrainInv /\ WipeErases

\* Once nobody is pending no Room appears.
LEMMA NoneAppears ==
    ASSUME TypeInv, NobodyPending, Next
    PROVE  Listed' \subseteq Listed
<1> SUFFICES ASSUME NEW r \in Rooms, row[r] = "none", row'[r] # "none"
             PROVE  FALSE
  BY DEF Listed
<1>1. \A j \in Jobs : ~CreateRow(j) /\ ~AcquireClone(j, r) /\ ~Inside(j)
  BY DEF CreateRow, AcquireClone, Ready, NobodyPending, Pending, Queueing, Inside
<1> QED
  BY <1>1, RowsAppear

LEMMA WipeErasesStep ==
    ASSUME ~Impatient, WipeInv, [Next]_vars
    PROVE  WipeInv'
<1>0. DrainInv'
  BY DrainStep DEF WipeInv
<1>a. wipe \in WipeRecords /\ TypeInv /\ row \in [Rooms -> RowStates]
  BY GateTypes DEF WipeInv, DrainInv, QueueInv, TypeInv, TypeOK
<1>b. SUFFICES WipeErases'
  BY <1>0 DEF WipeInv
<1>1. ASSUME Next, wipe' = wipe
      PROVE  WipeErases'
  <2>1. wipe.phase \in {"erasing", "done"} => Listed' \subseteq Listed
    BY <1>a, <1>1, NoneAppears DEF WipeInv, DrainInv, Drains
  <2> QED
    BY <1>1, <2>1 DEF WipeInv, WipeErases
<1>2. DeleteAll => WipeErases'
  BY DEF DeleteAll, NoWipe, WipeErases
<1>3. WipeDrained => WipeErases'
  <2>1. WipeFails => WipeErases'
    BY DEF WipeFails, NoWipe, WipeErases
  <2>2. ASSUME WipeDrained, ~WipeFails PROVE WipeErases'
    <3>1. wipe'.phase = "erasing" /\ wipe'.todo = Listed /\ row' = row
      BY <2>2 DEF WipeDrained, NoWipe, durable
    <3> QED
      BY <3>1 DEF WipeErases, Listed
  <2> QED
    BY <2>1, <2>2
<1>4. ASSUME NEW r \in Rooms, WipeBegins(r)
      PROVE  WipeErases'
  <2>1. wipe.phase = "erasing" /\ wipe'.phase = "erasing" /\ wipe.room = None
    BY <1>4, <1>a DEF WipeBegins, WipeRecords
  <2>2. CASE wipe'.failed = TRUE
    BY <2>1, <2>2 DEF WipeErases
  <2>3. CASE wipe'.failed # TRUE
    <3>1. wipe'.room = r /\ wipe'.todo = wipe.todo \ {r} /\ wipe'.failed = wipe.failed
      BY <1>4, <1>a, <2>3 DEF WipeBegins, WipeRecords
    <3>2. Listed' \subseteq Listed
      BY <1>4, <1>a, <2>3 DEF WipeBegins, WipeRecords, Listed
    <3>3. wipe'.failed = FALSE
      BY <1>a, <2>3, <3>1 DEF WipeRecords
    <3> QED
      BY <1>a, <2>1, <3>1, <3>2, <3>3, NoneRoomAssumption DEF WipeInv, WipeErases, Listed
  <2> QED
    BY <2>2, <2>3
<1>5. ASSUME NEW ok \in BOOLEAN, WipeEnds(ok)
      PROVE  WipeErases'
  <2>1. /\ wipe.phase = "erasing" /\ wipe'.phase = "erasing" /\ wipe.room \in Rooms
        /\ wipe'.todo = wipe.todo /\ wipe'.failed = (wipe.failed \/ ~ok)
    BY <1>5, <1>a DEF WipeEnds, WipeRecords, WipeInv, DrainInv, Gates
  <2>2. ok => Listed' \subseteq Listed \ {wipe.room}
    BY <1>5, <1>a, <2>1 DEF WipeEnds, Erase, Listed
  <2> QED
    BY <2>1, <2>2 DEF WipeInv, WipeErases
<1>6. WipeReturns => WipeErases'
  <2>1. WipeFails => WipeErases'
    BY DEF WipeFails, NoWipe, WipeErases
  <2>2. ASSUME WipeReturns, ~wipe.failed PROVE WipeErases'
    <3>1. wipe'.phase = "done" /\ row' = row /\ wipe.phase = "erasing" /\ wipe.todo = {} /\ wipe.room = None
      BY <2>2 DEF WipeReturns, NoWipe, durable
    <3>2. Listed = {}
      BY <2>2, <3>1, NoneRoomAssumption DEF WipeInv, WipeErases, Listed
    <3> QED
      BY <3>1, <3>2 DEF WipeErases, Listed
  <2> QED
    BY <2>1, <2>2 DEF WipeReturns
<1>7. Restart => WipeErases'
  BY DEF Restart, NoWipe, WipeErases
<1>8. UNCHANGED vars => WipeErases'
  BY DEF vars, durable, WipeInv, WipeErases, Listed
<1>9. Shutdown \/ DrainTimesOut \/ DeadlineExpires \/ HaltStep => wipe' = wipe
  BY DEF Shutdown, DrainTimesOut, DeadlineExpires, HaltStep, HaltAwaited, HaltDrained, StopRooms,
         StopEnds, HaltReturns
<1>10. ASSUME NEW j \in Jobs, Call(j) \/ Turn(j) \/ Work(j) \/ Finish(j)
       PROVE  wipe' = wipe
  <2>1. Moves(j) => wipe' = wipe
    BY DEF Moves, Frame
  <2>2. ContainersUp(j) => wipe' = wipe
    BY DEF ContainersUp
  <2> QED
    BY <1>10, <1>a, <2>1, <2>2, CallMoves, WorkMoves, StillJob
<1> QED
  BY <1>1, <1>2, <1>3, <1>4, <1>5, <1>6, <1>7, <1>8, <1>9, <1>10 DEF Next, WipeStep

\* After "remove all data" succeeded (deleteAllRoomsLocked, 5280) no Room is left and
\* none appears before the process ends, for any Rooms and any number of calls,
\* creations and clones that were under way when the gate closed among them.
THEOREM RemovalFinal ==
    ASSUME ~Impatient
    PROVE  Spec => []RemovalIsFinal
<1>1. Init => WipeInv
  BY DrainInit DEF Init, NoWipe, WipeInv, WipeErases
<1>2. WipeInv /\ [Next]_vars => WipeInv'
  BY WipeErasesStep
<1>3. WipeInv => RemovalIsFinal
  BY DEF WipeInv, WipeErases, RemovalIsFinal
<1> QED
  BY <1>1, <1>2, <1>3, PTL DEF Spec

\* A shutdown without a failure has drained everything, and what it did not stop
\* was asleep or broken already.
HaltStops ==
    /\ halt.phase \in {"stopping", "done"} /\ ~halt.failed =>
        /\ halt.drained
        /\ \A r \in Listed : row[r] \in {"sleeping", "broken"} \/ r \in halt.stops
    /\ halt.phase = "done" /\ ~halt.failed => \A j \in Jobs : job[j].phase # "finishing"

HaltInv == DrainInv /\ HaltStops

\* Once nobody is pending and no removal is under way, only the shutdown and a
\* restart change a row.
LEMMA RowsRest ==
    ASSUME ~Impatient, TypeInv, NobodyPending, Gates, wipe.phase \in {"idle", "done"}, gate # "open",
           Next, halt' = halt
    PROVE  row' = row \/ Restart
<1>1. ASSUME NEW j \in Jobs
      PROVE  ~Turn(j) /\ ~Work(j)
  BY DEF Turn, Refuse, Acquire, AcquireStart, AcquireClone, RefuseClone, Ready, Work, CreateRow,
         CreateRefused, ContainersUp, SweepExpires, EraseBegins, WorkEnds, CreateEnds, CloneEnds,
         EraseEnds, NobodyPending, Pending, Queueing
<1>2. ASSUME NEW j \in Jobs, Call(j) \/ Finish(j)
      PROVE  row' = row
  BY <1>2 DEF Call, CallTracked, CallUntracked, CallCreate, Finish, durable
<1>3. DeleteAll \/ WipeStep => row' = row
  BY DEF DeleteAll, WipeStep, WipeDrained, Drained, WipeBegins, WipeEnds, WipeReturns, Gates, durable
<1>4. Shutdown \/ DrainTimesOut \/ DeadlineExpires \/ HaltAwaited \/ HaltDrained \/ HaltReturns
        => row' = row
  BY DEF Shutdown, DrainTimesOut, DeadlineExpires, HaltAwaited, HaltDrained, StopRooms,
         HaltReturns, durable
<1>5. ASSUME NEW r \in Rooms, NEW ok \in BOOLEAN, StopEnds(r, ok)
      PROVE  FALSE
  <2>1. halt \in HaltRecords
    BY GateTypes
  <2>2. halt'.stops = halt.stops \ {r} /\ r \in halt.stops
    BY <1>5, <2>1 DEF StopEnds, HaltRecords
  <2> QED
    BY <2>2
<1> QED
  BY <1>1, <1>2, <1>3, <1>4, <1>5 DEF Next, HaltStep

LEMMA HaltStopsStep ==
    ASSUME ~Impatient, HaltInv, [Next]_vars
    PROVE  HaltInv'
<1>0. DrainInv'
  BY DrainStep DEF HaltInv
<1>a. halt \in HaltRecords /\ TypeInv /\ row \in [Rooms -> RowStates] /\ job \in [Jobs -> JobRecords]
  BY GateTypes DEF HaltInv, DrainInv, QueueInv, TypeInv, TypeOK
<1>b. SUFFICES HaltStops'
  BY <1>0 DEF HaltInv
<1>1. ASSUME Next, halt' = halt
      PROVE  HaltStops'
  <2>1. CASE Restart
    BY <2>1 DEF Restart, NoHalt, HaltStops
  <2>2. CASE ~Restart /\ halt.phase \in {"stopping", "done"} /\ ~halt.failed
    <3>1. halt.drained /\ gate # "open" /\ NobodyPending /\ wipe.phase \in {"idle", "done"}
      BY <2>2 DEF HaltInv, HaltStops, DrainInv, Gates, Drains
    <3>2. row' = row
      BY <1>1, <1>a, <2>2, <3>1, RowsRest DEF HaltInv, DrainInv
    <3>3. ASSUME halt.phase = "done", NEW j \in Jobs, job'[j].phase = "finishing" PROVE FALSE
      <4>1. job[j].phase # "finishing"
        BY <2>2, <3>3 DEF HaltInv, HaltStops
      <4>2. PICK i \in Jobs : Moves(i)
        BY <1>1, <1>a, <2>2, <3>3, <4>1, Steps
      <4>3. i = j
        BY <3>3, <4>1, <4>2 DEF Moves, Others
      <4>4. ~Pending(j) /\ job[j].phase \in Phases
        BY <1>a, <3>1 DEF NobodyPending, JobRecords
      <4>5. Advances(j)
        BY <3>1, <3>3, <4>2, <4>3, <4>4
           DEF Moves, Enters, Bounces, Detects, Stores, Targets, Ready, Pending, Queueing
      <4> QED
        BY <4>1, <4>4, <4>5 DEF Advances, Pending, Queueing, Phases
    <3> QED
      BY <1>1, <2>2, <3>1, <3>2, <3>3 DEF HaltInv, HaltStops, Listed
  <2>3. CASE ~(halt.phase \in {"stopping", "done"} /\ ~halt.failed)
    BY <1>1, <2>3 DEF HaltStops
  <2> QED
    BY <2>1, <2>2, <2>3
<1>2. Shutdown => HaltStops'
  BY DEF Shutdown, NoHalt, HaltStops
<1>3. HaltAwaited => HaltStops'
  BY <1>a DEF HaltAwaited, HaltRecords, HaltStops
<1>4. HaltDrained => HaltStops'
  <2> SUFFICES ASSUME HaltDrained PROVE HaltStops'
    OBVIOUS
  <2>1. /\ halt'.phase = "stopping" /\ halt'.drained = TRUE /\ halt'.stops = Stoppable(TRUE)
        /\ halt'.failed = (\E r \in Listed : fence[r]) /\ row' = row
    BY <1>a DEF HaltDrained, StopRooms, HaltRecords, durable
  <2> QED
    BY <2>1 DEF HaltStops, Stoppable, Listed
<1>5. DrainTimesOut \/ DeadlineExpires => HaltStops'
  <2>1. DrainTimesOut \/ DeadlineExpires => halt'.failed = TRUE
    BY <1>a DEF DrainTimesOut, StopRooms, DeadlineExpires, HaltRecords
  <2> QED
    BY <2>1 DEF HaltStops
<1>6. ASSUME NEW r \in Rooms, NEW ok \in BOOLEAN, StopEnds(r, ok)
      PROVE  HaltStops'
  <2>1. /\ halt.phase = "stopping" /\ halt'.phase = "stopping" /\ halt'.drained = halt.drained
        /\ halt'.stops = halt.stops \ {r} /\ halt'.failed = (halt.failed \/ ~ok)
    BY <1>6, <1>a DEF StopEnds, HaltRecords, HaltInv, DrainInv, Gates
  <2>2. ok => row'[r] \in {"sleeping", "broken", "none"}
    BY <1>6, <1>a DEF StopEnds, SleepRows
  <2>3. \A s \in Rooms \ {r} : row'[s] = row[s]
    BY <1>6, <1>a DEF StopEnds
  <2> QED
    BY <2>1, <2>2, <2>3 DEF HaltInv, HaltStops, Listed
<1>7. HaltReturns => HaltStops'
  <2> SUFFICES ASSUME HaltReturns PROVE HaltStops'
    OBVIOUS
  <2>1. /\ halt.phase = "stopping" /\ halt.stops = {} /\ halt'.phase = "done" /\ halt'.stops = {}
        /\ halt'.drained = halt.drained /\ halt'.failed = halt.failed /\ row' = row /\ job' = job
        /\ \A j \in Jobs : job[j].phase # "finishing"
    BY <1>a DEF HaltReturns, Quiet, HaltRecords, durable
  <2> QED
    BY <2>1 DEF HaltInv, HaltStops, Listed
<1>8. UNCHANGED vars => HaltStops'
  BY DEF vars, durable, HaltInv, HaltStops, Listed
<1>9. DeleteAll \/ WipeStep => halt' = halt
  BY DEF DeleteAll, WipeStep, WipeDrained, WipeBegins, WipeEnds, WipeReturns
<1>10. Restart => HaltStops'
  BY DEF Restart, NoHalt, HaltStops
<1>11. ASSUME NEW j \in Jobs, Call(j) \/ Turn(j) \/ Work(j) \/ Finish(j)
       PROVE  halt' = halt
  <2>1. Moves(j) => halt' = halt
    BY DEF Moves, Frame
  <2>2. ContainersUp(j) => halt' = halt
    BY DEF ContainersUp
  <2> QED
    BY <1>11, <1>a, <2>1, <2>2, CallMoves, WorkMoves, StillJob
<1> QED
  BY <1>1, <1>2, <1>3, <1>4, <1>5, <1>6, <1>7, <1>8, <1>9, <1>10, <1>11 DEF Next, HaltStep

\* A shutdown that reports no failure (shutdownLocked, 2612) leaves no Room awake, no
\* call pending and no record unsaved, for any Rooms and any number of calls.
THEOREM CleanShutdown ==
    ASSUME ~Impatient
    PROVE  Spec => []CleanShutdownIsQuiet
<1>1. Init => HaltInv
  BY DrainInit DEF Init, NoHalt, HaltInv, HaltStops
<1>2. HaltInv /\ [Next]_vars => HaltInv'
  BY HaltStopsStep
<1>3. HaltInv => CleanShutdownIsQuiet
  <2> SUFFICES ASSUME HaltInv, halt.phase = "done", ~halt.failed
               PROVE  /\ \A r \in Listed : row[r] \in {"sleeping", "broken"}
                      /\ \A j \in Jobs : job[j].phase \in {"unused", "done", "lost"}
    BY DEF CleanShutdownIsQuiet
  <2>1. halt.drained /\ halt.stops = {} /\ NobodyPending
    BY DEF HaltInv, HaltStops, DrainInv, Gates, Drains
  <2>2. \A j \in Jobs : job[j].phase \in Phases
    BY DEF HaltInv, DrainInv, QueueInv, TypeInv, TypeOK, JobRecords
  <2> QED
    BY <2>1, <2>2 DEF HaltInv, HaltStops, NobodyPending, Pending, Queueing, Phases
<1> QED
  BY <1>1, <1>2, <1>3, PTL DEF Spec

-----------------------------------------------------------------------------
(* What a deletion keeps and what it leaves *)

\* Work has the rows it works on.
WorkHasRow ==
    \A j \in Jobs :
        /\ Inside(j) => row[job[j].room] # "none"
        /\ Queueing(j) /\ job[j].target # None => row[job[j].target] # "none"

\* A deletion under way is reserved, its operation is the one that is to be kept,
\* and it is on record as long as the Room is there.
Reserves ==
    \A d \in Jobs : job[d].kind = "delete" /\ Queueing(d) =>
        /\ job[d].room \in deleting
        /\ receipt[job[d].room] = d
        /\ row[job[d].room] # "none" => record[d] = "running"

\* Only a deletion erases.
ErasersDelete ==
    \A d \in Jobs : job[d].phase \in {"releasing", "erasing"} => job[d].kind = "delete"

ReceiptInv == QueueLockInv /\ WorkHasRow /\ Reserves /\ ErasersDelete

Starting(j) == job[j].kind = "start" /\ Queueing(j)

\* A start is not admitted behind a deletion.
StartsBefore ==
    \A d, j \in Jobs :
        /\ job[d].kind = "delete" /\ Queueing(d)
        /\ Starting(j) /\ job[j].room = job[d].room
        => j < d

\* Nor on a Room that a clone still fills.
Barriers ==
    \A c \in Jobs : Queueing(c) /\ job[c].target # None =>
        /\ job[c].target \in making
        /\ \A j \in Jobs : job[j].room = job[c].target => job[j].kind # "start"

\* The operation that a deletion keeps is a deletion.
ReceiptsDelete ==
    \A r \in Rooms : receipt[r] # None =>
        job[receipt[r]].kind = "delete" /\ job[receipt[r]].phase # "unused"

\* A start that is under way or on record has its Room.
StartsHaveRows ==
    \A j \in Jobs :
        /\ job[j].kind = "start"
        /\ job[j].phase # "unused"
        /\ job[j].phase \notin {"done", "lost"} \/ record[j] # "none"
        => row[job[j].room] # "none"

StartInv == ReceiptInv /\ StartsBefore /\ Barriers /\ ReceiptsDelete /\ StartsHaveRows

\* What the Room's end takes with it: the end of a call that erases, or a removal of
\* all data, while no other operation is about to save its record.
Ends(e, r) ==
    /\ Quiet /\ Inside(e) /\ ~Inside(e)' /\ Others(e)
    /\ \/ job[e].kind = "create" /\ r = job[e].room /\ Cascade(r, None)
       \/ job[e].kind = "clone" /\ r = job[e].target /\ Cascade(r, None)
       \/ job[e].phase = "erasing" /\ r = job[e].room /\ Cascade(r, receipt[r])

WipesOut(r) == Quiet /\ NobodyPending /\ UNCHANGED job /\ Cascade(r, receipt[r])

LEMMA RowsVanish ==
    ASSUME QueueLockInv, Next, NEW r \in Rooms, row[r] # "none", row'[r] = "none"
    PROVE  Restart \/ WipesOut(r) \/ \E e \in Jobs : Ends(e, r)
<1>a. row \in [Rooms -> RowStates] /\ job \in [Jobs -> JobRecords] /\ JobsNamed /\ wipe \in WipeRecords
  BY GateTypes DEF QueueLockInv, DrainInv, QueueInv, TypeInv, TypeOK
<1>1. ASSUME NEW j \in Jobs, Call(j) \/ Finish(j)
      PROVE  FALSE
  BY <1>1 DEF Call, CallTracked, CallUntracked, CallCreate, Finish, durable
<1>2. ASSUME NEW j \in Jobs, Turn(j)
      PROVE  FALSE
  <2>1. ~Refuse(j) /\ ~Acquire(j) /\ ~RefuseClone(j)
    BY DEF Refuse, Acquire, RefuseClone, durable
  <2>2. ASSUME NEW s \in RowStates, AcquireStart(j, s) PROVE FALSE
    BY <1>a, <2>2 DEF AcquireStart
  <2>3. ASSUME NEW t \in Rooms, AcquireClone(j, t) PROVE FALSE
    BY <1>a, <2>3 DEF AcquireClone
  <2> QED
    BY <1>2, <2>1, <2>2, <2>3 DEF Turn
<1>3. ASSUME NEW j \in Jobs, CreateRow(j) \/ CreateRefused(j) \/ ContainersUp(j) \/ SweepExpires(j)
                               \/ EraseBegins(j)
      PROVE  FALSE
  BY <1>a, <1>3 DEF CreateRow, CreateRefused, ContainersUp, SweepExpires, EraseBegins, durable
<1>4. ASSUME NEW j \in Jobs, NEW ok \in BOOLEAN, WorkEnds(j, ok)
      PROVE  FALSE
  BY <1>a, <1>4 DEF WorkEnds, RowsAfter, StartRows, SleepRows, SweepRows
<1>5. ASSUME NEW j \in Jobs, NEW ok \in BOOLEAN,
             CreateEnds(j, ok) \/ CloneEnds(j, ok) \/ EraseEnds(j, ok)
      PROVE  Ends(j, r)
  <2>1. Quiet /\ Inside(j) /\ Leaves(j, ok)
    BY <1>5 DEF CreateEnds, CloneEnds, EraseEnds, Inside
  <2>2. ~Inside(j)' /\ Others(j)
    BY <1>a, <2>1 DEF Leaves, Others, Over, Inside, JobRecords
  <2>3. CASE CreateEnds(j, ok)
    <3>1. job[j].kind = "create" /\ r = job[j].room /\ Cascade(r, None)
      BY <1>a, <2>3 DEF CreateEnds, StartRows, Erase
    <3> QED
      BY <2>1, <2>2, <3>1 DEF Ends
  <2>4. CASE CloneEnds(j, ok)
    <3>1. job[j].kind = "clone" /\ r = job[j].target /\ Cascade(r, None)
      BY <1>a, <2>4 DEF CloneEnds
    <3> QED
      BY <2>1, <2>2, <3>1 DEF Ends
  <2>5. CASE EraseEnds(j, ok)
    <3>1. job[j].phase = "erasing" /\ r = job[j].room /\ Cascade(r, receipt[r])
      BY <1>a, <2>5 DEF EraseEnds, Erase
    <3> QED
      BY <2>1, <2>2, <3>1 DEF Ends
  <2> QED
    BY <1>5, <2>3, <2>4, <2>5
<1>6. ASSUME WipeStep
      PROVE  WipesOut(r)
  <2>1. ~WipeDrained /\ ~WipeReturns
    BY DEF WipeDrained, WipeReturns, durable
  <2>2. ASSUME NEW s \in Rooms, WipeBegins(s) PROVE FALSE
    BY <1>a, <2>2 DEF WipeBegins
  <2>3. ASSUME NEW ok \in BOOLEAN, WipeEnds(ok) PROVE WipesOut(r)
    <3>1. r = wipe.room /\ Cascade(r, receipt[r]) /\ Quiet /\ job' = job /\ wipe.room # None
      BY <1>a, <2>3 DEF WipeEnds, Erase
    <3>2. NobodyPending
      BY <1>a, <3>1 DEF QueueLockInv, DrainInv, Gates, Drains, WipeRecords
    <3> QED
      BY <3>1, <3>2 DEF WipesOut
  <2> QED
    BY <1>6, <2>1, <2>2, <2>3 DEF WipeStep
<1>7. ~DeleteAll /\ ~Shutdown /\ ~DrainTimesOut /\ ~DeadlineExpires /\ ~HaltStep
  <2>1. ASSUME NEW s \in Rooms, NEW ok \in BOOLEAN, StopEnds(s, ok) PROVE FALSE
    BY <1>a, <2>1 DEF StopEnds, SleepRows
  <2> QED
    BY <2>1 DEF DeleteAll, Shutdown, DrainTimesOut, DeadlineExpires, HaltStep, HaltAwaited, HaltDrained,
                StopRooms, HaltReturns, durable
<1> QED
  BY <1>1, <1>2, <1>3, <1>4, <1>5, <1>6, <1>7 DEF Next, Work

\* A record changes when its operation begins or ends, or goes with its Room.
LEMMA RecordsMove ==
    ASSUME TypeInv, Next, ~Restart, NEW j \in Jobs, job[j].phase # "unused", record'[j] # record[j]
    PROVE  \/ job[j].phase = "finishing"
           \/ record'[j] = "none" /\ row'[job[j].room] = "none"
<1>a. row \in [Rooms -> RowStates] /\ record \in [Jobs -> {"none", "running", "succeeded", "failed"}]
  BY DEF TypeInv, TypeOK
<1>b. ASSUME NEW r \in Rooms, NEW kept, Cascade(r, kept), row' = [row EXCEPT ![r] = "none"]
      PROVE  record'[j] = "none" /\ row'[job[j].room] = "none"
  BY <1>a, <1>b DEF Cascade
<1>1. ASSUME NEW i \in Jobs, Call(i)
      PROVE  FALSE
  <2>1. record' = record \/ record' = [record EXCEPT ![i] = "running"]
    BY <1>1 DEF Call, CallTracked, CallUntracked, CallCreate, durable
  <2>2. job[i].phase = "unused"
    BY <1>1 DEF Call, CallTracked, CallUntracked, CallCreate, Calls
  <2> QED
    BY <1>a, <2>1, <2>2
<1>2. ASSUME NEW i \in Jobs, Turn(i)
      PROVE  FALSE
  BY <1>2 DEF Turn, Refuse, Acquire, AcquireStart, AcquireClone, RefuseClone, durable
<1>3. ASSUME NEW i \in Jobs, Finish(i)
      PROVE  job[j].phase = "finishing"
  BY <1>a, <1>3 DEF Finish
<1>4. ASSUME NEW i \in Jobs, Work(i)
      PROVE  record'[j] = "none" /\ row'[job[j].room] = "none"
  <2>1. ~CreateRow(i) /\ ~CreateRefused(i) /\ ~ContainersUp(i) /\ ~SweepExpires(i) /\ ~EraseBegins(i)
    BY DEF CreateRow, CreateRefused, ContainersUp, SweepExpires, EraseBegins, durable
  <2>2. PICK ok \in BOOLEAN : WorkEnds(i, ok) \/ CreateEnds(i, ok) \/ CloneEnds(i, ok) \/ EraseEnds(i, ok)
    BY <1>4, <2>1 DEF Work
  <2>3. ~WorkEnds(i, ok)
    BY DEF WorkEnds
  <2>4. job[i].phase # "unused" /\ job[i].phase \in {"holding", "releasing", "erasing"}
    BY <2>2 DEF WorkEnds, CreateEnds, CloneEnds, EraseEnds
  <2>5. job[i].room \in Rooms
    BY <2>4, QueueTypes
  <2>6. CASE CreateEnds(i, ok)
    BY <1>b, <2>5, <2>6 DEF CreateEnds, Erase
  <2>7. CASE CloneEnds(i, ok)
    <3>1. Cascade(job[i].target, None) /\ row' = [row EXCEPT ![job[i].target] = "none"]
      BY <2>7 DEF CloneEnds
    <3>2. job[j].room = job[i].target /\ record'[j] = "none"
      BY <1>a, <3>1 DEF Cascade
    <3>3. job[i].target \in Rooms
      BY <3>2, QueueTypes
    <3> QED
      BY <1>a, <3>1, <3>2, <3>3
  <2>8. CASE EraseEnds(i, ok)
    BY <1>b, <2>5, <2>8 DEF EraseEnds, Erase
  <2> QED
    BY <2>2, <2>3, <2>6, <2>7, <2>8
<1>5. ASSUME WipeStep
      PROVE  record'[j] = "none" /\ row'[job[j].room] = "none"
  <2>1. ~WipeDrained /\ ~WipeReturns /\ \A s \in Rooms : ~WipeBegins(s)
    BY DEF WipeDrained, WipeReturns, WipeBegins, durable
  <2>2. PICK ok \in BOOLEAN : WipeEnds(ok)
    BY <1>5, <2>1 DEF WipeStep
  <2>3. wipe.room \in Rooms
    BY <2>2 DEF WipeEnds, TypeInv, TypeOK
  <2> QED
    BY <1>b, <2>2, <2>3 DEF WipeEnds, Erase
<1>6. ~DeleteAll /\ ~Shutdown /\ ~DrainTimesOut /\ ~DeadlineExpires /\ ~HaltStep
  BY DEF DeleteAll, Shutdown, DrainTimesOut, DeadlineExpires, HaltStep, HaltAwaited, HaltDrained,
         StopRooms, HaltReturns, StopEnds, durable
<1> QED
  BY <1>1, <1>2, <1>3, <1>4, <1>5, <1>6 DEF Next

\* A Room that is gone comes back for nobody who named it.
LEMMA NoneReturns ==
    ASSUME ReceiptInv, Next, NEW r \in Rooms, row[r] = "none", row'[r] # "none",
           NEW i \in Jobs, job[i].room = r
    PROVE  job[i].phase = "detecting"
<1>a. QueueInv /\ TypeInv /\ row \in [Rooms -> RowStates]
  BY DEF ReceiptInv, QueueLockInv, DrainInv, QueueInv, TypeInv, TypeOK
<1>1. CASE \E j \in Jobs : CreateRow(j) /\ job[j].room = r
  <2>1. PICK j \in Jobs : CreateRow(j) /\ job[j].room = r
    BY <1>1
  <2>2. job[j].phase = "detecting"
    BY <2>1 DEF CreateRow
  <2>3. i = j
    BY <1>a, <2>1, <2>2 DEF QueueInv, Names, DetectingAlone, On
  <2> QED
    BY <2>2, <2>3
<1>2. CASE \E j \in Jobs : AcquireClone(j, r)
  BY <1>2 DEF AcquireClone, Unclaimed
<1>3. CASE \E j \in Jobs : Inside(j) /\ On(j, r)
  <2>1. PICK j \in Jobs : Inside(j) /\ On(j, r)
    BY <1>3
  <2>2. r # None /\ Queueing(j)
    BY <2>1, NoneRoomAssumption DEF Inside, Queueing
  <2> QED
    BY <2>1, <2>2 DEF ReceiptInv, WorkHasRow, On
<1> QED
  BY <1>a, <1>1, <1>2, <1>3, RowsAppear

\* The reservation of a deletion ends with a deletion of the Room.
LEMMA DeletingShrinks ==
    ASSUME ReceiptInv, Next, ~Restart, NEW r \in deleting, r \notin deleting'
    PROVE  \E j \in Jobs : /\ job[j].kind = "delete" /\ Queueing(j) /\ ~Queueing(j)'
                           /\ job[j].room = r
<1>a. job \in [Jobs -> JobRecords]
  BY DEF ReceiptInv, QueueLockInv, DrainInv, QueueInv, TypeInv, TypeOK
<1>1. ASSUME NEW j \in Jobs, Call(j) \/ Finish(j)
      PROVE  FALSE
  BY <1>1 DEF Call, CallTracked, CallUntracked, CallCreate, Finish, queueVars
<1>2. ASSUME NEW j \in Jobs, Turn(j)
      PROVE  /\ job[j].kind = "delete" /\ Queueing(j) /\ ~Queueing(j)'
             /\ job[j].room = r
  <2>1. Refuse(j)
    BY <1>2 DEF Turn, Acquire, AcquireStart, AcquireClone, RefuseClone, queueVars
  <2>2. job[j].phase = "waiting" /\ job'[j].phase \in {"finishing", "done"}
    BY <1>a, <2>1 DEF Refuse, Ready, Over, JobRecords
  <2> QED
    BY <2>1, <2>2 DEF Refuse, Queueing
<1>3. ASSUME NEW j \in Jobs, Work(j)
      PROVE  /\ job[j].kind = "delete" /\ Queueing(j) /\ ~Queueing(j)'
             /\ job[j].room = r
  <2>1. ~CreateRow(j) /\ ~CreateRefused(j) /\ ~ContainersUp(j) /\ ~SweepExpires(j) /\ ~EraseBegins(j)
    BY DEF CreateRow, CreateRefused, ContainersUp, SweepExpires, EraseBegins, queueVars
  <2>2. PICK ok \in BOOLEAN : WorkEnds(j, ok) \/ EraseEnds(j, ok)
    BY <1>3, <2>1 DEF Work, CreateEnds, CloneEnds
  <2>3. job[j].kind = "delete" /\ job[j].room = r
    BY <2>2 DEF WorkEnds, EraseEnds, ReceiptInv, ErasersDelete
  <2>4. Queueing(j) /\ job'[j].phase \in {"finishing", "done"}
    BY <1>a, <2>2 DEF WorkEnds, EraseEnds, Leaves, Over, Queueing, JobRecords
  <2> QED
    BY <2>3, <2>4 DEF Queueing
<1>4. ~DeleteAll /\ ~WipeStep /\ ~Shutdown /\ ~DrainTimesOut /\ ~DeadlineExpires /\ ~HaltStep
  BY DEF DeleteAll, WipeStep, WipeDrained, WipeBegins, WipeEnds, WipeReturns, Shutdown,
         DrainTimesOut, DeadlineExpires, HaltStep, HaltAwaited, HaltDrained, StopRooms,
         HaltReturns, StopEnds, queueVars
<1> QED
  BY <1>1, <1>2, <1>3, <1>4 DEF Next

\* The operation that is to be kept is replaced by that of another deletion, or
\* forgotten at its own end.
LEMMA ReceiptMoves ==
    ASSUME TypeInv, Next, ~Restart, NEW r \in Rooms, receipt'[r] # receipt[r]
    PROVE  \/ \E j \in Jobs : CallTracked(j, "delete", r)
           \/ \E j \in Jobs : Finish(j) /\ receipt[r] = j /\ receipt'[r] = None
<1>a. receipt \in [Rooms -> Jobs \cup {None}]
  BY DEF TypeInv, TypeOK
<1>1. ASSUME NEW j \in Jobs, Call(j)
      PROVE  CallTracked(j, "delete", r)
  <2>1. PICK s \in Rooms, k \in Queued : CallTracked(j, k, s)
    BY <1>1 DEF Call, CallUntracked, CallCreate, queueVars
  <2> QED
    BY <1>a, <2>1 DEF CallTracked
<1>2. ASSUME NEW j \in Jobs, Turn(j) \/ Work(j)
      PROVE  FALSE
  BY <1>2 DEF Turn, Refuse, Acquire, AcquireStart, AcquireClone, RefuseClone, Work, CreateRow,
              CreateRefused, ContainersUp, SweepExpires, EraseBegins, WorkEnds, CreateEnds,
              CloneEnds, EraseEnds, queueVars
<1>3. ASSUME NEW j \in Jobs, Finish(j)
      PROVE  receipt[r] = j /\ receipt'[r] = None
  BY <1>a, <1>3 DEF Finish
<1>4. ~DeleteAll /\ ~WipeStep /\ ~Shutdown /\ ~DrainTimesOut /\ ~DeadlineExpires /\ ~HaltStep
  BY DEF DeleteAll, WipeStep, WipeDrained, WipeBegins, WipeEnds, WipeReturns, Shutdown,
         DrainTimesOut, DeadlineExpires, HaltStep, HaltAwaited, HaltDrained, StopRooms,
         HaltReturns, StopEnds, queueVars
<1> QED
  BY <1>1, <1>2, <1>3, <1>4 DEF Next

\* What a call is stays what it is, and a deletion or a start comes with its call.
LEMMA JobsGoOn ==
    ASSUME TypeInv, ~Impatient, Next, NEW j \in Jobs
    PROVE  IF job[j].phase # "unused"
             THEN /\ job'[j].kind = job[j].kind /\ job'[j].room = job[j].room
                  /\ job'[j].phase # "unused"
                  /\ Queueing(j)' => Queueing(j) \/ job[j].phase = "detecting"
                  /\ job'[j].phase \notin {"done", "lost"} => job[j].phase \notin {"done", "lost"}
             ELSE job'[j] # job[j] =>
                  \/ \E r \in Rooms, k \in Queued :
                        CallTracked(j, k, r) /\ job'[j].kind = k /\ job'[j].room = r
                  \/ job'[j].kind \in {"sweep", "matrix", "create"}
<1>a. job \in [Jobs -> JobRecords]
  BY DEF TypeInv, TypeOK
<1>1. CASE UNCHANGED job
  BY <1>1 DEF Queueing
<1>2. CASE Restart
  BY <1>a, <1>2 DEF Restart, JobRecords, Queueing
<1>3. CASE job[j].phase # "unused" /\ \E i \in Jobs : Moves(i)
  BY <1>3 DEF Moves, Others, Enters, Bounces, Detects, Stores, Advances, Targets, Ready, Queueing
<1>4. CASE job[j].phase = "unused" /\ \E i \in Jobs : Call(i)
  <2>1. PICK i \in Jobs : Call(i)
    BY <1>4
  <2>2. CASE i = j
    <3>1. ASSUME NEW r \in Rooms, NEW k \in Queued, CallTracked(j, k, r)
          PROVE  job'[j].kind = k /\ job'[j].room = r
      BY <1>a, <3>1 DEF CallTracked, Unused
    <3>2. ASSUME NEW r \in Rooms, NEW k \in {"sweep", "matrix"}, CallUntracked(j, k, r)
          PROVE  job'[j].kind = k
      BY <1>a, <3>2 DEF CallUntracked, Unused
    <3>3. ASSUME NEW r \in Rooms, CallCreate(j, r)
          PROVE  job'[j].kind = "create"
      BY <1>a, <3>3 DEF CallCreate, Unused
    <3> QED
      BY <1>4, <2>1, <2>2, <3>1, <3>2, <3>3 DEF Call
  <2>3. CASE i # j
    <3>1. job'[j] = job[j]
      BY <1>a, <2>1, <2>3 DEF Call, CallTracked, CallUntracked, CallCreate
    <3> QED
      BY <1>4, <3>1
  <2> QED
    BY <2>2, <2>3
<1>5. ASSUME job[j].phase = "unused", NEW i \in Jobs, Turn(i) \/ Work(i) \/ Finish(i), job' # job
      PROVE  job'[j] = job[j]
  <2>1. Moves(i)
    BY <1>5, WorkMoves
  <2>2. job[i].phase # "unused"
    BY <1>5 DEF Turn, Refuse, RefuseClone, Acquire, AcquireStart, AcquireClone, Ready, Work,
                CreateRow, CreateRefused, ContainersUp, SweepExpires, EraseBegins, WorkEnds,
                CreateEnds, CloneEnds, EraseEnds, Finish
  <2> QED
    BY <1>5, <2>1, <2>2 DEF Moves, Others
<1>6. CASE job[j].phase = "unused" /\ \E i \in Jobs : Turn(i) \/ Work(i) \/ Finish(i)
  BY <1>1, <1>5, <1>6
<1>7. CASE DeleteAll \/ WipeStep \/ Shutdown \/ DrainTimesOut \/ DeadlineExpires \/ HaltStep
  <2>1. UNCHANGED job
    BY <1>7 DEF DeleteAll, WipeStep, WipeDrained, WipeBegins, WipeEnds, WipeReturns,
         Shutdown, DrainTimesOut, DeadlineExpires, HaltStep, HaltAwaited, HaltDrained, StopRooms,
         StopEnds, HaltReturns
  <2> QED
    BY <1>1, <2>1
<1> QED
  BY <1>1, <1>2, <1>3, <1>4, <1>6, <1>7, Steps DEF Next

LEMMA CallPhase ==
    ASSUME TypeInv, NEW j \in Jobs, Call(j)
    PROVE  job'[j].phase \in {"waiting", "finishing", "detecting"}
<1>a. job \in [Jobs -> JobRecords]
  BY DEF TypeInv, TypeOK
<1>1. ASSUME NEW r \in Rooms, NEW k \in Queued, CallTracked(j, k, r)
      PROVE  job'[j].phase \in {"waiting", "finishing"}
  BY <1>a, <1>1 DEF CallTracked, Unused
<1>2. ASSUME NEW r \in Rooms, NEW k \in {"sweep", "matrix"}, CallUntracked(j, k, r)
      PROVE  job'[j].phase = "waiting"
  BY <1>a, <1>2 DEF CallUntracked, Unused
<1>3. ASSUME NEW r \in Rooms, CallCreate(j, r)
      PROVE  job'[j].phase \in {"finishing", "detecting"}
  BY <1>a, <1>3 DEF CallCreate, Unused
<1> QED
  BY <1>1, <1>2, <1>3 DEF Call

LEMMA WorkHasRowStep ==
    ASSUME ~Impatient, ReceiptInv, QueueLockInv', Next
    PROVE  WorkHasRow'
<1>a. /\ TypeInv /\ QueueInv /\ row \in [Rooms -> RowStates] /\ job \in [Jobs -> JobRecords]
      /\ QueueInv' /\ TypeInv'
  BY DEF ReceiptInv, QueueLockInv, DrainInv, QueueInv, TypeInv, TypeOK
<1>1. ASSUME NEW j \in Jobs, NEW r \in Rooms, Inside(j), Inside(j)', On(j, r), row[r] # "none"
      PROVE  row'[r] # "none"
  <2> SUFFICES ASSUME row'[r] = "none" PROVE FALSE
    OBVIOUS
  <2>1. CASE Restart
    BY <1>1, <1>a, <2>1 DEF Restart, Inside, JobRecords
  <2>2. CASE WipesOut(r)
    BY <1>1, <2>2 DEF WipesOut, NobodyPending, Pending, Queueing, Inside
  <2>3. ASSUME NEW e \in Jobs, Ends(e, r) PROVE FALSE
    <3>1. Inside(e) /\ On(e, r) /\ ~Inside(e)'
      BY <2>3 DEF Ends, On
    <3> QED
      BY <1>1, <3>1, OneWorker DEF ReceiptInv
  <2> QED
    BY <1>1, <2>1, <2>2, <2>3, RowsVanish DEF ReceiptInv
<1>2. ASSUME NEW j \in Jobs, ~Inside(j), Inside(j)'
      PROVE  /\ row'[job'[j].room] # "none"
             /\ job'[j].target # None => row'[job'[j].target] # "none"
  <2>1. CASE Acquire(j) \/ \E s \in RowStates : AcquireStart(j, s)
    <3>0. job[j].phase = "waiting"
      BY <2>1 DEF Acquire, AcquireStart, Ready
    <3>1. job'[j].room = job[j].room /\ job'[j].target = None /\ job[j].room \in Rooms
      BY <1>a, <2>1, <3>0, QueueTypes DEF Acquire, AcquireStart, Ready, JobRecords, QueueInv, Names,
         TargetsAreNew
    <3>2. row[job[j].room] # "none"
      BY <2>1 DEF Acquire, AcquireStart, Refused
    <3> QED
      BY <1>a, <2>1, <3>1, <3>2 DEF Acquire, AcquireStart
  <2>2. ASSUME NEW t \in Rooms, AcquireClone(j, t)
        PROVE  /\ row'[job'[j].room] # "none" /\ row'[job'[j].target] # "none"
    <3>1. job'[j].room = job[j].room /\ job'[j].target = t /\ row' = [row EXCEPT ![t] = "preparing"]
      BY <1>a, <2>2 DEF AcquireClone, JobRecords
    <3>2. row[job[j].room] # "none" /\ job[j].room \in Rooms
      BY <2>2, QueueTypes, <1>a DEF AcquireClone, Refused, Ready
    <3> QED
      BY <1>a, <3>1, <3>2
  <2>3. ASSUME NEW i \in Jobs, Call(i) \/ CreateRow(i) \/ CreateRefused(i) \/ SweepExpires(i) \/ EraseBegins(i)
                                  \/ Refuse(i) \/ RefuseClone(i) \/ Finish(i)
        PROVE  FALSE
    <3>1. \A h \in Jobs \ {i} : job'[h] = job[h]
      BY <1>a, <2>3 DEF Call, CallTracked, CallUntracked, CallCreate, CreateRow, CreateRefused,
         SweepExpires, EraseBegins, Refuse, RefuseClone, Finish
    <3>2. i = j
      BY <1>2, <3>1 DEF Inside
    <3>3. ~Call(j)
      BY <1>2, <1>a, CallPhase DEF Inside
    <3> QED
      BY <1>2, <1>a, <2>3, <3>2, <3>3 DEF CreateRow, CreateRefused, SweepExpires, EraseBegins, Refuse,
         RefuseClone, Finish, Over, Inside, JobRecords
  <2>4. ASSUME NEW i \in Jobs, NEW ok \in BOOLEAN,
               WorkEnds(i, ok) \/ CreateEnds(i, ok) \/ CloneEnds(i, ok) \/ EraseEnds(i, ok)
        PROVE  FALSE
    <3>1. Leaves(i, ok)
      BY <2>4 DEF WorkEnds, CreateEnds, CloneEnds, EraseEnds
    <3> QED
      BY <1>2, <1>a, <3>1 DEF Leaves, Over, Inside
  <2>5. ASSUME NEW i \in Jobs, i # j, Turn(i) PROVE FALSE
    <3>1. job'[j] = job[j]
      BY <1>a, <2>5 DEF Turn, Refuse, Acquire, AcquireStart, AcquireClone, RefuseClone
    <3> QED
      BY <1>2, <3>1 DEF Inside
  <2>6. ~UNCHANGED job
    BY <1>2 DEF Inside
  <2>7. ~Restart
    BY <1>2, <1>a DEF Restart, Inside, JobRecords
  <2>8. ~(DeleteAll \/ WipeStep \/ Shutdown \/ DrainTimesOut \/ DeadlineExpires \/ HaltStep)
    BY <2>6 DEF DeleteAll, WipeStep, WipeDrained, WipeBegins, WipeEnds, WipeReturns,
         Shutdown, DrainTimesOut, DeadlineExpires, HaltStep, HaltAwaited, HaltDrained, StopRooms,
         StopEnds, HaltReturns
  <2>9. \A i \in Jobs : ~ContainersUp(i)
    BY <2>6 DEF ContainersUp
  <2> QED
    BY <1>2, <2>1, <2>2, <2>3, <2>4, <2>5, <2>7, <2>8, <2>9 DEF Next, Turn, Work
<1>3. ASSUME NEW j \in Jobs, Inside(j), Inside(j)'
      PROVE  job'[j].room = job[j].room /\ job'[j].target = job[j].target
  <2>1. job[j].phase \notin {"unused", "detecting", "waiting"}
    BY <1>3 DEF Inside
  <2>2. CASE \E i \in Jobs : Moves(i)
    BY <2>1, <2>2 DEF Moves, Others, Enters, Bounces, Detects, Stores, Advances, Targets, Ready
  <2>3. CASE Restart
    BY <1>3, <1>a, <2>3 DEF Restart, Inside, JobRecords
  <2> QED
    BY <2>2, <2>3, Steps, <1>a
<1>4. ASSUME NEW j \in Jobs, Queueing(j)', job'[j].target # None
      PROVE  Inside(j)'
  BY <1>4, <1>a DEF QueueInv, Names, TargetsAreNew, Queueing, Inside
<1>5. ASSUME NEW j \in Jobs, Inside(j)'
      PROVE  row'[job'[j].room] # "none"
  <2>1. CASE Inside(j)
    <3>1. job[j].room \in Rooms /\ row[job[j].room] # "none" /\ On(j, job[j].room)
      BY <1>a, <2>1, QueueTypes DEF ReceiptInv, WorkHasRow, Inside, On
    <3> QED
      BY <1>1, <1>3, <1>5, <2>1, <3>1
  <2> QED
    BY <1>2, <1>5, <2>1
<1>6. ASSUME NEW j \in Jobs, Inside(j)', job'[j].target # None
      PROVE  row'[job'[j].target] # "none"
  <2>1. CASE Inside(j)
    <3>1. job[j].target # None /\ job'[j].target = job[j].target
      BY <1>3, <1>6, <2>1
    <3>2. job[j].target \in Rooms /\ row[job[j].target] # "none" /\ On(j, job[j].target)
      BY <1>a, <2>1, <3>1 DEF ReceiptInv, WorkHasRow, Inside, Queueing, On, JobRecords
    <3> QED
      BY <1>1, <1>6, <2>1, <3>1, <3>2
  <2> QED
    BY <1>2, <1>6, <2>1
<1> QED
  BY <1>4, <1>5, <1>6 DEF WorkHasRow

LEMMA ErasersDeleteStep ==
    ASSUME "sweep" \notin Kinds, ReceiptInv, Next
    PROVE  ErasersDelete'
<1>a. job \in [Jobs -> JobRecords] /\ TypeInv
  BY DEF ReceiptInv, QueueLockInv, DrainInv, QueueInv, TypeInv, TypeOK
<1> SUFFICES ASSUME NEW d \in Jobs, job'[d].phase \in {"releasing", "erasing"}
             PROVE  job'[d].kind = "delete"
  BY DEF ErasersDelete
<1>1. CASE job'[d] = job[d]
  BY <1>1 DEF ReceiptInv, ErasersDelete
<1>2. ASSUME NEW j \in Jobs, Call(j) \/ Turn(j) \/ Finish(j) \/ CreateRow(j) \/ CreateRefused(j)
      PROVE  job'[d] = job[d]
  <2>1. d # j => job'[d] = job[d]
    BY <1>a, <1>2 DEF Call, CallTracked, CallUntracked, CallCreate, Turn, Refuse, RefuseClone, Acquire,
       AcquireStart, AcquireClone, Finish, CreateRow, CreateRefused
  <2>2. job'[j].phase \notin {"releasing", "erasing"}
    <3>1. Call(j) => job'[j].phase \in {"waiting", "finishing", "detecting"}
      BY <1>a, CallPhase
    <3>2. Turn(j) => job'[j].phase \in {"holding", "finishing", "done"}
      BY <1>a DEF Turn, Refuse, RefuseClone, Acquire, AcquireStart, AcquireClone, Over, JobRecords
    <3>3. Finish(j) \/ CreateRow(j) \/ CreateRefused(j) => job'[j].phase \in {"waiting", "finishing", "done"}
      BY <1>a DEF Finish, CreateRow, CreateRefused, JobRecords
    <3> QED
      BY <1>2, <3>1, <3>2, <3>3
  <2> QED
    BY <2>1, <2>2
<1>3. ASSUME NEW j \in Jobs, SweepExpires(j) PROVE FALSE
  BY <1>3 DEF SweepExpires, ReceiptInv, QueueLockInv, KindsAsked
<1>4. ASSUME NEW j \in Jobs, EraseBegins(j) PROVE job'[d].kind = "delete"
  <2>1. job[j].kind = "delete"
    BY <1>4 DEF EraseBegins, ReceiptInv, ErasersDelete
  <2>2. job'[d].kind = job[d].kind /\ (d # j => job'[d] = job[d])
    BY <1>a, <1>4 DEF EraseBegins, JobRecords
  <2> QED
    BY <1>1, <2>1, <2>2
<1>5. ASSUME NEW j \in Jobs, NEW ok \in BOOLEAN,
             WorkEnds(j, ok) \/ CreateEnds(j, ok) \/ CloneEnds(j, ok) \/ EraseEnds(j, ok)
      PROVE  job'[d] = job[d]
  <2>1. Leaves(j, ok)
    BY <1>5 DEF WorkEnds, CreateEnds, CloneEnds, EraseEnds
  <2> QED
    BY <1>a, <2>1 DEF Leaves, Over
<1>6. ASSUME NEW j \in Jobs, ContainersUp(j) PROVE job'[d] = job[d]
  BY <1>6 DEF ContainersUp
<1>7. Restart => job'[d].phase \in {"unused", "done", "lost"}
  BY <1>a DEF Restart, JobRecords
<1>8. CASE DeleteAll \/ WipeStep \/ Shutdown \/ DrainTimesOut \/ DeadlineExpires \/ HaltStep
  <2>1. UNCHANGED job
    BY <1>8 DEF DeleteAll, WipeStep, WipeDrained, WipeBegins, WipeEnds, WipeReturns,
         Shutdown, DrainTimesOut, DeadlineExpires, HaltStep, HaltAwaited, HaltDrained, StopRooms,
         StopEnds, HaltReturns
  <2> QED
    BY <1>1, <2>1
<1> QED
  BY <1>1, <1>2, <1>3, <1>4, <1>5, <1>6, <1>7, <1>8 DEF Next, Work

LEMMA ReservesStep ==
    ASSUME ~Impatient, "sweep" \notin Kinds, ReceiptInv, Next
    PROVE  Reserves'
<1>a. /\ TypeInv /\ QueueInv /\ row \in [Rooms -> RowStates] /\ job \in [Jobs -> JobRecords]
      /\ record \in [Jobs -> {"none", "running", "succeeded", "failed"}]
      /\ receipt \in [Rooms -> Jobs \cup {None}]
  BY DEF ReceiptInv, QueueLockInv, DrainInv, QueueInv, TypeInv, TypeOK
<1>b. None \notin Jobs
  BY NoneRoomAssumption
<1> SUFFICES ASSUME NEW d \in Jobs, job'[d].kind = "delete", Queueing(d)'
             PROVE  /\ job'[d].room \in deleting'
                    /\ receipt'[job'[d].room] = d
                    /\ row'[job'[d].room] # "none" => record'[d] = "running"
  BY DEF Reserves
<1>0. ~Restart
  BY <1>a DEF Restart, JobRecords, Queueing
<1>1. CASE job[d].phase = "unused"
  <2>1. job'[d] # job[d]
    BY <1>1 DEF Queueing
  <2>2. PICK r \in Rooms : CallTracked(d, "delete", r) /\ job'[d].room = r
    BY <1>a, <1>1, <2>1, JobsGoOn
  <2>3. ~RejectedAtOnce("delete", r)
    BY <1>a, <2>2 DEF CallTracked, Unused, Queueing
  <2> QED
    BY <1>a, <2>2, <2>3 DEF CallTracked
<1>2. CASE job[d].phase # "unused"
  <2>1. job'[d].kind = job[d].kind /\ job'[d].room = job[d].room
    BY <1>a, <1>2, JobsGoOn
  <2>2. Queueing(d)
    <3>1. job[d].phase # "detecting"
      BY <2>1, <1>a DEF QueueInv, Names, DetectingAlone
    <3> QED
      BY <1>a, <1>2, <3>1, JobsGoOn
  <2>3. PICK r \in Rooms : r = job[d].room
    BY <1>a, <1>2, QueueTypes
  <2>4. r \in deleting /\ receipt[r] = d /\ (row[r] # "none" => record[d] = "running")
    BY <2>1, <2>2, <2>3 DEF ReceiptInv, Reserves
  <2>5. \A e \in Jobs : job[e].kind = "delete" /\ Queueing(e) /\ job[e].room = r => e = d
    BY <2>4 DEF ReceiptInv, Reserves
  <2>6. r \in deleting'
    BY <1>0, <2>4, <2>5, DeletingShrinks
  <2>7. receipt'[r] = d
    <3> SUFFICES ASSUME receipt'[r] # receipt[r] PROVE FALSE
      BY <2>4
    <3>1. ASSUME NEW j \in Jobs, CallTracked(j, "delete", r) PROVE FALSE
      BY <2>4, <3>1 DEF CallTracked, Admitted, Reserved
    <3>2. ASSUME NEW j \in Jobs, Finish(j), receipt[r] = j PROVE FALSE
      BY <2>2, <2>4, <3>2 DEF Finish, Queueing
    <3> QED
      BY <1>0, <1>a, <3>1, <3>2, ReceiptMoves
  <2>8. ASSUME row'[r] # "none" PROVE record'[d] = "running"
    <3>1. row[r] # "none"
      BY <2>2, <2>3, <2>8, NoneReturns DEF Queueing
    <3>2. record'[d] = record[d]
      BY <1>0, <1>2, <1>a, <2>2, <2>3, <2>8, RecordsMove DEF Queueing
    <3> QED
      BY <2>4, <3>1, <3>2
  <2> QED
    BY <2>1, <2>3, <2>6, <2>7, <2>8
<1> QED
  BY <1>1, <1>2

LEMMA ReceiptInit == Init => ReceiptInv
BY QueueLockInit
   DEF Init, ReceiptInv, WorkHasRow, Reserves, ErasersDelete, Inside, Queueing, Unused

LEMMA ReceiptStep ==
    ASSUME ~Impatient, "sweep" \notin Kinds, ReceiptInv, [Next]_vars
    PROVE  ReceiptInv'
<1>1. QueueLockInv'
  BY QueueLockStep DEF ReceiptInv
<1>2. CASE UNCHANGED vars
  BY <1>1, <1>2 DEF vars, durable, queueVars, ReceiptInv, WorkHasRow, Reserves, ErasersDelete, Inside,
     Queueing
<1> QED
  BY <1>1, <1>2, WorkHasRowStep, ReservesStep, ErasersDeleteStep DEF ReceiptInv

\* The record of the deletion that erases its Room outlasts every step but a restart.
LEMMA ReceiptIsKept ==
    ASSUME ~Impatient, "sweep" \notin Kinds, ReceiptInv, [Next]_vars, crashes' = crashes,
           NEW d \in Jobs, job[d].kind = "delete", job[d].phase = "erasing"
    PROVE  record'[d] # "none"
<1>a. TypeInv /\ QueueInv /\ job \in [Jobs -> JobRecords] /\ crashes \in Nat
  BY BoundAssumption DEF ReceiptInv, QueueLockInv, DrainInv, QueueInv, TypeInv, TypeOK
<1>1. Inside(d) /\ Queueing(d)
  BY DEF Inside, Queueing
<1>2. PICK r \in Rooms : r = job[d].room
  BY <1>a, QueueTypes
<1>3. row[r] # "none" /\ receipt[r] = d /\ record[d] = "running"
  BY <1>1, <1>2 DEF ReceiptInv, WorkHasRow, Reserves
<1>4. CASE record'[d] = record[d]
  BY <1>3, <1>4
<1>5. CASE Next /\ record'[d] # record[d]
  <2>1. ~Restart
    BY <1>a DEF Restart
  <2>2. record'[d] = "none" /\ row'[r] = "none"
    BY <1>2, <1>5, <1>a, <2>1, RecordsMove
  <2>3. CASE WipesOut(r)
    BY <1>1, <2>3 DEF WipesOut, NobodyPending, Pending
  <2>4. ASSUME NEW e \in Jobs, Ends(e, r) PROVE FALSE
    <3>1. Inside(e) /\ On(e, r) /\ On(d, r)
      BY <1>2, <2>4 DEF Ends, On
    <3>2. e = d
      BY <1>1, <3>1, OneWorker DEF ReceiptInv
    <3>3. Cascade(r, d)
      BY <1>3, <2>4, <3>2 DEF Ends
    <3> QED
      BY <1>3, <2>2, <3>3 DEF Cascade
  <2> QED
    BY <1>3, <1>5, <2>1, <2>2, <2>3, <2>4, RowsVanish DEF ReceiptInv
<1> QED
  BY <1>4, <1>5 DEF vars, durable

\* The record of a deletion outlives the Room it removes (operations.forgetRoom with
\* the kept id, orchestrator.ts 5308), for any Rooms and any calls in front of and
\* behind it: until the process dies, and in a behaviour without crashes for good.
\* A rejected second deletion and a sweep, which give the receipt away, are excluded.
THEOREM ReceiptOutlives ==
    ASSUME ~Impatient, "sweep" \notin Kinds
    PROVE  /\ Spec => [][crashes' = crashes =>
                           \A j \in Jobs :
                              job[j].kind = "delete" /\ job[j].phase = "erasing" =>
                                  record'[j] # "none"]_vars
           /\ MaxCrashes = 0 => (Spec => DeleteKeepsReceipt)
<1>1. Init => ReceiptInv
  BY ReceiptInit
<1>2. ReceiptInv /\ [Next]_vars => ReceiptInv'
  BY ReceiptStep
<1>3. ReceiptInv /\ [Next]_vars =>
        [crashes' = crashes =>
            \A j \in Jobs :
               job[j].kind = "delete" /\ job[j].phase = "erasing" => record'[j] # "none"]_vars
  BY ReceiptIsKept
<1>4. Spec => [][crashes' = crashes =>
                   \A j \in Jobs :
                      job[j].kind = "delete" /\ job[j].phase = "erasing" =>
                          record'[j] # "none"]_vars
  BY <1>1, <1>2, <1>3, PTL DEF Spec
<1>5. ASSUME MaxCrashes = 0
      PROVE  Spec => DeleteKeepsReceipt
  <2>1. (ReceiptInv => crashes = 0) /\ (ReceiptInv' => crashes' = 0)
    BY <1>5 DEF ReceiptInv, QueueLockInv, DrainInv, QueueInv, TypeInv, TypeOK
  <2>2. ReceiptInv /\ ReceiptInv' => crashes' = crashes
    BY <2>1
  <2>3. ReceiptInv /\ [Next]_vars =>
          [\A j \in Jobs :
              job[j].kind = "delete" /\ job[j].phase = "erasing" => record'[j] # "none"]_vars
    BY <1>2, <2>2, ReceiptIsKept
  <2> QED
    BY <1>1, <1>2, <2>3, PTL DEF Spec, DeleteKeepsReceipt
<1> QED
  BY <1>4, <1>5

-----------------------------------------------------------------------------
(* What is left of a Room's starts *)

LEMMA MakingShrinks ==
    ASSUME TypeInv, Next, ~Restart, NEW t \in making, t \notin making'
    PROVE  \E e \in Jobs : /\ job[e].phase = "holding" /\ job[e].target = t
                           /\ ~Queueing(e)'
<1>a. job \in [Jobs -> JobRecords]
  BY DEF TypeInv, TypeOK
<1>1. ASSUME NEW j \in Jobs, Call(j) \/ Turn(j) \/ Finish(j)
      PROVE  FALSE
  BY <1>1 DEF Call, CallTracked, CallUntracked, CallCreate, Turn, Refuse, Acquire, AcquireStart,
     AcquireClone, RefuseClone, Finish, queueVars
<1>2. ASSUME NEW j \in Jobs, Work(j)
      PROVE  job[j].phase = "holding" /\ job[j].target = t /\ ~Queueing(j)'
  <2>1. PICK ok \in BOOLEAN : CloneEnds(j, ok)
    BY <1>2 DEF Work, CreateRow, CreateRefused, ContainersUp, SweepExpires, EraseBegins, WorkEnds,
       CreateEnds, EraseEnds, queueVars
  <2>2. job[j].phase = "holding" /\ job[j].target = t /\ Leaves(j, ok)
    BY <2>1 DEF CloneEnds
  <2> QED
    BY <1>a, <2>2 DEF Leaves, Over, Queueing, JobRecords
<1>3. ~DeleteAll /\ ~WipeStep /\ ~Shutdown /\ ~DrainTimesOut /\ ~DeadlineExpires /\ ~HaltStep
  BY DEF DeleteAll, WipeStep, WipeDrained, WipeBegins, WipeEnds, WipeReturns, Shutdown,
         DrainTimesOut, DeadlineExpires, HaltStep, HaltAwaited, HaltDrained, StopRooms,
         HaltReturns, StopEnds, queueVars
<1> QED
  BY <1>1, <1>2, <1>3 DEF Next

\* A call with a target has it for good, and it got it as a clone.
LEMMA TargetsGoOn ==
    ASSUME TypeInv, ~Impatient, Next, NEW c \in Jobs, job'[c].target # None
    PROVE  job'[c].target = job[c].target \/ AcquireClone(c, job'[c].target)
<1>a. job \in [Jobs -> JobRecords]
  BY DEF TypeInv, TypeOK
<1>1. CASE UNCHANGED job \/ Restart
  BY <1>1, <1>a DEF Restart, JobRecords
<1>2. ASSUME NEW j \in Jobs, Moves(j), ~\E t \in Rooms : Targets(j, t)
      PROVE  job'[c].target = job[c].target
  BY <1>2 DEF Moves, Others, Enters, Bounces, Detects, Stores, Advances
<1>3. ASSUME NEW j \in Jobs, NEW t \in Rooms, Targets(j, t), Others(j), job'[c].target # job[c].target
      PROVE  AcquireClone(c, job'[c].target)
  <2>1. c = j /\ job'[c].target = t /\ job[c].phase = "waiting" /\ job'[c].phase = "holding"
        /\ job[c].kind = "clone"
    BY <1>3 DEF Others, Targets, Ready
  <2>2. ~Restart
    BY <1>a, <2>1 DEF Restart, JobRecords
  <2>3. ASSUME NEW i \in Jobs, i # j, Call(i) \/ Turn(i) \/ Work(i) \/ Finish(i) PROVE FALSE
    <3>1. job' # job
      BY <2>1
    <3>2. Moves(i)
      BY <2>3, <3>1, CallMoves, WorkMoves
    <3> QED
      BY <1>3, <2>1, <2>3, <3>2 DEF Moves, Others
  <2>4. ~Call(j) /\ ~Finish(j) /\ ~Work(j)
    <3>1. ~Call(j)
      BY <2>1 DEF Call, CallTracked, CallUntracked, CallCreate, Calls
    <3>2. ~Work(j) /\ ~Finish(j)
      BY <2>1 DEF Work, CreateRow, CreateRefused, ContainersUp, SweepExpires, EraseBegins, WorkEnds,
         CreateEnds, CloneEnds, EraseEnds, Finish
    <3> QED
      BY <3>1, <3>2
  <2>5. Turn(j) => \E s \in Rooms : AcquireClone(j, s)
    <3>1. ~Refuse(j) /\ ~RefuseClone(j)
      BY <1>a, <2>1 DEF Refuse, RefuseClone, Over, JobRecords
    <3> QED
      BY <2>1, <3>1 DEF Turn, Acquire, AcquireStart
  <2>6. ASSUME NEW s \in Rooms, AcquireClone(j, s) PROVE s = t
    BY <1>a, <2>1, <2>6 DEF AcquireClone, JobRecords
  <2>7. ~(DeleteAll \/ WipeStep \/ Shutdown \/ DrainTimesOut \/ DeadlineExpires \/ HaltStep)
    <3>1. job' # job
      BY <2>1
    <3> QED
      BY <3>1 DEF DeleteAll, WipeStep, WipeDrained, WipeBegins, WipeEnds, WipeReturns,
         Shutdown, DrainTimesOut, DeadlineExpires, HaltStep, HaltAwaited, HaltDrained, StopRooms,
         StopEnds, HaltReturns
  <2> QED
    BY <2>1, <2>2, <2>3, <2>4, <2>5, <2>6, <2>7 DEF Next
<1> QED
  BY <1>1, <1>2, <1>3, Steps DEF Moves

LEMMA StartsBeforeStep ==
    ASSUME ~Impatient, StartInv, Next
    PROVE  StartsBefore'
<1>a. TypeInv /\ QueueInv /\ job \in [Jobs -> JobRecords]
  BY DEF StartInv, ReceiptInv, QueueLockInv, DrainInv, QueueInv, TypeInv, TypeOK
<1> SUFFICES ASSUME NEW d \in Jobs, NEW j \in Jobs, job'[d].kind = "delete", Queueing(d)',
                    Starting(j)', job'[j].room = job'[d].room
             PROVE  j < d
  BY DEF StartsBefore
<1>1. job'[j].kind = "start" /\ Queueing(j)' /\ j # d
  BY DEF Starting
<1>2. ASSUME NEW i \in {d, j}, job[i].phase # "unused"
      PROVE  Queueing(i) /\ job'[i].kind = job[i].kind /\ job'[i].room = job[i].room
  <2>1. job'[i].kind = job[i].kind /\ job'[i].room = job[i].room
          /\ (Queueing(i) \/ job[i].phase = "detecting")
    BY <1>1, <1>2, <1>a, JobsGoOn
  <2>2. job[i].phase # "detecting"
    BY <1>1, <1>a, <2>1 DEF QueueInv, Names, DetectingAlone
  <2> QED
    BY <2>1, <2>2
<1>3. ASSUME NEW i \in {d, j}, job[i].phase = "unused"
      PROVE  \E r \in Rooms : CallTracked(i, job'[i].kind, r) /\ job'[i].room = r
  <2>1. job'[i] # job[i]
    BY <1>1, <1>3 DEF Queueing
  <2> QED
    BY <1>1, <1>3, <1>a, <2>1, JobsGoOn
<1>4. ASSUME NEW i \in Jobs, NEW k, NEW r \in Rooms, CallTracked(i, k, r)
      PROVE  \A h \in Jobs : h # i /\ job'[h].phase # "unused" => job[h].phase # "unused" /\ h < i
  <2>1. job[i].phase = "unused" /\ \A h \in Jobs : h < i => job[h].phase # "unused"
    BY <1>4 DEF CallTracked, Calls
  <2>2. \A h \in Jobs \ {i} : job'[h] = job[h]
    BY <1>4, <1>a DEF CallTracked
  <2> QED
    BY <1>a, <2>1, <2>2, JobsNumbered DEF QueueInv, Names, UsedInOrder
<1>5. CASE job[d].phase # "unused" /\ job[j].phase # "unused"
  BY <1>1, <1>2, <1>5 DEF StartInv, StartsBefore, Starting
<1>6. CASE job[d].phase = "unused"
  BY <1>1, <1>3, <1>4, <1>6 DEF Queueing
<1>7. CASE job[d].phase # "unused" /\ job[j].phase = "unused"
  <2>1. PICK r \in Rooms : CallTracked(j, "start", r) /\ job'[j].room = r
    BY <1>1, <1>3, <1>7
  <2>2. r \notin deleting
    BY <2>1 DEF CallTracked, Admitted
  <2>3. r \in deleting
    BY <1>2, <1>7, <2>1, ZenonT(60) DEF StartInv, ReceiptInv, Reserves
  <2> QED
    BY <2>2, <2>3
<1> QED
  BY <1>5, <1>6, <1>7

LEMMA BarriersStep ==
    ASSUME ~Impatient, StartInv, Next
    PROVE  Barriers'
<1>a. TypeInv /\ QueueInv /\ job \in [Jobs -> JobRecords] /\ row \in [Rooms -> RowStates]
  BY DEF StartInv, ReceiptInv, QueueLockInv, DrainInv, QueueInv, TypeInv, TypeOK
<1> SUFFICES ASSUME NEW c \in Jobs, Queueing(c)', job'[c].target # None
             PROVE  /\ job'[c].target \in making'
                    /\ \A j \in Jobs : job'[j].room = job'[c].target => job'[j].kind # "start"
  BY DEF Barriers
<1>0. ~Restart
  BY <1>a DEF Restart, JobRecords, Queueing
<1>1. CASE job'[c].target = job[c].target
  <2>0. PICK t : t = job[c].target
    OBVIOUS
  <2>1. /\ job[c].kind = "clone" /\ job[c].phase \notin {"unused", "detecting", "waiting"}
        /\ \A i \in Jobs : i # c => job[i].target # t
        /\ t \in Rooms
    BY <1>1, <1>a, <2>0 DEF QueueInv, Names, TargetsAreNew, JobRecords
  <2>2. Queueing(c)
    BY <1>a, <2>1, JobsGoOn
  <2>3. t \in making /\ \A j \in Jobs : job[j].room = t => job[j].kind # "start"
    BY <1>1, <2>0, <2>2 DEF StartInv, Barriers
  <2>4. t \in making'
    <3> SUFFICES ASSUME t \notin making' PROVE FALSE
      OBVIOUS
    <3>1. PICK e \in Jobs : job[e].target = t /\ ~Queueing(e)'
      BY <1>0, <1>a, <2>3, MakingShrinks
    <3> QED
      BY <2>1, <3>1
  <2>5. ASSUME NEW j \in Jobs, job'[j].room = t, job'[j].kind = "start"
        PROVE  FALSE
    <3>1. CASE job[j].phase # "unused"
      BY <1>a, <2>3, <2>5, <3>1, JobsGoOn
    <3>2. CASE job[j].phase = "unused"
      <4>1. job'[j] # job[j]
        BY <1>a, <2>1, <2>5, <3>2, NoneRoomAssumption DEF QueueInv, Names, BlankUntilCalled
      <4>2. CallTracked(j, "start", t)
        BY <1>a, <2>5, <3>2, <4>1, JobsGoOn
      <4> QED
        BY <2>3, <4>2 DEF CallTracked, Admitted
    <3> QED
      BY <3>1, <3>2
  <2> QED
    BY <1>1, <2>0, <2>4, <2>5
<1>2. CASE AcquireClone(c, job'[c].target)
  <2>0. PICK t : t = job'[c].target
    OBVIOUS
  <2>1. Unclaimed(t) /\ making' = making \cup {t}
    BY <1>2, <2>0 DEF AcquireClone
  <2>2. \A j \in Jobs : job'[j].room = job[j].room
    BY <1>2, <1>a DEF AcquireClone, JobRecords
  <2> QED
    BY <2>0, <2>1, <2>2 DEF Unclaimed
<1> QED
  BY <1>1, <1>2, <1>a, TargetsGoOn

LEMMA ReceiptsDeleteStep ==
    ASSUME ~Impatient, StartInv, Next
    PROVE  ReceiptsDelete'
<1>a. TypeInv /\ job \in [Jobs -> JobRecords] /\ receipt \in [Rooms -> Jobs \cup {None}]
  BY DEF StartInv, ReceiptInv, QueueLockInv, DrainInv, QueueInv, TypeInv, TypeOK
<1> SUFFICES ASSUME NEW r \in Rooms, receipt'[r] # None
             PROVE  job'[receipt'[r]].kind = "delete" /\ job'[receipt'[r]].phase # "unused"
  BY DEF ReceiptsDelete
<1>1. CASE Restart
  BY <1>1 DEF Restart
<1>2. CASE receipt'[r] = receipt[r]
  <2>1. PICK d \in Jobs : d = receipt[r]
    BY <1>a, <1>2
  <2>2. job[d].kind = "delete" /\ job[d].phase # "unused"
    BY <1>2, <2>1 DEF StartInv, ReceiptsDelete
  <2>3. job'[d].kind = "delete" /\ job'[d].phase # "unused"
    BY <1>a, <2>2, JobsGoOn
  <2> QED
    BY <1>2, <2>1, <2>3
<1>3. ASSUME NEW j \in Jobs, CallTracked(j, "delete", r)
      PROVE  job'[receipt'[r]].kind = "delete" /\ job'[receipt'[r]].phase # "unused"
  <2>1. receipt'[r] = j /\ job'[j].kind = "delete"
    BY <1>a, <1>3 DEF CallTracked, Unused
  <2>2. job'[j].phase # "unused"
    BY <1>3, <1>a, CallPhase DEF Call, Queued
  <2> QED
    BY <2>1, <2>2
<1> QED
  BY <1>a, <1>1, <1>2, <1>3, ReceiptMoves

LEMMA StartsHaveRowsStep ==
    ASSUME ~Impatient, {"sweep", "create"} \cap Kinds = {}, StartInv, Next
    PROVE  StartsHaveRows'
<1>a. /\ TypeInv /\ QueueInv /\ job \in [Jobs -> JobRecords] /\ row \in [Rooms -> RowStates]
      /\ record \in [Jobs -> {"none", "running", "succeeded", "failed"}]
  BY DEF StartInv, ReceiptInv, QueueLockInv, DrainInv, QueueInv, TypeInv, TypeOK
<1> SUFFICES ASSUME NEW j \in Jobs, job'[j].kind = "start",
                    job'[j].phase \notin {"unused", "done", "lost"} \/ record'[j] # "none",
                    job'[j].phase # "unused",
                    row'[job'[j].room] = "none"
             PROVE  FALSE
  BY DEF StartsHaveRows
<1>1. CASE job[j].phase = "unused"
  <2>1. PICK r \in Rooms : CallTracked(j, "start", r) /\ job'[j].room = r
    BY <1>a, <1>1, JobsGoOn
  <2> QED
    BY <2>1 DEF CallTracked, Admitted
<1>2. CASE job[j].phase # "unused"
  <2>1. job'[j].kind = job[j].kind /\ job'[j].room = job[j].room
    BY <1>2, <1>a, JobsGoOn
  <2>2. PICK r \in Rooms : r = job[j].room
    BY <1>2, <1>a, QueueTypes
  <2>3. CASE Restart
    <3>1. job'[j].phase \in {"unused", "done", "lost"}
      BY <1>a, <2>3 DEF Restart, JobRecords
    <3>2. record'[j] # "none"
      BY <3>1
    <3>3. record'[j] = Recovered(record[j]) /\ ~(row[r] = "deleting" /\ row'[r] = "none")
      BY <2>2, <2>3, <3>2 DEF Restart
    <3>4. record[j] # "none"
      BY <3>2, <3>3 DEF Recovered
    <3>5. row[r] # "none"
      BY <1>2, <2>1, <2>2, <3>4 DEF StartInv, StartsHaveRows
    <3>6. row'[r] = row[r] \/ row'[r] = Reconciled(r)
      BY <2>3 DEF Restart
    <3> QED
      BY <2>1, <2>2, <3>3, <3>5, <3>6 DEF Reconciled
  <2>4. CASE ~Restart
    <3>1. row'[r] = "none"
      BY <2>1, <2>2
    <3>2. job[j].phase \notin {"done", "lost"} \/ record[j] # "none"
      <4>1. record'[j] # record[j] /\ record'[j] # "none" => job[j].phase = "finishing"
        BY <1>2, <1>a, <2>4, RecordsMove
      <4> QED
        BY <1>2, <1>a, <4>1, JobsGoOn
    <3>3. row[r] # "none"
      BY <1>2, <2>1, <2>2, <3>2 DEF StartInv, StartsHaveRows
    <3>4. Quiet => job[j].phase # "finishing"
      BY DEF Quiet
    <3>5. receipt[r] # j
      BY <2>1, NoneRoomAssumption DEF StartInv, ReceiptsDelete
    <3>6. CASE WipesOut(r)
      <4>1. job[j].phase \in {"done", "lost"}
        BY <1>2, <1>a, <3>4, <3>6 DEF WipesOut, NobodyPending, Pending, Queueing, JobRecords, Phases
      <4>2. record'[j] = "none"
        BY <2>2, <3>5, <3>6 DEF WipesOut, Cascade
      <4> QED
        BY <3>6, <4>1, <4>2 DEF WipesOut
    <3>7. ASSUME NEW e \in Jobs, Ends(e, r) PROVE FALSE
      <4>1. job[e].kind \in Kinds /\ Inside(e)
        BY <3>7 DEF Ends, Inside, StartInv, ReceiptInv, QueueLockInv, KindsAsked
      <4>2. CASE job[e].kind = "create"
        BY <4>1, <4>2
      <4>3. CASE job[e].kind = "clone" /\ r = job[e].target
        BY <2>1, <2>2, <4>1, <4>3, NoneRoomAssumption DEF StartInv, Barriers, Inside, Queueing
      <4>4. CASE job[e].phase = "erasing" /\ r = job[e].room /\ Cascade(r, receipt[r])
        <5>1. job[e].kind = "delete" /\ Queueing(e)
          BY <4>4 DEF StartInv, ReceiptInv, ErasersDelete, Queueing
        <5>2. ~Queueing(j)
          <6> SUFFICES ASSUME Queueing(j) PROVE FALSE
            OBVIOUS
          <6>1. j < e
            BY <2>1, <2>2, <4>4, <5>1 DEF StartInv, StartsBefore, Starting
          <6>2. On(j, job[e].room)
            BY <2>2, <4>4 DEF On
          <6> QED
            BY <4>4, <5>1, <6>1, <6>2, Blocked, <1>a
        <5>3. job[j].phase # "detecting"
          BY <1>a, <2>1 DEF QueueInv, Names, DetectingAlone
        <5>4. job[j].phase \in {"done", "lost"}
          BY <1>2, <1>a, <3>4, <3>7, <5>2, <5>3 DEF Ends, Queueing, JobRecords, Phases
        <5>5. record'[j] = "none"
          BY <2>2, <3>5, <4>4 DEF Cascade
        <5>6. job'[j] = job[j]
          BY <3>7, <5>1, <5>2 DEF Ends, Others
        <5> QED
          BY <5>4, <5>5, <5>6
      <4> QED
        BY <3>7, <4>2, <4>3, <4>4 DEF Ends
    <3> QED
      BY <2>4, <3>1, <3>3, <3>6, <3>7, RowsVanish DEF StartInv, ReceiptInv
  <2> QED
    BY <2>3, <2>4
<1> QED
  BY <1>1, <1>2

LEMMA StartStep ==
    ASSUME ~Impatient, {"sweep", "create"} \cap Kinds = {}, StartInv, [Next]_vars
    PROVE  StartInv'
<1>1. ReceiptInv'
  BY ReceiptStep DEF StartInv
<1>2. CASE UNCHANGED vars
  BY <1>1, <1>2 DEF vars, durable, queueVars, StartInv, StartsBefore, Barriers, ReceiptsDelete,
     StartsHaveRows, Starting, Queueing
<1> QED
  BY <1>1, <1>2, StartsBeforeStep, BarriersStep, ReceiptsDeleteStep, StartsHaveRowsStep DEF StartInv

\* No record of a start survives the Room it was to wake (the barrier of beginRoomStart
\* for Rooms that are deleted or still being cloned, orchestrator.ts 4523, and
\* operations.forgetRoom), for any Rooms, calls and crashes.  Sweeps and creations
\* are excluded: a start behind one of them may outlive the Room.
THEOREM NoStartIsOrphaned ==
    ASSUME ~Impatient, {"sweep", "create"} \cap Kinds = {}
    PROVE  Spec => []NoOrphanRecord
<1>1. Init => StartInv
  BY ReceiptInit
     DEF Init, StartInv, StartsBefore, Barriers, ReceiptsDelete, StartsHaveRows, Starting, Queueing,
         Unused
<1>2. StartInv /\ [Next]_vars => StartInv'
  BY StartStep
<1>3. StartInv => NoOrphanRecord
  BY DEF StartInv, StartsHaveRows, NoOrphanRecord
<1> QED
  BY <1>1, <1>2, <1>3, PTL DEF Spec
=============================================================================
