------------------------- MODULE RoomCreationProofs -------------------------
(***************************************************************************)
(* Creations and clones are safe for any Rooms, calls, tasks and faults.   *)
(*                                                                         *)
(* The argument.  Acquire and create share a queue, so that only the call  *)
(* at its head is admitted (HeadOnly): what it decided by looking at the   *)
(* rows stays true until it writes its own (Tasked), and nobody is handed  *)
(* a Room that it may still remove (Handed).  A clone is not in the queue; *)
(* its row has no task identity, so that only a call without one gets it   *)
(* while it may still be removed (Spared).  A row that is being made has   *)
(* one maker, a call or the clone (Owned), and others keep off it because  *)
(* of the Room's lock.  A claim of the pool is held by the admitted call   *)
(* only, so that counting is about one (Earned).  The clone holds the      *)
(* source's lock: its programs do not write between two reads, and what it *)
(* paused it resumes (Cut, Whole, Resumes).                                *)
(***************************************************************************)
EXTENDS RoomCreation, SequenceTheorems, FiniteSetTheorems, TLAPS

At(c, stages) == call[c].at \in stages

Admitted == {"detecting", "waking"} \cup Making

\* Only the head of the queue is admitted.
HeadOnly == \A c \in Calls : At(c, Admitted) => admission # <<>> /\ Head(admission) = c

\* The clone works on its target until it is through or has undone it.
Working == clone.at \notin {"idle", "last"}

\* What the row of the target may say; its own end fails after the application came up.
Unready(at) ==
    IF at = "verify" THEN {"running"}
    ELSE IF at = "undo" THEN {"preparing", "running", "ready", "attention"} ELSE {"preparing"}

\* Whoever makes a Room has the row of it, and no other row is unfinished.
Owned ==
    /\ \A c \in Calls : At(c, Making) =>
          /\ call[c].room \in Fresh
          /\ rows[call[c].room].st \in {"preparing", "running"}
          /\ rows[call[c].room].by = call[c].kind
    /\ Working => /\ clone.room \in Fresh
                  /\ rows[clone.room].by = "clone"
                  /\ rows[clone.room].st \in Unready(clone.at)
    /\ clone.at = "last" => /\ clone.room \in Fresh
                            /\ rows[clone.room].st \in {"ready", "attention", "broken", "gone"}
    /\ \A r \in Rooms :
          /\ rows[r].st \in {"preparing", "running"} =>
                \/ Working /\ r = clone.room
                \/ \E c \in Calls : At(c, Making) /\ call[c].room = r
          /\ made[r] # {} => There(r)
          /\ ~There(r) => rows[r].by = "none"

Answered == {"handed", "early"}

\* Who was handed a Room has one that exists and that no creation makes.
Handed ==
    /\ \A c \in Calls : At(c, {"waking"}) => call[c].room \in Rooms
    /\ \A c \in Calls : At(c, Answered) =>
          /\ call[c].room \in Rooms /\ rows[call[c].room].st # "none"
          /\ \A d \in Calls : At(d, Making) => call[d].room # call[c].room

\* The row of a clone under way has no task identity, so that only a call without one
\* gets it.
Spared ==
    /\ Working => rows[clone.room].task = None
    /\ \A c \in Calls : /\ At(c, {"handed"}) => ~(Working /\ clone.room = call[c].room)
                        /\ At(c, {"early"}) => call[c].task = None

Agents == {"acquire", "create"}

\* A Room that agents got or may get
Agentic(r) == rows[r].by \in Agents /\ rows[r].st # "deleting"

\* A call that is about to create has no compatible Room, and no two Rooms of agents
\* have one task identity.
Tasked ==
    /\ \A c \in Calls : At(c, {"detecting"}) /\ call[c].kind \in Agents =>
          \A r \in Rooms : Agentic(r) => rows[r].task # call[c].task
    /\ \A r, q \in Rooms : r # q /\ Agentic(r) /\ Agentic(q) => rows[r].task # rows[q].task

Holder(c) == call[c].lease = "held"

\* A slot is held by a call that makes a Room, and each slot that is ready or held was
\* earned.
Earned ==
    /\ ~pool.known => pool.slots = 0
    /\ \A c \in Calls : Holder(c) => At(c, {"import", "pod", "failed"})
    /\ pool.slots <= credit
    /\ (\E c \in Calls : Holder(c)) => pool.slots < credit

\* While the clone reads, the source does not write, and what is read is one version.
Cut ==
    /\ clone.at \in {"workspace", "deps", "data"} => web # "running"
    /\ clone.at = "pause" => clone.cut = {}
    /\ clone.at \in {"workspace", "deps", "data"} => clone.cut \subseteq {edits}
    /\ \A e, f \in clone.cut : e = f

\* What the target has when its application starts
Whole ==
    /\ clone.at \in {"data", "resume", "target", "install"} /\ clone.deps => "deps" \in made[clone.room]
    /\ \/ clone.at \in {"services", "web", "verify"}
       \/ clone.at = "last" /\ rows[clone.room].st \in {"ready", "attention"}
       => /\ "deps" \in made[clone.room]
          /\ clone.at # "services" /\ clone.data => "db" \in made[clone.room]

\* The clone knows that it has to resume the source, until that failed twice.
Resumes ==
    /\ web = "paused" => (clone.at # "idle" /\ clone.holds) \/ stuck >= 2
    /\ clone.at = "last" /\ clone.holds => stuck >= 1
    /\ clone.at \in {"idle", "pause", "target", "install", "services", "web", "verify"} => ~clone.holds

IInv ==
    /\ TypeOK /\ HeadOnly /\ Owned /\ Handed /\ Spared /\ Tasked
    /\ Earned /\ Cut /\ Whole /\ Resumes

-----------------------------------------------------------------------------
(* Types *)

RowType == [st: Statuses, task: Tasks \cup {None}, by: Kinds \cup {"clone"}]

CallType == [kind: Kinds, task: Tasks \cup {None}, at: Stages, room: Rooms \cup {None},
             lease: {"none", "held", "used"}]

CloneType == [at: CloneStages, room: Rooms \cup {None}, holds: BOOLEAN, cut: SUBSET (0..MaxEdits),
              deps: BOOLEAN, data: BOOLEAN]

PoolType == [known: BOOLEAN, slots: 0..Slots]

\* What a call that leaves the queue leaves behind
LEMMA Leaving ==
    ASSUME TypeOK, NEW c \in Calls, NEW answer \in {"handed", "early", "refused"}, NEW r \in Rooms \cup {None},
           Leave(c, answer, r), admission # <<>>
    PROVE  /\ call' \in [Calls -> CallType] /\ admission' \in Seq(Calls)
           /\ \A d \in Calls \ {c} : call'[d] = call[d]
           /\ call'[c].at = answer /\ call'[c].room = r /\ call'[c].lease = "none"
           /\ call'[c].kind = call[c].kind /\ call'[c].task = call[c].task
<1>1. call \in [Calls -> CallType] /\ answer \in Stages
  BY DEF TypeOK, CallType, Stages
<1>2. call' = [call EXCEPT ![c] = [@ EXCEPT !.at = answer, !.room = r, !.lease = "none"]]
  BY DEF Leave
<1>3. admission' \in Seq(Calls)
  BY HeadTailProperties DEF Leave, TypeOK
<1> QED
  BY <1>1, <1>2, <1>3 DEF CallType

\* A call that moves on
LEMMA Moving ==
    ASSUME TypeOK, NEW c \in Calls, NEW at \in Stages, call' = [call EXCEPT ![c].at = at]
    PROVE  /\ call' \in [Calls -> CallType]
           /\ \A d \in Calls \ {c} : call'[d] = call[d]
           /\ call'[c].at = at /\ call'[c].room = call[c].room /\ call'[c].lease = call[c].lease
           /\ call'[c].kind = call[c].kind /\ call'[c].task = call[c].task
<1>1. call \in [Calls -> CallType]
  BY DEF TypeOK, CallType
<1> QED
  BY <1>1 DEF CallType

\* A Room whose row changes its status
LEMMA Turning ==
    ASSUME TypeOK, NEW r \in Rooms, NEW st \in Statuses, rows' = [rows EXCEPT ![r].st = st]
    PROVE  /\ rows' \in [Rooms -> RowType]
           /\ \A q \in Rooms \ {r} : rows'[q] = rows[q]
           /\ rows'[r].st = st /\ rows'[r].task = rows[r].task /\ rows'[r].by = rows[r].by
<1>1. rows \in [Rooms -> RowType]
  BY DEF TypeOK, RowType
<1> QED
  BY <1>1 DEF RowType

\* What a step of the engine makes for a Room
LEMMA Made ==
    ASSUME TypeOK, NEW r \in Rooms, NEW what \in SUBSET Parts, NEW works \in BOOLEAN,
           made' \in IF works THEN {[made EXCEPT ![r] = @ \cup what]}
                              ELSE {[made EXCEPT ![r] = parts] : parts \in Partly(r, what)}
    PROVE  /\ made' \in [Rooms -> SUBSET Parts]
           /\ \A q \in Rooms \ {r} : made'[q] = made[q]
           /\ made[r] \subseteq made'[r] /\ made'[r] \subseteq made[r] \cup what
           /\ works => made'[r] = made[r] \cup what
<1>1. made \in [Rooms -> SUBSET Parts]
  BY DEF TypeOK
<1>2. CASE works
  BY <1>1, <1>2
<1>3. CASE ~works
  <2>1. PICK parts \in Partly(r, what) : made' = [made EXCEPT ![r] = parts]
    BY <1>3
  <2> QED
    BY <1>1, <1>3, <2>1 DEF Partly
<1> QED
  BY <1>2, <1>3

\* A Room that is removed, or not
LEMMA Removing ==
    ASSUME SourceAssumption, TypeOK, NEW r \in Rooms, NEW works \in BOOLEAN, Removed(r, works)
    PROVE  /\ made' \in [Rooms -> SUBSET Parts] /\ rows' \in [Rooms -> RowType]
           /\ \A q \in Rooms \ {r} : made'[q] = made[q] /\ rows'[q] = rows[q]
           /\ \/ made'[r] = {} /\ rows'[r] = Gone
              \/ made'[r] \subseteq made[r] /\ rows'[r].st = "broken" /\ rows'[r].task = rows[r].task
                 /\ rows'[r].by = rows[r].by
<1>1. made \in [Rooms -> SUBSET Parts] /\ rows \in [Rooms -> RowType]
  BY DEF TypeOK, RowType
<1>2. CASE works
  <2>1. Gone \in RowType
    BY DEF Gone, Row, RowType, Statuses, Kinds
  <2> QED
    BY <1>1, <1>2, <2>1 DEF Removed
<1>3. CASE ~works
  <2>1. PICK rest \in Left(r) : made' = [made EXCEPT ![r] = rest]
    BY <1>3 DEF Removed
  <2>2. rest \subseteq made[r]
    BY DEF Left
  <2>3. rows' = [rows EXCEPT ![r].st = "broken"] /\ "broken" \in Statuses
    BY <1>3 DEF Removed, Statuses
  <2> QED
    BY <1>1, <2>1, <2>2, <2>3, Turning
<1> QED
  BY <1>2, <1>3

LEMMA FaultsBounded ==
    ASSUME SourceAssumption, TypeOK, NEW works \in BOOLEAN, Works(works)
    PROVE  faults' \in 0..MaxFaults
BY DEF SourceAssumption, TypeOK, Works

LEMMA TypeInit == SourceAssumption /\ Init => TypeOK
<1> SUFFICES ASSUME SourceAssumption, Init
             PROVE  TypeOK
  OBVIOUS
<1>1. rows \in [Rooms -> RowType]
  BY DEF Init, Row, NoRow, RowType, Statuses, Kinds
<1>2. made \in [Rooms -> SUBSET Parts]
  BY DEF Init, Parts
<1>3. call \in [Calls -> CallType]
  BY DEF Init, CallType, Kinds, Stages
<1>4. clone \in CloneType
  BY DEF Init, NoClone, CloneType, CloneStages
<1>5. pool \in PoolType /\ 0 \in 0..Slots
  BY DEF Init, PoolType, SourceAssumption
<1>6. 0 \in 0..MaxEdits /\ 0 \in 0..MaxFaults /\ 0 \in 0..MaxEvents
  BY DEF SourceAssumption
<1> QED
  BY <1>1, <1>2, <1>3, <1>4, <1>5, <1>6 DEF Init, TypeOK, RowType, CallType, CloneType, PoolType

\* Only this call, this row, what this Room has, changes.
OnlyCall(c) == call' \in [Calls -> CallType] /\ \A d \in Calls \ {c} : call'[d] = call[d]
OnlyRow(r) == rows' \in [Rooms -> RowType] /\ \A q \in Rooms \ {r} : rows'[q] = rows[q]
OnlyMade(r) == made' \in [Rooms -> SUBSET Parts] /\ \A q \in Rooms \ {r} : made'[q] = made[q]

LEMMA MintedIs ==
    ASSUME SourceAssumption, TypeOK, NEW r \in Minted
    PROVE  r \in Fresh /\ r \in Rooms /\ r # Source /\ rows[r].st = "none"
BY DEF Minted, Unused, Rooms, SourceAssumption

LEMMA EnterEffect ==
    ASSUME SourceAssumption, TypeOK, NEW c \in Calls, NEW kind \in {"acquire", "create", "desk"},
           NEW task \in Tasks \cup {None}, Enter(c, kind, task)
    PROVE  /\ OnlyCall(c) /\ call[c].at = "new" /\ call'[c].at = "queued" /\ call'[c].lease = call[c].lease
           /\ call'[c].kind = kind /\ call'[c].task = task
           /\ admission' = Append(admission, c) /\ admission' \in Seq(Calls)
           /\ UNCHANGED <<rows, made, web, edits, clone, pool, credit, stuck, faults, events>>
<1>1. call \in [Calls -> CallType] /\ "queued" \in Stages /\ kind \in Kinds
  BY DEF TypeOK, CallType, Stages, Kinds
<1>2. call' = [call EXCEPT ![c] = [@ EXCEPT !.kind = kind, !.task = task, !.at = "queued"]] /\ call[c].at = "new"
  BY DEF Enter, Coming
<1>3. OnlyCall(c) /\ call'[c].at = "queued" /\ call'[c].lease = call[c].lease
      /\ call'[c].kind = kind /\ call'[c].task = task
  BY <1>1, <1>2 DEF CallType, OnlyCall
<1>4. admission' = Append(admission, c) /\ admission' \in Seq(Calls)
  BY AppendProperties DEF Enter, TypeOK
<1> QED
  BY <1>2, <1>3, <1>4 DEF Enter

\* The four ends of Admit
LEMMA AdmitEffect ==
    ASSUME SourceAssumption, TypeOK, NEW c \in Calls, Admit(c)
    PROVE  /\ OnlyCall(c) /\ Turn(c) /\ admission' \in Seq(Calls)
           /\ call'[c].kind = call[c].kind /\ call'[c].task = call[c].task
           /\ UNCHANGED <<rows, made, web, edits, clone, pool, credit, stuck, faults, events>>
           /\ \/ call'[c].at = "refused" /\ call'[c].lease = "none"
              \/ /\ call'[c].at = (IF BeingCloned(call'[c].room) THEN "early" ELSE "handed")
                 /\ call'[c].lease = "none" /\ call'[c].room \in Compatible(call[c].task)
                 /\ call'[c].room \in Rooms /\ There(call'[c].room)
              \/ /\ call'[c].at = "waking" /\ call'[c].lease = call[c].lease /\ UNCHANGED admission
                 /\ call'[c].room \in Rooms /\ There(call'[c].room)
              \/ /\ call'[c].at = "detecting" /\ call'[c].lease = call[c].lease /\ UNCHANGED admission
                 /\ call[c].kind = "desk" \/ Compatible(call[c].task) = {}
<1> DEFINE found == Compatible(call[c].task)
<1>1. Turn(c) /\ UNCHANGED <<rows, made, web, edits, clone, pool, credit, stuck, faults, events>>
  BY DEF Admit
<1>a. admission # <<>> /\ admission \in Seq(Calls) /\ call \in [Calls -> CallType]
  BY <1>1 DEF Turn, TypeOK, CallType
<1>b. {"handed", "refused", "waking", "detecting"} \subseteq Stages
  BY DEF Stages
<1>2. CASE Leave(c, "refused", None)
  BY <1>1, <1>2, <1>a, Leaving DEF OnlyCall
<1>3. ASSUME NEW r \in found, Leave(c, IF BeingCloned(r) THEN "early" ELSE "handed", r)
      PROVE  /\ OnlyCall(c) /\ admission' \in Seq(Calls) /\ call'[c].lease = "none"
             /\ call'[c].at = (IF BeingCloned(call'[c].room) THEN "early" ELSE "handed")
             /\ call'[c].room \in Compatible(call[c].task)
             /\ call'[c].room \in Rooms /\ There(call'[c].room)
             /\ call'[c].kind = call[c].kind /\ call'[c].task = call[c].task
  <2>1. r \in Rooms /\ There(r)
    BY <1>3 DEF Compatible
  <2>2. PICK answer \in Answered : answer = IF BeingCloned(r) THEN "early" ELSE "handed"
    BY DEF Answered
  <2>3. Leave(c, answer, r)
    BY <1>3, <2>2
  <2>4. /\ call' \in [Calls -> CallType] /\ admission' \in Seq(Calls)
        /\ \A d \in Calls \ {c} : call'[d] = call[d]
        /\ call'[c].at = answer /\ call'[c].room = r /\ call'[c].lease = "none"
        /\ call'[c].kind = call[c].kind /\ call'[c].task = call[c].task
    BY <1>a, <2>1, <2>3, Leaving DEF Answered
  <2> QED
    BY <1>3, <2>1, <2>2, <2>4 DEF OnlyCall
<1>4. ASSUME NEW r \in found, call' = [call EXCEPT ![c] = [@ EXCEPT !.at = "waking", !.room = r]]
      PROVE  /\ OnlyCall(c) /\ call'[c].at = "waking" /\ call'[c].lease = call[c].lease
             /\ call'[c].room \in Rooms /\ There(call'[c].room)
             /\ call'[c].kind = call[c].kind /\ call'[c].task = call[c].task
  <2>1. r \in Rooms /\ There(r)
    BY <1>4 DEF Compatible
  <2> QED
    BY <1>4, <2>1, <1>a, <1>b DEF OnlyCall, CallType
<1>5. ASSUME call' = [call EXCEPT ![c].at = "detecting"]
      PROVE  /\ OnlyCall(c) /\ call'[c].at = "detecting" /\ call'[c].lease = call[c].lease
             /\ call'[c].kind = call[c].kind /\ call'[c].task = call[c].task
  BY <1>5, <1>b, Moving DEF OnlyCall
<1> HIDE DEF found
<1>6. \/ Leave(c, "refused", None)
      \/ \E r \in found : Leave(c, IF BeingCloned(r) THEN "early" ELSE "handed", r)
      \/ \E r \in found : call' = [call EXCEPT ![c] = [@ EXCEPT !.at = "waking", !.room = r]] /\ UNCHANGED admission
      \/ /\ call[c].kind = "desk" \/ found = {}
         /\ call' = [call EXCEPT ![c].at = "detecting"] /\ UNCHANGED admission
  BY DEF Admit, found
<1>7. CASE Leave(c, "refused", None)
  BY <1>1, <1>2, <1>7
<1>8. CASE \E r \in found : Leave(c, IF BeingCloned(r) THEN "early" ELSE "handed", r)
  BY <1>1, <1>3, <1>8
<1>9. CASE \E r \in found : call' = [call EXCEPT ![c] = [@ EXCEPT !.at = "waking", !.room = r]] /\ UNCHANGED admission
  BY <1>1, <1>4, <1>9, <1>a
<1>10. CASE /\ call[c].kind = "desk" \/ found = {}
            /\ call' = [call EXCEPT ![c].at = "detecting"] /\ UNCHANGED admission
  BY <1>1, <1>5, <1>10, <1>a DEF found
<1> QED
  BY <1>6, <1>7, <1>8, <1>9, <1>10

LEMMA WakeEffect ==
    ASSUME SourceAssumption, TypeOK, HeadOnly, Handed, NEW c \in Calls, NEW works \in BOOLEAN, Wake(c, works),
           call[c].room \in Rooms
    PROVE  /\ OnlyCall(c) /\ call[c].at = "waking" /\ admission' \in Seq(Calls)
           /\ call'[c].lease = "none" /\ ~Busy(call[c].room)
           /\ \/ call'[c].at = "refused"
              \/ call'[c].at = "handed" /\ call'[c].room = call[c].room /\ rows'[call[c].room].st = "ready"
           /\ OnlyRow(call[c].room)
           /\ \/ UNCHANGED <<rows, web>>
              \/ /\ rows[call[c].room].st = "sleeping" /\ rows'[call[c].room].st \in {"ready", "broken"}
                 /\ rows'[call[c].room].task = rows[call[c].room].task
                 /\ rows'[call[c].room].by = rows[call[c].room].by
                 /\ web' = web \/ (web' = "running" /\ call[c].room = Source)
           /\ faults' \in 0..MaxFaults
           /\ UNCHANGED <<made, edits, clone, pool, credit, stuck, events>>
<1> DEFINE r == call[c].room
<1>1. /\ call[c].at = "waking" /\ ~Busy(r)
      /\ UNCHANGED <<made, edits, clone, pool, credit, stuck, events>>
  BY DEF Wake
<1>2. admission # <<>>
  BY <1>1 DEF HeadOnly, At, Admitted
<1>3. (Leave(c, "handed", r) /\ rows'[r].st = "ready") \/ Leave(c, "refused", None)
  BY DEF Wake
<1>4. /\ OnlyCall(c) /\ admission' \in Seq(Calls) /\ call'[c].lease = "none"
      /\ call'[c].at = "refused" \/ (call'[c].at = "handed" /\ call'[c].room = r /\ rows'[r].st = "ready")
  <2>1. CASE Leave(c, "handed", r) /\ rows'[r].st = "ready"
    BY <1>2, <2>1, Leaving DEF OnlyCall
  <2>2. CASE Leave(c, "refused", None)
    BY <1>2, <2>2, Leaving DEF OnlyCall
  <2> QED
    BY <1>3, <2>1, <2>2
<1>5. faults' \in 0..MaxFaults
  BY FaultsBounded DEF Wake, TypeOK
<1>6. CASE rows[r].st = "sleeping"
  <2>1. PICK st \in {"ready", "broken"} : rows' = [rows EXCEPT ![r].st = st]
    BY <1>6 DEF Wake
  <2>2. st \in Statuses
    BY DEF Statuses
  <2>3. web' = web \/ (web' = "running" /\ r = Source)
    BY <1>6 DEF Wake
  <2> QED
    BY <1>1, <1>4, <1>5, <1>6, <2>1, <2>2, <2>3, Turning DEF OnlyRow
<1>7. CASE rows[r].st # "sleeping"
  <2>1. UNCHANGED <<rows, web>>
    BY <1>7 DEF Wake
  <2>2. OnlyRow(r)
    BY <2>1 DEF OnlyRow, TypeOK, RowType
  <2> QED
    BY <1>1, <1>4, <1>5, <2>1, <2>2
<1> QED
  BY <1>6, <1>7

LEMMA DetectEffect ==
    ASSUME SourceAssumption, TypeOK, Owned, NEW c \in Calls, Detect(c)
    PROVE  /\ OnlyCall(c) /\ call[c].at = "detecting" /\ call'[c].at = "import"
           /\ call'[c].kind = call[c].kind /\ call'[c].task = call[c].task
           /\ call'[c].room \in Minted /\ OnlyRow(call'[c].room)
           /\ rows'[call'[c].room] = Row("preparing", call[c].task, call[c].kind)
           /\ pool' \in PoolType
           /\ \/ pool' = pool /\ call'[c].lease = "none"
              \/ /\ pool.known /\ pool'.known /\ pool'.slots = pool.slots - 1 /\ pool.slots > 0
                 /\ call'[c].lease = "held"
           /\ UNCHANGED <<made, web, edits, admission, clone, credit, stuck, faults, events>>
<1>1. PICK r \in Minted :
        /\ call[c].at = "detecting"
        /\ rows' = [rows EXCEPT ![r] = Row("preparing", call[c].task, call[c].kind)]
        /\ pool' = Claim(pool)
        /\ call' = [call EXCEPT ![c] = [@ EXCEPT !.at = "import", !.room = r,
                                        !.lease = IF pool' # pool THEN "held" ELSE "none"]]
        /\ UNCHANGED <<made, web, edits, admission, clone, credit, stuck, faults, events>>
  BY DEF Detect
<1>2. r \in Rooms
  BY MintedIs
<1>3. call \in [Calls -> CallType] /\ "import" \in Stages /\ rows \in [Rooms -> RowType] /\ pool \in PoolType
  BY DEF TypeOK, CallType, Stages, Making, RowType, PoolType
<1>4. Row("preparing", call[c].task, call[c].kind) \in RowType
  BY <1>3 DEF Row, RowType, CallType, Statuses, Kinds
<1>5. OnlyRow(r) /\ rows'[r] = Row("preparing", call[c].task, call[c].kind)
  BY <1>1, <1>2, <1>3, <1>4 DEF OnlyRow
<1>6. PICK lease \in {"none", "held"} : lease = IF pool' # pool THEN "held" ELSE "none"
  OBVIOUS
<1>7. call' = [call EXCEPT ![c] = [@ EXCEPT !.at = "import", !.room = r, !.lease = lease]]
  BY <1>1, <1>6
<1>8. /\ OnlyCall(c) /\ call'[c].at = "import" /\ call'[c].room = r /\ call'[c].lease = lease
      /\ call'[c].kind = call[c].kind /\ call'[c].task = call[c].task
  BY <1>2, <1>3, <1>7 DEF OnlyCall, CallType
<1>9. /\ pool' \in PoolType
      /\ \/ pool' = pool /\ lease = "none"
         \/ /\ pool.known /\ pool'.known /\ pool'.slots = pool.slots - 1 /\ pool.slots > 0
            /\ lease = "held"
  <2>1. CASE pool.known /\ pool.slots > 0
    <3>1. pool' = [pool EXCEPT !.slots = @ - 1]
      BY <1>1, <2>1 DEF Claim
    <3>2. pool'.slots = pool.slots - 1 /\ pool'.known /\ pool' \in PoolType
      BY <1>3, <2>1, <3>1 DEF PoolType, SourceAssumption
    <3>3. pool' # pool
      BY <1>3, <3>2 DEF PoolType, SourceAssumption
    <3> QED
      BY <1>6, <2>1, <3>2, <3>3
  <2>2. CASE ~(pool.known /\ pool.slots > 0)
    BY <1>1, <1>3, <1>6, <2>2 DEF Claim
  <2> QED
    BY <2>1, <2>2
<1> QED
  BY <1>1, <1>5, <1>8, <1>9

LEMMA DetectFailsEffect ==
    ASSUME SourceAssumption, TypeOK, HeadOnly, NEW c \in Calls, DetectFails(c)
    PROVE  /\ OnlyCall(c) /\ call[c].at = "detecting" /\ admission' \in Seq(Calls)
           /\ call'[c].at = "refused" /\ call'[c].lease = "none" /\ faults' \in 0..MaxFaults
           /\ UNCHANGED <<rows, made, web, edits, clone, pool, credit, stuck, events>>
<1>1. call[c].at = "detecting" /\ admission # <<>>
  BY DEF DetectFails, HeadOnly, At, Admitted
<1>2. Leave(c, "refused", None)
  BY DEF DetectFails
<1> QED
  BY <1>1, <1>2, Leaving, FaultsBounded DEF DetectFails, OnlyCall

LEMMA MakeEffect ==
    ASSUME SourceAssumption, TypeOK, Owned, NEW c \in Calls, NEW at \in Making, NEW what \in SUBSET Parts,
           NEW next \in Stages, NEW works \in BOOLEAN, Make(c, at, what, next, works)
    PROVE  /\ OnlyCall(c) /\ call[c].at = at /\ call[c].room \in Rooms
           /\ call'[c].at \in {next, "failed"} /\ (works => call'[c].at = next) /\ (~works => call'[c].at = "failed")
           /\ call'[c].room = call[c].room
           /\ call'[c].lease = call[c].lease /\ call'[c].kind = call[c].kind /\ call'[c].task = call[c].task
           /\ OnlyMade(call[c].room) /\ faults' \in 0..MaxFaults
           /\ UNCHANGED <<web, edits, admission, clone, stuck, events>>
<1>1. call[c].at = at /\ call[c].room \in Rooms
  BY DEF Make, Owned, At, Rooms
<1>2. OnlyMade(call[c].room)
  BY <1>1, Made DEF Make, OnlyMade
<1>3. PICK to \in {next, "failed"} : /\ call' = [call EXCEPT ![c].at = to]
                                     /\ to = IF works THEN next ELSE "failed"
  BY DEF Make
<1>4. to \in Stages
  BY <1>3 DEF Stages, Making
<1> QED
  BY <1>1, <1>2, <1>3, <1>4, Moving, FaultsBounded DEF Make, OnlyCall

LEMMA PodEffect ==
    ASSUME SourceAssumption, TypeOK, Owned, NEW c \in Calls, Pod(c)
    PROVE  /\ OnlyCall(c) /\ call[c].at = "pod" /\ call'[c].at = "setup" /\ call[c].room \in Rooms
           /\ call'[c].room = call[c].room /\ call'[c].kind = call[c].kind /\ call'[c].task = call[c].task
           /\ OnlyMade(call[c].room) /\ OnlyRow(call[c].room)
           /\ rows'[call[c].room].st = "running" /\ rows'[call[c].room].task = rows[call[c].room].task
           /\ rows'[call[c].room].by = rows[call[c].room].by
           /\ call'[c].lease # "held"
           /\ credit' = IF Holder(c) THEN credit - 1 ELSE credit
           /\ UNCHANGED <<web, edits, admission, clone, pool, stuck, faults, events>>
<1> DEFINE r == call[c].room
<1>1. call[c].at = "pod" /\ r \in Rooms
  BY DEF Pod, Owned, At, Making, Rooms
<1>2. PICK lease \in {"used", "none"} :
          call' = [call EXCEPT ![c] = [@ EXCEPT !.at = "setup", !.lease = lease]]
  BY DEF Pod
<1>3. call \in [Calls -> CallType] /\ "setup" \in Stages
  BY DEF TypeOK, CallType, Stages, Making
<1>4. /\ OnlyCall(c) /\ call'[c].at = "setup" /\ call'[c].room = r /\ call'[c].lease = lease
      /\ call'[c].kind = call[c].kind /\ call'[c].task = call[c].task
  BY <1>2, <1>3 DEF OnlyCall, CallType
<1>5. rows' = [rows EXCEPT ![r].st = "running"] /\ "running" \in Statuses
  BY DEF Pod, Statuses
<1>6. /\ OnlyRow(r) /\ rows'[r].st = "running" /\ rows'[r].task = rows[r].task /\ rows'[r].by = rows[r].by
  BY <1>1, <1>5, Turning DEF OnlyRow
<1>7. OnlyMade(r)
  BY <1>1 DEF Pod, OnlyMade, TypeOK, Parts
<1> QED
  BY <1>1, <1>4, <1>6, <1>7 DEF Pod, Holder

LEMMA VerifyEffect ==
    ASSUME SourceAssumption, TypeOK, HeadOnly, Owned, NEW c \in Calls, NEW up \in BOOLEAN, Verify(c, up)
    PROVE  /\ OnlyCall(c) /\ call[c].at = "verify" /\ admission' \in Seq(Calls) /\ call[c].room \in Rooms
           /\ call'[c].at = "handed" /\ call'[c].lease = "none" /\ call'[c].room = call[c].room
           /\ OnlyRow(call[c].room) /\ rows'[call[c].room].st \in {"ready", "attention"}
           /\ rows'[call[c].room].task = rows[call[c].room].task
           /\ rows'[call[c].room].by = rows[call[c].room].by
           /\ pool' \in PoolType
           /\ \/ pool' = pool /\ credit' = credit
              \/ /\ credit' = credit + 1 /\ pool'.known
                 /\ pool'.slots <= (IF pool.known THEN pool.slots ELSE 0) + 1
           /\ UNCHANGED <<made, web, edits, clone, stuck, faults, events>>
<1> DEFINE r == call[c].room
<1>1. call[c].at = "verify" /\ r \in Rooms
  BY DEF Verify, Owned, At, Making, Rooms
<1>2. admission # <<>>
  BY <1>1 DEF HeadOnly, At, Admitted, Making
<1>3. Leave(c, "handed", r)
  BY DEF Verify
<1>4. PICK st \in {"ready", "attention"} : rows' = [rows EXCEPT ![r].st = st]
  BY DEF Verify
<1>5. st \in Statuses
  BY DEF Statuses
<1>6. /\ OnlyRow(r) /\ rows'[r].st \in {"ready", "attention"}
      /\ rows'[r].task = rows[r].task /\ rows'[r].by = rows[r].by
  BY <1>1, <1>4, <1>5, Turning DEF OnlyRow
<1>7. /\ pool' \in PoolType
      /\ \/ pool' = pool /\ credit' = credit
         \/ /\ credit' = credit + 1 /\ pool'.known
            /\ pool'.slots <= (IF pool.known THEN pool.slots ELSE 0) + 1
  <2>1. CASE up
    <3>1. pool' = [known |-> TRUE, slots |-> Full(IF pool.known THEN pool.slots + 1 ELSE 1)] /\ credit' = credit + 1
      BY <2>1 DEF Verify, ObserveReady
    <3>2. PICK n \in Nat : n = IF pool.known THEN pool.slots + 1 ELSE 1
      BY DEF TypeOK, SourceAssumption
    <3>3. Full(n) \in 0..Slots /\ Full(n) <= n
      BY DEF Full, SourceAssumption
    <3>4. n <= (IF pool.known THEN pool.slots ELSE 0) + 1
      BY <3>2 DEF TypeOK, SourceAssumption
    <3>5. pool'.slots = Full(n) /\ pool' \in PoolType /\ pool'.known
      BY <3>1, <3>2, <3>3 DEF PoolType
    <3>6. pool'.slots <= (IF pool.known THEN pool.slots ELSE 0) + 1
      <4>1. (IF pool.known THEN pool.slots ELSE 0) + 1 \in Nat /\ Slots \in Nat
        BY DEF TypeOK, SourceAssumption
      <4> QED
        BY <3>3, <3>4, <3>5, <4>1
    <3> QED
      BY <3>1, <3>5, <3>6
  <2>2. CASE ~up
    BY <2>2 DEF Verify, TypeOK, PoolType
  <2> QED
    BY <2>1, <2>2
<1> QED
  BY <1>1, <1>2, <1>3, <1>6, <1>7, Leaving DEF Verify, OnlyCall

LEMMA UndoEffect ==
    ASSUME SourceAssumption, TypeOK, HeadOnly, Owned, NEW c \in Calls, NEW works \in BOOLEAN, Undo(c, works)
    PROVE  /\ OnlyCall(c) /\ call[c].at = "failed" /\ admission' \in Seq(Calls) /\ call[c].room \in Rooms
           /\ call'[c].at = "refused" /\ call'[c].lease = "none"
           /\ OnlyRow(call[c].room) /\ OnlyMade(call[c].room) /\ Removed(call[c].room, works)
           /\ pool' \in PoolType /\ faults' \in 0..MaxFaults
           /\ \/ pool' = pool
              \/ Holder(c) /\ pool'.known = pool.known /\ pool.known /\ pool'.slots <= pool.slots + 1
           /\ UNCHANGED <<web, edits, clone, credit, stuck, events>>
<1> DEFINE r == call[c].room
<1>1. call[c].at = "failed" /\ r \in Rooms
  BY DEF Undo, Owned, At, Making, Rooms
<1>2. admission # <<>>
  BY <1>1 DEF HeadOnly, At, Admitted, Making
<1>3. Leave(c, "refused", None) /\ Removed(r, works)
  BY DEF Undo
<1>4. OnlyRow(r) /\ OnlyMade(r)
  BY <1>1, <1>3, Removing DEF OnlyRow, OnlyMade
<1>5. /\ pool' \in PoolType
      /\ \/ pool' = pool
         \/ Holder(c) /\ pool'.known = pool.known /\ pool.known /\ pool'.slots <= pool.slots + 1
  <2>1. CASE Holder(c) /\ pool.known
    <3>1. pool' = [pool EXCEPT !.slots = Full(@ + 1)]
      BY <2>1 DEF Undo, Release, Holder
    <3>2. pool.slots + 1 \in Nat /\ pool \in PoolType
      BY DEF TypeOK, SourceAssumption, PoolType
    <3>3. Full(pool.slots + 1) \in 0..Slots /\ Full(pool.slots + 1) <= pool.slots + 1
      BY <3>2 DEF Full, SourceAssumption
    <3>4. pool' \in PoolType /\ pool'.known = pool.known /\ pool'.slots = Full(pool.slots + 1)
      BY <3>1, <3>2, <3>3 DEF PoolType
    <3> QED
      BY <2>1, <3>3, <3>4
  <2>2. CASE ~(Holder(c) /\ pool.known)
    BY <2>2 DEF Undo, Release, Holder, TypeOK, PoolType
  <2> QED
    BY <2>1, <2>2
<1> QED
  BY <1>1, <1>2, <1>3, <1>4, <1>5, Leaving, FaultsBounded DEF Undo, OnlyCall

\* The clone goes from one stage to the next, or to its undoing.
Goes(from, to, works) ==
    /\ clone.at = from /\ clone'.at = IF works THEN to ELSE "undo"
    /\ clone'.room = clone.room /\ clone'.deps = clone.deps /\ clone'.data = clone.data
    /\ ~works => clone'.holds = clone.holds /\ clone'.cut = clone.cut
    /\ clone' \in CloneType /\ clone.room \in Rooms
    /\ OnlyMade(clone.room) /\ made[clone.room] \subseteq made'[clone.room]
    /\ faults' \in 0..MaxFaults
    /\ UNCHANGED <<edits, admission, call, pool, credit, events>>

LEMMA CloneStepEffect ==
    ASSUME SourceAssumption, TypeOK, Owned, NEW from \in CloneStages \ {"idle", "last"},
           NEW what \in SUBSET Parts, NEW after \in CloneType,
           after.room = clone.room, after.deps = clone.deps, after.data = clone.data,
           NEW works \in BOOLEAN, CloneStep(from, what, after, works)
    PROVE  /\ Goes(from, after.at, works)
           /\ works => clone' = after /\ made'[clone.room] = made[clone.room] \cup what
<1>1. clone.at = from /\ clone.room \in Rooms
  BY DEF CloneStep, Owned, Working, Rooms
<1>2. clone \in CloneType /\ "undo" \in CloneStages
  BY DEF TypeOK, CloneType, CloneStages
<1>3. /\ OnlyMade(clone.room) /\ made[clone.room] \subseteq made'[clone.room]
      /\ works => made'[clone.room] = made[clone.room] \cup what
  BY <1>1, Made DEF CloneStep, OnlyMade
<1>4. CASE works
  <2>1. clone' = after
    BY <1>4 DEF CloneStep
  <2> QED
    BY <1>1, <1>3, <1>4, <2>1, FaultsBounded DEF CloneStep, Goes
<1>5. CASE ~works
  <2>1. clone' = [clone EXCEPT !.at = "undo"]
    BY <1>5 DEF CloneStep
  <2>2. /\ clone' \in CloneType /\ clone'.at = "undo" /\ clone'.room = clone.room /\ clone'.deps = clone.deps
        /\ clone'.data = clone.data /\ clone'.holds = clone.holds /\ clone'.cut = clone.cut
    BY <1>2, <2>1 DEF CloneType
  <2> QED
    BY <1>1, <1>3, <1>5, <2>2, FaultsBounded DEF CloneStep, Goes
<1> QED
  BY <1>4, <1>5

LEMMA StepThen ==
    ASSUME SourceAssumption, TypeOK, Owned, NEW from \in CloneStages \ {"idle", "last"},
           NEW what \in SUBSET Parts, NEW to \in CloneStages,
           NEW works \in BOOLEAN, CloneStep(from, what, Then(to), works)
    PROVE  /\ Goes(from, to, works)
           /\ works => /\ clone'.holds = clone.holds /\ clone'.cut = clone.cut
                       /\ made'[clone.room] = made[clone.room] \cup what
<1>1. clone \in CloneType
  BY DEF TypeOK, CloneType
<1>2. /\ Then(to) \in CloneType /\ Then(to).at = to /\ Then(to).room = clone.room
      /\ Then(to).deps = clone.deps /\ Then(to).data = clone.data
      /\ Then(to).holds = clone.holds /\ Then(to).cut = clone.cut
  BY <1>1 DEF Then, CloneType
<1> QED
  BY <1>2, CloneStepEffect

LEMMA StepReads ==
    ASSUME SourceAssumption, TypeOK, Owned, NEW from \in CloneStages \ {"idle", "last"},
           NEW what \in SUBSET Parts, NEW to \in CloneStages,
           NEW works \in BOOLEAN, CloneStep(from, what, Reads(to), works)
    PROVE  /\ Goes(from, to, works)
           /\ works => clone'.holds = clone.holds /\ clone'.cut = clone.cut \cup {edits}
<1>1. clone \in CloneType /\ edits \in 0..MaxEdits
  BY DEF TypeOK, CloneType
<1>2. /\ Reads(to) \in CloneType /\ Reads(to).at = to /\ Reads(to).room = clone.room
      /\ Reads(to).deps = clone.deps /\ Reads(to).data = clone.data
      /\ Reads(to).holds = clone.holds /\ Reads(to).cut = clone.cut \cup {edits}
  BY <1>1 DEF Reads, CloneType
<1>3. Goes(from, to, works) /\ (works => clone' = Reads(to))
  BY <1>2, CloneStepEffect
<1> QED
  BY <1>2, <1>3

LEMMA StepHolds ==
    ASSUME SourceAssumption, TypeOK, Owned, NEW from \in CloneStages \ {"idle", "last"},
           NEW to \in CloneStages, NEW holds \in BOOLEAN,
           NEW works \in BOOLEAN, CloneStep(from, {}, [Then(to) EXCEPT !.holds = holds], works)
    PROVE  /\ Goes(from, to, works)
           /\ works => clone'.holds = holds /\ clone'.cut = clone.cut
<1> DEFINE after == [Then(to) EXCEPT !.holds = holds]
<1>1. clone \in CloneType
  BY DEF TypeOK, CloneType
<1>2. /\ after \in CloneType /\ after.at = to /\ after.room = clone.room
      /\ after.deps = clone.deps /\ after.data = clone.data
      /\ after.holds = holds /\ after.cut = clone.cut
  BY <1>1 DEF Then, CloneType
<1>3. CloneStep(from, {}, after, works)
  OBVIOUS
<1> HIDE DEF after
<1> QED
  BY <1>2, <1>3, CloneStepEffect

LEMMA StartCloneEffect ==
    ASSUME SourceAssumption, TypeOK, NEW c \in Calls, NEW deps \in BOOLEAN, NEW data \in BOOLEAN,
           StartClone(c, deps, data)
    PROVE  /\ OnlyCall(c) /\ call[c].at = "new" /\ call'[c].at = "cloning" /\ call'[c].lease = call[c].lease
           /\ clone.at = "idle" /\ ~Busy(Source)
           /\ clone' \in CloneType /\ clone'.at = "pause" /\ clone'.room \in Minted /\ clone'.holds = FALSE
           /\ clone'.cut = {}
           /\ OnlyRow(clone'.room) /\ rows'[clone'.room] = Row("preparing", None, "clone")
           /\ UNCHANGED <<made, web, edits, admission, pool, credit, stuck, faults, events>>
<1>1. PICK r \in Minted :
        /\ Coming(c) /\ call' = [call EXCEPT ![c].at = "cloning"]
        /\ clone.at = "idle" /\ ~Busy(Source)
        /\ rows' = [rows EXCEPT ![r] = Row("preparing", None, "clone")]
        /\ clone' = [NoClone EXCEPT !.at = "pause", !.room = r, !.deps = deps, !.data = data]
        /\ UNCHANGED <<made, web, edits, admission, pool, credit, stuck, faults, events>>
  BY DEF StartClone
<1>2. r \in Rooms
  BY MintedIs
<1>3. "cloning" \in Stages /\ "pause" \in CloneStages
  BY DEF Stages, CloneStages
<1>4. OnlyCall(c) /\ call'[c].at = "cloning" /\ call'[c].lease = call[c].lease
  BY <1>1, <1>3, Moving DEF OnlyCall
<1>5. clone' = [at |-> "pause", room |-> r, holds |-> FALSE, cut |-> {}, deps |-> deps, data |-> data]
  BY <1>1 DEF NoClone
<1>6. clone' \in CloneType
  BY <1>2, <1>3, <1>5 DEF CloneType
<1>7. Row("preparing", None, "clone") \in RowType /\ rows \in [Rooms -> RowType]
  BY DEF Row, RowType, Statuses, TypeOK
<1>8. OnlyRow(r) /\ rows'[r] = Row("preparing", None, "clone")
  BY <1>1, <1>2, <1>7 DEF OnlyRow
<1>9. clone'.at = "pause" /\ clone'.room = r /\ clone'.holds = FALSE /\ clone'.cut = {}
  BY <1>5
<1>10. call[c].at = "new"
  BY <1>1 DEF Coming
<1> QED
  BY <1>1, <1>4, <1>6, <1>8, <1>9, <1>10

LEMMA PauseEffect ==
    ASSUME SourceAssumption, TypeOK, Owned, NEW works \in BOOLEAN, Pause(works)
    PROVE  /\ Goes("pause", "workspace", works) /\ UNCHANGED <<rows, stuck>>
           /\ works => clone'.holds = (web = "running") /\ clone'.cut = clone.cut
           /\ web' = IF works /\ web = "running" THEN "paused" ELSE web
           /\ web = "running" \/ works
<1>1. PICK holds \in BOOLEAN : holds = (web = "running")
  BY Zenon
<1>2. CloneStep("pause", {}, [Then("workspace") EXCEPT !.holds = holds], works)
  BY <1>1 DEF Pause
<1>3. "workspace" \in CloneStages /\ "pause" \in CloneStages \ {"idle", "last"}
  BY DEF CloneStages
<1>4. /\ Goes("pause", "workspace", works)
      /\ works => clone'.holds = holds /\ clone'.cut = clone.cut
  BY <1>2, <1>3, StepHolds
<1> QED
  BY <1>1, <1>4 DEF Pause

LEMMA CopyEffect ==
    ASSUME SourceAssumption, TypeOK, Owned, NEW works \in BOOLEAN
    PROVE  /\ CopyWorkspace(works) =>
                /\ Goes("workspace", "deps", works)
                /\ works => clone'.holds = clone.holds /\ clone'.cut = clone.cut \cup {edits}
           /\ CopyDeps(works) =>
                /\ Goes("deps", "data", works)
                /\ works => clone'.holds = clone.holds /\ clone'.cut \in {clone.cut \cup {edits}, clone.cut}
                /\ works /\ clone.deps => "deps" \in made'[clone.room]
           /\ CopyData(works) =>
                /\ Goes("data", "resume", works)
                /\ works => clone'.holds = clone.holds /\ clone'.cut \in {clone.cut \cup {edits}, clone.cut}
<1>1. /\ "workspace" \in CloneStages \ {"idle", "last"} /\ "deps" \in CloneStages
      /\ "deps" \in CloneStages \ {"idle", "last"} /\ "data" \in CloneStages
      /\ "data" \in CloneStages \ {"idle", "last"} /\ "resume" \in CloneStages
  BY DEF CloneStages
<1>2. {"ws"} \in SUBSET Parts /\ {"deps"} \in SUBSET Parts /\ {"db"} \in SUBSET Parts /\ {} \in SUBSET Parts
  BY DEF Parts
<1>3. ASSUME CopyWorkspace(works)
      PROVE  /\ Goes("workspace", "deps", works)
             /\ works => clone'.holds = clone.holds /\ clone'.cut = clone.cut \cup {edits}
  <2>1. CloneStep("workspace", {"ws"}, Reads("deps"), works)
    BY <1>3 DEF CopyWorkspace
  <2>a. "workspace" \in CloneStages \ {"idle", "last"} /\ "deps" \in CloneStages /\ {"ws"} \in SUBSET Parts
    BY DEF CloneStages, Parts
  <2>2. Goes("workspace", "deps", works)
    BY <2>a, <2>1, StepReads
  <2>3. works => clone'.holds = clone.holds
    BY <2>a, <2>1, StepReads
  <2>4. works => clone'.cut = clone.cut \cup {edits}
    BY <2>a, <2>1, StepReads
  <2> QED
    BY <2>2, <2>3, <2>4
<1>4. ASSUME CopyDeps(works)
      PROVE  /\ Goes("deps", "data", works)
             /\ works => clone'.holds = clone.holds /\ clone'.cut \in {clone.cut \cup {edits}, clone.cut}
             /\ works /\ clone.deps => "deps" \in made'[clone.room]
  <2>1. CASE clone.deps
    <3>1. CloneStep("deps", {"deps"}, Reads("data"), works)
      BY <1>4, <2>1 DEF CopyDeps
    <3>a. "deps" \in CloneStages \ {"idle", "last"} /\ "data" \in CloneStages /\ {"deps"} \in SUBSET Parts
      BY DEF CloneStages, Parts
    <3>2. Goes("deps", "data", works)
      BY <3>a, <3>1, StepReads
    <3>3. works => clone'.holds = clone.holds
      BY <3>a, <3>1, StepReads
    <3>4. works => clone'.cut = clone.cut \cup {edits}
      BY <3>a, <3>1, StepReads
    <3>5. works => "deps" \in made'[clone.room]
      BY <3>1, <3>2 DEF CloneStep, Goes, TypeOK
    <3> QED
      BY <3>2, <3>3, <3>4, <3>5
  <2>2. CASE ~clone.deps
    <3>1. CloneStep("deps", {}, Then("data"), works)
      BY <1>4, <2>2 DEF CopyDeps
    <3>2. Goes("deps", "data", works) /\ (works => clone'.holds = clone.holds /\ clone'.cut = clone.cut)
      BY <1>1, <3>1, StepThen
    <3> QED
      BY <1>1, <2>2, <3>2
  <2> QED
    BY <2>1, <2>2
<1>5. ASSUME CopyData(works)
      PROVE  /\ Goes("data", "resume", works)
             /\ works => clone'.holds = clone.holds /\ clone'.cut \in {clone.cut \cup {edits}, clone.cut}
  <2>1. CASE ~clone.data
    <3>1. CloneStep("data", {}, Then("resume"), works)
      BY <1>5, <2>1 DEF CopyData
    <3>2. Goes("data", "resume", works) /\ (works => clone'.holds = clone.holds /\ clone'.cut = clone.cut)
      BY <1>1, <3>1, StepThen
    <3> QED
      BY <1>1, <3>2
  <2>2. CASE clone.data
    <3>1. PICK what \in {{"db"}, {}} : CloneStep("data", what, Reads("resume"), works)
      BY <1>5, <2>2 DEF CopyData
    <3>2. "data" \in CloneStages \ {"idle", "last"} /\ "resume" \in CloneStages /\ what \in SUBSET Parts
      BY DEF CloneStages, Parts
    <3>3. Goes("data", "resume", works)
      BY <3>1, <3>2, StepReads
    <3>4. works => clone'.holds = clone.holds
      BY <3>1, <3>2, StepReads
    <3>5. works => clone'.cut = clone.cut \cup {edits}
      BY <3>1, <3>2, StepReads
    <3> QED
      BY <3>3, <3>4, <3>5
  <2> QED
    BY <2>1, <2>2
<1> QED
  BY <1>3, <1>4, <1>5

LEMMA ResumeEffect ==
    ASSUME SourceAssumption, TypeOK, Owned, NEW works \in BOOLEAN, Resume(works)
    PROVE  /\ Goes("resume", "target", works) /\ UNCHANGED rows
           /\ clone.holds \/ works
           /\ works => clone'.holds = FALSE /\ clone'.cut = clone.cut
           /\ Unpaused(works)
<1>1. CloneStep("resume", {}, [Then("target") EXCEPT !.holds = FALSE], works)
  BY DEF Resume
<1>2. "target" \in CloneStages /\ "resume" \in CloneStages \ {"idle", "last"}
  BY DEF CloneStages
<1> QED
  BY <1>1, <1>2, StepHolds DEF Resume

\* The stages from the target's pod to its application
LEMMA BuildEffect ==
    ASSUME SourceAssumption, TypeOK, Owned, NEW works \in BOOLEAN
    PROVE  /\ Target(works) =>
                Goes("target", "install", works) /\ (works => clone'.holds = clone.holds /\ clone'.cut = clone.cut)
           /\ Install(works) =>
                /\ Goes("install", "services", works) /\ (works => clone'.holds = clone.holds /\ clone'.cut = clone.cut)
                /\ works /\ ~clone.deps => "deps" \in made'[clone.room]
           /\ Services(works) =>
                /\ Goes("services", "web", works) /\ (works => clone'.holds = clone.holds /\ clone'.cut = clone.cut)
                /\ works /\ clone.data => "db" \in made'[clone.room]
           /\ StartWeb(works) =>
                /\ Goes("web", "verify", works) /\ (works => clone'.holds = clone.holds /\ clone'.cut = clone.cut)
<1>1. {"target", "install", "services", "web", "verify"} \subseteq CloneStages \ {"idle", "last"}
  BY DEF CloneStages
<1>2. {"ws", "pod"} \in SUBSET Parts /\ {"deps"} \in SUBSET Parts /\ {"db"} \in SUBSET Parts /\ {"web"} \in SUBSET Parts
  BY DEF Parts
<1>3. ASSUME Target(works)
      PROVE  Goes("target", "install", works) /\ (works => clone'.holds = clone.holds /\ clone'.cut = clone.cut)
  <2>1. CloneStep("target", {"ws", "pod"}, Then("install"), works)
    BY <1>3 DEF Target
  <2>2. Goes("target", "install", works) /\ (works => clone'.holds = clone.holds /\ clone'.cut = clone.cut)
    BY <1>1, <1>2, <2>1, StepThen
  <2> QED
    BY <1>1, <2>2
<1>4. ASSUME Install(works)
      PROVE  /\ Goes("install", "services", works) /\ (works => clone'.holds = clone.holds /\ clone'.cut = clone.cut)
             /\ works /\ ~clone.deps => "deps" \in made'[clone.room]
  <2>1. PICK what \in {{"deps"}, {}} : /\ CloneStep("install", what, Then("services"), works)
                                       /\ ~clone.deps => what = {"deps"}
    BY <1>4 DEF Install
  <2>3. what \in SUBSET Parts
    BY <1>2, <2>1
  <2>2. /\ Goes("install", "services", works)
        /\ works => clone'.holds = clone.holds /\ clone'.cut = clone.cut /\ made'[clone.room] = made[clone.room] \cup what
    BY <1>1, <2>1, <2>3, StepThen
  <2> QED
    BY <1>1, <2>1, <2>2
<1>5. ASSUME Services(works)
      PROVE  /\ Goes("services", "web", works) /\ (works => clone'.holds = clone.holds /\ clone'.cut = clone.cut)
             /\ works /\ clone.data => "db" \in made'[clone.room]
  <2>1. PICK what \in {{"db"}, {}} : /\ CloneStep("services", what, Then("web"), works)
                                     /\ clone.data => what = {"db"}
    BY <1>5 DEF Services
  <2>3. what \in SUBSET Parts
    BY <1>2, <2>1
  <2>2. /\ Goes("services", "web", works)
        /\ works => clone'.holds = clone.holds /\ clone'.cut = clone.cut /\ made'[clone.room] = made[clone.room] \cup what
    BY <1>1, <2>1, <2>3, StepThen
  <2> QED
    BY <1>1, <2>1, <2>2
<1>6. ASSUME StartWeb(works)
      PROVE  Goes("web", "verify", works) /\ (works => clone'.holds = clone.holds /\ clone'.cut = clone.cut)
  <2>1. CloneStep("web", {"web"}, Then("verify"), works)
    BY <1>6 DEF StartWeb
  <2>2. Goes("web", "verify", works) /\ (works => clone'.holds = clone.holds /\ clone'.cut = clone.cut)
    BY <1>1, <1>2, <2>1, StepThen
  <2> QED
    BY <1>1, <2>2
<1> QED
  BY <1>3, <1>4, <1>5, <1>6

LEMMA VerifyCloneEffect ==
    ASSUME SourceAssumption, TypeOK, Owned, NEW up \in BOOLEAN, VerifyClone(up)
    PROVE  /\ clone.at = "verify" /\ clone.room \in Rooms /\ clone' \in CloneType /\ clone'.at = "last"
           /\ clone'.room = clone.room /\ clone'.deps = clone.deps /\ clone'.data = clone.data
           /\ clone'.holds = clone.holds /\ clone'.cut = clone.cut
           /\ OnlyRow(clone.room) /\ rows'[clone.room].st \in {"ready", "attention"}
           /\ rows'[clone.room].task = rows[clone.room].task /\ rows'[clone.room].by = rows[clone.room].by
           /\ UNCHANGED <<made, web, edits, admission, call, pool, credit, stuck, faults, events>>
<1>1. clone.at = "verify" /\ clone.room \in Rooms
  BY DEF VerifyClone, Owned, Working, Rooms
<1>2. clone' = [clone EXCEPT !.at = "last"] /\ "last" \in CloneStages /\ clone \in CloneType
  BY DEF VerifyClone, Then, CloneStages, TypeOK, CloneType
<1>3. /\ clone' \in CloneType /\ clone'.at = "last"
      /\ clone'.room = clone.room /\ clone'.deps = clone.deps /\ clone'.data = clone.data
      /\ clone'.holds = clone.holds /\ clone'.cut = clone.cut
  BY <1>2 DEF CloneType
<1>4. PICK st \in {"ready", "attention"} : rows' = [rows EXCEPT ![clone.room].st = st]
  BY DEF VerifyClone
<1>5. st \in Statuses
  BY DEF Statuses
<1> QED
  BY <1>1, <1>3, <1>4, <1>5, Turning DEF VerifyClone, OnlyRow

LEMMA VerifyCloneFailsEffect ==
    ASSUME SourceAssumption, TypeOK, Owned, VerifyCloneFails
    PROVE  /\ clone.at = "verify" /\ clone.room \in Rooms /\ clone' \in CloneType /\ clone'.at = "undo"
           /\ clone'.room = clone.room /\ clone'.deps = clone.deps /\ clone'.data = clone.data
           /\ clone'.holds = clone.holds /\ clone'.cut = clone.cut
           /\ OnlyRow(clone.room) /\ rows'[clone.room].st \in {"running", "ready", "attention"}
           /\ rows'[clone.room].task = rows[clone.room].task /\ rows'[clone.room].by = rows[clone.room].by
           /\ faults' \in 0..MaxFaults
           /\ UNCHANGED <<made, web, edits, admission, call, pool, credit, stuck, events>>
<1>1. clone.at = "verify" /\ clone.room \in Rooms /\ rows[clone.room].st = "running"
  BY DEF VerifyCloneFails, Owned, Working, Unready, Rooms
<1>2. clone' = [clone EXCEPT !.at = "undo"] /\ "undo" \in CloneStages /\ clone \in CloneType
  BY DEF VerifyCloneFails, Then, CloneStages, TypeOK, CloneType
<1>3. /\ clone' \in CloneType /\ clone'.at = "undo"
      /\ clone'.room = clone.room /\ clone'.deps = clone.deps /\ clone'.data = clone.data
      /\ clone'.holds = clone.holds /\ clone'.cut = clone.cut
  BY <1>2 DEF CloneType
<1>4. /\ OnlyRow(clone.room) /\ rows'[clone.room].st \in {"running", "ready", "attention"}
      /\ rows'[clone.room].task = rows[clone.room].task /\ rows'[clone.room].by = rows[clone.room].by
  <2>1. CASE UNCHANGED rows
    BY <1>1, <2>1 DEF OnlyRow, TypeOK, RowType
  <2>2. CASE \E st \in {"ready", "attention"} : rows' = [rows EXCEPT ![clone.room].st = st]
    <3>1. PICK st \in {"ready", "attention"} : rows' = [rows EXCEPT ![clone.room].st = st]
      BY <2>2
    <3>2. st \in Statuses
      BY DEF Statuses
    <3> QED
      BY <1>1, <3>1, <3>2, Turning DEF OnlyRow
  <2> QED
    BY <2>1, <2>2 DEF VerifyCloneFails
<1>5. faults' \in 0..MaxFaults
  BY FaultsBounded DEF VerifyCloneFails
<1> QED
  BY <1>1, <1>3, <1>4, <1>5 DEF VerifyCloneFails

LEMMA UndoCloneEffect ==
    ASSUME SourceAssumption, TypeOK, Owned, NEW resumes \in BOOLEAN, NEW works \in BOOLEAN,
           UndoClone(resumes, works)
    PROVE  /\ clone.at = "undo" /\ clone.room \in Rooms /\ clone' \in CloneType /\ clone'.at = "last"
           /\ clone'.room = clone.room /\ clone'.deps = clone.deps /\ clone'.data = clone.data
           /\ clone'.holds = (clone.holds /\ ~resumes) /\ clone'.cut = clone.cut
           /\ clone.holds \/ resumes
           /\ OnlyRow(clone.room) /\ OnlyMade(clone.room) /\ Removed(clone.room, works)
           /\ Unpaused(resumes) /\ faults' \in 0..MaxFaults
           /\ UNCHANGED <<edits, admission, call, pool, credit, events>>
<1>1. clone.at = "undo" /\ clone.room \in Rooms
  BY DEF UndoClone, Owned, Working, Rooms
<1>2. PICK holds \in BOOLEAN : holds = (clone.holds /\ ~resumes)
  BY Zenon
<1>3. clone' = [clone EXCEPT !.at = "last", !.holds = holds] /\ "last" \in CloneStages /\ clone \in CloneType
  BY <1>2 DEF UndoClone, CloneStages, TypeOK, CloneType
<1>4. /\ clone' \in CloneType /\ clone'.at = "last"
      /\ clone'.room = clone.room /\ clone'.deps = clone.deps /\ clone'.data = clone.data
      /\ clone'.holds = holds /\ clone'.cut = clone.cut
  BY <1>3 DEF CloneType
<1>5. OnlyRow(clone.room) /\ OnlyMade(clone.room)
  BY <1>1, Removing DEF UndoClone, OnlyRow, OnlyMade
<1>6. faults' \in 0..MaxFaults
  BY DEF UndoClone, TypeOK, SourceAssumption
<1> QED
  BY <1>1, <1>2, <1>4, <1>5, <1>6 DEF UndoClone

LEMMA LastEffect ==
    ASSUME SourceAssumption, TypeOK, NEW resumes \in BOOLEAN, Last(resumes)
    PROVE  /\ clone.at = "last" /\ clone' = NoClone /\ clone' \in CloneType
           /\ clone.holds \/ resumes
           /\ Unpaused(resumes) /\ faults' \in 0..MaxFaults
           /\ UNCHANGED <<rows, made, edits, admission, call, pool, credit, events>>
<1>1. NoClone \in CloneType
  BY DEF NoClone, CloneType, CloneStages
<1> QED
  BY <1>1, FaultsBounded DEF Last

LEMMA RoomEffect ==
    ASSUME SourceAssumption, TypeOK, NEW r \in Rooms
    PROVE  /\ Sleep(r) =>
                /\ ~Busy(r) /\ rows[r].st \in {"running", "ready", "attention"}
                /\ OnlyRow(r) /\ rows'[r].st = "sleeping" /\ rows'[r].task = rows[r].task /\ rows'[r].by = rows[r].by
                /\ web' = (IF r = Source THEN "down" ELSE web) /\ made' = made
                /\ events' \in 0..MaxEvents
           /\ Delete(r) =>
                /\ ~Busy(r) /\ rows[r].st \in {"ready", "attention", "sleeping", "broken"}
                /\ OnlyRow(r) /\ rows'[r].st = "deleting" /\ rows'[r].task = rows[r].task /\ rows'[r].by = rows[r].by
                /\ web' = web /\ made' = made
                /\ events' \in 0..MaxEvents
           /\ Deleted(r) =>
                /\ rows[r].st = "deleting"
                /\ OnlyRow(r) /\ rows'[r] = Gone /\ OnlyMade(r) /\ made'[r] = {}
                /\ web' = (IF r = Source THEN "down" ELSE web)
                /\ events' \in 0..MaxEvents
           /\ Sleep(r) \/ Delete(r) \/ Deleted(r) =>
                UNCHANGED <<edits, admission, call, clone, pool, credit, stuck, faults>>
<1>1. "sleeping" \in Statuses /\ "deleting" \in Statuses
  BY DEF Statuses
<1>2. Gone \in RowType
  BY DEF Gone, Row, RowType, Statuses, Kinds
<1>3. rows \in [Rooms -> RowType] /\ made \in [Rooms -> SUBSET Parts]
  BY DEF TypeOK, RowType
<1>4. Event => events' \in 0..MaxEvents
  BY DEF Event, TypeOK, SourceAssumption
<1>5. ASSUME Sleep(r)
      PROVE  /\ OnlyRow(r) /\ rows'[r].st = "sleeping" /\ rows'[r].task = rows[r].task /\ rows'[r].by = rows[r].by
             /\ events' \in 0..MaxEvents
  <2>1. rows' = [rows EXCEPT ![r].st = "sleeping"] /\ Event
    BY <1>5 DEF Sleep
  <2> QED
    BY <1>1, <1>4, <2>1, Turning DEF OnlyRow
<1>6. ASSUME Delete(r)
      PROVE  /\ OnlyRow(r) /\ rows'[r].st = "deleting" /\ rows'[r].task = rows[r].task /\ rows'[r].by = rows[r].by
             /\ events' \in 0..MaxEvents
  <2>1. rows' = [rows EXCEPT ![r].st = "deleting"] /\ Event
    BY <1>6 DEF Delete
  <2> QED
    BY <1>1, <1>4, <2>1, Turning DEF OnlyRow
<1>7. ASSUME Deleted(r)
      PROVE  OnlyRow(r) /\ rows'[r] = Gone /\ OnlyMade(r) /\ made'[r] = {} /\ events' \in 0..MaxEvents
  BY <1>2, <1>3, <1>7 DEF Deleted, OnlyRow, OnlyMade, TypeOK
<1>8. Sleep(r) => /\ ~Busy(r) /\ rows[r].st \in {"running", "ready", "attention"}
                  /\ web' = (IF r = Source THEN "down" ELSE web) /\ made' = made
  BY DEF Sleep
<1>9. Delete(r) => /\ ~Busy(r) /\ rows[r].st \in {"ready", "attention", "sleeping", "broken"}
                   /\ web' = web /\ made' = made
  BY DEF Delete
<1>10. Deleted(r) => rows[r].st = "deleting" /\ web' = (IF r = Source THEN "down" ELSE web)
  BY DEF Deleted
<1>11. Sleep(r) \/ Delete(r) \/ Deleted(r) =>
          UNCHANGED <<edits, admission, call, clone, pool, credit, stuck, faults>>
  BY DEF Sleep, Delete, Deleted
<1> QED
  BY <1>5, <1>6, <1>7, <1>8, <1>9, <1>10, <1>11

LEMMA CrashEffect ==
    ASSUME SourceAssumption, TypeOK, Crash
    PROVE  /\ rows' \in [Rooms -> RowType] /\ made' \in [Rooms -> SUBSET Parts]
           /\ \A r \in Rooms :
                 /\ rows[r].st = "deleting" => rows'[r] = Gone /\ made'[r] = {}
                 /\ rows[r].st # "deleting" => /\ made'[r] = made[r]
                                               /\ rows'[r].task = rows[r].task /\ rows'[r].by = rows[r].by
                 /\ rows[r].st \in {"none", "gone", "sleeping", "broken"} => rows'[r].st = rows[r].st
                 /\ rows[r].st \in {"preparing", "running", "ready", "attention"} =>
                       rows'[r].st \in {"broken", "sleeping"}
           /\ web' = "down"
           /\ call' \in [Calls -> CallType]
           /\ \A c \in Calls : \/ call'[c] = call[c] /\ call[c].at = "new"
                               \/ call'[c].at = "refused" /\ call'[c].lease = "none"
           /\ admission' = <<>> /\ clone' = NoClone /\ clone' \in CloneType
           /\ pool'.known = FALSE /\ pool'.slots = 0 /\ pool' \in PoolType /\ credit' = 0 /\ stuck' = 0
           /\ events' \in 0..MaxEvents
           /\ UNCHANGED <<edits, faults>>
<1> DEFINE after(st) == CASE st = "preparing" -> "broken"
                          [] st \in {"running", "ready", "attention"} -> "sleeping"
                          [] OTHER -> st
           gone == {r \in Rooms : rows[r].st = "deleting"}
<1>1. /\ rows' = [r \in Rooms |-> IF r \in gone THEN Gone ELSE [rows[r] EXCEPT !.st = after(rows[r].st)]]
      /\ made' = [r \in Rooms |-> IF r \in gone THEN {} ELSE made[r]]
      /\ call' = [c \in Calls |-> IF call[c].at = "new" THEN call[c]
                                  ELSE [call[c] EXCEPT !.at = "refused", !.room = None, !.lease = "none"]]
  BY Zenon DEF Crash
<1>2. /\ \A st \in Statuses : after(st) \in Statuses
      /\ \A st \in {"none", "gone", "sleeping", "broken"} : after(st) = st
      /\ \A st \in {"preparing", "running", "ready", "attention"} : after(st) \in {"broken", "sleeping"}
  BY DEF Statuses
<1>3. rows \in [Rooms -> RowType] /\ made \in [Rooms -> SUBSET Parts] /\ call \in [Calls -> CallType] /\ Gone \in RowType
  BY DEF TypeOK, RowType, CallType, Gone, Row, Statuses, Kinds
<1> HIDE DEF after
<1>4. \A r \in Rooms : r \notin gone => /\ rows'[r] \in RowType /\ rows'[r].st = after(rows[r].st)
                                         /\ rows'[r].task = rows[r].task /\ rows'[r].by = rows[r].by
                                         /\ made'[r] = made[r]
  BY <1>1, <1>2, <1>3 DEF RowType
<1>5. \A r \in Rooms : r \in gone => rows'[r] = Gone /\ made'[r] = {}
  BY <1>1
<1>6. rows' \in [Rooms -> RowType] /\ made' \in [Rooms -> SUBSET Parts]
  BY <1>1, <1>3, <1>4, <1>5
<1>7. \A r \in Rooms :
         /\ rows[r].st = "deleting" => rows'[r] = Gone /\ made'[r] = {}
         /\ rows[r].st # "deleting" => /\ made'[r] = made[r]
                                       /\ rows'[r].task = rows[r].task /\ rows'[r].by = rows[r].by
         /\ rows[r].st \in {"none", "gone", "sleeping", "broken"} => rows'[r].st = rows[r].st
         /\ rows[r].st \in {"preparing", "running", "ready", "attention"} =>
               rows'[r].st \in {"broken", "sleeping"}
  BY <1>2, <1>4, <1>5
<1>8. "refused" \in Stages
  BY DEF Stages
<1>9. call' \in [Calls -> CallType]
  BY <1>1, <1>3, <1>8 DEF CallType
<1>10. \A c \in Calls : \/ call'[c] = call[c] /\ call[c].at = "new"
                        \/ call'[c].at = "refused" /\ call'[c].lease = "none"
  BY <1>1, <1>3 DEF CallType
<1>11. pool' = [known |-> FALSE, slots |-> 0] /\ Event
  BY Zenon DEF Crash
<1>12. pool'.known = FALSE /\ pool'.slots = 0 /\ pool' \in PoolType
  BY <1>11 DEF PoolType, SourceAssumption
<1>13. events' \in 0..MaxEvents
  BY <1>11 DEF Event, TypeOK, SourceAssumption
<1>14. NoClone \in CloneType
  BY DEF NoClone, CloneType, CloneStages
<1>15. /\ web' = "down" /\ admission' = <<>> /\ clone' = NoClone /\ credit' = 0 /\ stuck' = 0
       /\ UNCHANGED <<edits, faults>>
  BY DEF Crash
<1> QED
  BY <1>6, <1>7, <1>9, <1>10, <1>12, <1>13, <1>14, <1>15

\* A step of a creation that ends at the next one, or fails
Makes(c, works) == Import(c, works) \/ (PodFails(c) /\ ~works) \/ Setup(c, works)

LEMMA MakesEffect ==
    ASSUME SourceAssumption, TypeOK, Owned, NEW c \in Calls, NEW works \in BOOLEAN, Makes(c, works)
    PROVE  /\ OnlyCall(c) /\ call[c].at \in {"import", "pod", "setup"} /\ call[c].room \in Rooms
           /\ \/ call[c].at = "import" /\ call'[c].at = "pod"
              \/ call[c].at = "setup" /\ call'[c].at = "verify"
              \/ call'[c].at = "failed"
           /\ call'[c].room = call[c].room
           /\ call'[c].lease = call[c].lease /\ call'[c].kind = call[c].kind /\ call'[c].task = call[c].task
           /\ OnlyMade(call[c].room) /\ faults' \in 0..MaxFaults
           /\ UNCHANGED <<rows, web, edits, admission, clone, pool, credit, stuck, events>>
<1>1. /\ "import" \in Making /\ "pod" \in Making /\ "setup" \in Making
      /\ "pod" \in Stages /\ "setup" \in Stages /\ "verify" \in Stages
  BY DEF Making, Stages
<1>2. {"ws"} \in SUBSET Parts /\ {"pod", "web"} \in SUBSET Parts /\ {"deps"} \in SUBSET Parts
  BY DEF Parts
<1>3. CASE Import(c, works)
  <2>1. Make(c, "import", {"ws"}, "pod", works) /\ UNCHANGED <<rows, pool, credit>>
    BY <1>3 DEF Import
  <2> QED
    BY <1>1, <1>2, <2>1, MakeEffect
<1>4. CASE PodFails(c) /\ ~works
  <2>1. Make(c, "pod", {"pod", "web"}, "setup", FALSE) /\ UNCHANGED <<rows, pool, credit>>
    BY <1>4 DEF PodFails
  <2> QED
    BY <1>1, <1>2, <2>1, MakeEffect
<1>5. CASE Setup(c, works)
  <2>1. Make(c, "setup", {"deps"}, "verify", works) /\ UNCHANGED <<rows, pool, credit>>
    BY <1>5 DEF Setup
  <2> QED
    BY <1>1, <1>2, <2>1, MakeEffect
<1> QED
  BY <1>3, <1>4, <1>5 DEF Makes

LEMMA UnpausedType ==
    ASSUME TypeOK, NEW works \in BOOLEAN, Unpaused(works)
    PROVE  web' \in {"running", "paused", "down"} /\ stuck' \in Nat
BY DEF Unpaused, TypeOK

\* A stage of the clone, which goes on or fails
Stage(works) ==
    \/ Pause(works) \/ CopyWorkspace(works) \/ CopyDeps(works) \/ CopyData(works) \/ Resume(works)
    \/ Target(works) \/ Install(works) \/ Services(works) \/ StartWeb(works)

\* The stages that follow one another; the last one writes the row.
Follows == {<<"pause", "workspace">>, <<"workspace", "deps">>, <<"deps", "data">>, <<"data", "resume">>,
            <<"resume", "target">>, <<"target", "install">>, <<"install", "services">>, <<"services", "web">>,
            <<"web", "verify">>}

LEMMA StageEffect ==
    ASSUME SourceAssumption, TypeOK, Owned, NEW works \in BOOLEAN, Stage(works)
    PROVE  /\ \E step \in Follows : Goes(step[1], step[2], works)
           /\ web' \in {"running", "paused", "down"} /\ stuck' \in Nat
           /\ IF clone.at = "web" /\ works
                THEN /\ OnlyRow(clone.room) /\ rows'[clone.room].st = "running"
                     /\ rows'[clone.room].task = rows[clone.room].task
                     /\ rows'[clone.room].by = rows[clone.room].by
                ELSE UNCHANGED rows
<1>1. web \in {"running", "paused", "down"} /\ stuck \in Nat
  BY DEF TypeOK
<1>2. CASE Pause(works)
  <2>1. /\ Goes("pause", "workspace", works) /\ UNCHANGED <<rows, stuck>>
        /\ web' = IF works /\ web = "running" THEN "paused" ELSE web
    BY <1>2, PauseEffect
  <2> QED
    BY <1>1, <2>1 DEF Follows, Goes
<1>3. CASE CopyWorkspace(works)
  <2>1. Goes("workspace", "deps", works) /\ UNCHANGED <<rows, web, stuck>>
    BY <1>3, CopyEffect DEF CopyWorkspace
  <2> QED
    BY <1>1, <2>1 DEF Follows, Goes
<1>4. CASE CopyDeps(works)
  <2>1. Goes("deps", "data", works) /\ UNCHANGED <<rows, web, stuck>>
    BY <1>4, CopyEffect DEF CopyDeps
  <2> QED
    BY <1>1, <2>1 DEF Follows, Goes
<1>5. CASE CopyData(works)
  <2>1. Goes("data", "resume", works) /\ UNCHANGED <<rows, web, stuck>>
    BY <1>5, CopyEffect DEF CopyData
  <2> QED
    BY <1>1, <2>1 DEF Follows, Goes
<1>6. CASE Resume(works)
  <2>1. Goes("resume", "target", works) /\ UNCHANGED rows /\ Unpaused(works)
    BY <1>6, ResumeEffect
  <2> QED
    BY <2>1, UnpausedType DEF Follows, Goes
<1>7. CASE Target(works)
  <2>1. Goes("target", "install", works) /\ UNCHANGED <<rows, web, stuck>>
    BY <1>7, BuildEffect DEF Target
  <2> QED
    BY <1>1, <2>1 DEF Follows, Goes
<1>8. CASE Install(works)
  <2>1. Goes("install", "services", works) /\ UNCHANGED <<rows, web, stuck>>
    BY <1>8, BuildEffect DEF Install
  <2> QED
    BY <1>1, <2>1 DEF Follows, Goes
<1>9. CASE Services(works)
  <2>1. Goes("services", "web", works) /\ UNCHANGED <<rows, web, stuck>>
    BY <1>9, BuildEffect DEF Services
  <2> QED
    BY <1>1, <2>1 DEF Follows, Goes
<1>10. CASE StartWeb(works)
  <2>1. Goes("web", "verify", works) /\ UNCHANGED <<web, stuck>>
    BY <1>10, BuildEffect DEF StartWeb
  <2>2. CASE works
    <3>1. rows' = [rows EXCEPT ![clone.room].st = "running"] /\ "running" \in Statuses /\ clone.room \in Rooms
      BY <1>10, <2>1, <2>2 DEF StartWeb, Statuses, Goes
    <3> QED
      BY <1>1, <2>1, <2>2, <3>1, Turning DEF Follows, Goes, OnlyRow
  <2>3. CASE ~works
    BY <1>1, <1>10, <2>1, <2>3 DEF Follows, Goes, StartWeb
  <2> QED
    BY <2>2, <2>3
<1> QED
  BY <1>2, <1>3, <1>4, <1>5, <1>6, <1>7, <1>8, <1>9, <1>10 DEF Stage

-----------------------------------------------------------------------------
LEMMA TypeStep ==
    ASSUME SourceAssumption, IInv, [Next]_vars
    PROVE  TypeOK'
<1> USE DEF IInv
<1> DEFINE Typed == /\ rows' \in [Rooms -> RowType] /\ made' \in [Rooms -> SUBSET Parts]
                    /\ web' \in {"running", "paused", "down"} /\ edits' \in 0..MaxEdits
                    /\ admission' \in Seq(Calls) /\ call' \in [Calls -> CallType]
                    /\ clone' \in CloneType /\ pool' \in PoolType
                    /\ credit' \in Nat /\ stuck' \in Nat /\ faults' \in 0..MaxFaults /\ events' \in 0..MaxEvents
<1>a. /\ rows \in [Rooms -> RowType] /\ made \in [Rooms -> SUBSET Parts]
      /\ web \in {"running", "paused", "down"} /\ edits \in 0..MaxEdits
      /\ admission \in Seq(Calls) /\ call \in [Calls -> CallType]
      /\ clone \in CloneType /\ pool \in PoolType
      /\ credit \in Nat /\ stuck \in Nat /\ faults \in 0..MaxFaults /\ events \in 0..MaxEvents
  BY DEF TypeOK, RowType, CallType, CloneType, PoolType
<1>b. Typed => TypeOK'
  BY DEF TypeOK, RowType, CallType, CloneType, PoolType
<1> USE DEF OnlyCall, OnlyRow, OnlyMade
<1>1. CASE UNCHANGED vars
  BY <1>1, <1>a, <1>b DEF vars
<1>2. ASSUME NEW c \in Calls, NEW kind \in {"acquire", "create", "desk"}, NEW task \in Tasks \cup {None},
             Enter(c, kind, task)
      PROVE  TypeOK'
  BY <1>2, <1>a, <1>b, EnterEffect
<1>3. ASSUME NEW c \in Calls, Admit(c)
      PROVE  TypeOK'
  BY <1>3, <1>a, <1>b, AdmitEffect
<1>4. ASSUME NEW c \in Calls, NEW works \in BOOLEAN, Wake(c, works)
      PROVE  TypeOK'
  <2>1. call[c].room \in Rooms
    BY <1>4 DEF Wake, Handed, At
  <2>2. web' \in {"running", "paused", "down"}
    BY <1>4, <1>a, <2>1, WakeEffect
  <2> QED
    BY <1>4, <1>a, <1>b, <2>1, <2>2, WakeEffect
<1>5. ASSUME NEW c \in Calls, Detect(c)
      PROVE  TypeOK'
  BY <1>5, <1>a, <1>b, DetectEffect
<1>6. ASSUME NEW c \in Calls, DetectFails(c)
      PROVE  TypeOK'
  BY <1>6, <1>a, <1>b, DetectFailsEffect
<1>7. ASSUME NEW c \in Calls, NEW works \in BOOLEAN, Makes(c, works)
      PROVE  TypeOK'
  BY <1>7, <1>a, <1>b, MakesEffect
<1>8. ASSUME NEW c \in Calls, Pod(c)
      PROVE  TypeOK'
  <2>1. credit' \in Nat
    <3>1. Holder(c) => pool.slots < credit /\ pool.slots \in Nat
      BY <1>a DEF Earned, PoolType, SourceAssumption
    <3> QED
      BY <1>8, <1>a, <3>1, PodEffect
  <2> QED
    BY <1>8, <1>a, <1>b, <2>1, PodEffect
<1>9. ASSUME NEW c \in Calls, NEW up \in BOOLEAN, Verify(c, up)
      PROVE  TypeOK'
  <2>1. credit' \in Nat
    BY <1>9, <1>a, VerifyEffect
  <2> QED
    BY <1>9, <1>a, <1>b, <2>1, VerifyEffect
<1>10. ASSUME NEW c \in Calls, NEW works \in BOOLEAN, Undo(c, works)
       PROVE  TypeOK'
  BY <1>10, <1>a, <1>b, UndoEffect
<1>11. ASSUME NEW c \in Calls, NEW deps \in BOOLEAN, NEW data \in BOOLEAN, StartClone(c, deps, data)
       PROVE  TypeOK'
  BY <1>11, <1>a, <1>b, StartCloneEffect
<1>12. ASSUME NEW works \in BOOLEAN, Stage(works)
       PROVE  TypeOK'
  <2>1. PICK step \in Follows : Goes(step[1], step[2], works)
    BY <1>12, StageEffect
  <2>2. rows' \in [Rooms -> RowType] /\ web' \in {"running", "paused", "down"} /\ stuck' \in Nat
    BY <1>12, <1>a, StageEffect
  <2> QED
    BY <1>a, <1>b, <2>1, <2>2 DEF Goes
<1>13. ASSUME NEW up \in BOOLEAN, VerifyClone(up)
       PROVE  TypeOK'
  BY <1>13, <1>a, <1>b, VerifyCloneEffect
<1>14. ASSUME NEW resumes \in BOOLEAN, NEW works \in BOOLEAN, UndoClone(resumes, works)
       PROVE  TypeOK'
  BY <1>14, <1>a, <1>b, UndoCloneEffect, UnpausedType
<1>15. ASSUME NEW resumes \in BOOLEAN, Last(resumes)
       PROVE  TypeOK'
  BY <1>15, <1>a, <1>b, LastEffect, UnpausedType
<1>16. ASSUME NEW r \in Rooms, Sleep(r) \/ Delete(r) \/ Deleted(r)
       PROVE  TypeOK'
  <2>1. web' \in {"running", "paused", "down"} /\ events' \in 0..MaxEvents
    BY <1>16, <1>a, RoomEffect
  <2>2. rows' \in [Rooms -> RowType] /\ made' \in [Rooms -> SUBSET Parts]
    BY <1>16, <1>a, RoomEffect
  <2>3. UNCHANGED <<edits, admission, call, clone, pool, credit, stuck, faults>>
    BY <1>16, RoomEffect
  <2> QED
    BY <1>a, <1>b, <2>1, <2>2, <2>3
<1>17. CASE Edit
  <2>1. edits' \in 0..MaxEdits /\ UNCHANGED <<rows, made, web, admission, call, clone, pool, credit, stuck, faults, events>>
    BY <1>17, <1>a DEF Edit, SourceAssumption
  <2> QED
    BY <1>a, <1>b, <2>1
<1>18. CASE Forget
  <2>1. /\ pool' \in PoolType /\ events' \in 0..MaxEvents
        /\ UNCHANGED <<rows, made, web, edits, admission, call, clone, credit, stuck, faults>>
    BY <1>18, <1>a DEF Forget, Event, PoolType, SourceAssumption
  <2> QED
    BY <1>a, <1>b, <2>1
<1>19. CASE Crash
  <2>1. admission' \in Seq(Calls) /\ web' \in {"running", "paused", "down"} /\ credit' \in Nat /\ stuck' \in Nat
    BY <1>19, CrashEffect
  <2> QED
    BY <1>19, <1>a, <1>b, <2>1, CrashEffect
<1>20. CASE VerifyCloneFails
  BY <1>20, <1>a, <1>b, VerifyCloneFailsEffect
<1> QED
  BY <1>1, <1>2, <1>3, <1>4, <1>5, <1>6, <1>7, <1>8, <1>9, <1>10, <1>11, <1>12, <1>13, <1>14, <1>15, <1>16,
     <1>17, <1>18, <1>19, <1>20 DEF Next, Creates, Clones, Makes, Stage

-----------------------------------------------------------------------------
(* The queue *)

\* Beside the head nobody is admitted.
LEMMA OneAdmitted ==
    ASSUME HeadOnly, NEW c \in Calls, At(c, Admitted) \/ Turn(c)
    PROVE  \A d \in Calls \ {c} : ~At(d, Admitted)
BY DEF HeadOnly, Turn

LEMMA HeadOnlyStep ==
    ASSUME SourceAssumption, IInv, [Next]_vars
    PROVE  HeadOnly'
<1> USE DEF IInv
<1>a. /\ \A at \in Making : at \in Admitted
      /\ "detecting" \in Admitted /\ "waking" \in Admitted
      /\ "import" \in Admitted /\ "pod" \in Admitted /\ "setup" \in Admitted /\ "verify" \in Admitted /\ "failed" \in Admitted
      /\ "new" \notin Admitted /\ "queued" \notin Admitted /\ "handed" \notin Admitted /\ "refused" \notin Admitted
      /\ "early" \notin Admitted /\ "cloning" \notin Admitted
  BY DEF Admitted, Making
\* Who leaves leaves nobody admitted.
<1>1. ASSUME NEW c \in Calls, OnlyCall(c), At(c, Admitted) \/ Turn(c), call'[c].at \in {"handed", "early", "refused"}
      PROVE  HeadOnly'
  <2>1. \A d \in Calls \ {c} : ~At(d, Admitted)
    BY <1>1, OneAdmitted
  <2> QED
    BY <1>1, <1>a, <2>1 DEF HeadOnly, At, OnlyCall
\* Who goes on stays the head.
<1>2. ASSUME NEW c \in Calls, OnlyCall(c), At(c, Admitted) \/ Turn(c), UNCHANGED admission
      PROVE  HeadOnly'
  BY <1>2 DEF HeadOnly, At, OnlyCall, Turn
\* Who was not in the queue does not come to its head.
<1>3. ASSUME NEW c \in Calls, OnlyCall(c), call'[c].at \in {"queued", "cloning"},
             admission' = admission \/ admission' = Append(admission, c)
      PROVE  HeadOnly'
  <2>1. admission # <<>> => admission' # <<>> /\ Head(admission') = Head(admission)
    <3>1. admission \in Seq(Calls)
      BY DEF TypeOK
    <3> QED
      BY <1>3, <3>1, HeadTailAppend, AppendProperties
  <2> QED
    BY <1>3, <1>a, <2>1 DEF HeadOnly, At, OnlyCall
<1>4. CASE UNCHANGED <<call, admission>>
  BY <1>4 DEF HeadOnly, At
<1>5. ASSUME NEW c \in Calls, NEW kind \in {"acquire", "create", "desk"}, NEW task \in Tasks \cup {None},
             Enter(c, kind, task)
      PROVE  HeadOnly'
  BY <1>3, <1>5, EnterEffect
<1>6. ASSUME NEW c \in Calls, Admit(c)
      PROVE  HeadOnly'
  <2>1. OnlyCall(c) /\ Turn(c) /\ (call'[c].at \in {"handed", "early", "refused"} \/ UNCHANGED admission)
    BY <1>6, AdmitEffect
  <2> QED
    BY <1>1, <1>2, <2>1
<1>7. ASSUME NEW c \in Calls, NEW works \in BOOLEAN, Wake(c, works)
      PROVE  HeadOnly'
  <2>1. call[c].at = "waking" /\ call[c].room \in Rooms
    BY <1>7 DEF Wake, Handed, At
  <2>2. OnlyCall(c) /\ call'[c].at \in {"handed", "refused"}
    BY <1>7, <2>1, WakeEffect
  <2> QED
    BY <1>1, <1>a, <2>1, <2>2 DEF At
<1>8. ASSUME NEW c \in Calls, Detect(c)
      PROVE  HeadOnly'
  BY <1>2, <1>8, <1>a, DetectEffect DEF At
<1>9. ASSUME NEW c \in Calls, DetectFails(c)
      PROVE  HeadOnly'
  BY <1>1, <1>9, <1>a, DetectFailsEffect DEF At
<1>10. ASSUME NEW c \in Calls, NEW works \in BOOLEAN, Makes(c, works)
       PROVE  HeadOnly'
  <2>1. OnlyCall(c) /\ call[c].at \in {"import", "pod", "setup"} /\ UNCHANGED admission
    BY <1>10, MakesEffect
  <2> QED
    BY <1>2, <1>a, <2>1 DEF At
<1>11. ASSUME NEW c \in Calls, Pod(c)
       PROVE  HeadOnly'
  BY <1>2, <1>11, <1>a, PodEffect DEF At
<1>12. ASSUME NEW c \in Calls, NEW up \in BOOLEAN, Verify(c, up)
       PROVE  HeadOnly'
  BY <1>1, <1>12, <1>a, VerifyEffect DEF At
<1>13. ASSUME NEW c \in Calls, NEW works \in BOOLEAN, Undo(c, works)
       PROVE  HeadOnly'
  BY <1>1, <1>13, <1>a, UndoEffect DEF At
<1>14. ASSUME NEW c \in Calls, NEW deps \in BOOLEAN, NEW data \in BOOLEAN, StartClone(c, deps, data)
       PROVE  HeadOnly'
  BY <1>3, <1>14, StartCloneEffect
<1>15. ASSUME NEW works \in BOOLEAN, Stage(works)
       PROVE  HeadOnly'
  <2>1. PICK step \in Follows : Goes(step[1], step[2], works)
    BY <1>15, StageEffect
  <2> QED
    BY <1>4, <2>1 DEF Goes
<1>16. CASE Crash
  BY <1>16, <1>a, CrashEffect DEF HeadOnly, At
<1>17. CASE UNCHANGED vars \/ (\E r \in Rooms : Sleep(r) \/ Delete(r) \/ Deleted(r)) \/ Edit \/ Forget
            \/ (\E up \in BOOLEAN : VerifyClone(up)) \/ VerifyCloneFails \/ (\E resumes \in BOOLEAN : Last(resumes))
            \/ (\E resumes, works \in BOOLEAN : UndoClone(resumes, works))
  BY <1>4, <1>17 DEF vars, Sleep, Delete, Deleted, Edit, Forget, VerifyClone, VerifyCloneFails, Last, UndoClone
<1> QED
  BY <1>5, <1>6, <1>7, <1>8, <1>9, <1>10, <1>11, <1>12, <1>13, <1>14, <1>15, <1>16, <1>17
  DEF Next, Creates, Clones, Makes, Stage

-----------------------------------------------------------------------------
(* The rows *)

\* The clone does not make what a call makes.
LEMMA MakersApart ==
    ASSUME SourceAssumption, TypeOK, Owned, NEW c \in Calls, At(c, Making)
    PROVE  clone.at # "idle" => call[c].room # clone.room
<1>1. call[c].kind # "clone"
  BY DEF TypeOK, Kinds
<1> QED
  BY <1>1 DEF Owned, Working

\* Whose lock is free is nobody's target.
LEMMA FreeRoom ==
    ASSUME NEW r \in Rooms, ~Busy(r)
    PROVE  /\ \A c \in Calls : At(c, Making) => call[c].room # r
           /\ clone.at # "idle" => r # clone.room /\ r # Source
BY DEF Busy, At

\* What happens to a Room that nobody makes, while calls come and go that make nothing.
LEMMA OwnedAside ==
    ASSUME SourceAssumption, TypeOK, Owned, NEW r \in Rooms, OnlyRow(r), OnlyMade(r), UNCHANGED clone,
           \A c \in Calls : \/ ~At(c, Making) /\ ~At(c, Making)'
                            \/ call'[c] = call[c] /\ (At(c, Making) => call[c].room # r),
           clone.at # "idle" => r # clone.room,
           rows'[r].st \notin {"preparing", "running"},
           made'[r] # {} => There(r)',
           ~There(r)' => rows'[r].by = "none"
    PROVE  Owned'
<1>1. \A c \in Calls : At(c, Making)' =>
          /\ call'[c].room \in Fresh
          /\ rows'[call'[c].room].st \in {"preparing", "running"}
          /\ rows'[call'[c].room].by = call'[c].kind
  BY DEF Owned, OnlyRow, At, Rooms
<1>2. Working' => /\ clone'.room \in Fresh
                  /\ rows'[clone'.room].by = "clone"
                  /\ rows'[clone'.room].st \in Unready(clone'.at)
  BY DEF Owned, OnlyRow, Working, Rooms
<1>3. clone'.at = "last" => /\ clone'.room \in Fresh
                            /\ rows'[clone'.room].st \in {"ready", "attention", "broken", "gone"}
  BY DEF Owned, OnlyRow, Rooms
<1>4. ASSUME NEW q \in Rooms
      PROVE  /\ rows'[q].st \in {"preparing", "running"} =>
                   \/ Working' /\ q = clone'.room
                   \/ \E c \in Calls : At(c, Making)' /\ call'[c].room = q
             /\ made'[q] # {} => There(q)'
             /\ ~There(q)' => rows'[q].by = "none"
  <2>1. CASE q = r
    BY <2>1
  <2>2. CASE q # r
    <3>1. rows'[q] = rows[q] /\ made'[q] = made[q]
      BY <2>2 DEF OnlyRow, OnlyMade
    <3>2. \A c \in Calls : At(c, Making) => At(c, Making)' /\ call'[c].room = call[c].room
      BY DEF At
    <3> QED
      BY <3>1, <3>2 DEF Owned, Working, There
  <2> QED
    BY <2>1, <2>2
<1> QED
  BY <1>1, <1>2, <1>3, <1>4 DEF Owned

\* The maker of a Room, a call or the clone, goes on or ends.
LEMMA OwnedMaker ==
    ASSUME SourceAssumption, TypeOK, Owned, HeadOnly, NEW c \in Calls, At(c, Making), OnlyCall(c),
           OnlyRow(call[c].room), OnlyMade(call[c].room), UNCHANGED clone,
           IF At(c, Making)'
             THEN /\ call'[c].room = call[c].room /\ call'[c].kind = call[c].kind
                  /\ rows'[call[c].room].st \in {"preparing", "running"}
                  /\ rows'[call[c].room].by = rows[call[c].room].by
             ELSE rows'[call[c].room].st \notin {"preparing", "running"},
           made'[call[c].room] # {} => rows'[call[c].room].st \notin {"none", "gone"},
           rows'[call[c].room].st \in {"none", "gone"} => rows'[call[c].room].by = "none"
    PROVE  Owned'
<1> DEFINE r == call[c].room
<1>0. r \in Rooms /\ r \in Fresh /\ rows[r].by = call[c].kind
  BY DEF Owned, Rooms
<1>a. \A d \in Calls \ {c} : ~At(d, Making) /\ call'[d] = call[d]
  BY OneAdmitted DEF At, Admitted, OnlyCall
<1>b. clone.at # "idle" => r # clone.room
  BY MakersApart
<1>1. \A d \in Calls : At(d, Making)' =>
          /\ call'[d].room \in Fresh
          /\ rows'[call'[d].room].st \in {"preparing", "running"}
          /\ rows'[call'[d].room].by = call'[d].kind
  BY <1>0, <1>a DEF At
<1>2. Working' => /\ clone'.room \in Fresh
                  /\ rows'[clone'.room].by = "clone"
                  /\ rows'[clone'.room].st \in Unready(clone'.at)
  BY <1>b DEF Owned, OnlyRow, Working, Rooms
<1>3. clone'.at = "last" => /\ clone'.room \in Fresh
                            /\ rows'[clone'.room].st \in {"ready", "attention", "broken", "gone"}
  BY <1>b DEF Owned, OnlyRow, Rooms
<1>4. ASSUME NEW q \in Rooms
      PROVE  /\ rows'[q].st \in {"preparing", "running"} =>
                   \/ Working' /\ q = clone'.room
                   \/ \E d \in Calls : At(d, Making)' /\ call'[d].room = q
             /\ made'[q] # {} => There(q)'
             /\ ~There(q)' => rows'[q].by = "none"
  <2>1. CASE q = r
    <3>1. (made'[q] # {} => There(q)') /\ (~There(q)' => rows'[q].by = "none")
      BY <2>1 DEF There
    <3>2. CASE At(c, Making)'
      <4>1. call'[c].room = r
        BY <3>2
      <4> QED
        BY <2>1, <3>1, <3>2, <4>1
    <3>3. CASE ~At(c, Making)'
      <4>1. rows'[r].st \notin {"preparing", "running"}
        BY <3>3
      <4> QED
        BY <2>1, <3>1, <4>1
    <3> QED
      BY <3>2, <3>3
  <2>2. CASE q # r
    <3>1. rows'[q] = rows[q] /\ made'[q] = made[q]
      BY <2>2 DEF OnlyRow, OnlyMade
    <3>2. \A d \in Calls : At(d, Making) => call[d].room # q
      BY <1>a, <2>2
    <3> QED
      BY <3>1, <3>2 DEF Owned, Working, There
  <2> QED
    BY <2>1, <2>2
<1> QED
  BY <1>1, <1>2, <1>3, <1>4 DEF Owned

LEMMA OwnedClone ==
    ASSUME SourceAssumption, TypeOK, Owned, Working, UNCHANGED call,
           OnlyRow(clone.room), OnlyMade(clone.room), clone'.room = clone.room, clone'.at # "idle",
           IF Working'
             THEN /\ rows'[clone.room].st \in Unready(clone'.at)
                  /\ rows'[clone.room].by = rows[clone.room].by
             ELSE rows'[clone.room].st \in {"ready", "attention", "broken", "gone"},
           made'[clone.room] # {} => rows'[clone.room].st \notin {"none", "gone"},
           rows'[clone.room].st \in {"none", "gone"} => rows'[clone.room].by = "none"
    PROVE  Owned'
<1> DEFINE r == clone.room
<1>0. r \in Rooms /\ r \in Fresh /\ rows[r].by = "clone" /\ clone.at # "idle"
  BY DEF Owned, Rooms, Working
<1>a. \A d \in Calls : At(d, Making) => call[d].room # r
  BY <1>0, MakersApart
<1>1. \A d \in Calls : At(d, Making)' =>
          /\ call'[d].room \in Fresh
          /\ rows'[call'[d].room].st \in {"preparing", "running"}
          /\ rows'[call'[d].room].by = call'[d].kind
  BY <1>a DEF At, Owned, OnlyRow, Rooms
<1>2. Working' => /\ clone'.room \in Fresh
                  /\ rows'[clone'.room].by = "clone"
                  /\ rows'[clone'.room].st \in Unready(clone'.at)
  BY <1>0
<1>3. clone'.at = "last" => /\ clone'.room \in Fresh
                            /\ rows'[clone'.room].st \in {"ready", "attention", "broken", "gone"}
  BY <1>0 DEF Working
<1>4. ASSUME NEW q \in Rooms
      PROVE  /\ rows'[q].st \in {"preparing", "running"} =>
                   \/ Working' /\ q = clone'.room
                   \/ \E d \in Calls : At(d, Making)' /\ call'[d].room = q
             /\ made'[q] # {} => There(q)'
             /\ ~There(q)' => rows'[q].by = "none"
  <2>1. CASE q = r
    BY <2>1 DEF There
  <2>2. CASE q # r
    <3>1. rows'[q] = rows[q] /\ made'[q] = made[q]
      BY <2>2 DEF OnlyRow, OnlyMade
    <3> QED
      BY <2>2, <3>1 DEF Owned, Working, There, At
  <2> QED
    BY <2>1, <2>2
<1> QED
  BY <1>1, <1>2, <1>3, <1>4 DEF Owned

\* Calls that make nothing come, go and wait.
LEMMA OwnedKept ==
    ASSUME Owned, UNCHANGED <<rows, made, clone>>,
           \A c \in Calls : (~At(c, Making) /\ ~At(c, Making)') \/ call'[c] = call[c]
    PROVE  Owned'
<1>1. \A c \in Calls : /\ At(c, Making)' <=> At(c, Making)
                       /\ At(c, Making) => call'[c] = call[c]
  BY DEF At
<1>2. /\ Working' <=> Working
      /\ \A r \in Rooms : There(r)' <=> There(r)
  BY DEF Working, There
<1> QED
  BY <1>1, <1>2 DEF Owned

LEMMA OwnedStep ==
    ASSUME SourceAssumption, IInv, [Next]_vars
    PROVE  Owned'
<1> USE DEF IInv
<1>a. /\ "new" \notin Making /\ "queued" \notin Making /\ "detecting" \notin Making /\ "waking" \notin Making
      /\ "handed" \notin Making /\ "early" \notin Making /\ "refused" \notin Making /\ "cloning" \notin Making
      /\ "import" \in Making /\ "pod" \in Making /\ "setup" \in Making /\ "verify" \in Making /\ "failed" \in Making
  BY DEF Making
<1>b. rows \in [Rooms -> RowType] /\ made \in [Rooms -> SUBSET Parts]
  BY DEF TypeOK, RowType
\* A call that is not making and does not start to
<1>1. ASSUME NEW c \in Calls, OnlyCall(c), call[c].at \notin Making, call'[c].at \notin Making,
             UNCHANGED <<rows, made, clone>>
      PROVE  Owned'
  BY <1>1, OwnedKept DEF At, OnlyCall
<1>2. CASE UNCHANGED <<call, rows, made, clone>>
  BY <1>2, OwnedKept DEF At
<1>3. ASSUME NEW c \in Calls, NEW kind \in {"acquire", "create", "desk"}, NEW task \in Tasks \cup {None},
             Enter(c, kind, task)
      PROVE  Owned'
  BY <1>1, <1>3, <1>a, EnterEffect
<1>4. ASSUME NEW c \in Calls, Admit(c)
      PROVE  Owned'
  BY <1>1, <1>4, <1>a, AdmitEffect DEF Turn
<1>5. ASSUME NEW c \in Calls, NEW works \in BOOLEAN, Wake(c, works)
      PROVE  Owned'
  <2>1. call[c].at = "waking" /\ call[c].room \in Rooms
    BY <1>5 DEF Wake, Handed, At
  <2>2. /\ OnlyCall(c) /\ call'[c].at \in {"handed", "refused"} /\ UNCHANGED <<made, clone>>
        /\ ~Busy(call[c].room) /\ OnlyRow(call[c].room)
    BY <1>5, <2>1, WakeEffect
  <2>3. CASE UNCHANGED rows
    BY <1>1, <1>a, <2>1, <2>2, <2>3
  <2>4. CASE rows[call[c].room].st = "sleeping" /\ rows'[call[c].room].st \in {"ready", "broken"}
    <3> DEFINE r == call[c].room
    <3>1. OnlyMade(r) /\ rows'[r].st \notin {"none", "gone"}
      BY <1>b, <2>2, <2>4 DEF OnlyMade
    <3>2. clone.at # "idle" => r # clone.room
      BY <2>1, <2>2, FreeRoom
    <3>3. \A d \in Calls : \/ ~At(d, Making) /\ ~At(d, Making)'
                           \/ call'[d] = call[d] /\ (At(d, Making) => call[d].room # r)
      BY <1>a, <2>1, <2>2, FreeRoom DEF At, OnlyCall
    <3>4. rows'[r].st \notin {"preparing", "running"}
      BY <2>4
    <3> HIDE DEF r
    <3>5. r \in Rooms /\ OnlyRow(r) /\ UNCHANGED clone
      BY <2>1, <2>2 DEF r
    <3> QED
      BY <3>1, <3>2, <3>3, <3>4, <3>5, OwnedAside DEF There
  <2> QED
    BY <1>5, <2>1, <2>3, <2>4, WakeEffect
<1>6. ASSUME NEW c \in Calls, Detect(c)
      PROVE  Owned'
  <2>1. PICK r \in Minted : r = call'[c].room
    BY <1>6, DetectEffect
  <2>2. /\ OnlyCall(c) /\ OnlyRow(r) /\ UNCHANGED <<made, clone>>
        /\ call[c].at = "detecting" /\ call'[c].at = "import" /\ call'[c].kind = call[c].kind
        /\ rows'[r].st = "preparing" /\ rows'[r].by = call[c].kind
    <3>1. OnlyRow(call'[c].room) /\ rows'[call'[c].room] = Row("preparing", call[c].task, call[c].kind)
      BY <1>6, DetectEffect
    <3>2. OnlyRow(r) /\ rows'[r] = Row("preparing", call[c].task, call[c].kind)
      BY <2>1, <3>1 DEF OnlyRow
    <3> QED
      BY <1>6, <3>2, DetectEffect DEF Row
  <2>3. r \in Fresh /\ r \in Rooms /\ rows[r].st = "none"
    BY <2>1, MintedIs
  <2>4. clone.at # "idle" => clone.room # r
    BY <2>3 DEF Owned, Working, Unready
  <2>5. \A d \in Calls \ {c} : At(d, Making)' => /\ At(d, Making) /\ call'[d] = call[d]
                                                /\ call[d].room # r /\ rows'[call[d].room] = rows[call[d].room]
    BY <2>2, <2>3 DEF At, OnlyCall, Owned, OnlyRow, Rooms
  <2>6. \A d \in Calls : At(d, Making)' =>
            /\ call'[d].room \in Fresh
            /\ rows'[call'[d].room].st \in {"preparing", "running"}
            /\ rows'[call'[d].room].by = call'[d].kind
    BY <2>1, <2>2, <2>3, <2>5 DEF Owned
  <2>7. Working' => /\ clone'.room \in Fresh
                    /\ rows'[clone'.room].by = "clone"
                    /\ rows'[clone'.room].st \in Unready(clone'.at)
    BY <2>2, <2>4 DEF Owned, Working, OnlyRow, Rooms
  <2>8. clone'.at = "last" => /\ clone'.room \in Fresh
                              /\ rows'[clone'.room].st \in {"ready", "attention", "broken", "gone"}
    BY <2>2, <2>4 DEF Owned, OnlyRow, Rooms
  <2>9. ASSUME NEW q \in Rooms
        PROVE  /\ rows'[q].st \in {"preparing", "running"} =>
                     \/ Working' /\ q = clone'.room
                     \/ \E d \in Calls : At(d, Making)' /\ call'[d].room = q
               /\ made'[q] # {} => There(q)'
               /\ ~There(q)' => rows'[q].by = "none"
    <3>1. CASE q = r
      <4>1. At(c, Making)'
        BY <1>a, <2>2 DEF At
      <4> QED
        BY <2>1, <2>2, <3>1, <4>1 DEF There
    <3>2. CASE q # r
      <4>1. rows'[q] = rows[q] /\ made'[q] = made[q]
        BY <2>2, <3>2 DEF OnlyRow
      <4>2. \A d \in Calls : At(d, Making) => At(d, Making)' /\ call'[d].room = call[d].room
        BY <1>a, <2>2 DEF At, OnlyCall
      <4> QED
        BY <2>2, <4>1, <4>2 DEF Owned, Working, There
    <3> QED
      BY <3>1, <3>2
  <2> QED
    BY <2>6, <2>7, <2>8, <2>9 DEF Owned
<1>7. ASSUME NEW c \in Calls, DetectFails(c)
      PROVE  Owned'
  BY <1>1, <1>7, <1>a, DetectFailsEffect
<1>8. ASSUME NEW c \in Calls, NEW works \in BOOLEAN, Makes(c, works)
      PROVE  Owned'
  <2>1. At(c, Making) /\ At(c, Making)'
    BY <1>8, <1>a, MakesEffect DEF At
  <2>2. /\ OnlyCall(c) /\ OnlyMade(call[c].room) /\ UNCHANGED <<rows, clone>>
        /\ call'[c].room = call[c].room /\ call'[c].kind = call[c].kind
    BY <1>8, MakesEffect
  <2>3. call[c].room \in Rooms /\ rows[call[c].room].st \in {"preparing", "running"}
    BY <2>1 DEF Owned, Rooms
  <2>4. OnlyRow(call[c].room) /\ rows'[call[c].room].st \notin {"none", "gone"}
    BY <1>b, <2>2, <2>3 DEF OnlyRow, There
  <2> QED
    BY <2>1, <2>2, <2>3, <2>4, OwnedMaker
<1>9. ASSUME NEW c \in Calls, Pod(c)
      PROVE  Owned'
  <2>1. At(c, Making) /\ At(c, Making)'
    BY <1>9, <1>a, PodEffect DEF At
  <2>2. /\ OnlyCall(c) /\ OnlyMade(call[c].room) /\ OnlyRow(call[c].room) /\ UNCHANGED clone
        /\ call'[c].room = call[c].room /\ call'[c].kind = call[c].kind
        /\ rows'[call[c].room].st = "running" /\ rows'[call[c].room].by = rows[call[c].room].by
    BY <1>9, PodEffect
  <2>3. rows'[call[c].room].st \notin {"none", "gone"}
    BY <2>2 DEF There
  <2> QED
    BY <2>1, <2>2, <2>3, OwnedMaker
<1>10. ASSUME NEW c \in Calls, NEW up \in BOOLEAN, Verify(c, up)
       PROVE  Owned'
  <2>1. At(c, Making) /\ ~At(c, Making)'
    BY <1>10, <1>a, VerifyEffect DEF At
  <2>2. /\ OnlyCall(c) /\ UNCHANGED <<made, clone>> /\ OnlyRow(call[c].room)
        /\ rows'[call[c].room].st \in {"ready", "attention"}
    BY <1>10, VerifyEffect
  <2>3. OnlyMade(call[c].room) /\ rows'[call[c].room].st \notin {"none", "gone"}
    BY <1>b, <2>2 DEF OnlyMade, There
  <2> QED
    BY <2>1, <2>2, <2>3, OwnedMaker
<1>11. ASSUME NEW c \in Calls, NEW works \in BOOLEAN, Undo(c, works)
       PROVE  Owned'
  <2>1. At(c, Making) /\ ~At(c, Making)'
    BY <1>11, <1>a, UndoEffect DEF At
  <2>2. /\ OnlyCall(c) /\ UNCHANGED clone /\ OnlyRow(call[c].room) /\ OnlyMade(call[c].room)
        /\ call[c].room \in Rooms /\ Removed(call[c].room, works)
    BY <1>11, UndoEffect
  <2>3. \/ made'[call[c].room] = {} /\ rows'[call[c].room] = Gone
        \/ rows'[call[c].room].st = "broken"
    BY <2>2, Removing
  <2>4. /\ rows'[call[c].room].st \notin {"preparing", "running"}
        /\ made'[call[c].room] # {} => rows'[call[c].room].st \notin {"none", "gone"}
        /\ rows'[call[c].room].st \in {"none", "gone"} => rows'[call[c].room].by = "none"
    BY <2>3 DEF Gone, Row, There
  <2> QED
    BY <2>1, <2>2, <2>4, OwnedMaker
<1>12. ASSUME NEW c \in Calls, NEW deps \in BOOLEAN, NEW data \in BOOLEAN, StartClone(c, deps, data)
       PROVE  Owned'
  <2>1. PICK r \in Minted : r = clone'.room
    BY <1>12, StartCloneEffect
  <2>2. /\ OnlyCall(c) /\ OnlyRow(r) /\ UNCHANGED made /\ clone.at = "idle" /\ clone'.at = "pause"
        /\ call[c].at = "new" /\ call'[c].at = "cloning"
        /\ rows'[r].st = "preparing" /\ rows'[r].by = "clone"
    <3>1. OnlyRow(clone'.room) /\ rows'[clone'.room] = Row("preparing", None, "clone")
      BY <1>12, StartCloneEffect
    <3>2. OnlyRow(r) /\ rows'[r] = Row("preparing", None, "clone")
      BY <2>1, <3>1 DEF OnlyRow
    <3>3. rows'[r].st = "preparing" /\ rows'[r].by = "clone"
      BY <3>2 DEF Row
    <3>4. /\ OnlyCall(c) /\ UNCHANGED made /\ clone.at = "idle" /\ clone'.at = "pause"
          /\ call[c].at = "new" /\ call'[c].at = "cloning"
      BY <1>12, StartCloneEffect
    <3> QED
      BY <3>2, <3>3, <3>4
  <2>3. r \in Fresh /\ r \in Rooms /\ rows[r].st = "none"
    BY <2>1, MintedIs
  <2>4. \A d \in Calls : At(d, Making)' <=> At(d, Making)
    BY <1>a, <2>2 DEF At, OnlyCall
  <2>5. \A d \in Calls : At(d, Making) => /\ call'[d] = call[d] /\ call[d].room # r
                                          /\ rows'[call[d].room] = rows[call[d].room]
    BY <1>a, <2>2, <2>3 DEF At, OnlyCall, Owned, OnlyRow, Rooms
  <2>6. \A d \in Calls : At(d, Making)' =>
            /\ call'[d].room \in Fresh
            /\ rows'[call'[d].room].st \in {"preparing", "running"}
            /\ rows'[call'[d].room].by = call'[d].kind
    BY <2>4, <2>5 DEF Owned
  <2>7. Working'
    BY <2>2 DEF Working
  <2>8. ASSUME NEW q \in Rooms
        PROVE  /\ rows'[q].st \in {"preparing", "running"} =>
                     \/ Working' /\ q = clone'.room
                     \/ \E d \in Calls : At(d, Making)' /\ call'[d].room = q
               /\ made'[q] # {} => There(q)'
               /\ ~There(q)' => rows'[q].by = "none"
    <3>1. CASE q = r
      BY <2>1, <2>2, <2>7, <3>1 DEF There
    <3>2. CASE q # r
      <4>1. rows'[q] = rows[q] /\ made'[q] = made[q]
        BY <2>2, <3>2 DEF OnlyRow
      <4>2. ~Working
        BY <2>2 DEF Working
      <4> QED
        BY <2>4, <2>5, <4>1, <4>2 DEF Owned, There
    <3> QED
      BY <3>1, <3>2
  <2> QED
    BY <2>1, <2>2, <2>3, <2>6, <2>8 DEF Owned, Unready
<1>13. ASSUME NEW works \in BOOLEAN, Stage(works)
       PROVE  Owned'
  <2>1. PICK step \in Follows : Goes(step[1], step[2], works)
    BY <1>13, StageEffect
  <2>2. /\ UNCHANGED call /\ OnlyMade(clone.room) /\ clone'.room = clone.room /\ clone.room \in Rooms
        /\ clone.at \notin {"idle", "last", "verify", "undo"} /\ clone'.at \notin {"idle", "last"}
        /\ clone'.at = "verify" <=> clone.at = "web" /\ works
    BY <2>1 DEF Goes, Follows
  <2>3. Working /\ Working'
    BY <2>2 DEF Working
  <2>4. rows[clone.room].st = "preparing"
    BY <2>2, <2>3 DEF Owned, Unready
  <2>5. /\ OnlyRow(clone.room) /\ rows'[clone.room].by = rows[clone.room].by
        /\ rows'[clone.room].st = IF clone'.at = "verify" THEN "running" ELSE "preparing"
    <3>1. CASE clone.at = "web" /\ works
      BY <1>13, <2>2, <3>1, StageEffect
    <3>2. CASE ~(clone.at = "web" /\ works)
      <4>1. UNCHANGED rows
        BY <1>13, <3>2, StageEffect
      <4> QED
        BY <1>b, <2>2, <2>4, <3>2, <4>1 DEF OnlyRow
    <3> QED
      BY <3>1, <3>2
  <2>6. rows'[clone.room].st \notin {"none", "gone"}
    BY <2>2, <2>5 DEF There
  <2>7. rows'[clone.room].st \in Unready(clone'.at)
    BY <2>5 DEF Unready
  <2> QED
    BY <2>2, <2>3, <2>5, <2>6, <2>7, OwnedClone
<1>14. ASSUME NEW up \in BOOLEAN, VerifyClone(up)
       PROVE  Owned'
  <2>1. /\ UNCHANGED <<call, made>> /\ clone.at = "verify" /\ clone'.at = "last" /\ clone'.room = clone.room
        /\ OnlyRow(clone.room) /\ rows'[clone.room].st \in {"ready", "attention"} /\ clone.room \in Rooms
    BY <1>14, VerifyCloneEffect
  <2>2. Working /\ ~Working' /\ rows'[clone.room].st \notin {"none", "gone"} /\ OnlyMade(clone.room)
    BY <1>b, <2>1 DEF Working, There, OnlyMade
  <2> QED
    BY <2>1, <2>2, OwnedClone
<1>15. ASSUME NEW resumes \in BOOLEAN, NEW works \in BOOLEAN, UndoClone(resumes, works)
       PROVE  Owned'
  <2>1. /\ UNCHANGED call /\ clone.at = "undo" /\ clone'.at = "last" /\ clone'.room = clone.room
        /\ OnlyRow(clone.room) /\ OnlyMade(clone.room) /\ clone.room \in Rooms /\ Removed(clone.room, works)
    BY <1>15, UndoCloneEffect
  <2>2. Working /\ ~Working'
    BY <2>1 DEF Working
  <2>3. \/ made'[clone.room] = {} /\ rows'[clone.room] = Gone
        \/ rows'[clone.room].st = "broken"
    BY <2>1, Removing
  <2>4. /\ rows'[clone.room].st \in {"broken", "gone"}
        /\ made'[clone.room] # {} => rows'[clone.room].st \notin {"none", "gone"}
        /\ rows'[clone.room].st \in {"none", "gone"} => rows'[clone.room].by = "none"
    BY <2>3 DEF Gone, Row, There
  <2> QED
    BY <2>1, <2>2, <2>4, OwnedClone
<1>16. ASSUME NEW resumes \in BOOLEAN, Last(resumes)
       PROVE  Owned'
  <2>1. clone.at = "last" /\ clone'.at = "idle" /\ UNCHANGED <<rows, made, call>>
    BY <1>16, LastEffect DEF NoClone
  <2> QED
    BY <2>1 DEF Owned, Working, At, There
<1>17. ASSUME NEW r \in Rooms, Sleep(r) \/ Delete(r)
       PROVE  Owned'
  <2>1. /\ ~Busy(r) /\ OnlyRow(r) /\ rows'[r].st \in {"sleeping", "deleting"} /\ UNCHANGED <<made, call, clone>>
    BY <1>17, RoomEffect
  <2>2. OnlyMade(r) /\ There(r)'
    BY <1>b, <2>1 DEF OnlyMade, There
  <2>3. clone.at # "idle" => r # clone.room
    BY <2>1, FreeRoom
  <2>4. \A d \in Calls : call'[d] = call[d] /\ (At(d, Making) => call[d].room # r)
    BY <2>1, FreeRoom
  <2> QED
    BY <2>1, <2>2, <2>3, <2>4, OwnedAside
<1>18. ASSUME NEW r \in Rooms, Deleted(r)
       PROVE  Owned'
  <2>1. /\ rows[r].st = "deleting" /\ OnlyRow(r) /\ OnlyMade(r) /\ rows'[r] = Gone /\ made'[r] = {}
        /\ UNCHANGED <<call, clone>>
    BY <1>18, RoomEffect
  <2>2. rows'[r].st = "gone" /\ rows'[r].by = "none"
    BY <2>1 DEF Gone, Row
  <2>3. clone.at # "idle" => r # clone.room
    BY <2>1 DEF Owned, Working, Unready
  <2>4. \A d \in Calls : call'[d] = call[d] /\ (At(d, Making) => call[d].room # r)
    BY <2>1 DEF Owned
  <2> QED
    BY <2>1, <2>2, <2>3, <2>4, OwnedAside
<1>19. CASE Crash
  <2>1. /\ clone'.at = "idle"
        /\ \A c \in Calls : ~At(c, Making)'
    BY <1>19, <1>a, CrashEffect DEF NoClone, At
  <2>2. ASSUME NEW q \in Rooms
        PROVE  /\ rows'[q].st \notin {"preparing", "running"}
               /\ made'[q] # {} => There(q)'
               /\ ~There(q)' => rows'[q].by = "none"
    <3>1. rows[q].st \in Statuses
      BY <1>b DEF RowType
    <3>2. CASE rows[q].st = "deleting"
      BY <1>19, <3>2, CrashEffect DEF Gone, Row
    <3>3. CASE rows[q].st # "deleting"
      <4>1. made'[q] = made[q] /\ rows'[q].by = rows[q].by
        BY <1>19, <3>3, CrashEffect
      <4>2. \/ rows[q].st \in {"none", "gone", "sleeping", "broken"} /\ rows'[q].st = rows[q].st
            \/ rows[q].st \in {"preparing", "running", "ready", "attention"} /\ rows'[q].st \in {"broken", "sleeping"}
        BY <1>19, <3>1, <3>3, CrashEffect DEF Statuses
      <4> QED
        BY <4>1, <4>2 DEF Owned, There
    <3> QED
      BY <3>2, <3>3
  <2> QED
    BY <2>1, <2>2 DEF Owned, Working
<1>20. CASE UNCHANGED vars \/ Edit \/ Forget
  BY <1>2, <1>20 DEF vars, Edit, Forget
<1>21. CASE VerifyCloneFails
  <2>1. /\ UNCHANGED <<call, made>> /\ clone.at = "verify" /\ clone'.at = "undo" /\ clone'.room = clone.room
        /\ OnlyRow(clone.room) /\ rows'[clone.room].st \in {"running", "ready", "attention"}
        /\ rows'[clone.room].by = rows[clone.room].by /\ clone.room \in Rooms
    BY <1>21, VerifyCloneFailsEffect
  <2>2. Working /\ rows'[clone.room].st \in Unready(clone'.at) /\ OnlyMade(clone.room)
    BY <1>b, <2>1 DEF Working, Unready, OnlyMade
  <2> QED
    BY <2>1, <2>2, OwnedClone DEF Working
<1> QED
  BY <1>3, <1>4, <1>5, <1>6, <1>7, <1>8, <1>9, <1>10, <1>11, <1>12, <1>13, <1>14, <1>15, <1>16, <1>17, <1>18,
     <1>19, <1>20, <1>21 DEF Next, Creates, Clones, Makes, Stage

-----------------------------------------------------------------------------
(* The Rooms that were handed out *)

\* Calls that do not start to make a Room that was handed out, and rows that do not vanish
LEMMA HandedKept ==
    ASSUME Handed, NEW c \in Calls, OnlyCall(c),
           \A r \in Rooms : rows[r].st # "none" => rows'[r].st # "none",
           At(c, {"waking"})' => call'[c].room \in Rooms,
           At(c, Answered)' => /\ call'[c].room \in Rooms /\ rows'[call'[c].room].st # "none"
                                 /\ \A d \in Calls \ {c} : ~At(d, Making),
           At(c, Making)' => \A d \in Calls \ {c} : At(d, Answered) => call[d].room # call'[c].room
    PROVE  Handed'
<1> USE DEF OnlyCall, At
<1>1. \A d \in Calls : At(d, {"waking"})' => call'[d].room \in Rooms
  BY DEF Handed
<1>2. ASSUME NEW d \in Calls, At(d, Answered)'
      PROVE  call'[d].room \in Rooms /\ rows'[call'[d].room].st # "none"
  BY <1>2 DEF Handed
<1>3. ASSUME NEW d \in Calls, NEW e \in Calls, At(d, Answered)', At(e, Making)'
      PROVE  call'[e].room # call'[d].room
  <2>1. d # e
    BY <1>3 DEF Making, Answered
  <2>2. CASE e # c /\ d # c
    BY <1>3, <2>2 DEF Handed
  <2>3. CASE e = c
    BY <1>3, <2>1, <2>3
  <2>4. CASE d = c
    BY <1>3, <2>1, <2>4
  <2> QED
    BY <2>2, <2>3, <2>4
<1> QED
  BY <1>1, <1>2, <1>3 DEF Handed

\* Rows change, the calls do not.
LEMMA HandedRows ==
    ASSUME Handed, UNCHANGED call, \A r \in Rooms : rows[r].st # "none" => rows'[r].st # "none"
    PROVE  Handed'
BY DEF Handed, At

LEMMA HandedStep ==
    ASSUME SourceAssumption, IInv, [Next]_vars
    PROVE  Handed'
<1> USE DEF IInv
<1>a. /\ "new" \notin Making /\ "queued" \notin Making /\ "detecting" \notin Making /\ "waking" \notin Making
      /\ "handed" \notin Making /\ "early" \notin Making /\ "refused" \notin Making /\ "cloning" \notin Making
      /\ "import" \in Making /\ "pod" \in Making /\ "setup" \in Making /\ "verify" \in Making /\ "failed" \in Making
  BY DEF Making
<1>b. \A at \in Making : at \in Admitted /\ at # "waking" /\ at \notin Answered
  BY DEF Making, Admitted, Answered
<1>d. /\ Answered = {"handed", "early"}
      /\ {"waking", "queued", "detecting", "refused", "cloning"} \cap Answered = {}
  BY DEF Answered
\* Nobody else is making while this call is at the head.
<1>c. ASSUME NEW c \in Calls, At(c, Admitted) \/ Turn(c)
      PROVE  \A d \in Calls \ {c} : ~At(d, Making)
  BY <1>b, <1>c, OneAdmitted DEF At
<1>1. ASSUME NEW c \in Calls, OnlyCall(c), UNCHANGED rows, call'[c].at \in {"queued", "detecting", "refused", "cloning"}
      PROVE  Handed'
  BY <1>1, <1>a, <1>d, HandedKept DEF At
<1>2. ASSUME NEW c \in Calls, NEW kind \in {"acquire", "create", "desk"}, NEW task \in Tasks \cup {None},
             Enter(c, kind, task)
      PROVE  Handed'
  BY <1>1, <1>2, EnterEffect
<1>3. ASSUME NEW c \in Calls, Admit(c)
      PROVE  Handed'
  <2>1. \A d \in Calls \ {c} : ~At(d, Making)
    BY <1>3, <1>c, AdmitEffect
  <2>2. /\ OnlyCall(c) /\ UNCHANGED rows
        /\ \/ call'[c].at \in {"refused", "detecting"}
           \/ call'[c].at \in {"handed", "early", "waking"} /\ call'[c].room \in Rooms /\ There(call'[c].room)
    BY <1>3, AdmitEffect
  <2>3. CASE call'[c].at \in {"handed", "early", "waking"} /\ call'[c].room \in Rooms /\ There(call'[c].room)
    <3>1. rows'[call'[c].room].st # "none" /\ call'[c].at \notin Making
      BY <1>a, <2>2, <2>3 DEF There
    <3> QED
      BY <1>d, <2>1, <2>2, <2>3, <3>1, HandedKept DEF At
  <2> QED
    BY <1>1, <2>2, <2>3
<1>4. ASSUME NEW c \in Calls, NEW works \in BOOLEAN, Wake(c, works)
      PROVE  Handed'
  <2>1. call[c].at = "waking" /\ call[c].room \in Rooms
    BY <1>4 DEF Wake, Handed, At
  <2>2. \A d \in Calls \ {c} : ~At(d, Making)
    BY <1>c, <2>1 DEF At, Admitted
  <2>3. /\ OnlyCall(c) /\ OnlyRow(call[c].room)
        /\ \/ call'[c].at = "refused"
           \/ call'[c].at = "handed" /\ call'[c].room = call[c].room /\ rows'[call[c].room].st = "ready"
        /\ UNCHANGED rows \/ rows'[call[c].room].st \in {"ready", "broken"}
    BY <1>4, <2>1, WakeEffect
  <2>4. \A r \in Rooms : rows[r].st # "none" => rows'[r].st # "none"
    BY <2>3 DEF OnlyRow
  <2>5. call'[c].at \notin Making
    BY <1>a, <2>3
  <2> QED
    BY <1>d, <2>1, <2>2, <2>3, <2>4, <2>5, HandedKept DEF At
<1>5. ASSUME NEW c \in Calls, Detect(c)
      PROVE  Handed'
  <2>1. PICK r \in Minted : r = call'[c].room
    BY <1>5, DetectEffect
  <2>2. /\ OnlyCall(c) /\ OnlyRow(call'[c].room) /\ call'[c].at = "import"
        /\ rows'[call'[c].room] = Row("preparing", call[c].task, call[c].kind)
    BY <1>5, DetectEffect
  <2>3. rows[r].st = "none"
    BY <2>1, MintedIs
  <2>4. \A q \in Rooms : rows[q].st # "none" => rows'[q].st # "none"
    BY <2>2 DEF OnlyRow, Row
  <2>5. \A d \in Calls \ {c} : At(d, Answered) => call[d].room # call'[c].room
    BY <2>1, <2>3 DEF Handed
  <2> QED
    BY <1>a, <1>b, <2>2, <2>4, <2>5, HandedKept DEF At
<1>6. ASSUME NEW c \in Calls, DetectFails(c)
      PROVE  Handed'
  BY <1>1, <1>6, DetectFailsEffect
\* A maker that goes on makes the Room that it made.
<1>7. ASSUME NEW c \in Calls, OnlyCall(c), At(c, Making), call'[c].at \in Making, call'[c].room = call[c].room,
             \A r \in Rooms : rows[r].st # "none" => rows'[r].st # "none"
      PROVE  Handed'
  <2>1. \A d \in Calls \ {c} : At(d, Answered) => call[d].room # call'[c].room
    BY <1>7 DEF Handed
  <2> QED
    BY <1>7, <1>b, <2>1, HandedKept DEF At
<1>8. ASSUME NEW c \in Calls, NEW works \in BOOLEAN, Makes(c, works)
      PROVE  Handed'
  BY <1>7, <1>8, <1>a, MakesEffect DEF At
<1>9. ASSUME NEW c \in Calls, Pod(c)
      PROVE  Handed'
  <2>1. \A r \in Rooms : rows[r].st # "none" => rows'[r].st # "none"
    BY <1>9, PodEffect DEF OnlyRow
  <2> QED
    BY <1>7, <1>9, <1>a, <2>1, PodEffect DEF At
<1>10. ASSUME NEW c \in Calls, NEW up \in BOOLEAN, Verify(c, up)
       PROVE  Handed'
  <2>1. /\ OnlyCall(c) /\ OnlyRow(call[c].room) /\ call[c].at = "verify" /\ call'[c].at = "handed"
        /\ call'[c].room = call[c].room /\ call[c].room \in Rooms
        /\ rows'[call[c].room].st \in {"ready", "attention"}
    BY <1>10, VerifyEffect
  <2>2. \A d \in Calls \ {c} : ~At(d, Making)
    BY <1>a, <1>b, <1>c, <2>1 DEF At
  <2>3. \A r \in Rooms : rows[r].st # "none" => rows'[r].st # "none"
    BY <2>1 DEF OnlyRow
  <2> QED
    BY <1>a, <1>d, <2>1, <2>2, <2>3, HandedKept DEF At
<1>11. ASSUME NEW c \in Calls, NEW works \in BOOLEAN, Undo(c, works)
       PROVE  Handed'
  <2>1. /\ OnlyCall(c) /\ OnlyRow(call[c].room) /\ call'[c].at = "refused" /\ call[c].room \in Rooms
        /\ Removed(call[c].room, works)
    BY <1>11, UndoEffect
  <2>2. rows'[call[c].room] = Gone \/ rows'[call[c].room].st = "broken"
    BY <2>1, Removing
  <2>3. \A r \in Rooms : rows[r].st # "none" => rows'[r].st # "none"
    BY <2>1, <2>2 DEF OnlyRow, Gone, Row
  <2> QED
    BY <1>a, <1>d, <2>1, <2>3, HandedKept DEF At
<1>12. ASSUME NEW c \in Calls, NEW deps \in BOOLEAN, NEW data \in BOOLEAN, StartClone(c, deps, data)
       PROVE  Handed'
  <2>1. /\ OnlyCall(c) /\ OnlyRow(clone'.room) /\ call'[c].at = "cloning"
        /\ rows'[clone'.room] = Row("preparing", None, "clone")
    BY <1>12, StartCloneEffect
  <2>2. \A r \in Rooms : rows[r].st # "none" => rows'[r].st # "none"
    BY <2>1 DEF OnlyRow, Row
  <2> QED
    BY <1>a, <1>d, <2>1, <2>2, HandedKept DEF At
<1>13. ASSUME NEW works \in BOOLEAN, Stage(works)
       PROVE  Handed'
  <2>1. PICK step \in Follows : Goes(step[1], step[2], works)
    BY <1>13, StageEffect
  <2>2. UNCHANGED call
    BY <2>1 DEF Goes
  <2>3. \A r \in Rooms : rows[r].st # "none" => rows'[r].st # "none"
    BY <1>13, StageEffect DEF OnlyRow
  <2> QED
    BY <2>2, <2>3, HandedRows
<1>14. ASSUME NEW up \in BOOLEAN, VerifyClone(up)
       PROVE  Handed'
  <2>1. \A r \in Rooms : rows[r].st # "none" => rows'[r].st # "none"
    BY <1>14, VerifyCloneEffect DEF OnlyRow
  <2> QED
    BY <1>14, <2>1, VerifyCloneEffect, HandedRows
<1>15. ASSUME NEW resumes \in BOOLEAN, NEW works \in BOOLEAN, UndoClone(resumes, works)
       PROVE  Handed'
  <2>1. /\ UNCHANGED call /\ OnlyRow(clone.room) /\ clone.room \in Rooms /\ Removed(clone.room, works)
    BY <1>15, UndoCloneEffect
  <2>2. rows'[clone.room] = Gone \/ rows'[clone.room].st = "broken"
    BY <2>1, Removing
  <2>3. \A r \in Rooms : rows[r].st # "none" => rows'[r].st # "none"
    BY <2>1, <2>2 DEF OnlyRow, Gone, Row
  <2> QED
    BY <2>1, <2>3, HandedRows
<1>16. ASSUME NEW r \in Rooms, Sleep(r) \/ Delete(r) \/ Deleted(r)
       PROVE  Handed'
  <2>1. /\ UNCHANGED call /\ OnlyRow(r)
        /\ rows'[r] = Gone \/ rows'[r].st \in {"sleeping", "deleting"}
    BY <1>16, RoomEffect
  <2>2. \A q \in Rooms : rows[q].st # "none" => rows'[q].st # "none"
    BY <2>1 DEF OnlyRow, Gone, Row
  <2> QED
    BY <2>1, <2>2, HandedRows
<1>17. CASE Crash
  BY <1>17, CrashEffect DEF Handed, At, Answered
<1>18. CASE UNCHANGED vars \/ Edit \/ Forget \/ (\E resumes \in BOOLEAN : Last(resumes))
  BY <1>18, HandedRows DEF vars, Edit, Forget, Last
<1>19. CASE VerifyCloneFails
  <2>1. \A r \in Rooms : rows[r].st # "none" => rows'[r].st # "none"
    BY <1>19, VerifyCloneFailsEffect DEF OnlyRow
  <2> QED
    BY <1>19, <2>1, VerifyCloneFailsEffect, HandedRows
<1> QED
  BY <1>2, <1>3, <1>4, <1>5, <1>6, <1>8, <1>9, <1>10, <1>11, <1>12, <1>13, <1>14, <1>15, <1>16, <1>17, <1>18, <1>19
  DEF Next, Creates, Clones, Makes, Stage

-----------------------------------------------------------------------------
(* The Rooms of clones *)

\* The target stays what it is, and nobody gets an answer.
LEMMA SparedKept ==
    ASSUME Spared,
           Working' => Working /\ clone'.room = clone.room /\ rows'[clone.room].task = rows[clone.room].task,
           \A c \in Calls : At(c, Answered)' => call'[c] = call[c]
    PROVE  Spared'
<1>1. Working' => rows'[clone'.room].task = None
  BY DEF Spared
<1>2. ASSUME NEW c \in Calls
      PROVE  /\ At(c, {"handed"})' => ~(Working' /\ clone'.room = call'[c].room)
             /\ At(c, {"early"})' => call'[c].task = None
  BY <1>2 DEF Spared, At, Answered
<1> QED
  BY <1>1, <1>2 DEF Spared

\* One row changes, of which the task identity stays or which is not the target.
LEMMA SparedAside ==
    ASSUME TypeOK, Owned, Spared, UNCHANGED clone, NEW r \in Rooms, OnlyRow(r),
           rows'[r].task = rows[r].task \/ (clone.at # "idle" => r # clone.room),
           \A c \in Calls : At(c, Answered)' => call'[c] = call[c]
    PROVE  Spared'
<1>1. Working' => Working /\ clone'.room = clone.room /\ clone.room \in Rooms /\ clone.at # "idle"
  BY DEF Working, Owned, Rooms
<1>2. Working' => rows'[clone.room].task = rows[clone.room].task
  BY <1>1 DEF OnlyRow
<1> QED
  BY <1>1, <1>2, SparedKept

\* A Room that is not the target is handed out.
LEMMA SparedAnswer ==
    ASSUME TypeOK, Owned, Spared, UNCHANGED clone, NEW r \in Rooms, OnlyRow(r),
           clone.at # "idle" => r # clone.room, NEW c \in Calls, OnlyCall(c),
           call'[c].at = "refused" \/ (call'[c].at = "handed" /\ call'[c].room = r)
    PROVE  Spared'
<1>1. Working' => Working /\ clone'.room = clone.room /\ clone.room \in Rooms /\ clone.room # r
  BY DEF Working, Owned, Rooms
<1>2. Working' => rows'[clone'.room].task = None
  BY <1>1 DEF OnlyRow, Spared
<1>3. ASSUME NEW d \in Calls
      PROVE  /\ At(d, {"handed"})' => ~(Working' /\ clone'.room = call'[d].room)
             /\ At(d, {"early"})' => call'[d].task = None
  <2>1. CASE d = c
    BY <1>1, <2>1 DEF At
  <2>2. CASE d # c
    <3>1. call'[d] = call[d]
      BY <2>2 DEF OnlyCall
    <3> QED
      BY <1>1, <3>1 DEF Spared, At
  <2> QED
    BY <2>1, <2>2
<1> QED
  BY <1>2, <1>3 DEF Spared

LEMMA SparedStep ==
    ASSUME SourceAssumption, IInv, [Next]_vars
    PROVE  Spared'
<1> USE DEF IInv
<1>a. /\ {"new", "queued", "detecting", "waking", "refused", "cloning"} \cap Answered = {}
      /\ Making \cap Answered = {}
      /\ "import" \in Making /\ "pod" \in Making /\ "setup" \in Making /\ "verify" \in Making /\ "failed" \in Making
  BY DEF Answered, Making
\* One call moves and gets no answer.
<1>b. ASSUME NEW c \in Calls, OnlyCall(c), call'[c].at \notin Answered
      PROVE  \A d \in Calls : At(d, Answered)' => call'[d] = call[d]
  BY <1>b DEF At, OnlyCall
<1>c. ASSUME UNCHANGED call
      PROVE  \A d \in Calls : At(d, Answered)' => call'[d] = call[d]
  BY <1>c
<1>1. ASSUME NEW c \in Calls, OnlyCall(c), call'[c].at \notin Answered, UNCHANGED <<rows, clone>>
      PROVE  Spared'
  BY <1>1, <1>b, SparedKept DEF Working
<1>2. ASSUME NEW c \in Calls, NEW kind \in {"acquire", "create", "desk"}, NEW task \in Tasks \cup {None},
             Enter(c, kind, task)
      PROVE  Spared'
  BY <1>1, <1>2, <1>a, EnterEffect
<1>3. ASSUME NEW c \in Calls, Admit(c)
      PROVE  Spared'
  <2>1. OnlyCall(c) /\ UNCHANGED <<rows, clone>> /\ call'[c].task = call[c].task
    BY <1>3, AdmitEffect
  <2>2. CASE call'[c].at \in {"refused", "waking", "detecting"}
    BY <1>1, <1>a, <2>1, <2>2
  <2>3. CASE /\ call'[c].at = (IF BeingCloned(call'[c].room) THEN "early" ELSE "handed")
             /\ call'[c].room \in Compatible(call[c].task)
    <3>1. At(c, {"handed"})' => ~(Working' /\ clone'.room = call'[c].room)
      BY <2>1, <2>3 DEF At, BeingCloned, Working
    <3>2. At(c, {"early"})' => call'[c].task = None
      <4> SUFFICES ASSUME call'[c].at = "early"
                   PROVE  call'[c].task = None
        BY DEF At
      <4>1. Working /\ clone.room = call'[c].room
        BY <2>3 DEF BeingCloned, Working
      <4>2. rows[call'[c].room].task = None
        BY <4>1 DEF Spared
      <4>3. call[c].task = None \/ rows[call'[c].room].task = call[c].task
        BY <2>3 DEF Compatible
      <4> QED
        BY <2>1, <4>2, <4>3
    <3>3. \A d \in Calls \ {c} : /\ At(d, {"handed"})' => ~(Working' /\ clone'.room = call'[d].room)
                                 /\ At(d, {"early"})' => call'[d].task = None
      BY <2>1 DEF Spared, OnlyCall, At, Working
    <3>4. Working' => rows'[clone'.room].task = None
      BY <2>1 DEF Spared, Working
    <3> QED
      BY <3>1, <3>2, <3>3, <3>4 DEF Spared
  <2> QED
    BY <1>3, <2>2, <2>3, AdmitEffect
<1>4. ASSUME NEW c \in Calls, NEW works \in BOOLEAN, Wake(c, works)
      PROVE  Spared'
  <2>1. call[c].room \in Rooms
    BY <1>4 DEF Wake, Handed, At
  <2>2. /\ OnlyCall(c) /\ OnlyRow(call[c].room) /\ ~Busy(call[c].room) /\ UNCHANGED clone
        /\ call'[c].at = "refused" \/ (call'[c].at = "handed" /\ call'[c].room = call[c].room)
    BY <1>4, <2>1, WakeEffect
  <2>3. clone.at # "idle" => call[c].room # clone.room
    BY <2>1, <2>2, FreeRoom
  <2> QED
    BY <2>1, <2>2, <2>3, SparedAnswer
<1>5. ASSUME NEW c \in Calls, Detect(c)
      PROVE  Spared'
  <2>1. PICK r \in Minted : r = call'[c].room
    BY <1>5, DetectEffect
  <2>2. OnlyRow(call'[c].room) /\ OnlyCall(c) /\ call'[c].at = "import" /\ UNCHANGED clone
    BY <1>5, DetectEffect
  <2>3. r \in Rooms /\ rows[r].st = "none"
    BY <2>1, MintedIs
  <2>4. OnlyRow(r)
    BY <2>1, <2>2 DEF OnlyRow
  <2>5. clone.at # "idle" => r # clone.room
    BY <2>3 DEF Owned, Working, Unready
  <2>6. \A d \in Calls : At(d, Answered)' => call'[d] = call[d]
    BY <1>a, <1>b, <2>2
  <2> QED
    BY <2>2, <2>3, <2>4, <2>5, <2>6, SparedAside
<1>6. ASSUME NEW c \in Calls, DetectFails(c)
      PROVE  Spared'
  BY <1>1, <1>6, <1>a, DetectFailsEffect
<1>7. ASSUME NEW c \in Calls, NEW works \in BOOLEAN, Makes(c, works)
      PROVE  Spared'
  BY <1>1, <1>7, <1>a, MakesEffect
<1>8. ASSUME NEW c \in Calls, Pod(c)
      PROVE  Spared'
  <2>1. /\ OnlyCall(c) /\ OnlyRow(call[c].room) /\ call'[c].at = "setup" /\ UNCHANGED clone
        /\ call[c].room \in Rooms /\ rows'[call[c].room].task = rows[call[c].room].task
    BY <1>8, PodEffect
  <2>2. \A d \in Calls : At(d, Answered)' => call'[d] = call[d]
    BY <1>a, <1>b, <2>1
  <2> QED
    BY <2>1, <2>2, SparedAside
<1>9. ASSUME NEW c \in Calls, NEW up \in BOOLEAN, Verify(c, up)
      PROVE  Spared'
  <2>1. /\ OnlyCall(c) /\ OnlyRow(call[c].room) /\ call[c].room \in Rooms /\ UNCHANGED clone
        /\ call[c].at = "verify" /\ call'[c].at = "handed" /\ call'[c].room = call[c].room
    BY <1>9, VerifyEffect
  <2>2. clone.at # "idle" => call[c].room # clone.room
    BY <1>a, <2>1, MakersApart DEF At
  <2> QED
    BY <2>1, <2>2, SparedAnswer
<1>10. ASSUME NEW c \in Calls, NEW works \in BOOLEAN, Undo(c, works)
       PROVE  Spared'
  <2>1. /\ OnlyCall(c) /\ OnlyRow(call[c].room) /\ call[c].room \in Rooms /\ UNCHANGED clone
        /\ call[c].at = "failed" /\ call'[c].at = "refused"
    BY <1>10, UndoEffect
  <2>2. clone.at # "idle" => call[c].room # clone.room
    BY <1>a, <2>1, MakersApart DEF At
  <2> QED
    BY <2>1, <2>2, SparedAnswer
\* Nobody has the Room of an identifier that is minted now.
<1>11. ASSUME NEW c \in Calls, NEW deps \in BOOLEAN, NEW data \in BOOLEAN, StartClone(c, deps, data)
       PROVE  Spared'
  <2>1. PICK r \in Minted : r = clone'.room
    BY <1>11, StartCloneEffect
  <2>2. /\ OnlyCall(c) /\ call'[c].at = "cloning"
        /\ rows'[clone'.room] = Row("preparing", None, "clone")
    BY <1>11, StartCloneEffect
  <2>3. rows[r].st = "none"
    BY <2>1, MintedIs
  <2>4. rows'[clone'.room].task = None
    BY <2>2 DEF Row
  <2>5. ASSUME NEW d \in Calls
        PROVE  /\ At(d, {"handed"})' => ~(Working' /\ clone'.room = call'[d].room)
               /\ At(d, {"early"})' => call'[d].task = None
    <3>1. CASE d = c
      BY <2>2, <3>1 DEF At
    <3>2. CASE d # c
      <4>1. call'[d] = call[d]
        BY <2>2, <3>2 DEF OnlyCall
      <4>2. At(d, {"handed"}) => rows[call[d].room].st # "none"
        BY DEF Handed, At, Answered
      <4> QED
        BY <2>1, <2>3, <4>1, <4>2 DEF Spared, At
    <3> QED
      BY <3>1, <3>2
  <2> QED
    BY <2>4, <2>5 DEF Spared
<1>12. ASSUME NEW works \in BOOLEAN, Stage(works)
       PROVE  Spared'
  <2>1. PICK step \in Follows : Goes(step[1], step[2], works)
    BY <1>12, StageEffect
  <2>2. /\ UNCHANGED call /\ clone'.room = clone.room /\ clone.at \notin {"idle", "last"}
    BY <2>1 DEF Goes, Follows
  <2>3. rows'[clone.room].task = rows[clone.room].task
    BY <1>12, StageEffect
  <2> QED
    BY <1>c, <2>2, <2>3, SparedKept DEF Working
<1>13. CASE VerifyCloneFails
  <2>1. /\ UNCHANGED call /\ clone'.room = clone.room /\ clone.at = "verify"
        /\ rows'[clone.room].task = rows[clone.room].task
    BY <1>13, VerifyCloneFailsEffect
  <2> QED
    BY <1>c, <2>1, SparedKept DEF Working
\* The clone is through.
<1>14. ASSUME ~Working', UNCHANGED call
       PROVE  Spared'
  BY <1>14, <1>c, SparedKept
<1>15. ASSUME NEW up \in BOOLEAN, VerifyClone(up)
       PROVE  Spared'
  BY <1>14, <1>15, VerifyCloneEffect DEF Working
<1>16. ASSUME NEW resumes \in BOOLEAN, NEW works \in BOOLEAN, UndoClone(resumes, works)
       PROVE  Spared'
  BY <1>14, <1>16, UndoCloneEffect DEF Working
<1>17. ASSUME NEW resumes \in BOOLEAN, Last(resumes)
       PROVE  Spared'
  BY <1>14, <1>17, LastEffect DEF Working, NoClone
<1>18. ASSUME NEW r \in Rooms, Sleep(r) \/ Delete(r)
       PROVE  Spared'
  <2>1. UNCHANGED <<call, clone>> /\ OnlyRow(r) /\ rows'[r].task = rows[r].task
    BY <1>18, RoomEffect
  <2> QED
    BY <1>c, <2>1, SparedAside
<1>19. ASSUME NEW r \in Rooms, Deleted(r)
       PROVE  Spared'
  <2>1. UNCHANGED <<call, clone>> /\ OnlyRow(r) /\ rows[r].st = "deleting"
    BY <1>19, RoomEffect
  <2>2. clone.at # "idle" => r # clone.room
    BY <2>1 DEF Owned, Working, Unready
  <2> QED
    BY <1>c, <2>1, <2>2, SparedAside
<1>20. CASE Crash
  <2>1. /\ clone'.at = "idle"
        /\ \A c \in Calls : call'[c].at \in {"new", "refused"}
    BY <1>20, CrashEffect DEF NoClone
  <2> QED
    BY <1>a, <2>1, SparedKept DEF Working, At
<1>21. CASE UNCHANGED vars \/ Edit \/ Forget
  <2>1. UNCHANGED <<rows, call, clone>>
    BY <1>21 DEF vars, Edit, Forget
  <2> QED
    BY <1>c, <2>1, SparedKept DEF Working
<1> QED
  BY <1>2, <1>3, <1>4, <1>5, <1>6, <1>7, <1>8, <1>9, <1>10, <1>11, <1>12, <1>13, <1>15, <1>16, <1>17, <1>18,
     <1>19, <1>20, <1>21 DEF Next, Creates, Clones, Makes, Stage

-----------------------------------------------------------------------------
(* The task identities *)

\* No Room comes to the agents and no call starts to detect.
LEMMA TaskedKept ==
    ASSUME Tasked,
           \A r \in Rooms : Agentic(r)' => Agentic(r) /\ rows'[r].task = rows[r].task,
           \A c \in Calls : At(c, {"detecting"})' =>
               At(c, {"detecting"}) /\ call'[c].kind = call[c].kind /\ call'[c].task = call[c].task
    PROVE  Tasked'
<1>1. ASSUME NEW c \in Calls, At(c, {"detecting"})', call'[c].kind \in Agents, NEW r \in Rooms, Agentic(r)'
      PROVE  rows'[r].task # call'[c].task
  BY <1>1 DEF Tasked
<1>2. ASSUME NEW r \in Rooms, NEW q \in Rooms, r # q, Agentic(r)', Agentic(q)'
      PROVE  rows'[r].task # rows'[q].task
  BY <1>2 DEF Tasked
<1> QED
  BY <1>1, <1>2 DEF Tasked

\* One row changes without becoming an agent's.
LEMMA TaskedRow ==
    ASSUME Tasked, NEW r \in Rooms, OnlyRow(r),
           \/ rows'[r].by \notin Agents
           \/ rows'[r].st = "deleting"
           \/ rows'[r].by = rows[r].by /\ rows'[r].task = rows[r].task /\ rows[r].st # "deleting",
           \A c \in Calls : At(c, {"detecting"})' => call'[c] = call[c]
    PROVE  Tasked'
<1>1. \A q \in Rooms : Agentic(q)' => Agentic(q) /\ rows'[q].task = rows[q].task
  BY DEF Agentic, OnlyRow
<1>2. \A c \in Calls : At(c, {"detecting"})' =>
         At(c, {"detecting"}) /\ call'[c].kind = call[c].kind /\ call'[c].task = call[c].task
  BY DEF At
<1> QED
  BY <1>1, <1>2, TaskedKept

LEMMA TaskedStep ==
    ASSUME SourceAssumption, IInv, [Next]_vars
    PROVE  Tasked'
<1> USE DEF IInv
<1>a. "detecting" \notin Making
  BY DEF Making
\* One call moves, and does not come to detect.
<1>1. ASSUME NEW c \in Calls, OnlyCall(c), call'[c].at # "detecting", UNCHANGED rows
      PROVE  Tasked'
  BY <1>1, TaskedKept DEF At, OnlyCall, Agentic
<1>2. ASSUME NEW c \in Calls, OnlyCall(c), call'[c].at # "detecting"
      PROVE  \A d \in Calls : At(d, {"detecting"})' => call'[d] = call[d]
  BY <1>2 DEF At, OnlyCall
<1>3. ASSUME NEW c \in Calls, NEW kind \in {"acquire", "create", "desk"}, NEW task \in Tasks \cup {None},
             Enter(c, kind, task)
      PROVE  Tasked'
  BY <1>1, <1>3, EnterEffect
<1>4. ASSUME NEW c \in Calls, Admit(c)
      PROVE  Tasked'
  <2>1. CASE call'[c].at # "detecting"
    BY <1>1, <1>4, <2>1, AdmitEffect
  <2>2. CASE call'[c].at = "detecting"
    <3>1. /\ OnlyCall(c) /\ UNCHANGED rows /\ Turn(c)
          /\ call'[c].kind = call[c].kind /\ call'[c].task = call[c].task
          /\ call[c].kind = "desk" \/ Compatible(call[c].task) = {}
      BY <1>4, <2>2, AdmitEffect
    <3>2. ASSUME NEW r \in Rooms, Agentic(r), call[c].kind \in Agents
          PROVE  rows[r].task # call[c].task
      <4>1. Compatible(call[c].task) = {}
        BY <3>1, <3>2 DEF Agents
      <4>2. There(r)
        BY <3>2 DEF Owned, Agentic, Agents
      <4> QED
        BY <3>2, <4>1, <4>2 DEF Compatible, Agentic
    <3>3. \A d \in Calls \ {c} : call'[d] = call[d]
      BY <3>1 DEF OnlyCall
    <3>4. \A d \in Calls : At(d, {"detecting"})' /\ call'[d].kind \in Agents =>
             \A r \in Rooms : Agentic(r) => rows[r].task # call'[d].task
      <4> TAKE d \in Calls
      <4>1. CASE d = c
        BY <3>1, <3>2, <4>1
      <4>2. CASE d # c
        BY <3>3, <4>2 DEF Tasked, At
      <4> QED
        BY <4>1, <4>2
    <3> QED
      BY <3>1, <3>4 DEF Tasked, Agentic
  <2> QED
    BY <2>1, <2>2
<1>5. ASSUME NEW c \in Calls, NEW works \in BOOLEAN, Wake(c, works)
      PROVE  Tasked'
  <2>1. call[c].room \in Rooms
    BY <1>5 DEF Wake, Handed, At
  <2>2. /\ OnlyCall(c) /\ call'[c].at \in {"handed", "refused"} /\ OnlyRow(call[c].room)
        /\ \/ UNCHANGED rows
           \/ /\ rows[call[c].room].st = "sleeping"
              /\ rows'[call[c].room].task = rows[call[c].room].task
              /\ rows'[call[c].room].by = rows[call[c].room].by
    BY <1>5, <2>1, WakeEffect
  <2>3. CASE UNCHANGED rows
    BY <1>1, <2>2, <2>3
  <2>4. CASE ~UNCHANGED rows
    BY <1>2, <2>1, <2>2, <2>4, TaskedRow
  <2> QED
    BY <2>3, <2>4
<1>6. ASSUME NEW c \in Calls, Detect(c)
      PROVE  Tasked'
  <2>1. PICK r \in Minted : r = call'[c].room
    BY <1>6, DetectEffect
  <2>2. OnlyRow(call'[c].room) /\ rows'[call'[c].room] = Row("preparing", call[c].task, call[c].kind)
    BY <1>6, DetectEffect
  <2>3. /\ \A q \in Rooms \ {r} : rows'[q] = rows[q]
        /\ rows'[r].task = call[c].task /\ rows'[r].by = call[c].kind
    BY <2>1, <2>2 DEF OnlyRow, Row
  <2>4. OnlyCall(c) /\ call[c].at = "detecting" /\ call'[c].at = "import"
    BY <1>6, DetectEffect
  <2>5. \A d \in Calls : ~At(d, {"detecting"})'
    <3>1. \A d \in Calls \ {c} : ~At(d, Admitted)
      BY <2>4, OneAdmitted DEF At, Admitted
    <3> QED
      BY <2>4, <3>1 DEF At, Admitted, OnlyCall
  <2>6. call[c].kind \in Agents => \A q \in Rooms : Agentic(q) => rows[q].task # call[c].task
    BY <2>4 DEF Tasked, At
  <2>7. ASSUME NEW p \in Rooms, NEW q \in Rooms, p # q, Agentic(p)', Agentic(q)'
        PROVE  rows'[p].task # rows'[q].task
    <3>1. \A s \in Rooms \ {r} : Agentic(s)' => Agentic(s) /\ rows'[s].task = rows[s].task
      BY <2>3 DEF Agentic
    <3>2. Agentic(r)' => call[c].kind \in Agents /\ rows'[r].task = call[c].task
      BY <2>3 DEF Agentic
    <3> QED
      BY <2>6, <2>7, <3>1, <3>2 DEF Tasked
  <2> QED
    BY <2>5, <2>7 DEF Tasked
<1>7. ASSUME NEW c \in Calls, DetectFails(c)
      PROVE  Tasked'
  BY <1>1, <1>7, DetectFailsEffect
<1>8. ASSUME NEW c \in Calls, NEW works \in BOOLEAN, Makes(c, works)
      PROVE  Tasked'
  BY <1>1, <1>8, MakesEffect
\* The maker of a Room changes its row.
<1>9. ASSUME NEW c \in Calls, At(c, Making), OnlyCall(c), call'[c].at # "detecting", OnlyRow(call[c].room),
             \/ rows'[call[c].room] = Gone
             \/ rows'[call[c].room].by = rows[call[c].room].by /\ rows'[call[c].room].task = rows[call[c].room].task
      PROVE  Tasked'
  <2>1. call[c].room \in Rooms /\ rows[call[c].room].st # "deleting"
    BY <1>9 DEF Owned, Rooms
  <2>2. Gone.by \notin Agents
    BY DEF Gone, Row, Agents
  <2> QED
    BY <1>2, <1>9, <2>1, <2>2, TaskedRow
<1>10. ASSUME NEW c \in Calls, Pod(c)
       PROVE  Tasked'
  BY <1>9, <1>10, PodEffect DEF At, Making
<1>11. ASSUME NEW c \in Calls, NEW up \in BOOLEAN, Verify(c, up)
       PROVE  Tasked'
  BY <1>9, <1>11, VerifyEffect DEF At, Making
<1>12. ASSUME NEW c \in Calls, NEW works \in BOOLEAN, Undo(c, works)
       PROVE  Tasked'
  <2>1. /\ OnlyCall(c) /\ OnlyRow(call[c].room) /\ call'[c].at = "refused" /\ call[c].room \in Rooms
        /\ Removed(call[c].room, works) /\ call[c].at = "failed"
    BY <1>12, UndoEffect
  <2>2. \/ rows'[call[c].room] = Gone
        \/ rows'[call[c].room].by = rows[call[c].room].by /\ rows'[call[c].room].task = rows[call[c].room].task
    BY <2>1, Removing
  <2> QED
    BY <1>9, <2>1, <2>2 DEF At, Making
<1>13. ASSUME NEW c \in Calls, NEW deps \in BOOLEAN, NEW data \in BOOLEAN, StartClone(c, deps, data)
       PROVE  Tasked'
  <2>1. PICK r \in Minted : r = clone'.room
    BY <1>13, StartCloneEffect
  <2>2. OnlyRow(clone'.room) /\ rows'[clone'.room] = Row("preparing", None, "clone")
    BY <1>13, StartCloneEffect
  <2>3. OnlyRow(r) /\ rows'[r].by \notin Agents
    BY <2>1, <2>2 DEF OnlyRow, Row, Agents
  <2>4. OnlyCall(c) /\ call'[c].at = "cloning"
    BY <1>13, StartCloneEffect
  <2>5. r \in Rooms
    BY <2>1, MintedIs
  <2> QED
    BY <1>2, <2>3, <2>4, <2>5, TaskedRow
<1>14. ASSUME NEW works \in BOOLEAN, Stage(works)
       PROVE  Tasked'
  <2>1. PICK step \in Follows : Goes(step[1], step[2], works)
    BY <1>14, StageEffect
  <2>2. UNCHANGED call /\ clone.room \in Rooms
    BY <2>1 DEF Goes
  <2>3. CASE clone.at = "web" /\ works
    <3>1. rows[clone.room].st # "deleting"
      BY <2>3 DEF Owned, Working, Unready
    <3>2. OnlyRow(clone.room) /\ rows'[clone.room].by = rows[clone.room].by /\ rows'[clone.room].task = rows[clone.room].task
      BY <1>14, <2>3, StageEffect
    <3> QED
      BY <2>2, <3>1, <3>2, TaskedRow
  <2>4. CASE UNCHANGED rows
    BY <2>2, <2>4, TaskedKept DEF At, Agentic
  <2> QED
    BY <1>14, <2>3, <2>4, StageEffect
<1>15. ASSUME NEW up \in BOOLEAN, VerifyClone(up)
       PROVE  Tasked'
  <2>1. /\ UNCHANGED call /\ OnlyRow(clone.room) /\ clone.room \in Rooms /\ clone.at = "verify"
        /\ rows'[clone.room].by = rows[clone.room].by /\ rows'[clone.room].task = rows[clone.room].task
    BY <1>15, VerifyCloneEffect
  <2>2. rows[clone.room].st # "deleting"
    BY <2>1 DEF Owned, Working, Unready
  <2> QED
    BY <2>1, <2>2, TaskedRow
<1>16. ASSUME NEW resumes \in BOOLEAN, NEW works \in BOOLEAN, UndoClone(resumes, works)
       PROVE  Tasked'
  <2>1. /\ UNCHANGED call /\ OnlyRow(clone.room) /\ clone.room \in Rooms /\ Removed(clone.room, works)
        /\ clone.at = "undo"
    BY <1>16, UndoCloneEffect
  <2>2. \/ rows'[clone.room] = Gone
        \/ rows'[clone.room].by = rows[clone.room].by /\ rows'[clone.room].task = rows[clone.room].task
    BY <2>1, Removing
  <2>3. rows[clone.room].st # "deleting" /\ Gone.by \notin Agents
    BY <2>1 DEF Owned, Working, Unready, Gone, Row, Agents
  <2> QED
    BY <2>1, <2>2, <2>3, TaskedRow
<1>17. ASSUME NEW r \in Rooms, Sleep(r) \/ Delete(r) \/ Deleted(r)
       PROVE  Tasked'
  <2>1. /\ UNCHANGED call /\ OnlyRow(r)
        /\ \/ rows'[r] = Gone
           \/ rows'[r].st = "deleting"
           \/ rows'[r].by = rows[r].by /\ rows'[r].task = rows[r].task /\ rows[r].st # "deleting"
    BY <1>17, RoomEffect
  <2>2. Gone.by \notin Agents
    BY DEF Gone, Row, Agents
  <2> QED
    BY <2>1, <2>2, TaskedRow
<1>18. CASE Crash
  <2>1. \A c \in Calls : ~At(c, {"detecting"})'
    BY <1>18, CrashEffect DEF At
  <2>2. ASSUME NEW r \in Rooms, Agentic(r)'
        PROVE  Agentic(r) /\ rows'[r].task = rows[r].task
    <3>1. rows[r].st # "deleting"
      BY <1>18, <2>2, CrashEffect DEF Agentic, Agents, Gone, Row
    <3> QED
      BY <1>18, <2>2, <3>1, CrashEffect DEF Agentic
  <2> QED
    BY <2>1, <2>2, TaskedKept
<1>19. CASE UNCHANGED vars \/ Edit \/ Forget \/ (\E resumes \in BOOLEAN : Last(resumes))
  <2>1. UNCHANGED <<rows, call>>
    BY <1>19 DEF vars, Edit, Forget, Last
  <2> QED
    BY <2>1, TaskedKept DEF At, Agentic
<1>20. CASE VerifyCloneFails
  <2>1. /\ UNCHANGED call /\ OnlyRow(clone.room) /\ clone.room \in Rooms /\ clone.at = "verify"
        /\ rows'[clone.room].by = rows[clone.room].by /\ rows'[clone.room].task = rows[clone.room].task
    BY <1>20, VerifyCloneFailsEffect
  <2>2. rows[clone.room].st # "deleting"
    BY <2>1 DEF Owned, Working, Unready
  <2> QED
    BY <2>1, <2>2, TaskedRow
<1> QED
  BY <1>3, <1>4, <1>5, <1>6, <1>7, <1>8, <1>10, <1>11, <1>12, <1>13, <1>14, <1>15, <1>16, <1>17, <1>18, <1>19, <1>20
  DEF Next, Creates, Clones, Makes, Stage

-----------------------------------------------------------------------------
(* The warm pool *)

\* One call moves; what it holds afterwards it held before, at a stage that may hold.
LEMMA EarnedKept ==
    ASSUME Earned, UNCHANGED <<pool, credit>>, NEW c \in Calls, OnlyCall(c),
           Holder(c)' => Holder(c) /\ At(c, {"import", "pod", "failed"})'
    PROVE  Earned'
<1>1. \A d \in Calls : Holder(d)' => Holder(d) /\ At(d, {"import", "pod", "failed"})'
  BY DEF OnlyCall, Holder, At, Earned
<1> QED
  BY <1>1 DEF Earned

\* The maker at the head ends with what it held, and nobody else holds anything.
LEMMA EarnedAlone ==
    ASSUME HeadOnly, Earned, NEW c \in Calls, At(c, Making), OnlyCall(c), ~Holder(c)',
           ~pool'.known => pool'.slots = 0, pool'.slots <= credit'
    PROVE  Earned'
<1>1. \A d \in Calls \ {c} : ~At(d, Making)
  BY OneAdmitted DEF At, Admitted
<1>2. \A d \in Calls : ~Holder(d)'
  BY <1>1 DEF Earned, Holder, OnlyCall, At, Making
<1> QED
  BY <1>2 DEF Earned

LEMMA EarnedStep ==
    ASSUME SourceAssumption, IInv, [Next]_vars
    PROVE  Earned'
<1> USE DEF IInv
<1>a. pool.known \in BOOLEAN /\ pool.slots \in Nat /\ credit \in Nat
  BY DEF TypeOK, SourceAssumption
<1>b. \A c \in Calls : Holder(c) => call[c].at \in {"import", "pod", "failed"}
  BY DEF Earned, At
<1>1. CASE UNCHANGED <<pool, credit, call>>
  BY <1>1 DEF Earned, Holder, At
<1>2. ASSUME NEW c \in Calls, NEW kind \in {"acquire", "create", "desk"}, NEW task \in Tasks \cup {None},
             Enter(c, kind, task)
      PROVE  Earned'
  BY <1>2, <1>b, EnterEffect, EarnedKept DEF Holder
<1>3. ASSUME NEW c \in Calls, Admit(c)
      PROVE  Earned'
  <2>1. ~Holder(c) /\ OnlyCall(c) /\ UNCHANGED <<pool, credit>>
    BY <1>3, <1>b, AdmitEffect DEF Turn
  <2>2. ~Holder(c)'
    BY <1>3, <2>1, AdmitEffect DEF Holder
  <2> QED
    BY <2>1, <2>2, EarnedKept
<1>4. ASSUME NEW c \in Calls, NEW works \in BOOLEAN, Wake(c, works)
      PROVE  Earned'
  <2>1. call[c].room \in Rooms
    BY <1>4 DEF Wake, Handed, At
  <2>2. OnlyCall(c) /\ call'[c].lease = "none" /\ UNCHANGED <<pool, credit>>
    BY <1>4, <2>1, WakeEffect
  <2> QED
    BY <2>2, EarnedKept DEF Holder
<1>5. ASSUME NEW c \in Calls, Detect(c)
      PROVE  Earned'
  <2>1. OnlyCall(c) /\ call'[c].at = "import" /\ call[c].at = "detecting" /\ UNCHANGED credit
    BY <1>5, DetectEffect
  <2>2. CASE pool' = pool /\ call'[c].lease = "none"
    BY <2>1, <2>2, EarnedKept DEF Holder
  <2>3. CASE pool.known /\ pool'.known /\ pool'.slots = pool.slots - 1 /\ pool.slots > 0
    <3>1. pool'.slots < credit' /\ pool'.slots <= credit' /\ pool'.known
      BY <1>a, <2>1, <2>3 DEF Earned
    <3>2. \A d \in Calls : Holder(d)' => At(d, {"import", "pod", "failed"})'
      BY <2>1 DEF Earned, Holder, At, OnlyCall
    <3> QED
      BY <3>1, <3>2 DEF Earned
  <2> QED
    BY <1>5, <2>2, <2>3, DetectEffect
<1>6. ASSUME NEW c \in Calls, DetectFails(c)
      PROVE  Earned'
  BY <1>6, DetectFailsEffect, EarnedKept DEF Holder
<1>7. ASSUME NEW c \in Calls, NEW works \in BOOLEAN, Makes(c, works)
      PROVE  Earned'
  <2>1. OnlyCall(c) /\ UNCHANGED <<pool, credit>> /\ call'[c].lease = call[c].lease
    BY <1>7, MakesEffect
  <2>2. \/ call[c].at = "setup" /\ call'[c].at = "verify"
        \/ call'[c].at \in {"pod", "failed"}
    BY <1>7, MakesEffect
  <2> QED
    BY <1>b, <2>1, <2>2, EarnedKept DEF Holder, At
<1>8. ASSUME NEW c \in Calls, Pod(c)
      PROVE  Earned'
  <2>1. At(c, Making) /\ OnlyCall(c) /\ ~Holder(c)' /\ UNCHANGED pool
        /\ credit' = IF Holder(c) THEN credit - 1 ELSE credit
    BY <1>8, PodEffect DEF At, Making, Holder
  <2>2. pool'.slots <= credit'
    BY <1>a, <2>1 DEF Earned
  <2> QED
    BY <2>1, <2>2, EarnedAlone DEF Earned
<1>9. ASSUME NEW c \in Calls, NEW up \in BOOLEAN, Verify(c, up)
      PROVE  Earned'
  <2>1. At(c, Making) /\ OnlyCall(c) /\ ~Holder(c)' /\ pool' \in PoolType
    BY <1>9, VerifyEffect DEF At, Making, Holder
  <2>2. \/ pool' = pool /\ credit' = credit
        \/ /\ credit' = credit + 1 /\ pool'.known
           /\ pool'.slots <= (IF pool.known THEN pool.slots ELSE 0) + 1
    BY <1>9, VerifyEffect
  <2>3. pool'.slots \in Nat
    BY <2>1 DEF PoolType, SourceAssumption
  <2>4. (~pool'.known => pool'.slots = 0) /\ pool'.slots <= credit'
    BY <1>a, <2>2, <2>3 DEF Earned
  <2> QED
    BY <2>1, <2>4, EarnedAlone
<1>10. ASSUME NEW c \in Calls, NEW works \in BOOLEAN, Undo(c, works)
       PROVE  Earned'
  <2>1. At(c, Making) /\ OnlyCall(c) /\ ~Holder(c)' /\ pool' \in PoolType /\ UNCHANGED credit
    BY <1>10, UndoEffect DEF At, Making, Holder
  <2>2. \/ pool' = pool
        \/ Holder(c) /\ pool'.known = pool.known /\ pool.known /\ pool'.slots <= pool.slots + 1
    BY <1>10, UndoEffect
  <2>3. pool'.slots \in Nat
    BY <2>1 DEF PoolType, SourceAssumption
  <2>4. (~pool'.known => pool'.slots = 0) /\ pool'.slots <= credit'
    BY <1>a, <2>1, <2>2, <2>3 DEF Earned
  <2> QED
    BY <2>1, <2>4, EarnedAlone
<1>11. ASSUME NEW c \in Calls, NEW deps \in BOOLEAN, NEW data \in BOOLEAN, StartClone(c, deps, data)
       PROVE  Earned'
  BY <1>11, <1>b, StartCloneEffect, EarnedKept DEF Holder
<1>12. ASSUME NEW works \in BOOLEAN, Stage(works)
       PROVE  Earned'
  <2>1. PICK step \in Follows : Goes(step[1], step[2], works)
    BY <1>12, StageEffect
  <2> QED
    BY <1>1, <2>1 DEF Goes
<1>13. CASE Forget
  <2>1. pool'.known = FALSE /\ pool'.slots = 0 /\ UNCHANGED <<call, credit>>
    BY <1>13 DEF Forget
  <2>2. pool'.slots <= credit' /\ ((\E c \in Calls : Holder(c)) => pool'.slots < credit')
    BY <1>a, <2>1 DEF Earned
  <2> QED
    BY <2>1, <2>2 DEF Earned, Holder, At
<1>14. CASE Crash
  <2>1. \A c \in Calls : ~Holder(c)'
    BY <1>14, <1>b, CrashEffect DEF Holder
  <2>2. pool'.slots = 0 /\ credit' = 0
    BY <1>14, CrashEffect
  <2> QED
    BY <2>1, <2>2 DEF Earned
<1>15. CASE UNCHANGED vars \/ (\E r \in Rooms : Sleep(r) \/ Delete(r) \/ Deleted(r)) \/ Edit
            \/ (\E up \in BOOLEAN : VerifyClone(up)) \/ VerifyCloneFails \/ (\E resumes \in BOOLEAN : Last(resumes))
            \/ (\E resumes, works \in BOOLEAN : UndoClone(resumes, works))
  BY <1>1, <1>15 DEF vars, Sleep, Delete, Deleted, Edit, VerifyClone, VerifyCloneFails, Last, UndoClone
<1> QED
  BY <1>2, <1>3, <1>4, <1>5, <1>6, <1>7, <1>8, <1>9, <1>10, <1>11, <1>12, <1>13, <1>14, <1>15
  DEF Next, Creates, Clones, Makes, Stage

-----------------------------------------------------------------------------
(* What the clone reads *)

\* The clone stays where it is, the source does not start and does not write.
LEMMA CutKept ==
    ASSUME Cut, UNCHANGED <<clone, edits>>, web' = "running" => web = "running" \/ clone.at = "idle"
    PROVE  Cut'
BY DEF Cut

LEMMA CutStep ==
    ASSUME SourceAssumption, IInv, [Next]_vars
    PROVE  Cut'
<1> USE DEF IInv
<1>1. ASSUME NEW c \in Calls, NEW works \in BOOLEAN, Wake(c, works)
      PROVE  Cut'
  <2>1. call[c].room \in Rooms
    BY <1>1 DEF Wake, Handed, At
  <2>2. /\ UNCHANGED <<clone, edits>> /\ ~Busy(call[c].room)
        /\ web' = web \/ call[c].room = Source
    BY <1>1, <2>1, WakeEffect
  <2>3. web' = web \/ clone.at = "idle"
    BY <2>1, <2>2, FreeRoom
  <2> QED
    BY <2>2, <2>3, CutKept
<1>2. ASSUME NEW c \in Calls, NEW deps \in BOOLEAN, NEW data \in BOOLEAN, StartClone(c, deps, data)
      PROVE  Cut'
  BY <1>2, StartCloneEffect DEF Cut
<1>3. ASSUME NEW works \in BOOLEAN, Pause(works)
      PROVE  Cut'
  <2>1. Goes("pause", "workspace", works) /\ UNCHANGED edits
    BY <1>3, PauseEffect DEF Goes
  <2>2. clone'.cut = clone.cut /\ clone.at = "pause" /\ clone'.at \in {"workspace", "undo"}
    BY <1>3, <2>1, PauseEffect DEF Goes
  <2>3. clone'.at = "workspace" => web' # "running"
    BY <1>3, <2>1, PauseEffect DEF Goes
  <2> QED
    BY <2>1, <2>2, <2>3 DEF Cut
<1>4. ASSUME NEW works \in BOOLEAN, CopyWorkspace(works) \/ CopyDeps(works) \/ CopyData(works)
      PROVE  Cut'
  <2>1. /\ UNCHANGED <<web, edits>> /\ clone.at \in {"workspace", "deps", "data"}
        /\ clone'.cut \in {clone.cut, clone.cut \cup {edits}} /\ clone'.at \in {"deps", "data", "resume", "undo"}
    <3>1. UNCHANGED web
      BY <1>4 DEF CopyWorkspace, CopyDeps, CopyData
    <3>2. CASE CopyWorkspace(works)
      <4>1. /\ Goes("workspace", "deps", works)
            /\ works => clone'.cut = clone.cut \cup {edits}
        BY <3>2, CopyEffect
      <4> QED
        BY <3>1, <4>1 DEF Goes
    <3>3. CASE CopyDeps(works)
      <4>1. /\ Goes("deps", "data", works)
            /\ works => clone'.cut \in {clone.cut \cup {edits}, clone.cut}
        BY <3>3, CopyEffect
      <4> QED
        BY <3>1, <4>1 DEF Goes
    <3>4. CASE CopyData(works)
      <4>1. /\ Goes("data", "resume", works)
            /\ works => clone'.cut \in {clone.cut \cup {edits}, clone.cut}
        BY <3>4, CopyEffect
      <4> QED
        BY <3>1, <4>1 DEF Goes
    <3> QED
      BY <1>4, <3>2, <3>3, <3>4
  <2> QED
    BY <2>1 DEF Cut
<1>5. ASSUME NEW works \in BOOLEAN, Resume(works)
      PROVE  Cut'
  <2>1. clone'.at \in {"target", "undo"} /\ clone'.cut = clone.cut
    BY <1>5, ResumeEffect DEF Goes
  <2> QED
    BY <2>1 DEF Cut
<1>6. ASSUME NEW works \in BOOLEAN, Target(works) \/ Install(works) \/ Services(works) \/ StartWeb(works)
      PROVE  Cut'
  <2>1. clone'.at \in {"install", "services", "web", "verify", "undo"} /\ clone'.cut = clone.cut
    <3>1. Target(works) => clone'.at \in {"install", "undo"} /\ clone'.cut = clone.cut
      BY BuildEffect DEF Goes
    <3>2. Install(works) => clone'.at \in {"services", "undo"} /\ clone'.cut = clone.cut
      BY BuildEffect DEF Goes
    <3>3. Services(works) => clone'.at \in {"web", "undo"} /\ clone'.cut = clone.cut
      BY BuildEffect DEF Goes
    <3>4. StartWeb(works) => clone'.at \in {"verify", "undo"} /\ clone'.cut = clone.cut
      BY BuildEffect DEF Goes
    <3> QED
      BY <1>6, <3>1, <3>2, <3>3, <3>4
  <2> QED
    BY <2>1 DEF Cut
<1>7. ASSUME NEW up \in BOOLEAN, VerifyClone(up)
      PROVE  Cut'
  BY <1>7, VerifyCloneEffect DEF Cut
<1>8. ASSUME NEW resumes \in BOOLEAN, NEW works \in BOOLEAN, UndoClone(resumes, works)
      PROVE  Cut'
  BY <1>8, UndoCloneEffect DEF Cut
<1>9. CASE Crash \/ \E resumes \in BOOLEAN : Last(resumes)
  <2>1. clone' = NoClone
    BY <1>9 DEF Crash, Last
  <2> QED
    BY <2>1 DEF Cut, NoClone
<1>10. CASE Edit
  <2>1. web = "running" /\ UNCHANGED <<web, clone>>
    BY <1>10 DEF Edit
  <2> QED
    BY <1>10, <2>1 DEF Cut
<1>11. ASSUME NEW r \in Rooms, Sleep(r) \/ Delete(r) \/ Deleted(r)
       PROVE  Cut'
  <2>1. UNCHANGED <<clone, edits>> /\ web' \in {"down", web}
    BY <1>11, RoomEffect
  <2> QED
    BY <2>1, CutKept
<1>12. CASE UNCHANGED <<clone, edits, web>>
  BY <1>12, CutKept
<1>13. CASE UNCHANGED vars \/ Forget
  BY <1>12, <1>13 DEF vars, Forget
<1>14. ASSUME NEW c \in Calls, NEW works \in BOOLEAN,
              \/ Admit(c) \/ Detect(c) \/ DetectFails(c) \/ Pod(c) \/ PodFails(c)
              \/ Import(c, works) \/ Setup(c, works) \/ Verify(c, works) \/ Undo(c, works)
       PROVE  Cut'
  BY <1>12, <1>14 DEF Admit, Detect, DetectFails, Pod, PodFails, Import, Setup, Make, Verify, Undo
<1>15. ASSUME NEW c \in Calls, NEW kind \in {"acquire", "create", "desk"}, NEW task \in Tasks \cup {None},
              Enter(c, kind, task)
       PROVE  Cut'
  BY <1>12, <1>15 DEF Enter
<1>16. CASE VerifyCloneFails
  BY <1>16, VerifyCloneFailsEffect DEF Cut
<1> QED
  BY <1>1, <1>2, <1>3, <1>4, <1>5, <1>6, <1>7, <1>8, <1>9, <1>10, <1>11, <1>13, <1>14, <1>15, <1>16
  DEF Next, Creates, Clones

-----------------------------------------------------------------------------
(* What the clone has made *)

\* Others do not touch the target.
LEMMA WholeKept ==
    ASSUME Whole, UNCHANGED clone,
           clone.at # "idle" => made'[clone.room] = made[clone.room] /\ rows'[clone.room] = rows[clone.room]
    PROVE  Whole'
BY DEF Whole

\* A call works on its own Room, or on one that nobody has.
LEMMA WholeCalls ==
    ASSUME Whole, Owned, SourceAssumption, TypeOK, UNCHANGED clone, NEW r \in Rooms,
           UNCHANGED made \/ OnlyMade(r), UNCHANGED rows \/ OnlyRow(r),
           clone.at # "idle" => r # clone.room
    PROVE  Whole'
<1>1. clone.at # "idle" => clone.room \in Rooms
  BY DEF Owned, Working, Rooms
<1> QED
  BY <1>1, WholeKept DEF OnlyMade, OnlyRow

LEMMA WholeStep ==
    ASSUME SourceAssumption, IInv, [Next]_vars
    PROVE  Whole'
<1> USE DEF IInv
<1>1. CASE UNCHANGED <<clone, made, rows>>
  BY <1>1, WholeKept
<1>2. ASSUME NEW c \in Calls, NEW works \in BOOLEAN, Wake(c, works)
      PROVE  Whole'
  <2>1. call[c].room \in Rooms
    BY <1>2 DEF Wake, Handed, At
  <2>2. UNCHANGED <<clone, made>> /\ ~Busy(call[c].room) /\ OnlyRow(call[c].room)
    BY <1>2, <2>1, WakeEffect
  <2>3. clone.at # "idle" => call[c].room # clone.room
    BY <2>1, <2>2, FreeRoom
  <2> QED
    BY <2>1, <2>2, <2>3, WholeCalls
<1>3. ASSUME NEW c \in Calls, Detect(c)
      PROVE  Whole'
  <2>1. PICK r \in Minted : r = call'[c].room
    BY <1>3, DetectEffect
  <2>2. OnlyRow(call'[c].room) /\ UNCHANGED <<clone, made>>
    BY <1>3, DetectEffect
  <2>3. r \in Rooms /\ rows[r].st = "none"
    BY <2>1, MintedIs
  <2>4. OnlyRow(r)
    BY <2>1, <2>2 DEF OnlyRow
  <2>5. clone.at # "idle" => r # clone.room
    BY <2>3 DEF Owned, Working, Unready
  <2> QED
    BY <2>2, <2>3, <2>4, <2>5, WholeCalls
<1>4. ASSUME NEW c \in Calls, At(c, Making), UNCHANGED clone,
             UNCHANGED made \/ OnlyMade(call[c].room), UNCHANGED rows \/ OnlyRow(call[c].room)
      PROVE  Whole'
  <2>1. call[c].room \in Rooms
    BY <1>4 DEF Owned, Rooms
  <2>2. clone.at # "idle" => call[c].room # clone.room
    BY <1>4, MakersApart
  <2> QED
    BY <1>4, <2>1, <2>2, WholeCalls
<1>5. ASSUME NEW c \in Calls, NEW works \in BOOLEAN, Makes(c, works)
      PROVE  Whole'
  BY <1>4, <1>5, MakesEffect DEF At, Making
<1>6. ASSUME NEW c \in Calls, Pod(c)
      PROVE  Whole'
  BY <1>4, <1>6, PodEffect DEF At, Making
<1>7. ASSUME NEW c \in Calls, NEW up \in BOOLEAN, Verify(c, up)
      PROVE  Whole'
  BY <1>4, <1>7, VerifyEffect DEF At, Making
<1>8. ASSUME NEW c \in Calls, NEW works \in BOOLEAN, Undo(c, works)
      PROVE  Whole'
  BY <1>4, <1>8, UndoEffect DEF At, Making
<1>9. ASSUME NEW c \in Calls, NEW deps \in BOOLEAN, NEW data \in BOOLEAN, StartClone(c, deps, data)
      PROVE  Whole'
  BY <1>9, StartCloneEffect DEF Whole
<1>10. ASSUME NEW works \in BOOLEAN, Pause(works) \/ CopyWorkspace(works)
       PROVE  Whole'
  <2>1. clone'.at \in {"workspace", "deps", "undo"}
    <3>1. Pause(works) => clone'.at \in {"workspace", "undo"}
      BY PauseEffect DEF Goes
    <3>2. CopyWorkspace(works) => clone'.at \in {"deps", "undo"}
      BY CopyEffect DEF Goes
    <3> QED
      BY <1>10, <3>1, <3>2
  <2> QED
    BY <2>1 DEF Whole
\* A step that fails leads to the undoing, of which nothing is said.
<1>a. ASSUME clone'.at = "undo"
      PROVE  Whole'
  BY <1>a DEF Whole
<1>11. ASSUME NEW works \in BOOLEAN, CopyDeps(works)
       PROVE  Whole'
  <2>1. /\ Goes("deps", "data", works)
        /\ works /\ clone.deps => "deps" \in made'[clone.room]
    BY <1>11, CopyEffect
  <2> QED
    BY <1>a, <2>1 DEF Goes, Whole
<1>12. ASSUME NEW works \in BOOLEAN, CopyData(works) \/ Resume(works) \/ Target(works)
       PROVE  Whole'
  <2>1. PICK from \in {"data", "resume", "target"}, to \in {"resume", "target", "install"} : Goes(from, to, works)
    BY <1>12, CopyEffect, ResumeEffect, BuildEffect
  <2> QED
    BY <1>a, <2>1 DEF Goes, Whole
<1>13. ASSUME NEW works \in BOOLEAN, Install(works)
       PROVE  Whole'
  <2>1. /\ Goes("install", "services", works)
        /\ works /\ ~clone.deps => "deps" \in made'[clone.room]
    BY <1>13, BuildEffect
  <2>2. clone.deps => "deps" \in made[clone.room]
    BY <2>1 DEF Goes, Whole
  <2> QED
    BY <1>a, <2>1, <2>2 DEF Goes, Whole
<1>14. ASSUME NEW works \in BOOLEAN, Services(works)
       PROVE  Whole'
  <2>1. /\ Goes("services", "web", works)
        /\ works /\ clone.data => "db" \in made'[clone.room]
    BY <1>14, BuildEffect
  <2> QED
    BY <1>a, <2>1 DEF Goes, Whole
<1>15. ASSUME NEW works \in BOOLEAN, StartWeb(works)
       PROVE  Whole'
  <2>1. Goes("web", "verify", works)
    BY <1>15, BuildEffect
  <2> QED
    BY <1>a, <2>1 DEF Goes, Whole
<1>16. ASSUME NEW up \in BOOLEAN, VerifyClone(up)
       PROVE  Whole'
  BY <1>16, VerifyCloneEffect DEF Whole
<1>17. ASSUME NEW resumes \in BOOLEAN, NEW works \in BOOLEAN, UndoClone(resumes, works)
       PROVE  Whole'
  <2>1. clone'.at = "last" /\ clone'.room = clone.room /\ clone.room \in Rooms /\ Removed(clone.room, works)
    BY <1>17, UndoCloneEffect
  <2>2. rows'[clone.room] = Gone \/ rows'[clone.room].st = "broken"
    BY <2>1, Removing
  <2> QED
    BY <2>1, <2>2 DEF Whole, Gone, Row
<1>18. CASE Crash \/ \E resumes \in BOOLEAN : Last(resumes)
  <2>1. clone' = NoClone
    BY <1>18 DEF Crash, Last
  <2> QED
    BY <2>1 DEF Whole, NoClone
<1>19. ASSUME NEW r \in Rooms, Sleep(r) \/ Delete(r) \/ Deleted(r)
       PROVE  Whole'
  <2>1. /\ UNCHANGED clone /\ OnlyRow(r)
        /\ \/ UNCHANGED made
           \/ OnlyMade(r)
        /\ \/ ~Busy(r)
           \/ rows[r].st = "deleting"
    BY <1>19, RoomEffect
  <2>2. clone.at # "idle" => r # clone.room
    BY <2>1, FreeRoom DEF Owned, Working, Unready
  <2> QED
    BY <2>1, <2>2, WholeCalls
<1>20. CASE UNCHANGED vars \/ Edit \/ Forget
  BY <1>1, <1>20 DEF vars, Edit, Forget
<1>21. ASSUME NEW c \in Calls, Admit(c) \/ DetectFails(c)
       PROVE  Whole'
  BY <1>1, <1>21 DEF Admit, DetectFails
<1>22. ASSUME NEW c \in Calls, NEW kind \in {"acquire", "create", "desk"}, NEW task \in Tasks \cup {None},
              Enter(c, kind, task)
       PROVE  Whole'
  BY <1>1, <1>22 DEF Enter
<1>23. CASE VerifyCloneFails
  BY <1>23, <1>a, VerifyCloneFailsEffect
<1> QED
  BY <1>2, <1>3, <1>5, <1>6, <1>7, <1>8, <1>9, <1>10, <1>11, <1>12, <1>13, <1>14, <1>15, <1>16, <1>17, <1>18,
     <1>19, <1>20, <1>21, <1>22, <1>23 DEF Next, Creates, Clones, Makes

-----------------------------------------------------------------------------
(* The paused source *)

\* The clone stays where it is, and nobody else pauses the source.
LEMMA ResumesKept ==
    ASSUME Resumes, UNCHANGED <<clone, stuck>>, web' # "paused" \/ web' = web
    PROVE  Resumes'
BY DEF Resumes

LEMMA ResumesStep ==
    ASSUME SourceAssumption, IInv, [Next]_vars
    PROVE  Resumes'
<1> USE DEF IInv
<1>a. stuck \in Nat
  BY DEF TypeOK
<1>1. ASSUME NEW c \in Calls, NEW works \in BOOLEAN, Wake(c, works)
      PROVE  Resumes'
  <2>1. call[c].room \in Rooms
    BY <1>1 DEF Wake, Handed, At
  <2>2. UNCHANGED <<clone, stuck>> /\ (web' = web \/ web' = "running")
    BY <1>1, <2>1, WakeEffect
  <2> QED
    BY <2>2, ResumesKept
<1>2. ASSUME NEW c \in Calls, NEW deps \in BOOLEAN, NEW data \in BOOLEAN, StartClone(c, deps, data)
      PROVE  Resumes'
  BY <1>2, StartCloneEffect DEF Resumes
<1>3. ASSUME NEW works \in BOOLEAN, Pause(works)
      PROVE  Resumes'
  <2>1. /\ clone.at = "pause" /\ clone'.at = (IF works THEN "workspace" ELSE "undo")
        /\ ~works => clone'.holds = clone.holds
    BY <1>3, PauseEffect DEF Goes
  <2>2. /\ works => clone'.holds = (web = "running")
        /\ web' = IF works /\ web = "running" THEN "paused" ELSE web
        /\ stuck' = stuck
    BY <1>3, PauseEffect
  <2> QED
    BY <2>1, <2>2 DEF Resumes
<1>4. ASSUME NEW works \in BOOLEAN, CopyWorkspace(works) \/ CopyDeps(works) \/ CopyData(works)
      PROVE  Resumes'
  <2>1. UNCHANGED <<web, stuck>>
    BY <1>4 DEF CopyWorkspace, CopyDeps, CopyData
  <2>2. /\ clone.at # "idle" /\ clone'.at \in {"deps", "data", "resume", "undo"}
        /\ clone'.holds = clone.holds
    <3>1. CopyWorkspace(works) => Goes("workspace", "deps", works) /\ (works => clone'.holds = clone.holds)
      BY CopyEffect
    <3>2. CopyDeps(works) => Goes("deps", "data", works) /\ (works => clone'.holds = clone.holds)
      BY CopyEffect
    <3>3. CopyData(works) => Goes("data", "resume", works) /\ (works => clone'.holds = clone.holds)
      BY CopyEffect
    <3> QED
      BY <1>4, <3>1, <3>2, <3>3 DEF Goes
  <2> QED
    BY <2>1, <2>2 DEF Resumes
<1>5. ASSUME NEW works \in BOOLEAN, Resume(works)
      PROVE  Resumes'
  <2>1. /\ clone.at = "resume" /\ clone'.at = (IF works THEN "target" ELSE "undo")
        /\ clone'.holds = (IF works THEN FALSE ELSE clone.holds)
        /\ clone.holds \/ works
    BY <1>5, ResumeEffect DEF Goes
  <2>2. /\ web' = IF works /\ clone.holds THEN "running" ELSE web
        /\ stuck' = IF works THEN stuck ELSE stuck + 1
    BY <1>5, ResumeEffect DEF Unpaused
  <2> QED
    BY <1>a, <2>1, <2>2 DEF Resumes
<1>6. ASSUME NEW works \in BOOLEAN, Target(works) \/ Install(works) \/ Services(works) \/ StartWeb(works)
      PROVE  Resumes'
  <2>1. UNCHANGED <<web, stuck>>
    BY <1>6 DEF Target, Install, Services, StartWeb
  <2>2. /\ clone.at # "idle" /\ clone'.at \in {"install", "services", "web", "verify", "undo"}
        /\ clone'.holds = clone.holds /\ clone.at \in {"target", "install", "services", "web"}
    <3>1. Target(works) => Goes("target", "install", works) /\ (works => clone'.holds = clone.holds)
      BY BuildEffect
    <3>2. Install(works) => Goes("install", "services", works) /\ (works => clone'.holds = clone.holds)
      BY BuildEffect
    <3>3. Services(works) => Goes("services", "web", works) /\ (works => clone'.holds = clone.holds)
      BY BuildEffect
    <3>4. StartWeb(works) => Goes("web", "verify", works) /\ (works => clone'.holds = clone.holds)
      BY BuildEffect
    <3> QED
      BY <1>6, <3>1, <3>2, <3>3, <3>4 DEF Goes
  <2> QED
    BY <2>1, <2>2 DEF Resumes
<1>7. ASSUME NEW up \in BOOLEAN, VerifyClone(up)
      PROVE  Resumes'
  BY <1>7, VerifyCloneEffect DEF Resumes
<1>8. ASSUME NEW resumes \in BOOLEAN, NEW works \in BOOLEAN, UndoClone(resumes, works)
      PROVE  Resumes'
  <2>1. /\ clone.at = "undo" /\ clone'.at = "last" /\ clone'.holds = (clone.holds /\ ~resumes)
        /\ clone.holds \/ resumes
    BY <1>8, UndoCloneEffect
  <2>2. /\ web' = IF resumes /\ clone.holds THEN "running" ELSE web
        /\ stuck' = IF resumes THEN stuck ELSE stuck + 1
    BY <1>8, UndoCloneEffect DEF Unpaused
  <2>3. CASE resumes
    <3>1. web' = "paused" => stuck' >= 2
      BY <1>a, <2>1, <2>2, <2>3 DEF Resumes
    <3>2. ~clone'.holds
      BY <2>1, <2>3
    <3> QED
      BY <2>1, <3>1, <3>2 DEF Resumes
  <2>4. CASE ~resumes
    <3>1. clone'.holds
      BY <2>1, <2>4
    <3>2. stuck' >= 1
      BY <1>a, <2>2, <2>4
    <3> QED
      BY <2>1, <3>1, <3>2 DEF Resumes
  <2> QED
    BY <2>3, <2>4
<1>9. ASSUME NEW resumes \in BOOLEAN, Last(resumes)
      PROVE  Resumes'
  <2>1. clone.at = "last" /\ clone'.at = "idle" /\ clone'.holds = FALSE /\ (clone.holds \/ resumes)
    BY <1>9, LastEffect DEF NoClone
  <2>2. /\ web' = IF resumes /\ clone.holds THEN "running" ELSE web
        /\ stuck' = IF resumes THEN stuck ELSE stuck + 1
    BY <1>9, LastEffect DEF Unpaused
  <2> QED
    BY <1>a, <2>1, <2>2 DEF Resumes
<1>10. CASE Crash
  BY <1>10, CrashEffect DEF Resumes, NoClone
<1>11. ASSUME NEW r \in Rooms, Sleep(r) \/ Delete(r) \/ Deleted(r)
       PROVE  Resumes'
  <2>1. UNCHANGED <<clone, stuck>> /\ web' \in {"down", web}
    BY <1>11, RoomEffect
  <2> QED
    BY <2>1, ResumesKept
<1>12. CASE UNCHANGED <<clone, stuck, web>>
  BY <1>12, ResumesKept
<1>13. CASE UNCHANGED vars \/ Forget \/ Edit
  BY <1>12, <1>13 DEF vars, Forget, Edit
<1>14. ASSUME NEW c \in Calls, NEW works \in BOOLEAN,
              \/ Admit(c) \/ Detect(c) \/ DetectFails(c) \/ Pod(c) \/ PodFails(c)
              \/ Import(c, works) \/ Setup(c, works) \/ Verify(c, works) \/ Undo(c, works)
       PROVE  Resumes'
  BY <1>12, <1>14 DEF Admit, Detect, DetectFails, Pod, PodFails, Import, Setup, Make, Verify, Undo
<1>15. ASSUME NEW c \in Calls, NEW kind \in {"acquire", "create", "desk"}, NEW task \in Tasks \cup {None},
              Enter(c, kind, task)
       PROVE  Resumes'
  BY <1>12, <1>15 DEF Enter
<1>16. CASE VerifyCloneFails
  BY <1>16, VerifyCloneFailsEffect DEF Resumes
<1> QED
  BY <1>1, <1>2, <1>3, <1>4, <1>5, <1>6, <1>7, <1>8, <1>9, <1>10, <1>11, <1>13, <1>14, <1>15, <1>16
  DEF Next, Creates, Clones

-----------------------------------------------------------------------------
(* The inductive invariant *)

LEMMA InvInit == SourceAssumption /\ Init => IInv
<1> SUFFICES ASSUME SourceAssumption, Init
             PROVE  IInv
  OBVIOUS
<1>1. TypeOK
  BY TypeInit
<1>2. /\ \A c \in Calls : call[c].at = "new" /\ call[c].lease = "none"
      /\ clone.at = "idle" /\ clone.holds = FALSE /\ clone.cut = {}
      /\ pool.known = FALSE /\ pool.slots = 0 /\ credit = 0
      /\ web # "paused"
  BY DEF Init, NoClone
<1>3. \A r \in Rooms : /\ r # Source => rows[r].st = "none" /\ rows[r].by = "none" /\ made[r] = {}
                       /\ r = Source => rows[r].st \in {"ready", "sleeping"} /\ rows[r].by = "desk"
  BY DEF Init, NoRow, Row, Rooms
<1>4. HeadOnly
  BY <1>2 DEF HeadOnly, At, Admitted, Making
<1>5. Owned
  <2>1. \A c \in Calls : ~At(c, Making)
    BY <1>2 DEF At, Making
  <2>2. ~Working
    BY <1>2 DEF Working
  <2>3. ASSUME NEW r \in Rooms
        PROVE  /\ rows[r].st \notin {"preparing", "running"}
               /\ made[r] # {} => There(r)
               /\ ~There(r) => rows[r].by = "none"
    BY <1>3 DEF There
  <2> QED
    BY <1>2, <2>1, <2>2, <2>3 DEF Owned
<1>6. Handed /\ Spared
  BY <1>2 DEF Handed, Spared, At, Answered, Working
<1>7. Tasked
  <2>1. \A r \in Rooms : ~Agentic(r)
    BY <1>3 DEF Agentic, Agents
  <2> QED
    BY <2>1 DEF Tasked
<1>8. Earned
  BY <1>2 DEF Earned, Holder
<1>9. Cut /\ Whole /\ Resumes
  BY <1>2 DEF Cut, Whole, Resumes
<1> QED
  BY <1>1, <1>4, <1>5, <1>6, <1>7, <1>8, <1>9 DEF IInv

LEMMA InvStep ==
    ASSUME SourceAssumption, IInv, [Next]_vars
    PROVE  IInv'
<1>1. TypeOK' /\ HeadOnly' /\ Owned'
  BY TypeStep, HeadOnlyStep, OwnedStep
<1>2. Handed' /\ Spared' /\ Tasked' /\ Earned'
  BY HandedStep, SparedStep, TaskedStep, EarnedStep
<1>3. Cut' /\ Whole' /\ Resumes'
  BY CutStep, WholeStep, ResumesStep
<1> QED
  BY <1>1, <1>2, <1>3 DEF IInv

LEMMA Invariance == ASSUME SourceAssumption PROVE Spec => []IInv
<1>1. Init => IInv
  BY InvInit
<1>2. IInv /\ [Next]_vars => IInv'
  BY InvStep
<1> QED
  BY <1>1, <1>2, PTL DEF Spec

-----------------------------------------------------------------------------
(* What follows *)

\* Every variable of the creations and clones has its type.
THEOREM TypeCorrect == ASSUME SourceAssumption PROVE Spec => []TypeOK
<1>1. IInv => TypeOK
  BY DEF IInv
<1> QED
  BY <1>1, Invariance, PTL

\* What the engine has of a Room is owned by a row, and a row that is being prepared has
\* somebody who works on it (createRoom and cloneRoom with their catch blocks, and startup).
THEOREM NothingIsOrphaned == ASSUME SourceAssumption PROVE Spec => []OwnedOrNothing
<1>1. IInv => OwnedOrNothing
  <2> SUFFICES ASSUME IInv, NEW r \in Rooms
               PROVE  /\ made[r] # {} => There(r)
                      /\ rows[r].st \in {"preparing", "running"} => Busy(r)
    BY DEF OwnedOrNothing
  <2>1. made[r] # {} => There(r)
    BY DEF IInv, Owned
  <2>2. rows[r].st \in {"preparing", "running"} => Busy(r)
    BY DEF IInv, Owned, Working, Busy, At
  <2> QED
    BY <2>1, <2>2
<1> QED
  BY <1>1, Invariance, PTL

\* Agents that call acquire and create at the same time get one Room per task identity
\* (withRoomAdmission and isCompatibleRoom).
THEOREM TasksGetOneRoom == ASSUME SourceAssumption PROVE Spec => []OneRoomPerTask
<1>1. IInv => OneRoomPerTask
  <2> SUFFICES ASSUME IInv, NEW r \in Rooms, NEW q \in Rooms, r # q,
                      {rows[r].by, rows[q].by} \subseteq {"acquire", "create"},
                      {rows[r].st, rows[q].st} \cap {"deleting"} = {}
               PROVE  rows[r].task # rows[q].task
    BY DEF OneRoomPerTask
  <2>1. Agentic(r) /\ Agentic(q)
    BY DEF Agentic, Agents
  <2> QED
    BY <2>1 DEF IInv, Tasked
<1> QED
  BY <1>1, Invariance, PTL

\* No call was handed a Room that a creation can still undo, and none that names a task
\* the Room of a clone that can (acquireRoomAdmitted and isCompatibleRoom).  An acquire
\* without a task identity is the exception that the property states.
THEOREM HandedRoomsStay == ASSUME SourceAssumption PROVE Spec => []HandedIsMade
<1>1. IInv => HandedIsMade
  BY DEF IInv, Handed, Spared, HandedIsMade, BeingCloned, Working, At, Answered
<1> QED
  BY <1>1, Invariance, PTL

\* A slot of the warm pool that is ready or claimed stands for a proof of readiness of its
\* own: of all calls only the admitted one holds a claim.
THEOREM SlotsAreEarned == ASSUME SourceAssumption PROVE Spec => []PoolIsEarned
<1>1. SourceAssumption /\ IInv => PoolIsEarned
  <2> SUFFICES ASSUME SourceAssumption, IInv
               PROVE  PoolIsEarned
    OBVIOUS
  <2> DEFINE held == {c \in Calls : call[c].lease = "held"}
  <2>1. pool.slots \in Nat /\ credit \in Nat /\ pool.slots <= credit
    BY DEF IInv, TypeOK, Earned, SourceAssumption
  <2>2. CASE held = {}
    <3>1. Cardinality(held) = 0
      BY <2>2, FS_EmptySet
    <3> QED
      BY <2>1, <3>1 DEF PoolIsEarned
  <2>3. CASE held # {}
    <3>1. PICK c \in Calls : Holder(c)
      BY <2>3 DEF Holder
    <3>2. \A d \in Calls : Holder(d) => At(d, Admitted)
      BY DEF IInv, Earned, At, Admitted, Making
    <3>3. held = {c}
      BY <3>1, <3>2 DEF IInv, HeadOnly, Holder
    <3>4. Cardinality(held) = 1
      BY <3>3, FS_Singleton
    <3>5. pool.slots < credit
      BY <3>1 DEF IInv, Earned
    <3> QED
      BY <2>1, <3>4, <3>5 DEF PoolIsEarned
  <2> QED
    BY <2>2, <2>3
<1> QED
  BY <1>1, Invariance, PTL

\* Workspace, dependencies and services of a clone are copied from one version of the
\* source, which is paused while they are read.
THEOREM CloneIsOneCut == ASSUME SourceAssumption PROVE Spec => []OneCut
<1>1. IInv => OneCut
  <2> SUFFICES ASSUME IInv
               PROVE  Cardinality(clone.cut) <= 1
    BY DEF OneCut
  <2>1. CASE clone.cut = {}
    BY <2>1, FS_EmptySet
  <2>2. CASE clone.cut # {}
    <3>1. PICK e \in clone.cut : TRUE
      BY <2>2
    <3>2. clone.cut = {e}
      BY <3>1 DEF IInv, Cut
    <3> QED
      BY <3>2, FS_Singleton
  <2> QED
    BY <2>1, <2>2
<1> QED
  BY <1>1, Invariance, PTL

\* The application of a clone starts when its dependencies and services are there.
THEOREM CloneStartsWhole == ASSUME SourceAssumption PROVE Spec => []StartsWhole
<1>1. IInv => StartsWhole
  BY DEF IInv, Owned, Unready, Whole, StartsWhole
<1> QED
  BY <1>1, Invariance, PTL

\* When a clone is over its source runs again, unless the engine refused twice to resume it.
THEOREM SourceIsResumed == ASSUME SourceAssumption PROVE Spec => []SourceResumes
<1>1. IInv => SourceResumes
  BY DEF IInv, Resumes, SourceResumes
<1> QED
  BY <1>1, Invariance, PTL

\* All of them together: concurrent creations, acquires, clones and claims of warm
\* Rooms, with steps that fail and restarts, leave every Room owned and whole, one per
\* task identity, and answer no call with a Room that can still be undone, but for an
\* acquire that names no task while a clone is under way; for any numbers of Rooms,
\* calls, tasks, slots, edits and faults.
THEOREM CreationIsSafe == ASSUME SourceAssumption PROVE Spec => []CreationHolds
<1>1. CreationHolds <=> /\ OwnedOrNothing /\ OneRoomPerTask /\ HandedIsMade /\ PoolIsEarned
                        /\ OneCut /\ StartsWhole /\ SourceResumes
  BY DEF CreationHolds
<1> QED
  BY <1>1, NothingIsOrphaned, TasksGetOneRoom, HandedRoomsStay, SlotsAreEarned, CloneIsOneCut,
     CloneStartsWhole, SourceIsResumed, PTL
=============================================================================
