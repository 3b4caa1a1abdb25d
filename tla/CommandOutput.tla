--------------------------- MODULE CommandOutput ---------------------------
(***************************************************************************)
(* The commands that agents run in one Room: the workload slot that orders *)
(* them and that sleep, deletion and Host sync cancel (Orchestrator), the  *)
(* process in the container (execInRoom of the OCI backend), and the files *)
(* that keep the output a bounded response cannot carry (runOutput.ts),    *)
(* with the pins of published acceptance reports.                          *)
(*                                                                         *)
(* A command is admitted under the lifecycle lock and then waits, reads    *)
(* and runs without it.                                                    *)
(***************************************************************************)
EXTENDS Naturals, Sequences, FiniteSets, FiniteSetsExt, SequencesExt

CONSTANTS
    Commands,
    MaxRuns,        \* DEFAULT_RETAINED_RUNS
    MaxBytes,       \* DEFAULT_RETAINED_BYTES, in units of one command's output
    MaxSize,        \* bound: output of one command
    MaxAtOnce,      \* bound: commands under way at the same time
    MaxOps,         \* bound: lifecycle operations
    MaxCrashes      \* bound: restarts of the application

RetentionAssumption == MaxRuns \in Nat \ {0} /\ MaxBytes \in Nat /\ MaxSize \in Nat

VARIABLES
    status,     \* the Room's row: awake, asleep, deleting, gone
    box,        \* its web container runs
    idle,       \* the idle timeout has passed since the last activity
    lifecycle,  \* what holds the lifecycle lock, and where it is
    stage,      \* per command, where its call is
    slot,       \* activeWorkloads, in the order of the slot
    aborted,    \* the commands whose signal is aborted
    closed,     \* the commands whose caller closed the response
    guest,      \* the commands whose process tree is alive in the container
    leaked,     \* history: whose call reported that its tree may be alive
    size,       \* per command, what it wrote
    disk,       \* per command, its run directory: none, logs, kept
    finished,   \* the kept runs in the order of finishedAt
    owed,       \* the runs that a response promised, or whose response was lost
    pinned,     \* the runs of published acceptance reports
    swept,      \* the last prune left nothing to do
    ops, crashes

room == <<status, box, idle, lifecycle, ops>>
commands == <<stage, slot, aborted, closed, guest, leaked>>
output == <<size, disk, finished, owed, pinned, swept>>
vars == <<room, commands, output, crashes>>

Free == [op |-> "none", at |-> "none", for |-> {}]

-----------------------------------------------------------------------------
(* Retention *)

Kept(files) == {c \in Commands : files[c] = "kept"}

Age(c, order) == CHOOSE i \in 1..Len(order) : order[i] = c

\* Newest first, with the run that was just kept in front.
ByAge(files, order, just) ==
    LET kept == SelectSeq(Reverse(order), LAMBDA c : files[c] = "kept")
    IN  SelectSeq(kept, LAMBDA c : c \in just) \o SelectSeq(kept, LAMBDA c : c \notin just)

\* Mutant: a pinned run is weighed like the others
MutantStaysOn(w, c, first) == first \/ (~w.full /\ w.runs < MaxRuns /\ w.bytes + size[c] <= MaxBytes)

\* The run at the front stays whatever it weighs; once one run does not fit,
\* every older one that is not pinned goes.
StaysOn(w, c, first) ==
    c \in pinned \/ first \/ (~w.full /\ w.runs < MaxRuns /\ w.bytes + size[c] <= MaxBytes)

Weigh(w, c, first) ==
    IF StaysOn(w, c, first)
    THEN [runs |-> w.runs + 1, bytes |-> w.bytes + size[c], stays |-> w.stays \cup {c},
          full |-> w.full \/ (c \notin pinned /\ (w.bytes + size[c] > MaxBytes \/ w.runs + 1 >= MaxRuns))]
    ELSE [w EXCEPT !.full = TRUE]

Retained(files, order, just) ==
    LET queue == ByAge(files, order, just)
        start == [runs |-> 0, bytes |-> 0, stays |-> {}, full |-> FALSE]
        step(w, c) == Weigh(w, c, c = Head(queue))
    IN  FoldLeft(step, start, queue).stays

\* pruneWithRetentionFence: runs that do not fit, and the leftovers of runs
\* that no manifest describes and nobody is writing.
Pruned(files, order, just, active) ==
    LET stays == Retained(files, order, just)
        spared == {c \in pinned : files[c] # "kept"}
    IN  [c \in Commands |-> IF c \in active \cup stays \cup spared THEN files[c] ELSE "none"]

-----------------------------------------------------------------------------
(* A command *)

Active == Range(slot)

UnderWay == Cardinality({c \in Commands : stage[c] \notin {"new", "done"}})

\* The call is over, and its signal and its listeners are gone.
Ended(c) ==
    /\ stage' = [stage EXCEPT ![c] = "done"]
    /\ slot' = SelectSeq(slot, LAMBDA d : d # c)
    /\ aborted' = aborted \ {c}
    /\ closed' = closed \ {c}

\* Mutant: a command that is admitted is no activity
MutantAdmit(c) ==
    /\ stage[c] = "new" /\ lifecycle = Free /\ status = "awake" /\ UnderWay < MaxAtOnce
    /\ stage' = [stage EXCEPT ![c] = "admitted"]
    /\ UNCHANGED <<room, slot, aborted, closed, guest, leaked, output, crashes>>

\* Under the lifecycle lock
Admit(c) ==
    /\ stage[c] = "new" /\ lifecycle = Free /\ status = "awake" /\ UnderWay < MaxAtOnce
    /\ stage' = [stage EXCEPT ![c] = "admitted"]
    /\ idle' = FALSE
    /\ UNCHANGED <<status, box, lifecycle, ops, slot, aborted, closed, guest, leaked, output, crashes>>

\* withWorkloadSlot, after the lock was given back
Register(c) ==
    /\ stage[c] = "admitted"
    /\ stage' = [stage EXCEPT ![c] = "queued"]
    /\ slot' = Append(slot, c)
    /\ UNCHANGED <<room, aborted, closed, guest, leaked, output, crashes>>

\* The caller closes the response of the control API.
Close(c) ==
    /\ stage[c] \in {"queued", "probing", "starting", "running"} /\ c \notin closed
    /\ closed' = closed \cup {c}
    /\ aborted' = aborted \cup {c}
    /\ UNCHANGED <<room, stage, slot, guest, leaked, output, crashes>>

\* The slot serves one command after the other.
Turn(c) == slot # <<>> /\ Head(slot) = c

\* The Room is read again after queueing.
Begin(c) ==
    /\ stage[c] = "queued" /\ Turn(c)
    /\ IF c \in aborted \/ status # "awake"
         THEN Ended(c)
         ELSE stage' = [stage EXCEPT ![c] = "probing"] /\ UNCHANGED <<slot, aborted, closed>>
    /\ UNCHANGED <<room, guest, leaked, output, crashes>>

\* webState answers, and runs.begin gives the command its run
Probed(c) ==
    /\ stage[c] = "probing"
    /\ IF c \in aborted \/ ~box
         THEN Ended(c)
         ELSE stage' = [stage EXCEPT ![c] = "starting"] /\ UNCHANGED <<slot, aborted, closed>>
    /\ UNCHANGED <<room, guest, leaked, output, crashes>>

\* The engine is called: not with a signal that is aborted, and in vain when
\* the container is down.
Spawn(c) ==
    /\ stage[c] = "starting"
    /\ stage' = [stage EXCEPT ![c] = "running"]
    /\ guest' = IF c \notin aborted /\ box THEN guest \cup {c} ELSE guest
    /\ UNCHANGED <<room, slot, aborted, closed, leaked, output, crashes>>

\* Output reaches the window and the file, which the first byte opens.
Write(c) ==
    /\ c \in guest /\ stage[c] = "running" /\ c \notin aborted /\ size[c] < MaxSize
    /\ size' = [size EXCEPT ![c] = @ + 1]
    /\ disk' = [disk EXCEPT ![c] = "logs"]
    /\ swept' = FALSE
    /\ UNCHANGED <<room, commands, finished, owed, pinned, crashes>>

Exit(c) ==
    /\ c \in guest /\ c \notin leaked
    /\ guest' = guest \ {c}
    /\ UNCHANGED <<room, stage, slot, aborted, closed, leaked, output, crashes>>

\* A command that is cancelled or that times out has its process tree reaped.
\* When that fails and the container runs, the call says so.
Reap(c, works) ==
    /\ stage[c] = "running" /\ c \in guest
    /\ stage' = [stage EXCEPT ![c] = "reaped"]
    /\ guest' = IF works THEN guest \ {c} ELSE guest
    /\ leaked' = IF works THEN leaked ELSE leaked \cup {c}
    /\ UNCHANGED <<room, slot, aborted, closed, output, crashes>>

\* Mutant: the output is kept for a response that is cut, not for a lost one
MutantWanted(c, cut) == size[c] > 0 /\ cut

\* The raw output is kept when the response withholds some of it or is lost.
Wanted(c, cut) == size[c] > 0 /\ (cut \/ c \in closed)

\* runs.complete: the manifest, the answer and a prune, which is left out when
\* another transaction is open.
Complete(c, cut, manifest, prunes) ==
    LET keeps == Wanted(c, cut) /\ manifest
        files == [disk EXCEPT ![c] = IF keeps THEN "kept" ELSE "none"]
        order == IF keeps THEN Append(finished, c) ELSE finished
        active == {d \in Active \ {c} : stage[d] = "running"}
    IN  /\ stage[c] \in {"running", "reaped"} /\ (c \notin guest \/ c \in leaked)
        /\ Ended(c)
        /\ owed' = IF size[c] > 0 /\ (cut \/ c \in closed) /\ manifest THEN owed \cup {c} ELSE owed
        /\ disk' = IF prunes THEN Pruned(files, order, IF keeps THEN {c} ELSE {}, active) ELSE files
        /\ finished' = SelectSeq(order, LAMBDA d : disk'[d] = "kept")
        /\ size' = [d \in Commands |-> IF disk'[d] = "none" THEN 0 ELSE size[d]]
        /\ swept' = prunes
        /\ UNCHANGED <<room, guest, leaked, pinned, crashes>>

-----------------------------------------------------------------------------
(* The Room *)

LockOps == {"sleep", "delete", "sync"}

\* The idle timeout passes.  The steps between admission and registration
\* take no time.
TimePasses ==
    /\ status = "awake" /\ ~idle
    /\ \A c \in Commands : stage[c] # "admitted"
    /\ idle' = TRUE
    /\ UNCHANGED <<status, box, lifecycle, ops, commands, output, crashes>>

TakeLock(op) ==
    /\ lifecycle = Free /\ ops < MaxOps
    /\ ops' = ops + 1
    /\ status = "awake" \/ (op = "delete" /\ status = "asleep")
    /\ lifecycle' = [op |-> op, at |-> "cancel", for |-> {}]
    /\ status' = IF op = "delete" THEN "deleting" ELSE status
    /\ UNCHANGED <<box, idle, commands, output, crashes>>

\* sweepRoomLifecycle: a command in the slot is activity.
Sweep ==
    /\ lifecycle = Free /\ status = "awake" /\ idle /\ ops < MaxOps
    /\ ops' = ops + 1
    /\ IF slot # <<>>
         THEN idle' = FALSE /\ UNCHANGED lifecycle
         ELSE lifecycle' = [op |-> "sweep", at |-> "cancel", for |-> {}] /\ UNCHANGED idle
    /\ UNCHANGED <<status, box, commands, output, crashes>>

\* cancelRoomWorkloads aborts what is registered and waits for that.
Cancel ==
    /\ lifecycle.at = "cancel"
    /\ aborted' = aborted \cup Active
    /\ lifecycle' = [lifecycle EXCEPT !.at = "wait", !.for = Active]
    /\ UNCHANGED <<status, box, idle, ops, stage, slot, closed, guest, leaked, output, crashes>>

\* The container stops, goes, or is replaced by a sync that succeeds, and what
\* ran in it is gone.
Stop ==
    /\ lifecycle.at = "wait" /\ lifecycle.for \cap Active = {}
    /\ box' = (lifecycle.op = "sync")
    /\ guest' \in IF lifecycle.op = "sync" THEN {guest, {}} ELSE {{}}
    /\ status' = CASE lifecycle.op = "sync" -> status
                   [] lifecycle.op = "delete" -> "gone"
                   [] OTHER -> "asleep"
    /\ lifecycle' = Free
    /\ IF lifecycle.op = "delete"
         THEN /\ disk' = [c \in Commands |-> "none"]
              /\ finished' = <<>>
              /\ pinned' = {} /\ owed' = {}
              /\ size' = [c \in Commands |-> 0]
         ELSE UNCHANGED <<disk, finished, pinned, owed, size>>
    /\ UNCHANGED <<idle, ops, stage, slot, aborted, closed, leaked, swept, crashes>>

\* A change replaces the container and asks no command.
Recreate ==
    /\ lifecycle = Free /\ status = "awake" /\ guest # {}
    /\ guest' = {}
    /\ UNCHANGED <<room, stage, slot, aborted, closed, leaked, output, crashes>>

Wake ==
    /\ lifecycle = Free /\ status = "asleep"
    /\ status' = "awake" /\ box' = TRUE /\ idle' = FALSE
    /\ UNCHANGED <<lifecycle, ops, commands, output, crashes>>

\* verifyRetainedReference, in the transaction that inserts the report
Pinnable(c) == disk[c] = "kept" /\ c \notin Active

Pin(c) ==
    /\ status = "awake" /\ Pinnable(c)
    /\ pinned' = pinned \cup {c}
    /\ UNCHANGED <<room, commands, size, disk, finished, owed, swept, crashes>>

\* The application dies; the container goes on, and nobody answers for what
\* runs in it.
Crash ==
    /\ crashes < MaxCrashes /\ status \in {"awake", "asleep"}
    /\ crashes' = crashes + 1
    /\ stage' = [c \in Commands |-> IF stage[c] = "new" THEN "new" ELSE "done"]
    /\ slot' = <<>>
    /\ leaked' = guest
    /\ aborted' = {} /\ closed' = {}
    /\ lifecycle' = Free
    /\ UNCHANGED <<status, box, idle, ops, guest, output>>

-----------------------------------------------------------------------------
(* The specification *)

Init ==
    /\ status = "awake" /\ box = TRUE /\ idle = FALSE /\ lifecycle = Free
    /\ stage = [c \in Commands |-> "new"]
    /\ slot = <<>>
    /\ aborted = {} /\ closed = {} /\ guest = {} /\ leaked = {}
    /\ size = [c \in Commands |-> 0]
    /\ disk = [c \in Commands |-> "none"]
    /\ finished = <<>>
    /\ owed = {} /\ pinned = {} /\ swept = TRUE /\ ops = 0 /\ crashes = 0

Next ==
    \/ \E c \in Commands :
          \/ Admit(c) \/ Register(c) \/ Close(c) \/ Begin(c) \/ Probed(c) \/ Spawn(c)
          \/ Write(c) \/ Exit(c) \/ Pin(c)
          \/ \E works \in BOOLEAN : Reap(c, works)
          \/ \E cut, manifest, prunes \in BOOLEAN : Complete(c, cut, manifest, prunes)
    \/ \E op \in LockOps : TakeLock(op)
    \/ TimePasses \/ Sweep \/ Cancel \/ Stop \/ Recreate \/ Wake \/ Crash

Spec == Init /\ [][Next]_vars

-----------------------------------------------------------------------------
(* Properties *)

\* Every variable has its type.
TypeOK ==
    /\ status \in {"awake", "asleep", "deleting", "gone"} /\ {box, idle, swept} \subseteq BOOLEAN
    /\ lifecycle \in [op: LockOps \cup {"none", "sweep"}, at: {"none", "cancel", "wait"}, for: SUBSET Commands]
    /\ stage \in [Commands -> {"new", "admitted", "queued", "probing", "starting", "running", "reaped", "done"}]
    /\ slot \in Seq(Commands) /\ finished \in Seq(Commands)
    /\ {aborted, closed, guest, leaked, owed, pinned} \subseteq SUBSET Commands
    /\ size \in [Commands -> 0..MaxSize]
    /\ disk \in [Commands -> {"none", "logs", "kept"}]
    /\ ops \in 0..MaxOps /\ crashes \in 0..MaxCrashes

\* Two commands of a Room do not run at the same time, and a call that is over
\* has left no process behind unless it said so, also when a sleep, a sync or
\* a closed response cancels it between any two of its steps.
OneAtATime == Cardinality(guest \ leaked) <= 1
NothingLeftRunning ==
    /\ \A c \in guest \ leaked : stage[c] = "running"
    /\ status \in {"asleep", "gone"} => guest = {}

\* A command that was cancelled starts no process.
CancelledStaysOut == \A c \in Commands : c \in aborted => (c \in guest' => c \in guest)

\* The idle timeout ends no command, also one whose admission is over and that
\* is not in the slot yet.
SweepSparesCommands ==
    lifecycle.op = "sweep" => \A c \in Commands : c \in aborted' => c \in aborted

\* The last output that a response promised, or that a lost response owed, can
\* be read until its Room is deleted; so can every run of a published report.
PromiseKept ==
    status \notin {"gone"} =>
        /\ pinned \subseteq Kept(disk)
        /\ owed # {} => finished # <<>> /\ Last(finished) \in owed
        /\ Kept(disk) = Range(finished)

\* After a prune the runs that no report pins are within the limits, except
\* for the newest, and a crash has left no files without a manifest.
Bounded ==
    swept => LET loose == {c \in Kept(disk) : c \notin pinned}
             IN  /\ Cardinality(loose) <= MaxRuns
                 /\ loose # {} =>
                       MapThenSumSet(LAMBDA c : size[c], loose \ {Last(finished)}) <= MaxBytes
                 /\ \A c \in Commands : disk[c] = "logs" => c \in Active
=============================================================================
