----------------------------- MODULE WindowsRoom -----------------------------
(***************************************************************************)
(* A Windows Room: a linked VMware clone of a template that is not         *)
(* DevHotel's, its ownership marker on the disk and its row, through       *)
(* creation, wake, sleep, reset, deletion and the start of DevHotel        *)
(* (windowsVm.ts, orchestrator.ts), with failing vmrun calls, a guest that *)
(* ignores a shutdown, deaths and a user at the VMware console.            *)
(***************************************************************************)
EXTENDS Naturals

CONSTANTS
    MaxOps,         \* bound: operations on the Room
    MaxFaults,      \* bound: failing vmrun calls and deaths of DevHotel
    MaxMishaps,     \* bound: what the user of the Host does
    None

VARIABLES
    row,            \* the status in the Room's row, or None
    dir,            \* the Room's directory: its marker and fingerprint, or None
    vmx,            \* the VM's files: whole or half made, policy closed, used; or None
    running,        \* the VM is on
    template,       \* the template: its fingerprint, and whether it is on
    harmed,         \* DevHotel started, rewrote or deleted the template
    byUser,         \* the VM was switched on at the console
    job,            \* the operation that holds the Room lock
    ops, faults, mishaps

disk == <<dir, vmx>>
bounds == <<ops, faults, mishaps>>
vars == <<row, disk, running, template, harmed, byUser, job, bounds>>

-----------------------------------------------------------------------------
(* Helpers *)

Idle == [kind |-> None, pc |-> "idle", print |-> 0, awake |-> FALSE]

Statuses == {None, "preparing", "ready", "sleeping", "broken", "attention", "deleting"}

Settled == {"ready", "sleeping", "broken", "attention"}

AtJob(pc) == job.pc = pc

Moves(pc) == job' = [job EXCEPT !.pc = pc]

Faulty == faults < MaxFaults /\ faults' = faults + 1

NewClone == [is |-> "whole", closed |-> FALSE, used |-> FALSE]

Alias == vmx # None /\ vmx.is = "alias"

\* assertDistinctClone: a lifecycle operation refuses a clone that is the template.
Distinct == ~Alias

\* state(): the inventory of running VMs is compared by what the paths lead to.
Seen == IF Alias THEN template.up ELSE running

\* A command of vmrun on the Room's files acts on what they really are.
Touches == harmed' = (harmed \/ Alias)

\* requireOwnedRoom: a directory without a valid marker is nobody's.
Owned == dir # None /\ dir.mark # "none"

\* state(): without a marker or without its file the VM is missing.
Missing == ~Owned \/ vmx = None

\* inspectTemplateInternal, at creation and before a reset.
TemplateOff == ~template.up

\* templateFingerprintFor: the template is still the one that was inspected.
SameTemplate(print) == template.print = print

\* A failed creation, wake or reset leaves a broken row; a failed sleep or deletion
\* leaves the row alone.
Fails == job' = Idle /\ row' = IF job.kind \in {"sleep", "delete"} THEN row ELSE "broken"

\* Once a reset may have destroyed the clone it leaves a marker that says so.
Left == IF job.kind = "reset" THEN [mark |-> "broken", print |-> job.print] ELSE dir

Keeps == UNCHANGED <<vmx, running, template, harmed, byUser>>

Begins(kind, pc, status) ==
    /\ AtJob("idle") /\ ops < MaxOps /\ ops' = ops + 1
    /\ job' = [kind |-> kind, pc |-> pc, awake |-> row \in {"ready", "attention"},
               print |-> IF kind = "reset" /\ dir # None THEN dir.print ELSE template.print]
    /\ row' = status
    /\ UNCHANGED <<disk, running, template, harmed, byUser, faults, mishaps>>

-----------------------------------------------------------------------------
(* Creation: a marker first, then the clone, then its policy, then ready. *)

\* createWindowsRoomAdmitted; the template is inspected before the row exists.
BeginCreate == row = None /\ TemplateOff /\ Begins("create", "directory", "preparing")

MakeDirectory ==
    /\ AtJob("directory")
    /\ IF ~SameTemplate(job.print) \/ dir # None
       THEN Fails /\ dir' = Left
       ELSE dir' = [mark |-> "none", print |-> job.print] /\ Moves("mark") /\ UNCHANGED row
    /\ Keeps /\ UNCHANGED bounds

Mark ==
    /\ AtJob("mark")
    /\ dir' = [dir EXCEPT !.mark = "creating"]
    /\ Moves("clone")
    /\ UNCHANGED row /\ Keeps /\ UNCHANGED bounds

Clone ==
    /\ AtJob("clone")
    /\ \/ vmx' = NewClone /\ Moves("secure") /\ UNCHANGED <<row, dir, faults>>
       \/ /\ Faulty
          /\ vmx' \in {None, [NewClone EXCEPT !.is = "partial"]}
          /\ dir' = [dir EXCEPT !.mark = "broken"]
          /\ Fails
    /\ UNCHANGED <<running, template, harmed, byUser, ops, mishaps>>

\* hardenVmx, also after the vmrun command that may rewrite the file
Hardens == vmx' = [vmx EXCEPT !.closed = TRUE]

Secure ==
    /\ AtJob("secure")
    /\ \/ /\ Hardens
          /\ dir' = [dir EXCEPT !.mark = "ready"]
          /\ IF job.kind = "create" \/ job.awake
             THEN Moves("start") /\ UNCHANGED row
             ELSE job' = Idle /\ row' = "sleeping"
          /\ UNCHANGED faults
       \/ Faulty /\ dir' = [dir EXCEPT !.mark = "broken"] /\ Fails /\ UNCHANGED vmx
    /\ UNCHANGED <<running, template, harmed, byUser, ops, mishaps>>

-----------------------------------------------------------------------------
(* Start, sleep *)

BeginWake ==
    /\ row \in Settled
    /\ ~(row = "ready" /\ Owned /\ vmx # None /\ Seen)
    /\ Begins("wake", "start", "preparing")

\* A start that trusts the policy which the creation wrote.
MutantStart ==
    /\ AtJob("start")
    /\ IF Owned /\ dir.mark = "ready" /\ vmx # None /\ Distinct
       THEN IF running THEN Moves("confirm") /\ UNCHANGED row ELSE Moves("power") /\ UNCHANGED row
       ELSE Fails
    /\ UNCHANGED <<dir, vmx, harmed, running, template, byUser, bounds>>

Start ==
    /\ AtJob("start")
    /\ IF Owned /\ dir.mark = "ready" /\ vmx # None /\ Distinct
       THEN IF running THEN Moves("confirm") /\ UNCHANGED <<row, vmx, harmed>>
            ELSE Hardens /\ Touches /\ Moves("power") /\ UNCHANGED row
       ELSE Fails /\ UNCHANGED <<vmx, harmed>>
    /\ UNCHANGED <<dir, running, template, byUser, bounds>>

\* vmrun start; a lost answer leaves it running.
Power ==
    /\ AtJob("power")
    /\ \/ running' = TRUE /\ Touches /\ Moves("confirm") /\ UNCHANGED <<row, faults>>
       \/ Faulty /\ running' \in BOOLEAN /\ Touches /\ Fails
    /\ vmx' = [vmx EXCEPT !.used = @ \/ running']
    /\ UNCHANGED <<dir, template, byUser, ops, mishaps>>

\* A wake and a creation ask whether it runs, a reset does not.
Confirm ==
    /\ AtJob("confirm")
    /\ IF job.kind = "reset" \/ running THEN row' = "ready" /\ job' = Idle ELSE Fails
    /\ UNCHANGED disk /\ UNCHANGED <<running, template, harmed, byUser, bounds>>

BeginSleep == row \in Settled /\ Begins("sleep", "sleep", row)

Asleep == IF job.kind = "reset" THEN Moves("dispose") /\ UNCHANGED row
          ELSE job' = Idle /\ row' = "sleeping"

\* A soft stop that is not answered is followed by a hard one.
Sleep ==
    /\ AtJob("sleep")
    /\ IF ~Owned THEN Fails /\ dir' = Left /\ UNCHANGED <<running, harmed, byUser, faults>>
       ELSE IF vmx = None THEN Asleep /\ UNCHANGED <<dir, running, harmed, byUser, faults>>
       ELSE IF ~Distinct THEN Fails /\ dir' = Left /\ UNCHANGED <<running, harmed, byUser, faults>>
       ELSE IF ~Seen THEN Asleep /\ UNCHANGED <<dir, running, harmed, byUser, faults>>
       ELSE \/ running' = FALSE /\ byUser' = FALSE /\ Touches /\ Asleep /\ UNCHANGED <<dir, faults>>
            \/ Faulty /\ Touches /\ Fails /\ dir' = Left /\ UNCHANGED <<running, byUser>>
    /\ UNCHANGED <<vmx, template, ops, mishaps>>

-----------------------------------------------------------------------------
(* Deletion and reset dispose of the exact clone. *)

BeginDelete == row \notin {None, "preparing"} /\ Begins("delete", "stop", "deleting")

\* A deletion asks the guest softly and is over when it does not answer. It asks
\* before the clone is told from the template.
StopForDeletion ==
    /\ AtJob("stop")
    /\ \/ dir = None /\ job' = Idle /\ row' = None /\ UNCHANGED <<disk, running, template, byUser, faults>>
       \/ /\ dir # None /\ ~Owned
          /\ IF vmx # None THEN Fails /\ UNCHANGED dir
             ELSE dir' = None /\ job' = Idle /\ row' = None
          /\ UNCHANGED <<vmx, running, template, byUser, faults>>
       \/ /\ Owned
          /\ IF vmx = None \/ ~Seen
             THEN Moves("dispose") /\ UNCHANGED <<row, running, template, byUser, faults>>
             ELSE \/ /\ IF Alias THEN template' = [template EXCEPT !.up = FALSE] /\ UNCHANGED <<running, byUser>>
                              ELSE running' = FALSE /\ byUser' = FALSE /\ UNCHANGED template
                     /\ Moves("dispose") /\ UNCHANGED <<row, faults>>
                  \/ Faulty /\ Fails /\ UNCHANGED <<running, template, byUser>>
          /\ UNCHANGED disk
    /\ UNCHANGED <<harmed, ops, mishaps>>

\* deleteVM, which a running VM refuses
Dispose ==
    /\ AtJob("dispose")
    /\ \/ vmx = None /\ Moves("erase") /\ UNCHANGED <<row, disk, harmed, faults>>
       \/ /\ vmx # None /\ ~Distinct
          /\ Fails /\ dir' = Left /\ UNCHANGED <<vmx, harmed, faults>>
       \/ /\ vmx # None /\ Distinct /\ ~running
          /\ vmx' = None /\ Touches /\ Moves("erase") /\ UNCHANGED <<row, dir, faults>>
       \/ /\ vmx # None /\ Distinct /\ running
          /\ Touches /\ Fails /\ dir' = Left /\ UNCHANGED <<vmx, faults>>
       \/ /\ vmx # None /\ Distinct
          /\ Faulty /\ Touches /\ Fails /\ dir' = Left /\ UNCHANGED vmx
    /\ UNCHANGED <<running, template, byUser, ops, mishaps>>

\* The marker is read again before the directory goes.
Erase ==
    /\ AtJob("erase")
    /\ IF Owned
       THEN dir' = None /\ IF job.kind = "reset" THEN Moves("directory") /\ UNCHANGED row
                           ELSE Moves("forget") /\ UNCHANGED row
       ELSE Fails /\ dir' = Left
    /\ Keeps /\ UNCHANGED bounds

Forget ==
    /\ AtJob("forget")
    /\ row' = None /\ job' = Idle
    /\ UNCHANGED disk /\ UNCHANGED <<running, template, harmed, byUser, bounds>>

BeginReset == row \in Settled /\ Begins("reset", "validate", "preparing")

\* The template must still be what the clone was made of, before anything is destroyed.
Validate ==
    /\ AtJob("validate")
    /\ IF Owned /\ TemplateOff /\ SameTemplate(dir.print)
       THEN Moves(IF vmx # None /\ Seen THEN "sleep" ELSE "dispose") /\ UNCHANGED row
       ELSE Fails
    /\ UNCHANGED disk /\ UNCHANGED <<running, template, harmed, byUser, bounds>>

-----------------------------------------------------------------------------
(* DevHotel dies and starts again: a running VM is put to sleep. *)

Die == Faulty /\ ~AtJob("idle") /\ job' = [Idle EXCEPT !.pc = "startup"]
       /\ UNCHANGED <<row, disk, running, template, harmed, byUser, ops, mishaps>>

Restart == AtJob("idle") /\ row # None /\ ops < MaxOps /\ ops' = ops + 1
           /\ job' = [Idle EXCEPT !.pc = "startup"]
           /\ UNCHANGED <<row, disk, running, template, harmed, byUser, faults, mishaps>>

\* reconcileWindowsRooms: what vmrun cannot tell asks for attention, and a running VM
\* is put to sleep.
Reconcile ==
    /\ AtJob("startup") /\ job' = Idle
    /\ \/ /\ Faulty
          /\ row' = CASE row = "preparing" -> "broken"
                     [] row \in {"ready", "deleting"} -> "attention"
                     [] OTHER -> row
          /\ UNCHANGED <<running, byUser>>
       \/ /\ row = None /\ UNCHANGED <<row, running, byUser, faults>>
       \/ /\ row # None /\ (dir = None \/ Owned) /\ (Missing \/ ~Seen \/ Distinct)
          /\ row' = IF row \in {"preparing", "broken"} \/ Missing THEN "broken" ELSE "sleeping"
          /\ IF Missing \/ Alias THEN UNCHANGED <<running, byUser>> ELSE running' = FALSE /\ byUser' = FALSE
          /\ UNCHANGED faults
       \/ /\ row # None /\ row' = "broken" /\ UNCHANGED <<running, byUser>>
          /\ \/ /\ (dir # None /\ ~Owned) \/ (~Missing /\ Seen /\ ~Distinct)
                /\ UNCHANGED faults
             \/ ~Missing /\ Seen /\ Faulty
    /\ UNCHANGED disk /\ UNCHANGED <<template, harmed, ops, mishaps>>

-----------------------------------------------------------------------------
(* The user of the Host, between operations *)

AtTheConsole ==
    /\ AtJob("idle") /\ mishaps < MaxMishaps /\ mishaps' = mishaps + 1
    /\ \/ vmx # None /\ vmx.is = "whole" /\ running' = ~running /\ byUser' = ~running
          /\ vmx' = [vmx EXCEPT !.used = TRUE] /\ UNCHANGED <<dir, template>>
       \/ vmx # None /\ ~running /\ vmx' = [vmx EXCEPT !.closed = FALSE]
          /\ UNCHANGED <<dir, running, byUser, template>>
       \/ vmx # None /\ ~running /\ vmx' = [vmx EXCEPT !.is = "alias"]
          /\ UNCHANGED <<dir, running, byUser, template>>
       \/ vmx # None /\ ~running /\ vmx' = None /\ UNCHANGED <<dir, running, byUser, template>>
       \/ dir # None /\ dir' = [dir EXCEPT !.mark = "none"] /\ UNCHANGED <<vmx, running, byUser, template>>
       \/ template' = [template EXCEPT !.up = ~@] /\ UNCHANGED <<dir, vmx, running, byUser>>
       \/ template' = [template EXCEPT !.print = @ + 1] /\ UNCHANGED <<dir, vmx, running, byUser>>
    /\ UNCHANGED <<row, harmed, job, ops, faults>>

-----------------------------------------------------------------------------

Init ==
    /\ row = None /\ dir = None /\ vmx = None /\ running = FALSE
    /\ template = [print |-> 1, up |-> FALSE]
    /\ harmed = FALSE /\ byUser = FALSE
    /\ job = Idle
    /\ ops = 0 /\ faults = 0 /\ mishaps = 0

Next ==
    \/ BeginCreate \/ MakeDirectory \/ Mark \/ Clone \/ Secure
    \/ BeginWake \/ Start \/ Power \/ Confirm
    \/ BeginSleep \/ Sleep
    \/ BeginDelete \/ StopForDeletion \/ Dispose \/ Erase \/ Forget
    \/ BeginReset \/ Validate
    \/ Die \/ Restart \/ Reconcile \/ AtTheConsole

Spec == Init /\ [][Next]_vars

-----------------------------------------------------------------------------
(* Properties *)

\* Every variable has its type.
TypeOK ==
    /\ row \in Statuses
    /\ dir # None => dir.mark \in {"none", "creating", "ready", "broken"}
    /\ vmx # None => vmx.is \in {"partial", "whole", "alias"}
    /\ running \in BOOLEAN /\ harmed \in BOOLEAN /\ byUser \in BOOLEAN

\* No operation starts, stops, rewrites or deletes the template, whatever stands where
\* the clone was.
TemplateUnharmed == ~harmed

\* A clone that is only half made is never one that can be started.
ReadyIsWhole == Owned /\ dir.mark = "ready" /\ vmx # None => vmx.is # "partial"

\* DevHotel starts a VM only with the offline policy in its file, whatever the user
\* wrote there since it was cloned.
StartsOffline == AtJob("power") => vmx.closed

\* A Room that is asleep has no VM running that the user did not switch on.
SleepersAreOff == row = "sleeping" /\ AtJob("idle") => ~running \/ byUser

\* A Room that is gone left no file and no running VM.
DeletedIsGone == row = None /\ AtJob("idle") => dir = None /\ vmx = None /\ ~running

\* A reset that succeeded left nothing of what was used before.
ResetIsClean ==
    (job.kind = "reset" /\ job'.pc \in {"idle", "start"} /\ row' # "broken" /\ AtJob("secure"))
       => (vmx'.is = "whole" /\ ~vmx'.used /\ dir'.mark = "ready")
=============================================================================
