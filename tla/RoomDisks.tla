----------------------------- MODULE RoomDisks ------------------------------
(***************************************************************************)
(* The volumes of one Room and their garbage collection.  Changes and Host *)
(* syncs leave older generations behind: a sweep classifies what the       *)
(* engine lists against the Room's row, its pointers and its history, and  *)
(* removes each candidate after it has been observed again under the       *)
(* Room's lock.  Operations of the Room need that lock too; operations     *)
(* that are announced, and containers of others, do not wait for it.       *)
(***************************************************************************)
EXTENDS Naturals, Sequences, FiniteSets, SequencesExt

CONSTANTS
    None,
    Majors,     \* the Node majors that a Room is switched between
    MaxGen,     \* bound on the generations of a workspace and of a dependency layer
    MaxChanges, \* bound on the changes and syncs of a Room
    MaxSweeps,  \* bound on the volumes that are collected
    LegacyGen   \* the generation that an old version recorded for every major

RoomDisksAssumption ==
    /\ MaxGen \in Nat /\ MaxChanges \in Nat /\ MaxSweeps \in Nat /\ LegacyGen \in 0 .. MaxGen
    /\ None \notin Majors \cup (0 .. MaxGen) /\ Majors # {}

VARIABLES
    home,       \* the Room's row, directory, fences and announced operations
    pointer,    \* major -> recorded dependency generation
    top,        \* major -> highest reserved dependency generation
    log,        \* the changes that were not undone
    disks,      \* the volumes that the engine lists
    used,       \* a container references the candidate of the sweep
    sweep,      \* the collection under way
    changes, sweeps

vars == <<home, pointer, top, log, disks, used, sweep, changes, sweeps>>

Ws(g) == [kind |-> "ws", major |-> None, gen |-> g]
Deps(m, g) == [kind |-> "deps", major |-> m, gen |-> g]
Snapshot == [kind |-> "snapshot", major |-> None, gen |-> 0]
Pod == [kind |-> "pod", major |-> None, gen |-> 0]      \* a container or network

\* The generation that a Room on major m uses.
CurrentGen(m) == IF pointer[m] = None THEN LegacyGen ELSE pointer[m]

NoSweep == [phase |-> "idle", at |-> Pod]

Init ==
    /\ \E m \in Majors :
          /\ home = [row |-> TRUE, dir |-> TRUE, guard |-> "none", node |-> m, ws |-> 0, wsTop |-> 0,
                     kept |-> None]
          /\ disks = {Ws(0), Deps(m, LegacyGen), Pod}
    /\ pointer = [m \in Majors |-> None] /\ top = [m \in Majors |-> 0] /\ log = <<>>
    /\ used = FALSE /\ sweep = NoSweep /\ changes = 0 /\ sweeps = 0

----------------------------------------------------------------------------
(* What the Room does, under its lock.                                      *)

Unlocked == sweep.phase # "locked"
Acts == home.row /\ Unlocked
Changes == Acts /\ changes < MaxChanges /\ changes' = changes + 1
NextDeps == (IF top[home.node] > CurrentGen(home.node) THEN top[home.node] ELSE CurrentGen(home.node)) + 1
NextWs == home.wsTop + 1

\* latest: the state revision is still the one that the change was applied at.
Row(kind, node, w, d) == [kind |-> kind, node |-> node, ws |-> w, deps |-> d, latest |-> TRUE]
Aged(rows) == [i \in DOMAIN rows |-> [rows[i] EXCEPT !.latest = FALSE]]
Journaled(rows, row) == log' = Append(rows, row)

\* An install stages a workspace and a dependency generation and publishes both;
\* one that fails may leave what it staged.
Install(ok) ==
    /\ Changes /\ NextWs <= MaxGen /\ NextDeps <= MaxGen
    /\ top' = [top EXCEPT ![home.node] = NextDeps]
    /\ disks' = disks \cup {Ws(NextWs), Deps(home.node, NextDeps)}
    /\ IF ok
       THEN /\ home' = [home EXCEPT !.ws = NextWs, !.wsTop = NextWs]
            /\ pointer' = [pointer EXCEPT ![home.node] = NextDeps]
            /\ Journaled(Aged(log), Row("install", home.node, <<home.ws, NextWs>>, <<CurrentGen(home.node), NextDeps>>))
       ELSE home' = [home EXCEPT !.wsTop = NextWs] /\ UNCHANGED <<pointer, log>>
    /\ UNCHANGED <<used, sweep, sweeps>>

Normalize ==
    /\ Changes /\ NextWs <= MaxGen
    /\ home' = [home EXCEPT !.ws = NextWs, !.wsTop = NextWs]
    /\ disks' = disks \cup {Ws(NextWs)}
    /\ pointer' = [pointer EXCEPT ![home.node] = CurrentGen(home.node)]
    /\ Journaled(Aged(log), Row("normalize", home.node, <<home.ws, NextWs>>,
                               <<CurrentGen(home.node), CurrentGen(home.node)>>))
    /\ UNCHANGED <<top, used, sweep, sweeps>>

Clean ==
    /\ Changes /\ NextDeps <= MaxGen
    /\ Journaled(Aged(log), Row("clean", home.node, <<home.ws, home.ws>>, <<CurrentGen(home.node), NextDeps>>))
    /\ pointer' = [pointer EXCEPT ![home.node] = NextDeps] /\ top' = [top EXCEPT ![home.node] = NextDeps]
    /\ disks' = disks \cup {Deps(home.node, NextDeps)}
    /\ UNCHANGED <<home, used, sweep, sweeps>>

\* The dependencies of another major are installed beside those of this one.
SwitchNode(m) ==
    /\ Changes /\ m # home.node
    /\ Journaled(log, Row("switch", home.node, <<home.ws, home.ws>>, <<0, 0>>))
    /\ home' = [home EXCEPT !.node = m] /\ disks' = disks \cup {Deps(m, CurrentGen(m))}
    /\ UNCHANGED <<pointer, top, used, sweep, sweeps>>

\* The generation that a Host sync replaces is retained, the one that was
\* retained before is dropped.
Sync ==
    /\ Changes /\ NextWs <= MaxGen
    /\ home' = [home EXCEPT !.ws = NextWs, !.wsTop = NextWs, !.kept = home.ws]
    /\ \E dropped \in {{}, {Ws(g) : g \in {home.kept} \cap (1 .. home.ws - 1)}} :
          disks' = (disks \ dropped) \cup {Ws(NextWs)}
    /\ log' = Aged(log) /\ UNCHANGED <<pointer, top, used, sweep, sweeps>>

\* Programs and people write into the workspace.
Edit ==
    /\ Acts /\ log' = Aged(log)
    /\ UNCHANGED <<home, pointer, top, disks, used, sweep, changes, sweeps>>

\* What the engine and the definition of a change check before they undo it.
Undoable(i) ==
    LET c == log[i] IN
    /\ c.kind \in {"install", "normalize"} => home.ws = c.ws[2] /\ c.latest
    /\ c.kind \in {"install", "clean"} => home.node = c.node
    /\ c.kind = "install" => CurrentGen(home.node) = c.deps[2]
    /\ c.kind = "normalize" => CurrentGen(c.node) = c.deps[1]

\* The volumes that this undo goes back to.
NeededBy(i) ==
    LET c == log[i] IN
    CASE c.kind = "install" -> {Ws(c.ws[1]), Deps(c.node, c.deps[1])}
      [] c.kind = "normalize" -> {Ws(c.ws[1])}
      [] c.kind = "clean" -> {Deps(c.node, c.deps[1])}
      [] c.kind = "switch" -> {Deps(c.node, CurrentGen(c.node))}

\* An install or a normalization takes its staged generations away, unless the
\* cleanup is deferred.
Undo(i) ==
    LET c == log[i] IN
    /\ Changes /\ Undoable(i)
    /\ log' = IF c.kind = "switch" THEN RemoveAt(log, i) ELSE Aged(RemoveAt(log, i))
    /\ CASE c.kind \in {"install", "normalize"} ->
              /\ home' = [home EXCEPT !.ws = c.ws[1]]
              /\ pointer' = [pointer EXCEPT ![c.node] = c.deps[1]]
              /\ \/ disks' = disks \ ({Ws(c.ws[2])} \cup
                                     IF c.kind = "install" THEN {Deps(c.node, c.deps[2])} ELSE {})
                 \/ UNCHANGED disks
         [] c.kind = "clean" -> pointer' = [pointer EXCEPT ![c.node] = c.deps[1]] /\ UNCHANGED <<home, disks>>
         [] c.kind = "switch" -> /\ home' = [home EXCEPT !.node = c.node]
                                 /\ disks' = disks \cup {Deps(c.node, CurrentGen(c.node))} /\ UNCHANGED pointer
    /\ UNCHANGED <<top, used, sweep, sweeps>>

\* Announced operations and fences stop nothing but a sweep, so they come and go
\* while one is under way.  An operation is announced before it waits for the
\* lock; a build works on a snapshot of the workspace and may leave it.
Announce ==
    /\ home.row /\ sweep.phase # "idle" /\ home.guard = "none"
    /\ home' = [home EXCEPT !.guard = "operation"]
    /\ UNCHANGED <<pointer, top, log, disks, used, sweep, changes, sweeps>>
Build ==
    /\ Acts /\ home.guard = "operation" /\ disks' = disks \cup {Snapshot}
    /\ UNCHANGED <<home, pointer, top, log, used, sweep, changes, sweeps>>
OperationEnds ==
    /\ Unlocked /\ home.guard = "operation" /\ home' = [home EXCEPT !.guard = "none"]
    /\ \E d \in {disks, disks \ {Snapshot}} : disks' = d
    /\ UNCHANGED <<pointer, top, log, used, sweep, changes, sweeps>>

\* A recovery intent is recorded, or settled.
Fence ==
    /\ Acts /\ sweep.phase # "idle" /\ home.guard # "operation"
    /\ home' = [home EXCEPT !.guard = IF @ = "none" THEN "fence" ELSE "none"]
    /\ UNCHANGED <<pointer, top, log, disks, used, sweep, changes, sweeps>>

\* The row goes after the volumes that the deletion knows of, the directory
\* after the row; a crash between them leaves it.
Delete ==
    /\ Acts /\ home.guard # "fence"
    /\ \E left \in {{}, disks}, dir \in BOOLEAN :
          disks' = left /\ home' = [home EXCEPT !.row = FALSE, !.dir = dir, !.guard = "none"]
    /\ log' = <<>> /\ UNCHANGED <<pointer, top, used, sweep, changes, sweeps>>

\* A container that was not there when the candidate was observed references it.
Attach ==
    /\ sweep.phase = "locked" /\ used' = TRUE
    /\ UNCHANGED <<home, pointer, top, log, disks, sweep, changes, sweeps>>

----------------------------------------------------------------------------
(* The sweep.                                                               *)

\* What the history still holds.  An install that a later publication passed
\* holds nothing.
MutantUndoReferences ==
    UNION {LET c == log[i] IN
           CASE c.kind = "install" -> {}
             [] c.kind = "normalize" -> {Ws(c.ws[1])}
             [] c.kind = "clean" -> {Deps(c.node, c.deps[1])}
             [] c.kind = "switch" -> {}
           : i \in DOMAIN log}
UndoReferences ==
    UNION {LET c == log[i] IN
           CASE c.kind = "install" ->
                  IF home.ws # c.ws[2] THEN {}
                  ELSE {Ws(c.ws[1]), Ws(c.ws[2]), Deps(c.node, c.deps[1]), Deps(c.node, c.deps[2])}
             [] c.kind = "normalize" -> {Ws(c.ws[1])}
             [] c.kind = "clean" -> {Deps(c.node, c.deps[1])}
             [] c.kind = "switch" -> {}
           : i \in DOMAIN log}
NodesOfUndo == {log[i].node : i \in {j \in DOMAIN log : log[j].kind = "switch"}}

\* The sweep's own idea of the current generation of a major.
ListedGen(m) == IF pointer[m] # None THEN pointer[m] ELSE IF m = home.node THEN LegacyGen ELSE 0

Stale(d) ==
    CASE d.kind = "ws" -> d.gen < home.ws /\ d.gen # home.kept /\ d \notin UndoReferences
      [] d.kind = "deps" -> /\ d.gen = ListedGen(d.major) => d.major \notin NodesOfUndo \cup {home.node}
                            /\ d \notin UndoReferences
      [] d.kind = "snapshot" -> TRUE
      [] d.kind = "pod" -> FALSE

SafeToDelete(d) ==
    home.guard = "none" /\ IF home.row THEN Stale(d) ELSE ~home.dir

\* The candidates of a pass are visited one by one; any of them may be visited
\* long after the pass was planned, or never.
Plan(d) ==
    /\ sweep.phase = "idle" /\ sweeps < MaxSweeps /\ SafeToDelete(d) /\ sweep' = [phase |-> "planned", at |-> d]
    /\ UNCHANGED <<home, pointer, top, log, disks, used, changes, sweeps>>

\* The lock is taken and the engine is asked for this volume again.
Observe ==
    /\ sweep.phase = "planned" /\ sweep.at \in disks /\ sweep' = [sweep EXCEPT !.phase = "locked"]
    /\ UNCHANGED <<home, pointer, top, log, disks, used, changes, sweeps>>

\* Row, history, pointers, fences and operations are read again, the candidate
\* is classified again, and the engine refuses a volume that is in use.
Collect ==
    /\ sweep.phase = "locked"
    /\ disks' = IF SafeToDelete(sweep.at) /\ ~used THEN disks \ {sweep.at} ELSE disks
    /\ sweep' = NoSweep /\ used' = FALSE /\ sweeps' = sweeps + 1 /\ UNCHANGED <<home, pointer, top, log, changes>>

\* A bound, the deadline of the pass or a reference ends the visit, or the
\* volume is gone.
Skip ==
    /\ sweep.phase = "planned" /\ sweep' = NoSweep
    /\ UNCHANGED <<home, pointer, top, log, disks, used, changes, sweeps>>

Next ==
    \/ \E ok \in BOOLEAN : Install(ok)
    \/ Normalize \/ Clean \/ \E m \in Majors : SwitchNode(m)
    \/ Sync \/ Edit \/ \E i \in DOMAIN log : Undo(i)
    \/ Announce \/ Build \/ OperationEnds \/ Fence \/ Delete
    \/ \E d \in disks : Plan(d)
    \/ Attach \/ Observe \/ Collect \/ Skip

Spec == Init /\ [][Next]_vars

----------------------------------------------------------------------------
DiskType == [kind : {"ws", "deps", "snapshot", "pod"}, major : Majors \cup {None}, gen : 0 .. MaxGen]
HomeType == [row : BOOLEAN, dir : BOOLEAN, guard : {"none", "operation", "fence"}, node : Majors,
             ws : 0 .. MaxGen, wsTop : 0 .. MaxGen, kept : {None} \cup (0 .. MaxGen)]
RowType == [kind : {"install", "normalize", "clean", "switch"}, node : Majors,
            ws : (0 .. MaxGen) \X (0 .. MaxGen), deps : (0 .. MaxGen) \X (0 .. MaxGen), latest : BOOLEAN]

\* Every variable has its type.
TypeOK ==
    /\ home \in HomeType /\ home.ws <= home.wsTop
    /\ pointer \in [Majors -> {None} \cup (0 .. MaxGen)] /\ top \in [Majors -> 0 .. MaxGen]
    /\ log \in Seq(RowType) /\ disks \subseteq DiskType /\ used \in BOOLEAN
    /\ sweep \in [phase : {"idle", "planned", "locked"}, at : DiskType]
    /\ changes \in 0 .. MaxChanges /\ sweeps \in 0 .. MaxSweeps

\* The working state that the row names is there, with the generation that the
\* last Host sync retained.
RowHasItsDisks ==
    home.row => /\ {Ws(home.ws), Deps(home.node, CurrentGen(home.node))} \subseteq disks
                /\ home.kept # None => Ws(home.kept) \in disks

\* A change that the history still lets somebody undo finds the generations
\* that it goes back to.
UndoFindsItsDisks ==
    home.row => \A i \in DOMAIN log : Undoable(i) => NeededBy(i) \subseteq disks

\* A sweep takes nothing from a Room that is fenced, has an operation that is
\* announced or lost its row but not its directory, and nothing that is in use.
SweepSparesTheBusy ==
    \A d \in disks \ disks' :
       sweep.phase = "locked" => /\ home.guard = "none" /\ ~used
                                 /\ home.row \/ ~home.dir
=============================================================================
