--------------------------- MODULE ClientBrowsers ----------------------------
(***************************************************************************)
(* The browsers that agents borrow: allocation, commands, release by the   *)
(* owner or with the Room, shutdown, and the reconciliation of what an     *)
(* earlier process left (browser/clientBrowserManager.ts above             *)
(* browser/hostChromiumRuntime.ts).  A browser process outlives DevHotel,  *)
(* its row may lag behind it, and its process id may pass to a stranger:   *)
(* the command line with the profile is the one proof of whose it is.      *)
(* External: browsers die, ignore a request to close, do not answer or     *)
(* hold files of their profile; the Host cannot always list its processes. *)
(***************************************************************************)
EXTENDS Naturals, Sequences, FiniteSets

CONSTANTS
    Sessions,       \* session ids; each is minted once
    Rooms,
    RoomOf,         \* the Room a session would belong to
    None,           \* no row
    MaxAsks,        \* calls that wait for one session
    MaxHits,        \* what goes wrong outside
    MaxStarts,      \* starts after the first one
    Overlaps,       \* calls about one Room overlap with its sleep, deletion or a release
    Unrecorded      \* a browser whose pid was never recorded may ignore Browser.close, and
                    \* listing the processes may fail while one runs

BrowsersAssumption ==
    /\ None \notin Sessions /\ Sessions \cap Rooms = {}
    /\ RoomOf \in [Sessions -> Rooms]
    /\ {MaxAsks, MaxHits, MaxStarts} \subseteq Nat
    /\ {Overlaps, Unrecorded} \subseteq BOOLEAN

VARIABLES
    lodging,    \* Room -> awake, asleep, erasing or gone
    ending,     \* Room -> the sleep or deletion under way
    owed,       \* Room -> the records that it still releases
    seat,       \* session -> its row, or None
    kept,       \* sessions with a persistent profile
    minted,     \* sessions that were allocated
    folders,    \* profiles on disk: of a session, or persistent of a Room
    proc,       \* session -> who has the pid of its browser
    flying,     \* sessions whose launch is awaited
    alive,      \* the manager's map live
    queue,      \* session -> calls in its lock, the first one at work
    host,       \* the phase of the DevHotel process
    left,       \* sessions that reconcile or shutdown still visits
    begun, mishits

browserVars == <<lodging, ending, owed, seat, kept, minted, folders, proc, flying, alive,
                 queue, host, left, begun, mishits>>

Profile(s) == IF s \in kept THEN RoomOf[s] ELSE s

Rows == {s \in Sessions : seat[s] # None}

Record(s) == [session |-> s, pid |-> seat[s].pid]

Job(by, pid) == [by |-> by, pid |-> pid, step |-> "wait"]

By == {"owner", "use", "room", "stop", "start", "stray"}

Steps == {"wait", "drive", "close", "force", "probe", "list"}

TypeOK ==
    /\ lodging \in [Rooms -> {"awake", "asleep", "erasing", "gone"}]
    /\ ending \in [Rooms -> {"no", "sleep", "delete"}]
    /\ owed \in [Rooms -> SUBSET [session : Sessions, pid : BOOLEAN]]
    /\ seat \in [Sessions -> {None} \cup [status : {"starting", "ready", "failed"}, pid : BOOLEAN]]
    /\ kept \subseteq minted /\ minted \subseteq Sessions
    /\ folders \subseteq Sessions \cup Rooms
    /\ proc \in [Sessions -> {"none", "browser", "other"}]
    /\ flying \subseteq minted /\ alive \subseteq minted
    /\ queue \in [Sessions -> Seq([by : By, pid : BOOLEAN, step : Steps])]
    /\ host \in {"off", "orphans", "strays", "on", "closing"}
    /\ left \subseteq Sessions
    /\ begun \in 0..MaxStarts /\ mishits \in 0..MaxHits

Init ==
    /\ lodging = [r \in Rooms |-> "awake"] /\ ending = [r \in Rooms |-> "no"]
    /\ owed = [r \in Rooms |-> {}]
    /\ seat = [s \in Sessions |-> None]
    /\ kept = {} /\ minted = {} /\ folders = {}
    /\ proc = [s \in Sessions |-> "none"]
    /\ flying = {} /\ alive = {} /\ left = {}
    /\ queue = [s \in Sessions |-> <<>>]
    /\ host = "on" /\ begun = 0 /\ mishits = 0

Mishap == mishits < MaxHits /\ mishits' = mishits + 1

(***************************************************************************)
(* Allocation.                                                             *)
(***************************************************************************)

\* A Room that is neither asleep, broken nor being deleted; its status still
\* says awake while the sleep that released its browsers stops the engine.
Hosted(r) == lodging[r] = "awake"

MutantHeld(s) == FALSE

\* The persistent profile is busy: another row of the Room names it.
Held(s) == \E t \in Rows : t \in kept /\ RoomOf[t] = RoomOf[s]

\* Other calls about the Room: releases in a lock, a sleep or deletion.
Stirred(r) == ending[r] # "no" \/ \E t \in minted : RoomOf[t] = r /\ queue[t] # <<>>

MayAllocate(s, persistent) ==
    /\ host \in {"on", "closing"} /\ s \notin minted
    /\ Hosted(RoomOf[s]) /\ (persistent => ~Held(s))
    /\ Overlaps \/ (host = "on" /\ ~Stirred(RoomOf[s]))

\* The id is minted, and the directory made.
Furnish(s, persistent) ==
    /\ minted' = minted \cup {s}
    /\ kept' = IF persistent THEN kept \cup {s} ELSE kept
    /\ folders' = folders \cup {IF persistent THEN RoomOf[s] ELSE s}

NewSeat == [status |-> "starting", pid |-> FALSE]

\* allocate: directory, row and process come up without an await in between.
Allocate(s, persistent) ==
    /\ MayAllocate(s, persistent) /\ Furnish(s, persistent)
    /\ seat' = [seat EXCEPT ![s] = NewSeat]
    /\ proc' = [proc EXCEPT ![s] = "browser"]
    /\ flying' = flying \cup {s}
    /\ UNCHANGED <<lodging, ending, owed, alive, queue, host, left, begun, mishits>>

\* The DevTools listener answers: markLaunched updates a row that is there.
Launched(s) ==
    /\ s \in flying /\ proc[s] = "browser" /\ Profile(s) \in folders
    /\ flying' = flying \ {s} /\ alive' = alive \cup {s}
    /\ seat' = IF seat[s] = None THEN seat
               ELSE [seat EXCEPT ![s] = [status |-> "ready", pid |-> TRUE]]
    /\ UNCHANGED <<lodging, ending, owed, kept, minted, folders, proc, queue, host, left, begun, mishits>>

\* It exited, or did not answer in time and is killed; the catch of allocate.
LaunchFails(s) ==
    /\ s \in flying
    /\ IF proc[s] = "browser" THEN Mishap ELSE UNCHANGED mishits
    /\ proc' = IF proc[s] = "browser" THEN [proc EXCEPT ![s] = "none"] ELSE proc
    /\ flying' = flying \ {s}
    /\ seat' = [seat EXCEPT ![s] = None]
    /\ folders' = IF s \in kept THEN folders ELSE folders \ {s}
    /\ UNCHANGED <<lodging, ending, owed, kept, minted, alive, queue, host, left, begun>>

(***************************************************************************)
(* The lock of a session: navigate, screenshot and inspect, and releases.  *)
(* The token is checked, and the record read, before the lock is taken.    *)
(***************************************************************************)

Enter(s, job) == queue' = [queue EXCEPT ![s] = Append(@, job)]

\* The owner has the token once allocate returned; it is of no use later.
Ask(s, by) ==
    /\ host = "on" /\ s \in Rows \ flying /\ by \in {"owner", "use"}
    /\ Len(queue[s]) < MaxAsks
    /\ Overlaps \/ ending[RoomOf[s]] = "no"
    /\ Enter(s, Job(by, seat[s].pid))
    /\ UNCHANGED <<lodging, ending, owed, seat, kept, minted, folders, proc, flying, alive, host, left, begun, mishits>>

Turn(s, step) == queue[s] # <<>> /\ Head(queue[s]).step = step

Goes(s, step) == queue' = [queue EXCEPT ![s][1].step = step]

Leaves(s) == queue' = [queue EXCEPT ![s] = Tail(@)]

\* A release forgets the live session at once; a command needs one.
Begin(s) ==
    /\ Turn(s, "wait")
    /\ IF Head(queue[s]).by = "use"
       THEN /\ IF s \in alive THEN Goes(s, "drive") ELSE Leaves(s)
            /\ UNCHANGED alive
       ELSE /\ Goes(s, IF s \in alive THEN "close" ELSE "probe")
            /\ alive' = alive \ {s}
    /\ UNCHANGED <<lodging, ending, owed, seat, kept, minted, folders, proc, flying, host, left, begun, mishits>>

\* A command returns or fails, over the connection that cdpFor opened.
Driven(s) ==
    /\ Turn(s, "drive") /\ Leaves(s)
    /\ UNCHANGED <<lodging, ending, owed, seat, kept, minted, folders, proc, flying, alive, host, left, begun, mishits>>

Kill(S) == proc' = [t \in Sessions |-> IF t \in S THEN "none" ELSE proc[t]]

\* The end of a release or of one visit of reconcile: if its process is stopped,
\* the own profile of the session goes, unless files of it are held open, and then
\* the row; the row of a process that is not stopped is marked.
Settle(s, stopped) ==
    /\ folders' \in {folders, IF stopped THEN folders \ ({s} \ kept) ELSE folders}
    /\ seat' = IF stopped THEN [seat EXCEPT ![s] = None]
               ELSE IF seat[s] = None THEN seat ELSE [seat EXCEPT ![s].status = "failed"]
    /\ Leaves(s)

MutantOwned(s) == {t \in minted : Profile(t) = Profile(s) /\ proc[t] # "none"}

\* Processes whose command line names the profile.
Owned(s) == {t \in minted : Profile(t) = Profile(s) /\ proc[t] = "browser"}

\* stop of a launched browser: Browser.close, which it obeys or ignores.  What still
\* names the profile afterwards is killed too.
Closes(s) ==
    /\ Turn(s, "close")
    /\ \/ Kill(Owned(s)) /\ Settle(s, TRUE) /\ UNCHANGED mishits
       \/ proc[s] = "browser" /\ Goes(s, "force") /\ Mishap /\ UNCHANGED <<proc, seat, folders>>
    /\ UNCHANGED <<lodging, ending, owed, kept, minted, flying, alive, host, left, begun>>

\* After the grace period whoever has the pid is killed.
Forces(s) ==
    /\ Turn(s, "force")
    /\ Kill({s} \cup Owned(s)) /\ Settle(s, TRUE)
    /\ UNCHANGED <<lodging, ending, owed, kept, minted, flying, alive, host, left, begun, mishits>>

\* probe: a recorded port is compared with the one in the profile's own file.
Reachable(s, pid) == IF pid THEN {s} \cap Owned(s) ELSE Owned(s)

\* Whoever ignores the request to close.
Deaf(pid, found) == {{}} \cup IF Unrecorded /\ ~pid THEN {found} ELSE {}

\* stopOrphan asks the browser to close; without a recorded pid there is nothing to
\* wait for.  If the browser does not answer, or stays, its Host is asked.
Probes(s) ==
    LET pid == Head(queue[s]).pid
        found == Reachable(s, pid) IN
    /\ Turn(s, "probe")
    /\ \/ /\ found # {} /\ \E deaf \in Deaf(pid, found) : Kill(found \ deaf)
          /\ Settle(s, TRUE) /\ UNCHANGED mishits
       \/ /\ IF found # {} THEN Mishap ELSE UNCHANGED mishits
          /\ Goes(s, "list") /\ UNCHANGED <<proc, seat, folders>>
    /\ UNCHANGED <<lodging, ending, owed, kept, minted, flying, alive, host, left, begun>>

\* The recorded pid lives.
Lives(s, pid) == pid /\ proc[s] # "none"

\* What the profile's command line proves is killed, unless the recorded pid lives
\* and is not among it.
Lists(s) ==
    LET pid == Head(queue[s]).pid IN
    /\ Turn(s, "list")
    /\ IF Lives(s, pid) /\ s \notin Owned(s)
       THEN Settle(s, FALSE) /\ UNCHANGED proc
       ELSE Settle(s, TRUE) /\ Kill(Owned(s))
    /\ UNCHANGED <<lodging, ending, owed, kept, minted, flying, alive, host, left, begun, mishits>>

MutantGuess(s, pid) == TRUE

\* Nothing could be listed: a process that is not known to live counts as stopped.
Guess(s, pid) == ~Lives(s, pid)

ListFails(s) ==
    LET pid == Head(queue[s]).pid IN
    /\ Turn(s, "list") /\ Mishap
    /\ pid \/ Owned(s) = {} \/ Unrecorded
    /\ Settle(s, Guess(s, pid))
    /\ UNCHANGED <<lodging, ending, owed, kept, minted, proc, flying, alive, host, left, begun>>

(***************************************************************************)
(* The Room's sleep and deletion release every session on record, one      *)
(* after the other, before the engine is asked.                            *)
(***************************************************************************)

EndsRoom(r, how) ==
    /\ host = "on" /\ ending[r] = "no"
    /\ lodging[r] = "awake" \/ (lodging[r] = "asleep" /\ how = "delete")
    /\ Overlaps \/ (~Stirred(r) /\ \A s \in flying : RoomOf[s] # r)
    /\ ending' = [ending EXCEPT ![r] = how]
    /\ owed' = [owed EXCEPT ![r] = {Record(s) : s \in {t \in Rows : RoomOf[t] = r}}]
    /\ UNCHANGED <<lodging, seat, kept, minted, folders, proc, flying, alive, queue, host, left, begun, mishits>>

Waits(s, by) == \E i \in DOMAIN queue[s] : queue[s][i].by = by

Releasing(r) == \E s \in Sessions : RoomOf[s] = r /\ Waits(s, "room")

ReleaseNext(r) ==
    /\ ~Releasing(r)
    /\ \E o \in owed[r] : owed' = [owed EXCEPT ![r] = @ \ {o}] /\ Enter(o.session, Job("room", o.pid))
    /\ UNCHANGED <<lodging, ending, seat, kept, minted, folders, proc, flying, alive, host, left, begun, mishits>>

Released(r) == ending[r] # "no" /\ owed[r] = {} /\ ~Releasing(r)

\* The engine has stopped the Room, or refused.
Sleeps(r) ==
    /\ Released(r) /\ ending[r] = "sleep"
    /\ ending' = [ending EXCEPT ![r] = "no"]
    /\ lodging' \in {[lodging EXCEPT ![r] = "asleep"], lodging}
    /\ UNCHANGED <<owed, seat, kept, minted, folders, proc, flying, alive, queue, host, left, begun, mishits>>

Erases(r) ==
    /\ Released(r) /\ ending[r] = "delete" /\ lodging[r] # "erasing"
    /\ lodging' = [lodging EXCEPT ![r] = "erasing"]
    /\ UNCHANGED <<ending, owed, seat, kept, minted, folders, proc, flying, alive, queue, host, left, begun, mishits>>

\* The rows of sessions go with the row of their Room.
Erased(r) ==
    /\ lodging[r] = "erasing" /\ ending[r] = "delete"
    /\ lodging' = [lodging EXCEPT ![r] = "gone"] /\ ending' = [ending EXCEPT ![r] = "no"]
    /\ seat' = [s \in Sessions |-> IF RoomOf[s] = r THEN None ELSE seat[s]]
    /\ UNCHANGED <<owed, kept, minted, folders, proc, flying, alive, queue, host, left, begun, mishits>>

Wakes(r) ==
    /\ host = "on" /\ lodging[r] = "asleep" /\ ending[r] = "no"
    /\ lodging' = [lodging EXCEPT ![r] = "awake"]
    /\ UNCHANGED <<ending, owed, seat, kept, minted, folders, proc, flying, alive, queue, host, left, begun, mishits>>

(***************************************************************************)
(* Shutdown, crash and start.                                              *)
(***************************************************************************)

Still == \A s \in Sessions : queue[s] = <<>>

Shutdown ==
    /\ host = "on" /\ (Overlaps \/ \A r \in Rooms : ending[r] = "no")
    /\ host' = "closing" /\ left' = Rows
    /\ UNCHANGED <<lodging, ending, owed, seat, kept, minted, folders, proc, flying, alive, queue, begun, mishits>>

\* shutdown visits what is live; reconcile every row, and then every profile of a
\* session that no row names.
Visit(s) ==
    /\ host \in {"closing", "orphans", "strays"} /\ s \in left
    /\ IF host = "closing" THEN \A t \in Sessions : ~Waits(t, "stop") ELSE Still
    /\ left' = left \ {s}
    /\ CASE host = "closing" -> IF s \in alive /\ seat[s] # None
                                THEN Enter(s, Job("stop", seat[s].pid)) ELSE UNCHANGED queue
         [] host = "orphans" -> Enter(s, Job("start", seat[s].pid))
         [] host = "strays"  -> Enter(s, Job("stray", FALSE))
    /\ UNCHANGED <<lodging, ending, owed, seat, kept, minted, folders, proc, flying, alive, host, begun, mishits>>

ReconcileGoesOn ==
    /\ host \in {"orphans", "strays"} /\ left = {} /\ Still
    /\ IF host = "orphans" THEN host' = "strays" /\ left' = (folders \cap Sessions) \ Rows
                           ELSE host' = "on" /\ left' = {}
    /\ UNCHANGED <<lodging, ending, owed, seat, kept, minted, folders, proc, flying, alive, queue, begun, mishits>>

Forgets ==
    /\ host' = "off" /\ flying' = {} /\ alive' = {} /\ left' = {}
    /\ queue' = [s \in Sessions |-> <<>>] /\ owed' = [r \in Rooms |-> {}]
    /\ ending' = [r \in Rooms |-> "no"]

\* The process ends: after its shutdown, when its deadline passed, or by a crash.
\* The engine tells at the next start whether a Room that was going to sleep is up.
Ends ==
    /\ host # "off" /\ begun < MaxStarts /\ Forgets
    /\ \E down \in SUBSET {r \in Rooms : ending[r] = "sleep"} :
            lodging' = [r \in Rooms |-> IF r \in down THEN "asleep" ELSE lodging[r]]
    /\ UNCHANGED <<seat, kept, minted, folders, proc, begun, mishits>>

\* A crash within allocate leaves a directory, or a row too, and no browser.
CutShort(s, persistent) ==
    /\ host = "on" /\ begun < MaxStarts
    /\ MayAllocate(s, persistent) /\ Furnish(s, persistent) /\ Forgets
    /\ seat' \in {seat, [seat EXCEPT ![s] = NewSeat]}
    /\ UNCHANGED <<lodging, proc, begun, mishits>>

Starts ==
    /\ host = "off"
    /\ host' = "orphans" /\ left' = Rows /\ begun' = begun + 1
    /\ UNCHANGED <<lodging, ending, owed, seat, kept, minted, folders, proc, flying, alive, queue, mishits>>

(***************************************************************************)
(* External: a browser exits by itself, and a stranger gets its pid.       *)
(***************************************************************************)

BrowserDies(s) ==
    /\ proc[s] = "browser" /\ Mishap
    /\ proc' = [proc EXCEPT ![s] = "none"]
    /\ UNCHANGED <<lodging, ending, owed, seat, kept, minted, folders, flying, alive, queue, host, left, begun>>

\* Not within the moments of a stop.
PidIsReused(s) ==
    /\ s \in minted /\ proc[s] = "none" /\ Mishap
    /\ Overlaps \/ queue[s] = <<>>
    /\ proc' = [proc EXCEPT ![s] = "other"]
    /\ UNCHANGED <<lodging, ending, owed, seat, kept, minted, folders, flying, alive, queue, host, left, begun>>

Next ==
    \/ \E s \in Sessions : \/ \E persistent \in BOOLEAN : Allocate(s, persistent) \/ CutShort(s, persistent)
                           \/ Launched(s) \/ LaunchFails(s)
                           \/ \E by \in By : Ask(s, by)
                           \/ Begin(s) \/ Driven(s) \/ Closes(s) \/ Forces(s)
                           \/ Probes(s) \/ Lists(s) \/ ListFails(s)
                           \/ Visit(s) \/ BrowserDies(s) \/ PidIsReused(s)
    \/ \E r \in Rooms : \/ \E how \in {"sleep", "delete"} : EndsRoom(r, how)
                        \/ ReleaseNext(r) \/ Sleeps(r) \/ Erases(r) \/ Erased(r) \/ Wakes(r)
    \/ Shutdown \/ ReconcileGoesOn \/ Ends \/ Starts

Spec == Init /\ [][Next]_browserVars

(***************************************************************************)
(* What must hold.                                                         *)
(***************************************************************************)

Up == {s \in Sessions : proc[s] = "browser"}

\* Whatever ends a session, and whenever the process dies, a browser that still
\* runs is found by the next start: by its row, or by its own profile without a
\* row.  Only the persistent one of a deleted Room, which could not be stopped,
\* has neither.
NoneForgotten ==
    \A s \in Up : \/ s \in Rows \/ s \in folders \ kept
                  \/ s \in kept /\ lodging[RoomOf[s]] = "gone"

\* Two browsers never share a profile, and no profile is removed under its browser.
ProfilesAreOwn ==
    \A s \in Up : Profile(s) \in folders /\ \A t \in Up \ {s} : Profile(t) # Profile(s)

\* A Room that went to sleep drives no browser: what is left of one could not
\* be stopped, and says so.
SleepersDriveNone ==
    host = "on" => \A s \in Up : lodging[RoomOf[s]] = "asleep" => seat[s] # None /\ seat[s].status = "failed"

\* A command runs in a browser that no release has begun to stop.
DrivenIsAlive == \A s \in Sessions : Turn(s, "drive") => s \in alive

\* A process that got the pid of a dead browser is never killed for it.
StrangersLive == \A s \in Sessions : proc[s] = "other" => proc'[s] = "other"

\* A browser ends by its own launch, release or reconciliation, or by itself: a
\* release that was asked for one session never stops another's browser.
OthersGoOn ==
    \A s \in Up : \/ proc'[s] = "browser" \/ s \in flying \/ queue[s] # <<>>
                  \/ mishits' > mishits /\ queue' = queue
=============================================================================
