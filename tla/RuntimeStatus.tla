---------------------------- MODULE RuntimeStatus ----------------------------
(***************************************************************************)
(* What a status read says of a Room, and what it does to the Room's route *)
(* (orchestrator.ts, backend/ociCli.ts).  A read is several engine calls   *)
(* long and holds no lock; the Room's operations, its containers and the   *)
(* engine go on meanwhile.                                                 *)
(***************************************************************************)
EXTENDS Naturals, Sequences

CONSTANTS
    MaxMutations,   \* bound: operations of the Room
    MaxLooks,       \* bound: status reads
    MaxDeaths,      \* bound: containers that die, or run when they should not
    MaxHiccups      \* bound: calls that the engine does not answer

RuntimeStatusAssumption ==
    MaxMutations \in Nat /\ MaxLooks \in Nat /\ MaxDeaths \in Nat /\ MaxHiccups \in Nat

VARIABLES
    phone,          \* it is an Android Room
    room,           \* the row's status, and whether the gateway has the route
    real,           \* the containers: web, anchor, emulator
    waiting,        \* roomOps: the operations; the first one holds the lock
    latest,         \* the identity of the last one
    look,           \* the read under way
    told,           \* what the last read said
    since,          \* what has been true since the read began
    mutations, looks, deaths, hiccups

vars == <<phone, room, real, waiting, latest, look, told, since, mutations, looks, deaths, hiccups>>

-----------------------------------------------------------------------------

\* web: "running", "idle" (the container runs, the workload has ended), "exited" or "missing".
Up(r) == r.web \in {"running", "idle"}
Serves(r) == r.web = "running" /\ r.anchor = "running"
Live == [web |-> "running", anchor |-> "running", emulator |-> IF phone THEN "running" ELSE "missing"]
Still == [web |-> "exited", anchor |-> "exited", emulator |-> IF phone THEN "exited" ELSE "missing"]

\* runtimeExpectation
Expected(status) == CASE status = "preparing" -> "transitional"
                      [] status = "running"   -> "running"
                      [] OTHER                -> "stopped"

NoLook == [kind |-> "none", step |-> "over", status |-> "none", locked |-> FALSE, op |-> 0,
           available |-> FALSE, anchor |-> "none", main |-> "unchecked", emulator |-> "unchecked"]
Nothing == [state |-> "none", revoked |-> FALSE]

At(step) == look.step = step

\* What has been seen since the read began.
Now(r, published) == [down |-> ~Up(r), up |-> Serves(r), emulatorDown |-> r.emulator # "running",
                      published |-> published, unanswered |-> FALSE]
Witness(r, published) ==
    LET n == Now(r, published)
    IN  since' = IF At("over") THEN since ELSE [f \in DOMAIN since |-> since[f] \/ n[f]]

-----------------------------------------------------------------------------
(* The operations of the Room *)

\* startRoomLocked and sleepRoomLocked: what the first of them does once it has the lock.
\* A start of a Room that is awake, and runs, only gives it its route again.
Entered(op, r, boxes) ==
    CASE op = "sleep"                                         -> [r EXCEPT !.route = FALSE]
      [] op = "start" /\ r.status = "running" /\ boxes = Live -> r
      [] OTHER                                                -> [r EXCEPT !.status = "preparing"]

\* The next one has the lock as soon as the one before it has ended.
Admit(op) ==
    /\ mutations < MaxMutations /\ mutations' = mutations + 1 /\ latest' = latest + 1
    /\ waiting' = Append(waiting, op)
    /\ room' = IF waiting = <<>> THEN Entered(op, room, real) ELSE room
    /\ UNCHANGED <<phone, real, look, told, since, looks, deaths, hiccups>>

Ends(r, boxes) ==
    /\ waiting' = Tail(waiting) /\ real' = boxes
    /\ room' = IF waiting' = <<>> THEN r ELSE Entered(Head(waiting'), r, boxes)
    /\ Witness(boxes, r.route)
    /\ UNCHANGED <<phone, latest, look, told, mutations, looks, deaths, hiccups>>

Holds(op) == waiting # <<>> /\ Head(waiting) = op

Start ==
    /\ Holds("start")
    /\ IF room.status = "running" THEN Ends([room EXCEPT !.route = TRUE], real)
       ELSE \/ Ends([status |-> "running", route |-> TRUE], Live)
            \/ Ends([status |-> "broken", route |-> FALSE], real)

Sleep ==
    /\ Holds("sleep")
    /\ Ends([status |-> "sleeping", route |-> FALSE], Still) \/ Ends([room EXCEPT !.route = FALSE], real)

-----------------------------------------------------------------------------
(* A read *)

Hiccup == hiccups < MaxHiccups /\ hiccups' = hiccups + 1
Answers == UNCHANGED hiccups

\* Everything a step of the read leaves alone.
Reads == UNCHANGED <<phone, real, waiting, latest, mutations, looks, deaths>>
Quietly == Reads /\ UNCHANGED <<room, told>>
Missed == since' = [since EXCEPT !.unanswered = TRUE]

\* The rows, the locks and the operations are read at one moment; only a Room that
\* should run, or sleep, is looked at.
Snapshot(kind, available) ==
    /\ look' = [NoLook EXCEPT
                  !.kind = kind, !.status = room.status, !.locked = waiting # <<>>, !.op = latest,
                  !.available = available,
                  !.step = IF available /\ (Expected(room.status) = "running" \/ room.status = "sleeping")
                           THEN "inventory" ELSE "judge"]
    /\ since' = Now(real, FALSE)

\* listRoomsRuntime and hotelStatus ask for the health first, inspectRoomRuntime does not.
Ask(kind) ==
    /\ At("over") /\ looks < MaxLooks /\ looks' = looks + 1 /\ told' = Nothing
    /\ IF kind = "inspect" THEN Snapshot(kind, TRUE) ELSE look' = [NoLook EXCEPT !.kind = kind, !.step = "health"] /\ UNCHANGED since
    /\ UNCHANGED <<phone, room, real, waiting, latest, mutations, deaths, hiccups>>

Health ==
    /\ At("health")
    /\ \/ Answers /\ Snapshot("list", TRUE)
       \/ Hiccup /\ Snapshot("list", FALSE)
    /\ Quietly

Sees(r, next) == look' = [r EXCEPT !.step = next]
\* componentStatesFromObservation: a running emulator is proven again.
ThenEmulator(r) == Sees(r, IF phone /\ r.emulator \in {"running", "unchecked"} THEN "emulator" ELSE "judge")

\* observeRoomRuntimes: one listing, then the processes of a running web; when it fails,
\* each container is probed by itself, under a health read.
Inventory ==
    /\ At("inventory")
    /\ \/ /\ Answers /\ UNCHANGED since
          /\ LET r == [look EXCEPT !.anchor = real.anchor, !.emulator = real.emulator,
                                   !.main = IF Up(real) THEN "running" ELSE real.web]
             IN  IF Up(real) THEN Sees(r, "top") ELSE ThenEmulator(r)
       \/ Hiccup /\ Missed /\ Sees(look, IF look.kind = "inspect" THEN "health2" ELSE "web")
    /\ Quietly

SecondHealth ==
    /\ At("health2")
    /\ \/ Answers /\ UNCHANGED since /\ Sees(look, "web")
       \/ Hiccup /\ Missed /\ Sees([look EXCEPT !.available = FALSE], "judge")
    /\ Quietly

\* webWorkloadState, and the authority that the listing saw.
Top ==
    /\ At("top")
    /\ \/ /\ Answers /\ UNCHANGED since
          /\ ThenEmulator([look EXCEPT !.main = IF real.web = "running" /\ look.anchor = "running"
                                                THEN "running" ELSE "degraded"])
       \/ Hiccup /\ Missed /\ ThenEmulator([look EXCEPT !.main = "unknown"])
    /\ Quietly

\* webState: the processes; when there is no answer, the container.
Web ==
    /\ At("web")
    /\ \/ /\ Answers /\ UNCHANGED since
          /\ IF ~Up(real) THEN Sees(look, "container")
             ELSE IF real.web = "running" THEN Sees(look, "authority")
             ELSE ThenEmulator([look EXCEPT !.main = "degraded"])
       \/ Hiccup /\ Missed /\ Sees(look, "container")
    /\ Quietly

\* webNetworkAuthorityState
Authority ==
    /\ At("authority")
    /\ \/ /\ Answers /\ UNCHANGED since
          /\ ThenEmulator([look EXCEPT !.main = IF real.anchor = "running" THEN "running" ELSE "degraded"])
       \/ Hiccup /\ Missed /\ ThenEmulator([look EXCEPT !.main = "unknown"])
    /\ Quietly

Container ==
    /\ At("container")
    /\ \/ /\ Answers /\ UNCHANGED since
          /\ ThenEmulator([look EXCEPT !.main = IF Up(real) THEN "degraded" ELSE real.web])
       \/ Hiccup /\ Missed /\ ThenEmulator([look EXCEPT !.main = "missing"])
    /\ Quietly

\* emulatorState; a failed proof is a degraded emulator, and so is one that is not there
\* while the Room's anchor runs.
Emulator ==
    /\ At("emulator")
    /\ \/ /\ Answers /\ UNCHANGED since
          /\ Sees([look EXCEPT !.emulator = IF real.emulator # "running" /\ real.anchor = "running"
                                            THEN "degraded" ELSE real.emulator], "judge")
       \/ Hiccup /\ Missed /\ Sees([look EXCEPT !.emulator = "degraded"], "judge")
    /\ Quietly

Parts == {look.main} \cup (IF phone THEN {look.emulator} ELSE {})
Combined ==
    CASE Parts = {"running"}                              -> "running"
      [] Parts \cap {"running", "degraded"} # {}          -> "degraded"
      [] "unknown" \in Parts                              -> "unknown"
      [] OTHER                                            -> "dead"

\* observeRuntimeStatus; an interrupted locale matrix that waits for an operator is told
\* as a degraded Android Room.
States ==
    LET expected == Expected(look.status)
    IN  CASE expected = "stopped"      -> {IF Parts \cap {"running", "degraded"} # {} THEN "degraded" ELSE "stopped"}
          [] expected = "transitional" -> {"unknown"}
          [] ~look.available           -> {"unknown"}
          [] phone /\ Combined = "running" -> {"running", "degraded"}
          [] OTHER                     -> {Combined}

\* observeRuntimeStatusForIngress: a dead Room loses its route, unless an operation was
\* there when the read began, has come since, or is there now.
MayRevoke == latest = look.op /\ ~look.locked /\ waiting = <<>>

Judge ==
    /\ At("judge") /\ look' = [look EXCEPT !.step = "over"]
    /\ \E state \in States :
         LET revokes == Expected(look.status) = "running" /\ state = "dead" /\ MayRevoke
         IN  /\ told' = [state |-> state, revoked |-> revokes /\ room.route]
             /\ room' = IF revokes THEN [room EXCEPT !.route = FALSE] ELSE room
    /\ UNCHANGED <<since, hiccups>> /\ Reads

-----------------------------------------------------------------------------

\* A container dies, is removed by somebody, or runs although nobody asked for it.
Deaths ==
    /\ deaths < MaxDeaths /\ deaths' = deaths + 1
    /\ \/ Up(real) /\ \E web \in {"idle", "exited", "missing"} \ {real.web} : real' = [real EXCEPT !.web = web]
       \/ real.anchor = "running" /\ real' = [real EXCEPT !.anchor = "exited"]
       \/ real.emulator = "running" /\ real' = [real EXCEPT !.emulator = "exited"]
       \/ real.web = "exited" /\ waiting = <<>> /\ real' = [real EXCEPT !.web = "running", !.anchor = "running"]
    /\ Witness(real', FALSE)
    /\ UNCHANGED <<phone, room, waiting, latest, look, told, mutations, looks, hiccups>>

Init ==
    /\ phone \in BOOLEAN
    /\ room = [status |-> "running", route |-> TRUE] /\ real = Live
    /\ waiting = <<>> /\ latest = 0 /\ look = NoLook /\ told = Nothing
    /\ since = Now(Live, FALSE) /\ mutations = 0 /\ looks = 0 /\ deaths = 0 /\ hiccups = 0

Next ==
    \/ \E op \in {"start", "sleep"} : Admit(op)
    \/ Start \/ Sleep
    \/ \E kind \in {"list", "inspect"} : Ask(kind)
    \/ Health \/ Inventory \/ SecondHealth \/ Top \/ Web \/ Authority \/ Container \/ Emulator \/ Judge
    \/ Deaths

Spec == Init /\ [][Next]_vars

-----------------------------------------------------------------------------
(* Properties *)

\* Every variable has its type.
TypeOK ==
    /\ phone \in BOOLEAN /\ latest \in 0 .. MaxMutations
    /\ room.status \in {"running", "preparing", "sleeping", "broken"} /\ room.route \in BOOLEAN
    /\ real.web \in {"running", "idle", "exited", "missing"}
    /\ look.step \in {"over", "health", "inventory", "health2", "top", "web", "authority", "container", "emulator", "judge"}
    /\ told.state \in {"none", "running", "degraded", "unknown", "dead", "stopped"}

\* A read that takes the route away never undoes a route that an operation made after
\* the read began.
NewRouteStays == told.revoked => ~since.published

\* A Room is called dead only when its web, and an Android Room's emulator, really did
\* not run at some moment of the read: an engine that does not answer proves nothing.
DeadIsProven == told.state = "dead" => since.down /\ (phone => since.emulatorDown)

\* A Room is called running only when it served at some moment of the read.
RunningWasSeen == told.state = "running" => since.up

\* A sleeping Room whose web ran during the whole read is not called stopped, when
\* the engine answered.
StrayIsTold ==
    told.state = "stopped" /\ look.status = "sleeping" /\ look.available
        => since.down \/ since.unanswered
=============================================================================
