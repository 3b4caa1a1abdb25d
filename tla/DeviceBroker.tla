---------------------------- MODULE DeviceBroker ----------------------------
(***************************************************************************)
(* The Android Device Broker (packages/core/src/devices/broker.ts) over    *)
(* its SQLite tables (store/androidDevicesRepo.ts).                        *)
(*                                                                         *)
(* One DevHotel process shares the phones on its Host among many Rooms.    *)
(* The process runs JavaScript: a handler is atomic between two awaits.    *)
(* `turn' and the refresh phase "closing" are the handlers whose loop over *)
(* devices takes several steps here; while one of them is under way no     *)
(* other handler runs (EventLoopFree), only a crash can come between.      *)
(*                                                                         *)
(* Time is kept as ages in ticks, saturating at AgeCap, so that the model  *)
(* is finite although leases come and go forever.  Lease ids are UUIDs in  *)
(* the code: here an id is taken again only when nothing refers to it.     *)
(***************************************************************************)
EXTENDS Integers, FiniteSets

CONSTANTS
    Rooms,          \* Rooms of the android provider
    Devices,        \* handsets, one row of android_devices each
    Reach,          \* the transports each handset can ever appear on
    Nicknames,      \* the names an operator gives to handsets
    Requests,       \* the constraints and priorities Rooms ask with
    Opaque,         \* Rooms whose workerId is not of the form pid:<n>
    Retained,       \* Rooms that may start with a retained recovery record
    LeaseIds,       \* bound: how many leases can be referred to at a time
    None,           \* null
    Ttl,            \* lease.ttlMs
    Grace,          \* graceMs
    MaxDuration,    \* lease.maxDurationMs
    MaxProbe,       \* bound: how long one reap pass can take
    AgeCap,         \* bound: ages saturate here
    TimePasses,     \* FALSE in instances that study one instant: no reap
    MaxCrashes      \* bound: crashes of the process

Transports == {"usb", "wireless"}

Request == [pin: Devices \cup {None}, conn: Transports \cup {None},
            nick: Nicknames \cup {None}, prio: Int]

ASSUME NoneAssumption ==
    /\ None \notin Rooms \cup Devices \cup Nicknames \cup LeaseIds
    /\ None \notin Transports /\ None \notin Requests
ASSUME RequestsAssumption == Requests \subseteq Request
ASSUME RoomsAssumption == Opaque \subseteq Rooms /\ Retained \subseteq Rooms
ASSUME ReachAssumption == Reach \in [Devices -> SUBSET Transports]
ASSUME TimeAssumption ==
    /\ Ttl \in Nat /\ Grace \in Nat /\ MaxDuration \in Nat
    /\ MaxProbe \in Nat /\ AgeCap \in Nat /\ MaxCrashes \in Nat
    /\ TimePasses \in BOOLEAN
    /\ AgeCap > Ttl + MaxProbe
    /\ AgeCap >= Grace + MaxProbe
    /\ AgeCap > MaxDuration + MaxProbe

VARIABLES
    health,     \* android_devices.health, "unknown" when there is no row
    serial,     \* android_devices.serial: the transport the row points at
    nickname,   \* android_devices.nickname
    lease,      \* the active row of android_device_leases of each device
    latest,     \* latestLeaseForRoom: its state, and its device while the
                \* Room's target depends on it (deviceForRoom)
    asked,      \* the Room's waiting row of android_device_queue, or None
    behind,     \* the Rooms whose waiting row is older than the Room's own
    pending,    \* the lease id a retained recovery record names, per Room
    adbOk,      \* lastAvailability.ok
    grantable,  \* inventoryGrantable
    refresh,    \* where refreshInventoryOnce stands
    obs,        \* what `adb devices' reported to this refresh
    plan,       \* the transport planned for each device, None when not left
    seen,       \* device ids upserted by this refresh
    closing,    \* devices whose disappearance is still to be handled
    turn,       \* devices still to be promoted in the current handler
    death,      \* deathObservedAt as an age, -1 when absent
    reaper,     \* the reap() in flight
    awake,      \* Room status is neither sleeping nor broken
    worker,     \* the pid of the Room's worker still exists
    locked,     \* the Room lock is held by a sleep that released the phone
    crashes

repoVars == <<health, serial, nickname, lease, latest, asked, behind, pending>>
probeVars == <<refresh, obs, plan, seen, closing>>
roomVars == <<awake, worker, locked>>
vars == <<repoVars, adbOk, grantable, probeVars, turn, death, reaper,
          roomVars, crashes>>

-----------------------------------------------------------------------------
(* The repository *)

Free == [room |-> None, id |-> None, hb |-> 0, acq |-> 0, act |-> 0]

Ages == 0..AgeCap

Leases == [room: Rooms, id: LeaseIds, hb: Ages, acq: Ages, act: Ages]

Leased(d) == lease[d] # Free

\* activeLeaseForRoom
Holds(r) == \E d \in Devices : lease[d].room = r

HeldBy(r) == CHOOSE d \in Devices : lease[d].room = r

ActiveIds == {lease[d].id : d \in {e \in Devices : Leased(e)}}

\* recoveryProtected: a retained recovery record names exactly this lease
Protected(d) == Leased(d) /\ pending[lease[d].room] = lease[d].id

\* ownerLiveness
OwnerLiveness(r) ==
    IF ~awake[r] \/ (r \notin Opaque /\ ~worker[r]) THEN "dead"
    ELSE IF r \in Opaque THEN "unknown" ELSE "live"

\* matches: a brokered device against the constraints of a request
Matches(d, q) ==
    /\ health[d] # "unknown"
    /\ q.pin \in {None, d}
    /\ q.conn \in {None, serial[d]}
    /\ q.nick \in {None, nickname[d]}

Waiting == {r \in Rooms : asked[r] # None}

\* ORDER BY priority DESC, requested_at, rowid
Before(r, s) ==
    \/ asked[r].prio > asked[s].prio
    \/ asked[r].prio = asked[s].prio /\ r \in behind[s]

\* resolveQueueEntry for the waiting rows of a set of Rooms
Leave(gone) ==
    /\ asked' = [r \in Rooms |-> IF r \in gone THEN None ELSE asked[r]]
    /\ behind' = [r \in Rooms |-> IF r \in gone THEN {} ELSE behind[r] \ gone]

ReferredIds == ActiveIds \cup reaper.left \cup {reaper.cur}
                 \cup {pending[r] : r \in Rooms}

\* randomUUID: any id nothing refers to
FreshIds == LeaseIds \ ReferredIds

\* grantLease without its queue updates
Grant(d, r) ==
    /\ FreshIds # {}
    /\ lease' = [lease EXCEPT ![d] =
                    [room |-> r, id |-> CHOOSE id \in LeaseIds : id \in FreshIds,
                     hb |-> 0, acq |-> 0, act |-> 0]]
    /\ latest' = [latest EXCEPT ![r] = [state |-> "active", device |-> d]]

\* No lease yet, a released one, or a disconnect the Room acknowledged
NoTarget == [state |-> "closed", device |-> None]

\* Mutant: the row keeps its Room
MutantCloseLease(d, state) ==
    /\ lease' = [lease EXCEPT ![d].id = None]
    /\ latest' = [latest EXCEPT ![lease[d].room] = NoTarget]

\* closeLeaseIf of the active lease of d, after its guard was evaluated
CloseLease(d, state) ==
    /\ lease' = [lease EXCEPT ![d] = Free]
    /\ latest' = [latest EXCEPT ![lease[d].room] =
                    [state |-> state, device |-> IF state = "revoked" THEN d ELSE None]]

Forget(id) == death' = [death EXCEPT ![id] = -1]

EventLoopFree == turn = {} /\ refresh # "closing"

-----------------------------------------------------------------------------
(* Requests, heartbeats and releases *)

\* Mutant: the Room's existing lease is not looked up
MutantMayRequest(r) ==
    /\ EventLoopFree
    /\ refresh = "idle"
    /\ adbOk /\ grantable
    /\ awake[r] /\ ~locked[r]

\* requestDevice joined the refresh in flight and found a healthy inventory
MayRequest(r) ==
    /\ EventLoopFree
    /\ refresh = "idle"
    /\ adbOk /\ grantable
    /\ awake[r] /\ ~locked[r]
    /\ ~Holds(r)

Available(d, q) == Matches(d, q) /\ health[d] = "ready" /\ ~Leased(d)

RequestGranted(r, q) ==
    /\ MayRequest(r)
    /\ \E d \in Devices : Available(d, q) /\ Grant(d, r)
    /\ Leave({r})
    /\ worker' = [worker EXCEPT ![r] = TRUE]
    /\ UNCHANGED <<health, serial, nickname, pending, adbOk, grantable,
                   probeVars, turn, death, reaper, awake, locked, crashes>>

RequestQueued(r, q) ==
    /\ MayRequest(r)
    /\ \E d \in Devices : Matches(d, q)
    /\ \A d \in Devices : ~Available(d, q)
    /\ asked[r] # q                     \* sameQueuedRequest keeps its place
    /\ asked' = [asked EXCEPT ![r] = q]
    /\ behind' = [s \in Rooms |-> IF s = r THEN Waiting \ {r} ELSE behind[s] \ {r}]
    /\ worker' = [worker EXCEPT ![r] = TRUE]
    /\ UNCHANGED <<health, serial, nickname, lease, latest, pending, adbOk,
                   grantable, probeVars, turn, death, reaper, awake, locked,
                   crashes>>

CancelRequest(r) ==
    /\ EventLoopFree
    /\ asked[r] # None
    /\ Leave({r})
    /\ UNCHANGED <<health, serial, nickname, lease, latest, pending, adbOk,
                   grantable, probeVars, turn, death, reaper, roomVars, crashes>>

\* touchLease; only a worker that still exists calls it
Touch(d, busy) ==
    /\ lease' = [lease EXCEPT ![d].hb = 0, ![d].act = IF busy THEN 0 ELSE @]
    /\ Forget(lease[d].id)
    /\ UNCHANGED <<health, serial, nickname, latest, asked, behind, pending,
                   adbOk, grantable, probeVars, turn, reaper, roomVars, crashes>>

Heartbeat(d, busy) ==
    /\ EventLoopFree
    /\ Leased(d)
    /\ worker[lease[d].room]
    /\ Touch(d, busy)

RenewRecoveryLease(d) ==
    /\ EventLoopFree
    /\ Protected(d)
    /\ Touch(d, TRUE)

\* Mutant: close forgets the queue
MutantClose(d, state) ==
    /\ CloseLease(d, state)
    /\ Forget(lease[d].id)
    /\ turn' = {}

\* close, up to the promotion it ends with
Close(d, state) ==
    /\ CloseLease(d, state)
    /\ Forget(lease[d].id)
    /\ turn' = {d}

Release(d) ==
    /\ EventLoopFree
    /\ Leased(d) /\ ~Protected(d)
    /\ Close(d, "closed")
    /\ UNCHANGED <<health, serial, nickname, asked, behind, pending, adbOk,
                   grantable, probeVars, reaper, roomVars, crashes>>

\* releaseRoom: leave the queue, then close the lease or acknowledge its loss
ReleaseOf(r) ==
    /\ Leave({r})
    /\ IF Holds(r) /\ ~Protected(HeldBy(r))
         THEN Close(HeldBy(r), "closed")
         ELSE /\ latest' = IF ~Holds(r) /\ latest[r].state = "revoked"
                             THEN [latest EXCEPT ![r] = NoTarget]
                             ELSE latest
              /\ UNCHANGED <<lease, death, turn>>

ReleaseRoom(r) ==
    /\ EventLoopFree
    /\ ~locked[r]
    /\ ReleaseOf(r)
    /\ UNCHANGED <<health, serial, nickname, pending, adbOk, grantable,
                   probeVars, reaper, roomVars, crashes>>

\* Mutant: promote does not look for an active lease
MutantPromotable(d) == adbOk /\ grantable /\ health[d] = "ready"

Promotable(d) == adbOk /\ grantable /\ health[d] = "ready" /\ ~Leased(d)

\* One iteration of the waiters of d: the first eligible match is granted,
\* the waiters ahead of it that can no longer be served are cancelled.
Promote(d) ==
    LET queued  == {r \in Waiting : asked[r].pin \in {None, d}}
        able    == {r \in queued : /\ awake[r]
                                   /\ Matches(d, asked[r])
                                   /\ ~Holds(r)}
        stale   == {r \in queued : ~awake[r] \/ (Matches(d, asked[r]) /\ Holds(r))}
        first(r) == r \in able /\ \A s \in able \ {r} : Before(r, s)
    IN  /\ d \in turn
        /\ turn' = turn \ {d}
        /\ \/ /\ ~Promotable(d)
              /\ UNCHANGED <<lease, latest, asked, behind>>
           \/ /\ Promotable(d)
              /\ able = {}
              /\ Leave(stale)
              /\ UNCHANGED <<lease, latest>>
           \/ /\ Promotable(d)
              /\ \E r \in able : /\ first(r)
                                 /\ Grant(d, r)
                                 /\ Leave({r} \cup {s \in stale : Before(s, r)})
        /\ UNCHANGED <<health, serial, nickname, pending, adbOk, grantable,
                       probeVars, death, reaper, roomVars, crashes>>

SetNickname(d, name) ==
    /\ EventLoopFree
    /\ health[d] # "unknown"
    /\ nickname' = [nickname EXCEPT ![d] = name]
    /\ UNCHANGED <<health, serial, lease, latest, asked, behind, pending, adbOk,
                   grantable, probeVars, turn, death, reaper, roomVars, crashes>>

-----------------------------------------------------------------------------
(* refreshInventory *)

Sightings == {"absent", "ready", "unauthorized"}

Nothing == [d \in Devices |-> [t \in Transports |-> "absent"]]

ProbeReset ==
    /\ refresh' = "idle"
    /\ obs' = Nothing
    /\ plan' = [d \in Devices |-> None]
    /\ seen' = {}
    /\ closing' = {}

RefreshInventory ==
    /\ EventLoopFree
    /\ refresh = "idle"
    /\ refresh' = "probing"
    /\ grantable' = FALSE
    /\ UNCHANGED <<repoVars, adbOk, obs, plan, seen, closing, turn, death,
                   reaper, roomVars, crashes>>

\* adb is missing, a call rejects, or an identity cannot be established
ProbeFails ==
    /\ EventLoopFree
    /\ refresh # "idle"
    /\ adbOk' = FALSE
    /\ ProbeReset
    /\ UNCHANGED <<repoVars, grantable, turn, death, reaper, roomVars, crashes>>

ScanDevices ==
    /\ EventLoopFree
    /\ refresh = "probing"
    /\ refresh' = "scanned"
    /\ obs' \in [Devices -> [Transports -> Sightings]]
    /\ \A d \in Devices, t \in Transports : t \notin Reach[d] => obs'[d][t] = "absent"
    /\ UNCHANGED <<repoVars, adbOk, grantable, plan, seen, closing, turn, death,
                   reaper, roomVars, crashes>>

\* An unhealthy wireless route is known only by the serial the row stores.
Routes(d) ==
    {t \in Transports :
        /\ obs[d][t] # "absent"
        /\ t = "wireless" /\ obs[d][t] # "ready"
             => health[d] # "unknown" /\ serial[d] = t}

\* Mutant: only the lease of a healthy phone pins its transport
MutantPinnedElsewhere(d, t) == Leased(d) /\ health[d] = "ready" /\ serial[d] # t

\* An active lease stays on the exact transport it was granted with.
PinnedElsewhere(d, t) == Leased(d) /\ serial[d] # t

\* A ready route before one that is not, and USB before wireless
Rank(d, t) == (IF obs[d][t] = "ready" THEN 0 ELSE 2) + (IF t = "usb" THEN 0 ELSE 1)

PlannedRoute(d) ==
    LET candidates == {t \in Routes(d) : ~PinnedElsewhere(d, t)}
    IN  IF candidates = {} THEN None
        ELSE CHOOSE t \in candidates : \A u \in candidates : Rank(d, t) <= Rank(d, u)

PlanInventory ==
    /\ EventLoopFree
    /\ refresh = "scanned"
    /\ refresh' = "applying"
    /\ plan' = [d \in Devices |-> PlannedRoute(d)]
    /\ obs' = [d \in Devices |->
                  [t \in Transports |-> IF t = PlannedRoute(d) THEN obs[d][t] ELSE "absent"]]
    /\ UNCHANGED <<repoVars, adbOk, grantable, seen, closing, turn, death,
                   reaper, roomVars, crashes>>

\* upsertDevice; it refuses to move a leased row to another transport
UpsertDevice(d) ==
    /\ EventLoopFree
    /\ refresh = "applying"
    /\ plan[d] # None
    /\ IF PinnedElsewhere(d, plan[d])
         THEN /\ adbOk' = FALSE
              /\ ProbeReset
              /\ UNCHANGED <<health, serial>>
         ELSE /\ health' = [health EXCEPT ![d] = obs[d][plan[d]]]
              /\ serial' = [serial EXCEPT ![d] = plan[d]]
              /\ plan' = [plan EXCEPT ![d] = None]
              /\ obs' = [obs EXCEPT ![d] = Nothing[d]]
              /\ seen' = seen \cup {d}
              /\ UNCHANGED <<adbOk, refresh, closing>>
    /\ UNCHANGED <<nickname, lease, latest, asked, behind, pending, grantable,
                   turn, death, reaper, roomVars, crashes>>

\* Mutant: a row that is already disconnected is skipped
MutantVanished == {d \in Devices \ seen : health[d] \notin {"unknown", "disconnected"}}

\* The rows this refresh did not see
Vanished == {d \in Devices \ seen : health[d] # "unknown"}

\* The last upsert returned: the rest of the refresh runs without an await.
InventoryApplied ==
    /\ EventLoopFree
    /\ refresh = "applying"
    /\ \A d \in Devices : plan[d] = None
    /\ refresh' = "closing"
    /\ closing' = Vanished
    /\ UNCHANGED <<repoVars, adbOk, grantable, obs, plan, seen, turn, death,
                   reaper, roomVars, crashes>>

MarkDisconnected(d) ==
    /\ refresh = "closing"
    /\ d \in closing
    /\ health[d] # "disconnected"
    /\ health' = [health EXCEPT ![d] = "disconnected"]
    /\ UNCHANGED <<serial, nickname, lease, latest, asked, behind, pending,
                   adbOk, grantable, probeVars, turn, death, reaper, roomVars,
                   crashes>>

Revocable(d) == Leased(d) /\ ~Protected(d)

\* Retried even when the row was already disconnected.
RevokeDisconnected(d) ==
    /\ refresh = "closing"
    /\ d \in closing
    /\ health[d] = "disconnected"
    /\ closing' = closing \ {d}
    /\ IF Revocable(d)
         THEN CloseLease(d, "revoked") /\ Forget(lease[d].id)
         ELSE UNCHANGED <<lease, latest, death>>
    /\ UNCHANGED <<health, serial, nickname, asked, behind, pending, adbOk,
                   grantable, refresh, obs, plan, seen, turn, reaper, roomVars,
                   crashes>>

\* Mutant: the queue is not served when the gate reopens
MutantFinishRefresh ==
    /\ refresh = "closing"
    /\ closing = {}
    /\ adbOk' = TRUE
    /\ grantable' = TRUE
    /\ turn' = {}
    /\ ProbeReset
    /\ UNCHANGED <<repoVars, death, reaper, roomVars, crashes>>

FinishRefresh ==
    /\ refresh = "closing"
    /\ closing = {}
    /\ adbOk' = TRUE
    /\ grantable' = TRUE
    /\ turn' = {d \in Devices : health[d] = "ready"}
    /\ ProbeReset
    /\ UNCHANGED <<repoVars, death, reaper, roomVars, crashes>>

-----------------------------------------------------------------------------
(* reap: `now' is read once, reaper.age ticks ago *)

Idle == [on |-> FALSE, left |-> {}, cur |-> None, verdict |-> None, age |-> 0]

\* Mutant: only the leases of awake Rooms are swept
MutantReapStart ==
    /\ EventLoopFree
    /\ TimePasses
    /\ ~reaper.on
    /\ reaper' = [Idle EXCEPT !.on = TRUE, !.left =
                    {lease[d].id : d \in {e \in Devices : Leased(e) /\ awake[lease[e].room]}}]
    /\ UNCHANGED <<repoVars, adbOk, grantable, probeVars, turn, death, roomVars,
                   crashes>>

ReapStart ==
    /\ EventLoopFree
    /\ TimePasses
    /\ ~reaper.on
    /\ reaper' = [Idle EXCEPT !.on = TRUE, !.left = ActiveIds]
    /\ UNCHANGED <<repoVars, adbOk, grantable, probeVars, turn, death, roomVars,
                   crashes>>

Silent(d) == lease[d].hb - reaper.age > Ttl

Overran(d) == /\ lease[d].acq - reaper.age > MaxDuration
              /\ lease[d].act - reaper.age > Ttl

\* closeAutomatically: a lease that became protected is left alone
Reclaim(d) ==
    IF Protected(d)
      THEN Forget(lease[d].id) /\ UNCHANGED <<lease, latest, turn>>
      ELSE Close(d, "expired")

\* The max-duration decision that ends an iteration; mark is the death mark.
MaxDurationCheck(d, mark) ==
    IF Overran(d)
      THEN Reclaim(d)
      ELSE /\ death' = [death EXCEPT ![lease[d].id] = mark]
           /\ UNCHANGED <<lease, latest, turn>>

\* getLease(snapshot.id) found it active on d and no recovery record names it
Reapable(id, d) == lease[d].id = id /\ ~Protected(d)

ReapVisit(id) ==
    /\ EventLoopFree
    /\ reaper.cur = None
    /\ id \in reaper.left
    /\ \/ /\ \A d \in Devices : ~Reapable(id, d)
          /\ Forget(id)
          /\ reaper' = [reaper EXCEPT !.left = @ \ {id}]
          /\ UNCHANGED <<lease, latest, turn>>
       \/ \E d \in Devices :
          /\ Reapable(id, d) /\ Silent(d)
          /\ reaper' = [reaper EXCEPT !.cur = id, !.left = @ \ {id},
                          !.verdict = OwnerLiveness(lease[d].room)]
          /\ UNCHANGED <<lease, latest, turn, death>>
       \/ \E d \in Devices :
          /\ Reapable(id, d) /\ ~Silent(d)
          /\ MaxDurationCheck(d, death[id])
          /\ reaper' = [reaper EXCEPT !.left = @ \ {id}]
    /\ UNCHANGED <<health, serial, nickname, asked, behind, pending, adbOk,
                   grantable, probeVars, roomVars, crashes>>

\* The age of the first observation of the death, or of this one
FirstSeen(id) == IF death[id] = -1 THEN reaper.age ELSE death[id]

\* Mutant: the heartbeat is not read again after the await
MutantStillSilent(id, d) == lease[d].id = id

StillSilent(id, d) == lease[d].id = id /\ Silent(d)

\* The await of ownerLiveness returns: the lease is read again.
ReapResume ==
    LET id == reaper.cur
    IN  /\ EventLoopFree
        /\ id # None
        /\ reaper' = [reaper EXCEPT !.cur = None, !.verdict = None]
        /\ \/ /\ \A d \in Devices : ~StillSilent(id, d)
              /\ Forget(id)
              /\ UNCHANGED <<lease, latest, turn>>
           \/ \E d \in Devices :
              /\ StillSilent(id, d)
              /\ reaper.verdict = "live"
              /\ MaxDurationCheck(d, -1)
           \/ \E d \in Devices :
              /\ StillSilent(id, d)
              /\ reaper.verdict # "live"
              /\ IF FirstSeen(id) - reaper.age >= Grace
                   THEN Reclaim(d)
                   ELSE MaxDurationCheck(d, FirstSeen(id))
        /\ UNCHANGED <<health, serial, nickname, asked, behind, pending, adbOk,
                       grantable, probeVars, roomVars, crashes>>

ReapEnd ==
    /\ EventLoopFree
    /\ reaper.on /\ reaper.left = {} /\ reaper.cur = None
    /\ reaper' = Idle
    /\ UNCHANGED <<repoVars, adbOk, grantable, probeVars, turn, death, roomVars,
                   crashes>>

-----------------------------------------------------------------------------
(* Rooms, workers, time and crashes *)

\* sleepRoomLocked releases the phone, stops the pod, then records the status.
SleepBegins(r) ==
    /\ EventLoopFree
    /\ awake[r] /\ ~locked[r]
    /\ pending[r] = None
    /\ ReleaseOf(r)
    /\ locked' = [locked EXCEPT ![r] = TRUE]
    /\ UNCHANGED <<health, serial, nickname, pending, adbOk, grantable,
                   probeVars, reaper, awake, worker, crashes>>

SleepEnds(r) ==
    /\ EventLoopFree
    /\ locked[r]
    /\ locked' = [locked EXCEPT ![r] = FALSE]
    /\ awake' = [awake EXCEPT ![r] = FALSE]
    /\ UNCHANGED <<repoVars, adbOk, grantable, probeVars, turn, death, reaper,
                   worker, crashes>>

\* The Room wakes, or its status turns broken without a release.
RoomStatusChanges(r) ==
    /\ EventLoopFree
    /\ ~locked[r]
    /\ awake' = [awake EXCEPT ![r] = ~@]
    /\ UNCHANGED <<repoVars, adbOk, grantable, probeVars, turn, death, reaper,
                   worker, locked, crashes>>

WorkerExits(r) ==
    /\ TimePasses
    /\ worker[r]
    /\ Holds(r) \/ asked[r] # None
    /\ worker' = [worker EXCEPT ![r] = FALSE]
    /\ UNCHANGED <<repoVars, adbOk, grantable, probeVars, turn, death, reaper,
                   awake, locked, crashes>>

\* The retained recovery record of a Room is settled and deleted.
RecoverySettled(r) ==
    /\ EventLoopFree
    /\ pending[r] # None
    /\ pending' = [pending EXCEPT ![r] = None]
    /\ UNCHANGED <<health, serial, nickname, lease, latest, asked, behind, adbOk,
                   grantable, probeVars, turn, death, reaper, roomVars, crashes>>

Older(age) == IF age < AgeCap THEN age + 1 ELSE age

Tick ==
    /\ TimePasses
    /\ reaper.on => reaper.age < MaxProbe
    /\ lease' = [d \in Devices |->
                    IF Leased(d)
                      THEN [lease[d] EXCEPT !.hb = Older(@), !.acq = Older(@),
                                            !.act = Older(@)]
                      ELSE Free]
    /\ death' = [id \in LeaseIds |-> IF death[id] = -1 THEN -1 ELSE Older(death[id])]
    /\ reaper' = IF reaper.on THEN [reaper EXCEPT !.age = @ + 1] ELSE reaper
    /\ UNCHANGED <<health, serial, nickname, latest, asked, behind, pending,
                   adbOk, grantable, probeVars, turn, roomVars, crashes>>

\* The process dies and starts again over the same database.
Crash ==
    /\ crashes < MaxCrashes
    /\ crashes' = crashes + 1
    /\ adbOk' = FALSE
    /\ grantable' = FALSE
    /\ ProbeReset
    /\ turn' = {}
    /\ death' = [id \in LeaseIds |-> -1]
    /\ reaper' = Idle
    /\ locked' = [r \in Rooms |-> FALSE]
    /\ UNCHANGED <<repoVars, awake, worker>>

-----------------------------------------------------------------------------
(* The specification *)

\* A fresh database when r is None, or one that an earlier version left with a
\* lease of r that a retained physical recovery record names.
Database(d, id, r) ==
    /\ health = [e \in Devices |-> IF r # None /\ e = d THEN "ready" ELSE "unknown"]
    /\ lease = [e \in Devices |->
                   IF r # None /\ e = d
                     THEN [room |-> r, id |-> id, hb |-> 0, acq |-> 0, act |-> 0]
                     ELSE Free]
    /\ latest = [s \in Rooms |->
                    IF s = r THEN [state |-> "active", device |-> d] ELSE NoTarget]
    /\ pending = [s \in Rooms |-> IF s = r THEN id ELSE None]

Init ==
    /\ \E d \in Devices, id \in LeaseIds, r \in Retained \cup {None} : Database(d, id, r)
    /\ serial = [d \in Devices |-> "usb"]
    /\ nickname \in [Devices -> Nicknames]
    /\ asked = [r \in Rooms |-> None]
    /\ behind = [r \in Rooms |-> {}]
    /\ adbOk = FALSE
    /\ grantable = FALSE
    /\ refresh = "idle"
    /\ obs = Nothing
    /\ plan = [d \in Devices |-> None]
    /\ seen = {}
    /\ closing = {}
    /\ turn = {}
    /\ death = [id \in LeaseIds |-> -1]
    /\ reaper = Idle
    /\ awake = [r \in Rooms |-> TRUE]
    /\ worker = [r \in Rooms |-> TRUE]
    /\ locked = [r \in Rooms |-> FALSE]
    /\ crashes = 0

RoomNext(r) ==
    \/ \E q \in Requests : RequestGranted(r, q) \/ RequestQueued(r, q)
    \/ CancelRequest(r)
    \/ ReleaseRoom(r)
    \/ SleepBegins(r)
    \/ SleepEnds(r)
    \/ RoomStatusChanges(r)
    \/ WorkerExits(r)
    \/ RecoverySettled(r)

DeviceNext(d) ==
    \/ \E busy \in BOOLEAN : Heartbeat(d, busy)
    \/ RenewRecoveryLease(d)
    \/ Release(d)
    \/ Promote(d)
    \/ \E name \in Nicknames : SetNickname(d, name)
    \/ UpsertDevice(d)
    \/ MarkDisconnected(d)
    \/ RevokeDisconnected(d)

RefreshNext ==
    RefreshInventory \/ ProbeFails \/ ScanDevices \/ PlanInventory
        \/ InventoryApplied \/ FinishRefresh

ReapNext == ReapStart \/ (\E id \in LeaseIds : ReapVisit(id)) \/ ReapResume \/ ReapEnd

Next ==
    \/ \E r \in Rooms : RoomNext(r)
    \/ \E d \in Devices : DeviceNext(d)
    \/ RefreshNext
    \/ ReapNext
    \/ Tick
    \/ Crash

Spec == Init /\ [][Next]_vars

-----------------------------------------------------------------------------
(* Properties *)

Health == {"unknown", "ready", "unauthorized", "disconnected"}

LatestStates == {"active", "closed", "expired", "revoked"}

Reapers == [on: BOOLEAN, left: SUBSET LeaseIds, cur: LeaseIds \cup {None},
            verdict: {"live", "dead", "unknown", None}, age: 0..MaxProbe]

LatestLeases == [state: LatestStates, device: Devices \cup {None}]

RepoTypeOK ==
    /\ health \in [Devices -> Health]
    /\ serial \in [Devices -> Transports]
    /\ nickname \in [Devices -> Nicknames]
    /\ lease \in [Devices -> Leases \cup {Free}]
    /\ latest \in [Rooms -> LatestLeases]
    /\ asked \in [Rooms -> Requests \cup {None}]
    /\ behind \in [Rooms -> SUBSET Rooms]
    /\ pending \in [Rooms -> LeaseIds \cup {None}]

ProbeTypeOK ==
    /\ refresh \in {"idle", "probing", "scanned", "applying", "closing"}
    /\ obs \in [Devices -> [Transports -> Sightings]]
    /\ plan \in [Devices -> Transports \cup {None}]
    /\ seen \in SUBSET Devices
    /\ closing \in SUBSET Devices

RoomTypeOK ==
    /\ awake \in [Rooms -> BOOLEAN]
    /\ worker \in [Rooms -> BOOLEAN]
    /\ locked \in [Rooms -> BOOLEAN]

\* Every variable has its type.
TypeOK ==
    /\ RepoTypeOK
    /\ ProbeTypeOK
    /\ RoomTypeOK
    /\ adbOk \in BOOLEAN
    /\ grantable \in BOOLEAN
    /\ turn \in SUBSET Devices
    /\ death \in [LeaseIds -> Ages \cup {-1}]
    /\ reaper \in Reapers
    /\ crashes \in 0..MaxCrashes

\* A Room never holds two phones, and two active leases never share an id.
\* The unique index covers devices only: for Rooms it is requestDevice and
\* promote, each with its own check, that must agree (broker.ts 555, 728).
OneLeasePerRoom ==
    \A d, e \in Devices :
        Leased(d) /\ Leased(e) /\ d # e
            => lease[d].room # lease[e].room /\ lease[d].id # lease[e].id

\* Once the inventory is grantable and the event loop is free, no ready phone
\* lies idle next to a request it could serve: whoever closes a lease, and the
\* refresh that reopens the gate, promotes (unless an operator
\* renames phones, see ServedInOrder).
NoIdlePhone ==
    grantable /\ turn = {} =>
        \A d \in Devices, r \in Waiting :
            ~ (health[d] = "ready" /\ ~Leased(d) /\ Matches(d, asked[r]))

\* A phone goes to a Room only when no other Room that could use it is ahead
\* in line: a grant at once overtakes nobody, a promotion takes the first.
ServedInOrder ==
    [][\A d \in Devices, r \in Rooms :
          ~Leased(d) /\ lease'[d].room = r =>
              \A s \in Waiting \ {r} :
                  awake[s] /\ Matches(d, asked[s]) => r \in Waiting /\ Before(r, s)]_vars

\* The owners of phones behave as PhoneLease says.
Ownership == INSTANCE PhoneLease WITH owner <- [d \in Devices |-> lease[d].room]

OwnershipSpec == Ownership!Spec

\* The transport under an active lease never changes, although a refresh plans
\* serials, waits for adb, and writes them later (broker.ts 240, upsertDevice).
LeaseKeepsTransport ==
    [][\A d \in Devices :
          Leased(d) /\ lease'[d].id = lease[d].id => serial'[d] = serial[d]]_vars

\* When a refresh reopens the gate, no lease survives on a phone that left the
\* bus, except the one a recovery record names: also when an earlier process
\* died between marking the row disconnected and revoking its lease.
UnpluggedIsRevoked ==
    [][grantable' /\ ~grantable =>
          \A d \in Devices : Leased(d) /\ health[d] = "disconnected" => Protected(d)]_vars

\* Only a silent owner loses its phone.  A death mark follows silence: its
\* lease was older than its TTL when the mark was set, so a heartbeat that wins
\* the race with a liveness probe removes the mark and the late probe cannot
\* put it back.  And the reaper takes a phone only from an owner that is silent
\* now, whatever heartbeats arrived while its probes were in flight.
OnlyTheSilentLose ==
    /\ [](\A id \in LeaseIds : death[id] # -1 =>
              \E d \in Devices :
                  /\ lease[d].id = id
                  /\ lease[d].hb > death[id] + Ttl \/ lease[d].hb = AgeCap)
    /\ [][\A d \in Devices :
              /\ Leased(d) /\ ~Leased(d)'
              /\ latest'[lease[d].room].state = "expired"
              => lease[d].hb > Ttl \/ (lease[d].act > Ttl /\ lease[d].acq > MaxDuration)]_vars

\* A lease that a recovery record names is never closed.
ProtectedLeaseStays ==
    [][\A d \in Devices : Protected(d) => lease'[d].id = lease[d].id]_vars

\* A completed refresh leaves no unprotected lease on a missing phone, and a
\* protected one is never closed.
GoneIsRevoked == UnpluggedIsRevoked /\ ProtectedLeaseStays

\* A phone whose worker is gone and that no recovery record names is
\* eventually taken back.
DeadOwnerLosesPhone ==
    \A d \in Devices, r \in Rooms :
        (lease[d].room = r /\ ~worker[r]) ~> (lease[d].room # r \/ worker[r] \/ Protected(d))

\* The sweeper's timer keeps calling reap and the clock advances.  A handler
\* whose await returned is queued by the event loop and gets its turn although
\* other handlers run before it: strong fairness.  A loop without an await
\* runs to its end: weak fairness.
Fairness ==
    /\ WF_vars(Tick)
    /\ SF_vars(ReapStart) /\ SF_vars(ReapResume) /\ SF_vars(ReapEnd)
    /\ \A id \in LeaseIds : SF_vars(ReapVisit(id))
    /\ \A d \in Devices : WF_vars(Promote(d)) /\ WF_vars(MarkDisconnected(d))
                            /\ WF_vars(RevokeDisconnected(d))
    /\ WF_vars(FinishRefresh)

FairSpec == Spec /\ Fairness
=============================================================================
