------------------------- MODULE DeviceBrokerProofs -------------------------
(***************************************************************************)
(* Proofs about the Device Broker for every set of Rooms and phones, every *)
(* choice of requests and every time bound.                                *)
(***************************************************************************)
EXTENDS DeviceBroker, TLAPS

-----------------------------------------------------------------------------
(* Building blocks: what the parts of the actions do to the types *)

LEMMA InitType == Init => TypeOK
  <1> SUFFICES ASSUME Init PROVE TypeOK
    OBVIOUS
  <1>0. PICK d \in Devices, id \in LeaseIds, r \in Retained \cup {None} : Database(d, id, r)
    BY DEF Init
  <1>1. lease \in [Devices -> Leases \cup {Free}]
    BY <1>0, RoomsAssumption, TimeAssumption DEF Database, Leases, Ages
  <1>2. latest \in [Rooms -> LatestLeases]
    BY <1>0 DEF Database, LatestLeases, LatestStates, NoTarget
  <1>3. health \in [Devices -> Health] /\ pending \in [Rooms -> LeaseIds \cup {None}]
    BY <1>0 DEF Database, Health
  <1>4. RepoTypeOK
    BY <1>1, <1>2, <1>3 DEF Init, RepoTypeOK, Transports
  <1>5. ProbeTypeOK /\ RoomTypeOK
    BY DEF Init, ProbeTypeOK, RoomTypeOK, Nothing, Sightings
  <1>6. reaper \in Reapers
    BY TimeAssumption DEF Init, Reapers, Idle
  <1>7. crashes \in 0..MaxCrashes /\ death \in [LeaseIds -> Ages \cup {-1}]
    BY TimeAssumption DEF Init
  <1> QED
    BY <1>4, <1>5, <1>6, <1>7 DEF Init, TypeOK

LEMMA GrantType ==
  ASSUME TypeOK, NEW d \in Devices, NEW r \in Rooms, Grant(d, r)
  PROVE  /\ lease' \in [Devices -> Leases \cup {Free}]
         /\ latest' \in [Rooms -> LatestLeases]
  <1> DEFINE id == CHOOSE i \in LeaseIds : i \in FreshIds
  <1>1. id \in LeaseIds
    BY DEF Grant, FreshIds
  <1>2. [room |-> r, id |-> id, hb |-> 0, acq |-> 0, act |-> 0] \in Leases
    BY <1>1, TimeAssumption DEF Leases, Ages
  <1>3. lease' = [lease EXCEPT ![d] = [room |-> r, id |-> id, hb |-> 0, acq |-> 0, act |-> 0]]
    BY DEF Grant
  <1>4. [state |-> "active", device |-> d] \in LatestLeases
    BY DEF LatestLeases, LatestStates
  <1> QED
    BY <1>2, <1>3, <1>4 DEF TypeOK, RepoTypeOK, Grant

LEMMA LeaveType ==
  ASSUME TypeOK, NEW gone, Leave(gone)
  PROVE  /\ asked' \in [Rooms -> Requests \cup {None}]
         /\ behind' \in [Rooms -> SUBSET Rooms]
  BY DEF TypeOK, RepoTypeOK, Leave

LEMMA LeasedRecord ==
  ASSUME TypeOK, NEW d \in Devices, Leased(d)
  PROVE  lease[d] \in Leases /\ lease[d].room \in Rooms /\ lease[d].id \in LeaseIds
  BY DEF TypeOK, RepoTypeOK, Leased, Leases

LEMMA CloseLeaseType ==
  ASSUME TypeOK, NEW d \in Devices, NEW state \in LatestStates, CloseLease(d, state)
  PROVE  /\ lease' \in [Devices -> Leases \cup {Free}]
         /\ latest' \in [Rooms -> LatestLeases]
  <1>1. [state |-> state, device |-> IF state = "revoked" THEN d ELSE None] \in LatestLeases
    BY DEF LatestLeases
  <1> QED
    BY <1>1 DEF TypeOK, RepoTypeOK, CloseLease

LEMMA ForgetType ==
  ASSUME TypeOK, NEW id, Forget(id)
  PROVE  death' \in [LeaseIds -> Ages \cup {-1}]
  BY DEF TypeOK, Forget

LEMMA CloseType ==
  ASSUME TypeOK, NEW d \in Devices, NEW state \in LatestStates, Close(d, state)
  PROVE  /\ lease' \in [Devices -> Leases \cup {Free}]
         /\ latest' \in [Rooms -> LatestLeases]
         /\ death' \in [LeaseIds -> Ages \cup {-1}]
         /\ turn' \in SUBSET Devices
  BY CloseLeaseType, ForgetType DEF Close

LEMMA ProbeResetType ==
  ASSUME ProbeReset
  PROVE  ProbeTypeOK'
  BY DEF ProbeReset, ProbeTypeOK, Nothing, Sightings

-----------------------------------------------------------------------------
(* Every step keeps the types.  The health a refresh writes is the sighting *)
(* of the route it planned, so the types rest on one more fact: a planned   *)
(* route was sighted.                                                       *)

PlanIsSighted ==
    \A d \in Devices :
        plan[d] # None => refresh = "applying" /\ obs[d][plan[d]] # "absent"

TypeInv == TypeOK /\ PlanIsSighted

LEMMA RoomNextType ==
  ASSUME TypeOK, NEW r \in Rooms, RoomNext(r)
  PROVE  TypeOK'
  <1> USE DEF TypeOK
  <1>1. ASSUME NEW q \in Requests, RequestGranted(r, q) PROVE TypeOK'
    <2>1. PICK d \in Devices : Grant(d, r)
      BY <1>1 DEF RequestGranted
    <2>2. /\ lease' \in [Devices -> Leases \cup {Free}]
          /\ latest' \in [Rooms -> LatestLeases]
      BY <2>1, GrantType
    <2>3. /\ asked' \in [Rooms -> Requests \cup {None}]
          /\ behind' \in [Rooms -> SUBSET Rooms]
      BY <1>1, LeaveType DEF RequestGranted
    <2> QED
      BY <1>1, <2>2, <2>3
      DEF RequestGranted, RepoTypeOK, ProbeTypeOK, RoomTypeOK, probeVars
  <1>2. ASSUME NEW q \in Requests, RequestQueued(r, q) PROVE TypeOK'
    <2>1. behind' \in [Rooms -> SUBSET Rooms]
      BY <1>2 DEF RequestQueued, RepoTypeOK, Waiting
    <2> QED
      BY <1>2, <2>1
      DEF RequestQueued, RepoTypeOK, ProbeTypeOK, RoomTypeOK, probeVars
  <1>3. ASSUME CancelRequest(r) PROVE TypeOK'
    <2>1. /\ asked' \in [Rooms -> Requests \cup {None}]
          /\ behind' \in [Rooms -> SUBSET Rooms]
      BY <1>3, LeaveType DEF CancelRequest
    <2> QED
      BY <1>3, <2>1
      DEF CancelRequest, RepoTypeOK, ProbeTypeOK, RoomTypeOK, probeVars, roomVars
  <1>4. ASSUME ReleaseOf(r)
        PROVE  /\ lease' \in [Devices -> Leases \cup {Free}]
               /\ latest' \in [Rooms -> LatestLeases]
               /\ asked' \in [Rooms -> Requests \cup {None}]
               /\ behind' \in [Rooms -> SUBSET Rooms]
               /\ death' \in [LeaseIds -> Ages \cup {-1}]
               /\ turn' \in SUBSET Devices
    <2>1. /\ asked' \in [Rooms -> Requests \cup {None}]
          /\ behind' \in [Rooms -> SUBSET Rooms]
      BY <1>4, LeaveType DEF ReleaseOf
    <2>2. CASE Holds(r) /\ ~Protected(HeldBy(r))
      <3>1. HeldBy(r) \in Devices
        BY <2>2 DEF Holds, HeldBy
      <3>2. Close(HeldBy(r), "closed")
        BY <1>4, <2>2 DEF ReleaseOf
      <3>3. "closed" \in LatestStates
        BY DEF LatestStates
      <3> HIDE DEF TypeOK
      <3> QED
        BY <2>1, <3>1, <3>2, <3>3, CloseType
    <2>3. CASE ~(Holds(r) /\ ~Protected(HeldBy(r)))
      <3>1. NoTarget \in LatestLeases
        BY DEF NoTarget, LatestLeases, LatestStates
      <3> QED
        BY <1>4, <2>1, <2>3, <3>1 DEF ReleaseOf, RepoTypeOK
    <2> QED
      BY <2>2, <2>3
  <1>5. ASSUME ReleaseRoom(r) PROVE TypeOK'
    BY <1>4, <1>5
    DEF ReleaseRoom, RepoTypeOK, ProbeTypeOK, RoomTypeOK, probeVars, roomVars
  <1>6. ASSUME SleepBegins(r) PROVE TypeOK'
    BY <1>4, <1>6
    DEF SleepBegins, RepoTypeOK, ProbeTypeOK, RoomTypeOK, probeVars
  <1>7. ASSUME SleepEnds(r) PROVE TypeOK'
    BY <1>7 DEF SleepEnds, RepoTypeOK, ProbeTypeOK, RoomTypeOK, repoVars, probeVars
  <1>8. ASSUME RoomStatusChanges(r) PROVE TypeOK'
    BY <1>8
    DEF RoomStatusChanges, RepoTypeOK, ProbeTypeOK, RoomTypeOK, repoVars, probeVars
  <1>9. ASSUME WorkerExits(r) PROVE TypeOK'
    BY <1>9 DEF WorkerExits, RepoTypeOK, ProbeTypeOK, RoomTypeOK, repoVars, probeVars
  <1>10. ASSUME RecoverySettled(r) PROVE TypeOK'
    BY <1>10
    DEF RecoverySettled, RepoTypeOK, ProbeTypeOK, RoomTypeOK, probeVars, roomVars
  <1> HIDE DEF TypeOK
  <1> QED
    BY <1>1, <1>2, <1>3, <1>5, <1>6, <1>7, <1>8, <1>9, <1>10 DEF RoomNext

LEMMA DeviceNextType ==
  ASSUME TypeOK, PlanIsSighted, NEW d \in Devices, DeviceNext(d)
  PROVE  TypeOK'
  <1> USE DEF TypeOK
  <1>1. ASSUME NEW busy \in BOOLEAN, Leased(d), Touch(d, busy) PROVE TypeOK'
    <2>1. lease[d] \in Leases
      BY <1>1, LeasedRecord
    <2>2. [lease[d] EXCEPT !.hb = 0, !.act = IF busy THEN 0 ELSE @] \in Leases
      <3>1. 0 \in Ages
        BY TimeAssumption DEF Ages
      <3>2. (IF busy THEN 0 ELSE lease[d].act) \in Ages
        BY <2>1, <3>1 DEF Leases
      <3> QED
        BY <2>1, <3>1, <3>2 DEF Leases
    <2>3. lease' \in [Devices -> Leases \cup {Free}]
      BY <1>1, <2>2 DEF Touch, RepoTypeOK
    <2>4. death' \in [LeaseIds -> Ages \cup {-1}]
      BY <1>1, ForgetType DEF Touch
    <2> QED
      BY <1>1, <2>3, <2>4
      DEF Touch, RepoTypeOK, ProbeTypeOK, RoomTypeOK, probeVars, roomVars
  <1>2. ASSUME NEW busy \in BOOLEAN, Heartbeat(d, busy) PROVE TypeOK'
    BY <1>1, <1>2 DEF Heartbeat
  <1>3. ASSUME RenewRecoveryLease(d) PROVE TypeOK'
    BY <1>1, <1>3 DEF RenewRecoveryLease, Protected
  <1>4. ASSUME Release(d) PROVE TypeOK'
    <2>1. Close(d, "closed") /\ "closed" \in LatestStates
      BY <1>4 DEF Release, LatestStates
    <2>2. /\ lease' \in [Devices -> Leases \cup {Free}]
          /\ latest' \in [Rooms -> LatestLeases]
          /\ death' \in [LeaseIds -> Ages \cup {-1}]
          /\ turn' \in SUBSET Devices
      BY <2>1, CloseType
    <2> QED
      BY <1>4, <2>2
      DEF Release, RepoTypeOK, ProbeTypeOK, RoomTypeOK, probeVars, roomVars
  <1>5. ASSUME Promote(d) PROVE TypeOK'
    <2>1. /\ lease' \in [Devices -> Leases \cup {Free}]
          /\ latest' \in [Rooms -> LatestLeases]
          /\ asked' \in [Rooms -> Requests \cup {None}]
          /\ behind' \in [Rooms -> SUBSET Rooms]
      <3>1. CASE UNCHANGED <<lease, latest, asked, behind>>
        BY <3>1 DEF RepoTypeOK
      <3>2. CASE UNCHANGED <<lease, latest>> /\ \E gone : Leave(gone)
        BY <3>2, LeaveType DEF RepoTypeOK
      <3>3. CASE \E r \in Rooms : \E gone : Grant(d, r) /\ Leave(gone)
        <4> HIDE DEF TypeOK
        <4> QED
          BY <3>3, LeaveType, GrantType
      <3> QED
        BY <1>5, <3>1, <3>2, <3>3 DEF Promote, Waiting
    <2> QED
      BY <1>5, <2>1
      DEF Promote, RepoTypeOK, ProbeTypeOK, RoomTypeOK, probeVars, roomVars
  <1>6. ASSUME NEW name \in Nicknames, SetNickname(d, name) PROVE TypeOK'
    BY <1>6 DEF SetNickname, RepoTypeOK, ProbeTypeOK, RoomTypeOK, probeVars, roomVars
  <1>7. ASSUME UpsertDevice(d) PROVE TypeOK'
    <2>1. CASE PinnedElsewhere(d, plan[d])
      BY <1>7, <2>1, ProbeResetType DEF UpsertDevice, RepoTypeOK, RoomTypeOK, roomVars
    <2>2. CASE ~PinnedElsewhere(d, plan[d])
      <3>1. plan[d] \in Transports /\ obs[d][plan[d]] \in Sightings
        BY <1>7 DEF UpsertDevice, ProbeTypeOK
      <3>2. obs[d][plan[d]] \in Health
        BY <1>7, <3>1 DEF UpsertDevice, PlanIsSighted, Sightings, Health
      <3>3. Nothing[d] \in [Transports -> Sightings]
        BY DEF Nothing, Sightings
      <3>4. health' \in [Devices -> Health] /\ serial' \in [Devices -> Transports]
        BY <1>7, <2>2, <3>1, <3>2 DEF UpsertDevice, RepoTypeOK
      <3>5. /\ obs' \in [Devices -> [Transports -> Sightings]]
            /\ plan' \in [Devices -> Transports \cup {None}]
            /\ seen' \in SUBSET Devices
        BY <1>7, <2>2, <3>3 DEF UpsertDevice, ProbeTypeOK
      <3> QED
        BY <1>7, <2>2, <3>4, <3>5
        DEF UpsertDevice, RepoTypeOK, ProbeTypeOK, RoomTypeOK, roomVars
    <2> QED
      BY <2>1, <2>2
  <1>8. ASSUME MarkDisconnected(d) PROVE TypeOK'
    BY <1>8
    DEF MarkDisconnected, RepoTypeOK, ProbeTypeOK, RoomTypeOK, probeVars, roomVars, Health
  <1>9. ASSUME RevokeDisconnected(d) PROVE TypeOK'
    <2>1. /\ lease' \in [Devices -> Leases \cup {Free}]
          /\ latest' \in [Rooms -> LatestLeases]
          /\ death' \in [LeaseIds -> Ages \cup {-1}]
      <3>1. CASE Revocable(d)
        <4>1. "revoked" \in LatestStates
          BY DEF LatestStates
        <4>2. CloseLease(d, "revoked") /\ Forget(lease[d].id)
          BY <1>9, <3>1 DEF RevokeDisconnected
        <4> HIDE DEF TypeOK
        <4> QED
          BY <4>1, <4>2, CloseLeaseType, ForgetType
      <3>2. CASE ~Revocable(d)
        BY <1>9, <3>2 DEF RevokeDisconnected, RepoTypeOK
      <3> QED
        BY <3>1, <3>2
    <2> QED
      BY <1>9, <2>1
      DEF RevokeDisconnected, RepoTypeOK, ProbeTypeOK, RoomTypeOK, roomVars
  <1> HIDE DEF TypeOK
  <1> QED
    BY <1>2, <1>3, <1>4, <1>5, <1>6, <1>7, <1>8, <1>9 DEF DeviceNext

LEMMA PlannedRouteType ==
  ASSUME NEW d \in Devices
  PROVE  PlannedRoute(d) = None \/ PlannedRoute(d) \in Routes(d)
  <1> DEFINE C == {t \in Routes(d) : ~PinnedElsewhere(d, t)}
  <1> DEFINE best(t) == \A u \in C : Rank(d, t) <= Rank(d, u)
  <1>1. C \subseteq {"usb", "wireless"}
    BY DEF Routes, Transports
  <1>2. \A t : Rank(d, t) \in Int
    BY DEF Rank
  <1>3. C # {} => \E t \in C : best(t)
    <2>1. ASSUME NEW t \in C, NEW u \in C PROVE Rank(d, t) <= Rank(d, u) \/ Rank(d, u) <= Rank(d, t)
      BY <1>2
    <2>2. \A t \in C : Rank(d, t) <= Rank(d, t)
      BY <1>2
    <2> QED
      BY <1>1, <2>1, <2>2
  <1>4. PlannedRoute(d) = IF C = {} THEN None ELSE CHOOSE t \in C : best(t)
    BY DEF PlannedRoute
  <1>5. CASE C # {}
    <2>1. (CHOOSE t \in C : best(t)) \in C
      BY <1>3, <1>5
    <2> QED
      BY <1>4, <1>5, <2>1
  <1> QED
    BY <1>4, <1>5

LEMMA RefreshNextType ==
  ASSUME TypeOK, RefreshNext
  PROVE  TypeOK'
  <1> USE DEF TypeOK
  <1>1. ASSUME RefreshInventory PROVE TypeOK'
    BY <1>1 DEF RefreshInventory, RepoTypeOK, ProbeTypeOK, RoomTypeOK, repoVars, roomVars
  <1>2. ASSUME ProbeFails PROVE TypeOK'
    BY <1>2, ProbeResetType DEF ProbeFails, RepoTypeOK, RoomTypeOK, repoVars, roomVars
  <1>3. ASSUME ScanDevices PROVE TypeOK'
    BY <1>3 DEF ScanDevices, RepoTypeOK, ProbeTypeOK, RoomTypeOK, repoVars, roomVars
  <1>4. ASSUME PlanInventory PROVE TypeOK'
    <2>1. plan' \in [Devices -> Transports \cup {None}]
      BY <1>4, PlannedRouteType DEF PlanInventory, Routes
    <2>2. obs' \in [Devices -> [Transports -> Sightings]]
      BY <1>4 DEF PlanInventory, ProbeTypeOK, Sightings
    <2> QED
      BY <1>4, <2>1, <2>2
      DEF PlanInventory, RepoTypeOK, ProbeTypeOK, RoomTypeOK, repoVars, roomVars
  <1>5. ASSUME InventoryApplied PROVE TypeOK'
    BY <1>5
    DEF InventoryApplied, RepoTypeOK, ProbeTypeOK, RoomTypeOK, repoVars, roomVars, Vanished
  <1>6. ASSUME FinishRefresh PROVE TypeOK'
    BY <1>6, ProbeResetType DEF FinishRefresh, RepoTypeOK, RoomTypeOK, repoVars, roomVars
  <1> QED
    BY <1>1, <1>2, <1>3, <1>4, <1>5, <1>6 DEF RefreshNext

\* What an iteration of reap may do to the repository and the death marks.
LEMMA MaxDurationCheckType ==
  ASSUME TypeOK, NEW d \in Devices, NEW mark \in Ages \cup {-1},
         MaxDurationCheck(d, mark) \/ Reclaim(d)
  PROVE  /\ lease' \in [Devices -> Leases \cup {Free}]
         /\ latest' \in [Rooms -> LatestLeases]
         /\ death' \in [LeaseIds -> Ages \cup {-1}]
         /\ turn' \in SUBSET Devices
  <1>1. CASE Reclaim(d) /\ Protected(d)
    BY <1>1, ForgetType DEF Reclaim, TypeOK, RepoTypeOK
  <1>2. CASE Reclaim(d) /\ ~Protected(d)
    <2>1. Close(d, "expired") /\ "expired" \in LatestStates
      BY <1>2 DEF Reclaim, LatestStates
    <2> QED
      BY <2>1, CloseType
  <1>3. CASE /\ death' = [death EXCEPT ![lease[d].id] = mark]
             /\ UNCHANGED <<lease, latest, turn>>
    BY <1>3 DEF TypeOK, RepoTypeOK
  <1> QED
    BY <1>1, <1>2, <1>3 DEF MaxDurationCheck

LEMMA ReapNextType ==
  ASSUME TypeOK, ReapNext
  PROVE  TypeOK'
  <1> DEFINE RepoOK == /\ lease' \in [Devices -> Leases \cup {Free}]
                       /\ latest' \in [Rooms -> LatestLeases]
                       /\ death' \in [LeaseIds -> Ages \cup {-1}]
                       /\ turn' \in SUBSET Devices
  <1>1. ASSUME ReapStart PROVE TypeOK'
    <2>1. ActiveIds \subseteq LeaseIds
      BY LeasedRecord DEF ActiveIds
    <2>2. reaper' \in Reapers
      <3>1. Idle \in Reapers
        BY TimeAssumption DEF Idle, Reapers
      <3>2. reaper' = [Idle EXCEPT !.on = TRUE, !.left = ActiveIds]
        BY <1>1 DEF ReapStart
      <3> QED
        BY <2>1, <3>1, <3>2 DEF Reapers
    <2> QED
      BY <1>1, <2>2
      DEF ReapStart, TypeOK, RepoTypeOK, ProbeTypeOK, RoomTypeOK, repoVars, probeVars, roomVars
  <1>2. ASSUME NEW id \in LeaseIds, ReapVisit(id) PROVE TypeOK'
    <2>1. death[id] \in Ages \cup {-1}
      BY DEF TypeOK
    <2>2. RepoOK
      <3>1. CASE Forget(id) /\ UNCHANGED <<lease, latest, turn>>
        BY <3>1, ForgetType DEF TypeOK, RepoTypeOK
      <3>2. CASE UNCHANGED <<lease, latest, turn, death>>
        BY <3>2 DEF TypeOK, RepoTypeOK
      <3>3. CASE \E d \in Devices : MaxDurationCheck(d, death[id])
        BY <2>1, <3>3, MaxDurationCheckType
      <3> HIDE DEF RepoOK
      <3> QED
        BY <1>2, <3>1, <3>2, <3>3 DEF ReapVisit
    <2>3. \A r : OwnerLiveness(r) \in {"live", "dead", "unknown", None}
      BY DEF OwnerLiveness
    <2>4. reaper' \in Reapers
      <3>1. \/ reaper' = [reaper EXCEPT !.left = @ \ {id}]
            \/ \E d \in Devices :
                 reaper' = [reaper EXCEPT !.cur = id, !.left = @ \ {id},
                              !.verdict = OwnerLiveness(lease[d].room)]
        BY <1>2 DEF ReapVisit
      <3>2. reaper \in Reapers
        BY DEF TypeOK
      <3> QED
        BY <2>3, <3>1, <3>2 DEF Reapers
    <2> QED
      BY <1>2, <2>2, <2>4
      DEF ReapVisit, TypeOK, RepoTypeOK, ProbeTypeOK, RoomTypeOK, probeVars, roomVars
  <1>3. ASSUME ReapResume PROVE TypeOK'
    <2>1. reaper.age \in Ages /\ reaper.cur \in LeaseIds
      BY <1>3, TimeAssumption DEF ReapResume, TypeOK, Reapers, Ages
    <2>2. FirstSeen(reaper.cur) \in Ages \cup {-1} /\ -1 \in Ages \cup {-1}
      BY <2>1 DEF FirstSeen, TypeOK
    <2>3. RepoOK
      <3>1. CASE Forget(reaper.cur) /\ UNCHANGED <<lease, latest, turn>>
        BY <3>1, ForgetType DEF TypeOK, RepoTypeOK
      <3>2. CASE \E d \in Devices : \/ MaxDurationCheck(d, -1) \/ Reclaim(d)
                                    \/ MaxDurationCheck(d, FirstSeen(reaper.cur))
        BY <2>2, <3>2, MaxDurationCheckType
      <3> HIDE DEF RepoOK
      <3> QED
        BY <1>3, <3>1, <3>2 DEF ReapResume
    <2>4. reaper' \in Reapers
      BY <1>3 DEF ReapResume, TypeOK, Reapers
    <2> QED
      BY <1>3, <2>3, <2>4
      DEF ReapResume, TypeOK, RepoTypeOK, ProbeTypeOK, RoomTypeOK, probeVars, roomVars
  <1>4. ASSUME ReapEnd PROVE TypeOK'
    <2>1. reaper' \in Reapers
      BY <1>4, TimeAssumption DEF ReapEnd, Reapers, Idle
    <2> QED
      BY <1>4, <2>1
      DEF ReapEnd, TypeOK, RepoTypeOK, ProbeTypeOK, RoomTypeOK, repoVars, probeVars, roomVars
  <1> QED
    BY <1>1, <1>2, <1>3, <1>4 DEF ReapNext

LEMMA OlderType == \A a \in Ages : Older(a) \in Ages
  BY TimeAssumption DEF Older, Ages

LEMMA TickType ==
  ASSUME TypeOK, Tick
  PROVE  TypeOK'
  <1>1. ASSUME NEW d \in Devices, Leased(d)
        PROVE  [lease[d] EXCEPT !.hb = Older(@), !.acq = Older(@), !.act = Older(@)] \in Leases
    BY <1>1, LeasedRecord, OlderType DEF Leases
  <1>2. lease' \in [Devices -> Leases \cup {Free}]
    BY <1>1 DEF Tick
  <1>3. death' \in [LeaseIds -> Ages \cup {-1}]
    BY OlderType DEF Tick, TypeOK
  <1>4. reaper' \in Reapers
    <2>1. CASE reaper.on
      <3>1. reaper.age \in 0..MaxProbe /\ reaper.age < MaxProbe
        BY <2>1 DEF Tick, TypeOK, Reapers
      <3>2. reaper.age + 1 \in 0..MaxProbe
        BY <3>1, TimeAssumption
      <3> QED
        BY <2>1, <3>2 DEF Tick, TypeOK, Reapers
    <2> QED
      BY <2>1 DEF Tick, TypeOK
  <1> QED
    BY <1>2, <1>3, <1>4
    DEF Tick, TypeOK, RepoTypeOK, ProbeTypeOK, RoomTypeOK, probeVars, roomVars

LEMMA CrashType ==
  ASSUME TypeOK, Crash
  PROVE  TypeOK'
  <1>1. reaper' \in Reapers
    BY TimeAssumption DEF Crash, Reapers, Idle
  <1>2. crashes' \in 0..MaxCrashes
    BY TimeAssumption DEF Crash, TypeOK
  <1> QED
    BY <1>1, <1>2, ProbeResetType
    DEF Crash, TypeOK, RepoTypeOK, RoomTypeOK, repoVars

LEMMA NextPlanIsSighted ==
  ASSUME TypeOK, PlanIsSighted, [Next]_vars
  PROVE  PlanIsSighted'
  <1>1. CASE UNCHANGED <<plan, obs, refresh>>
    BY <1>1 DEF PlanIsSighted
  <1>2. CASE ProbeReset
    BY <1>2 DEF PlanIsSighted, ProbeReset
  <1>3. CASE PlanInventory
    <2>1. SUFFICES ASSUME NEW d \in Devices, plan'[d] # None
                   PROVE  obs'[d][plan'[d]] # "absent"
      BY <1>3 DEF PlanIsSighted, PlanInventory
    <2>2. plan'[d] = PlannedRoute(d) /\ PlannedRoute(d) \in Routes(d)
      BY <1>3, <2>1, PlannedRouteType DEF PlanInventory
    <2>3. obs'[d][plan'[d]] = obs[d][plan'[d]]
      BY <1>3, <2>2 DEF PlanInventory, Routes
    <2> QED
      BY <2>2, <2>3 DEF Routes
  <1>4. ASSUME NEW d \in Devices, UpsertDevice(d), ~PinnedElsewhere(d, plan[d])
        PROVE  PlanIsSighted'
    BY <1>4 DEF UpsertDevice, PlanIsSighted, TypeOK, ProbeTypeOK
  <1>5. ASSUME ScanDevices \/ RefreshInventory \/ InventoryApplied PROVE PlanIsSighted'
    BY <1>5 DEF ScanDevices, RefreshInventory, InventoryApplied, PlanIsSighted
  <1>6. ASSUME NEW d \in Devices, DeviceNext(d) PROVE PlanIsSighted'
    <2>1. CASE UpsertDevice(d)
      BY <1>2, <1>4, <2>1 DEF UpsertDevice
    <2>2. UpsertDevice(d) \/ UNCHANGED <<plan, obs, refresh>>
      BY <1>6
      DEF DeviceNext, Heartbeat, RenewRecoveryLease, Touch, Release, Promote, SetNickname,
          MarkDisconnected, RevokeDisconnected, probeVars
    <2> QED
      BY <1>1, <2>1, <2>2
  <1>7. ASSUME NEW r \in Rooms, RoomNext(r) PROVE PlanIsSighted'
    BY <1>1, <1>7
    DEF RoomNext, RequestGranted, RequestQueued, CancelRequest, ReleaseRoom, SleepBegins,
        SleepEnds, RoomStatusChanges, WorkerExits, RecoverySettled, probeVars
  <1>8. CASE ReapNext
    BY <1>1, <1>8 DEF ReapNext, ReapStart, ReapVisit, ReapResume, ReapEnd, probeVars
  <1>9. CASE RefreshNext
    BY <1>1, <1>2, <1>3, <1>5, <1>9
    DEF RefreshNext, ProbeFails, FinishRefresh
  <1>10. CASE Tick \/ Crash \/ UNCHANGED vars
    BY <1>1, <1>2, <1>10 DEF Tick, Crash, vars, probeVars
  <1> QED
    BY <1>6, <1>7, <1>8, <1>9, <1>10 DEF Next

LEMMA NextType ==
  ASSUME TypeInv, [Next]_vars
  PROVE  TypeInv'
  <1>1. TypeOK /\ PlanIsSighted
    BY DEF TypeInv
  <1>2. ASSUME UNCHANGED vars PROVE TypeOK'
    BY <1>1, <1>2
    DEF TypeOK, RepoTypeOK, ProbeTypeOK, RoomTypeOK, vars, repoVars, probeVars, roomVars
  <1>3. TypeOK'
    BY <1>1, <1>2, RoomNextType, DeviceNextType, RefreshNextType, ReapNextType, TickType,
       CrashType DEF Next
  <1> QED
    BY <1>1, <1>3, NextPlanIsSighted DEF TypeInv

\* Every reachable state of the broker is well typed: in particular a row never
\* takes the health of a route that adb did not report (upsertDevice).
THEOREM TypeCorrect == Spec => []TypeOK
  <1>1. Init => TypeInv
    BY InitType DEF TypeInv, Init, PlanIsSighted
  <1>2. TypeInv /\ [Next]_vars => TypeInv'
    BY NextType
  <1>3. TypeInv => TypeOK
    BY DEF TypeInv
  <1> QED
    BY <1>1, <1>2, <1>3, PTL DEF Spec

-----------------------------------------------------------------------------
(* Ownership.  A step does one of three things to the active leases: it     *)
(* keeps their owners, it closes one that no recovery record names, or it    *)
(* grants a free phone to a Room that has none under an id that no active    *)
(* lease carries.                                                            *)

KeepsOwners == \A d \in Devices : lease'[d].room = lease[d].room /\ lease'[d].id = lease[d].id

ClosesOne ==
    \E d \in Devices : Leased(d) /\ ~Protected(d) /\ lease' = [lease EXCEPT ![d] = Free]

GrantsOne ==
    \E d \in Devices, r \in Rooms, new \in Leases :
        /\ ~Leased(d)
        /\ ~Holds(r)
        /\ new.room = r /\ new.id \notin ActiveIds
        /\ lease' = [lease EXCEPT ![d] = new]

LEMMA FreeIsNobody ==
  /\ Free.room = None /\ Free.id = None
  /\ None \notin Rooms /\ None \notin LeaseIds
  BY NoneAssumption DEF Free

LEMMA GrantShape ==
  ASSUME TypeOK, NEW d \in Devices, NEW r \in Rooms, ~Leased(d), ~Holds(r), Grant(d, r)
  PROVE  GrantsOne
  <1> DEFINE id == CHOOSE i \in LeaseIds : i \in FreshIds
             new == [room |-> r, id |-> id, hb |-> 0, acq |-> 0, act |-> 0]
  <1>1. id \in LeaseIds /\ id \in FreshIds
    BY DEF Grant, FreshIds
  <1>2. id \notin ActiveIds
    BY <1>1 DEF FreshIds, ReferredIds
  <1>3. new \in Leases /\ new.room = r /\ new.id = id
    BY <1>1, TimeAssumption DEF Leases, Ages
  <1>4. lease' = [lease EXCEPT ![d] = new]
    BY DEF Grant
  <1> HIDE DEF id, new
  <1> QED
    BY <1>2, <1>3, <1>4 DEF GrantsOne

LEMMA TickKeepsOwners ==
  ASSUME TypeOK, Tick
  PROVE  KeepsOwners
  <1> SUFFICES ASSUME NEW d \in Devices
               PROVE  lease'[d].room = lease[d].room /\ lease'[d].id = lease[d].id
    BY DEF KeepsOwners
  <1>1. CASE Leased(d)
    <2>1. lease[d] \in Leases
      BY <1>1, LeasedRecord
    <2>2. lease'[d] = [lease[d] EXCEPT !.hb = Older(@), !.acq = Older(@), !.act = Older(@)]
      BY <1>1 DEF Tick
    <2> QED
      BY <2>1, <2>2 DEF Leases
  <1>2. CASE ~Leased(d)
    BY <1>2 DEF Tick, Leased
  <1> QED
    BY <1>1, <1>2

LEMMA LeaseShape ==
  ASSUME TypeOK, [Next]_vars
  PROVE  KeepsOwners \/ ClosesOne \/ GrantsOne
  <1>1. CASE UNCHANGED lease
    BY <1>1 DEF KeepsOwners
  <1>2. ASSUME NEW d \in Devices, NEW state, Leased(d), ~Protected(d), CloseLease(d, state)
        PROVE  ClosesOne
    BY <1>2 DEF ClosesOne, CloseLease
  <1>3. ASSUME NEW d \in Devices, Leased(d), Reclaim(d) PROVE KeepsOwners \/ ClosesOne
    BY <1>2, <1>3 DEF Reclaim, Close, KeepsOwners
  <1>4. ASSUME NEW d \in Devices, NEW mark, Leased(d), MaxDurationCheck(d, mark)
        PROVE  KeepsOwners \/ ClosesOne
    BY <1>3, <1>4 DEF MaxDurationCheck, KeepsOwners
  <1>5. ASSUME NEW r \in Rooms, ReleaseOf(r) PROVE KeepsOwners \/ ClosesOne
    <2>1. CASE Holds(r) /\ ~Protected(HeldBy(r))
      <3>1. HeldBy(r) \in Devices /\ lease[HeldBy(r)].room = r
        BY <2>1 DEF Holds, HeldBy
      <3>2. Leased(HeldBy(r))
        BY <3>1, FreeIsNobody DEF Leased
      <3>3. PICK e \in Devices : e = HeldBy(r)
        BY <3>1
      <3>4. Leased(e) /\ ~Protected(e) /\ CloseLease(e, "closed")
        BY <1>5, <2>1, <3>2, <3>3 DEF ReleaseOf, Close
      <3> QED
        BY <1>2, <3>4
    <2>2. CASE ~(Holds(r) /\ ~Protected(HeldBy(r)))
      BY <1>5, <2>2 DEF ReleaseOf, KeepsOwners
    <2> QED
      BY <2>1, <2>2
  <1>6. ASSUME NEW r \in Rooms, RoomNext(r) PROVE KeepsOwners \/ ClosesOne \/ GrantsOne
    <2>1. ASSUME NEW q \in Requests, RequestGranted(r, q) PROVE GrantsOne
      BY <2>1, GrantShape DEF RequestGranted, MayRequest, Available
    <2>2. CASE ReleaseOf(r)
      BY <1>5, <2>2
    <2> QED
      BY <1>1, <1>6, <2>1, <2>2
      DEF RoomNext, RequestQueued, CancelRequest, ReleaseRoom, SleepBegins, SleepEnds,
          RoomStatusChanges, WorkerExits, RecoverySettled, repoVars
  <1>7. ASSUME NEW d \in Devices, DeviceNext(d) PROVE KeepsOwners \/ ClosesOne \/ GrantsOne
    <2>1. ASSUME NEW busy, Leased(d), Touch(d, busy) PROVE KeepsOwners
      <3>1. lease[d] \in Leases
        BY <2>1, LeasedRecord
      <3>2. lease \in [Devices -> Leases \cup {Free}]
        BY DEF TypeOK, RepoTypeOK
      <3> QED
        BY <2>1, <3>1, <3>2 DEF Touch, KeepsOwners, Leases
    <2>2. ASSUME Promote(d), ~UNCHANGED lease PROVE GrantsOne
      <3>1. PICK r \in Rooms : Grant(d, r) /\ ~Leased(d) /\ ~Holds(r)
        BY <2>2 DEF Promote, Promotable, Waiting
      <3> QED
        BY <3>1, GrantShape
    <2>3. ASSUME Release(d) \/ RevokeDisconnected(d), ~UNCHANGED lease PROVE ClosesOne
      BY <1>2, <2>3 DEF Release, RevokeDisconnected, Revocable, Close
    <2> QED
      BY <1>1, <1>7, <2>1, <2>2, <2>3
      DEF DeviceNext, Heartbeat, RenewRecoveryLease, Protected, SetNickname, UpsertDevice,
          MarkDisconnected
  <1>8. CASE ReapNext
    <2>1. ASSUME NEW d \in Devices, NEW id \in LeaseIds, lease[d].id = id PROVE Leased(d)
      BY <2>1, FreeIsNobody DEF Leased
    <2>2. ASSUME NEW id \in LeaseIds, ReapVisit(id) PROVE KeepsOwners \/ ClosesOne
      BY <1>1, <1>4, <2>1, <2>2 DEF ReapVisit, Reapable, KeepsOwners
    <2>3. ASSUME ReapResume PROVE KeepsOwners \/ ClosesOne
      <3>1. reaper.cur \in LeaseIds
        BY <2>3 DEF ReapResume, TypeOK, Reapers
      <3> QED
        BY <1>3, <1>4, <2>1, <2>3, <3>1 DEF ReapResume, StillSilent, KeepsOwners
    <2> QED
      BY <1>1, <1>8, <2>2, <2>3 DEF ReapNext, ReapStart, ReapEnd, repoVars
  <1>9. CASE Tick
    BY <1>9, TickKeepsOwners
  <1>10. CASE RefreshNext \/ Crash \/ UNCHANGED vars
    BY <1>1, <1>10
    DEF RefreshNext, RefreshInventory, ProbeFails, ScanDevices, PlanInventory,
        InventoryApplied, FinishRefresh, Crash, vars, repoVars
  <1> QED
    BY <1>6, <1>7, <1>8, <1>9, <1>10 DEF Next

LEMMA NextOneLease ==
  ASSUME TypeOK, TypeOK', OneLeasePerRoom, [Next]_vars
  PROVE  OneLeasePerRoom'
  <1>1. CASE KeepsOwners
    <2>1. ASSUME NEW d \in Devices PROVE Leased(d)' => Leased(d)
      <3>1. lease'[d] \in Leases => lease'[d].room \in Rooms
        BY DEF Leases
      <3>2. lease'[d].room # None => Leased(d)
        BY <1>1, FreeIsNobody DEF KeepsOwners, Leased
      <3>3. Leased(d)' => lease'[d] \in Leases
        BY DEF Leased, TypeOK, RepoTypeOK
      <3> QED
        BY <3>1, <3>2, <3>3, FreeIsNobody
    <2> QED
      BY <1>1, <2>1 DEF KeepsOwners, OneLeasePerRoom
  <1>2. CASE ClosesOne
    BY <1>2 DEF ClosesOne, OneLeasePerRoom, Leased, TypeOK, RepoTypeOK
  <1>3. CASE GrantsOne
    <2>1. PICK d \in Devices, r \in Rooms, new \in Leases :
            /\ ~Leased(d) /\ ~Holds(r)
            /\ new.room = r /\ new.id \notin ActiveIds
            /\ lease' = [lease EXCEPT ![d] = new]
      BY <1>3 DEF GrantsOne
    <2>2. \A e \in Devices : Leased(e) => lease[e].room # new.room /\ lease[e].id # new.id
      BY <2>1 DEF Holds, ActiveIds
    <2> QED
      BY <2>1, <2>2 DEF OneLeasePerRoom, Leased, TypeOK, RepoTypeOK
  <1> QED
    BY <1>1, <1>2, <1>3, LeaseShape

\* At any time a Room has at most one phone and an active lease its own id: the
\* checks of requestDevice and of promote agree, although only the devices are
\* protected by a unique index.
THEOREM OneLease == Spec => []OneLeasePerRoom
  <1>1. Init => TypeInv
    BY InitType DEF TypeInv, Init, PlanIsSighted
  <1>2. Init => OneLeasePerRoom
    BY DEF Init, Database, OneLeasePerRoom, Leased
  <1>3. TypeInv /\ [Next]_vars => TypeInv'
    BY NextType
  <1>4. TypeInv /\ OneLeasePerRoom /\ [Next]_vars => OneLeasePerRoom'
    BY NextType, NextOneLease DEF TypeInv
  <1> QED
    BY <1>1, <1>2, <1>3, <1>4, PTL DEF Spec

\* The broker implements PhoneLease: a phone never passes from a Room straight
\* to another one, and a grant only reaches a Room without a phone.
THEOREM ImplementsPhoneLease == Spec => OwnershipSpec
  <1> DEFINE owner == [d \in Devices |-> lease[d].room]
  <1>1. Init => TypeInv
    BY InitType DEF TypeInv, Init, PlanIsSighted
  <1>2. TypeInv /\ [Next]_vars => TypeInv'
    BY NextType
  <1>3. Init => Ownership!Init
    <2> SUFFICES ASSUME Init PROVE Ownership!Init
      OBVIOUS
    <2>1. PICK d \in Devices, id \in LeaseIds, r \in Retained \cup {None} : Database(d, id, r)
      BY DEF Init
    <2>2. owner = [e \in Devices |-> IF e = d THEN r ELSE None]
      BY <2>1, FreeIsNobody DEF Database
    <2> QED
      BY <2>2, RoomsAssumption DEF Ownership!Init
  <1>4. TypeInv /\ [Next]_vars => [Ownership!Next]_owner
    <2> SUFFICES ASSUME TypeOK, [Next]_vars PROVE [Ownership!Next]_owner
      BY DEF TypeInv
    <2>1. CASE KeepsOwners
      BY <2>1 DEF KeepsOwners
    <2>2. CASE ClosesOne
      <3>1. PICK d \in Devices : Leased(d) /\ lease' = [lease EXCEPT ![d] = Free]
        BY <2>2 DEF ClosesOne
      <3>2. owner[d] # None
        BY <3>1, LeasedRecord, FreeIsNobody
      <3>3. owner' = [owner EXCEPT ![d] = None]
        BY <3>1, FreeIsNobody DEF TypeOK, RepoTypeOK
      <3> QED
        BY <3>2, <3>3 DEF Ownership!Next, Ownership!Drop
    <2>3. CASE GrantsOne
      <3>1. PICK d \in Devices, r \in Rooms, new \in Leases :
              /\ ~Leased(d) /\ ~Holds(r)
              /\ new.room = r /\ new.id \notin ActiveIds
              /\ lease' = [lease EXCEPT ![d] = new]
        BY <2>3 DEF GrantsOne
      <3>2. owner[d] = None /\ \A e \in Devices : owner[e] # r
        BY <3>1, FreeIsNobody DEF Leased, Holds
      <3>3. owner' = [owner EXCEPT ![d] = r]
        BY <3>1 DEF TypeOK, RepoTypeOK
      <3> QED
        BY <3>2, <3>3 DEF Ownership!Next, Ownership!Take
    <2> QED
      BY <2>1, <2>2, <2>3, LeaseShape
  <1> QED
    BY <1>1, <1>2, <1>3, <1>4, PTL DEF Spec, OwnershipSpec, Ownership!Spec

-----------------------------------------------------------------------------
(* The gate and the queue *)

\* The inventory is grantable only between refreshes, after a healthy one, and
\* a handler that closes or promotes leases never meets the end of a refresh.
GateShut ==
    /\ grantable => refresh = "idle" /\ adbOk
    /\ refresh = "closing" => turn = {}

\* Whoever waits holds no phone.
WaitersHoldNothing == \A r \in Waiting : ~Holds(r)

\* NoIdlePhone of the phones that the current handler is done with.
ServedOutsideTurn ==
    grantable =>
        \A d \in Devices \ turn, r \in Waiting :
            ~ (health[d] = "ready" /\ ~Leased(d) /\ Matches(d, asked[r]))

\* A row the current refresh saw is present, and a row that says disconnected
\* at the end of a refresh is still to be handled or keeps no lease but a
\* protected one.
GoneInHand ==
    /\ \A d \in seen : health[d] # "disconnected"
    /\ closing \cap seen = {} /\ (refresh # "closing" => closing = {})
    /\ refresh = "closing" =>
          \A d \in Devices : Leased(d) /\ health[d] = "disconnected" => d \in closing \/ Protected(d)

\* What a death mark means.
MarkFollowsSilence ==
    \A id \in LeaseIds : death[id] # -1 =>
        \E d \in Devices :
            /\ lease[d].id = id
            /\ lease[d].hb > death[id] + Ttl \/ lease[d].hb = AgeCap

QueueInv == TypeInv /\ GateShut /\ WaitersHoldNothing /\ ServedOutsideTurn

\* One kind of step that matters to the queue: nobody is granted a phone or
\* joins the queue, and a phone that becomes free is the next one to be promoted
\* unless the inventory is not grantable.
Settled ==
    /\ \A r \in Rooms : asked'[r] \in {asked[r], None}
    /\ KeepsOwners \/ ClosesOne
    /\ grantable' =>
          /\ grantable
          /\ turn \subseteq turn'
          /\ UNCHANGED <<health, serial, nickname>>
          /\ \A d \in Devices : Leased(d) /\ ~Leased(d)' => d \in turn'

LEMMA KeptIsLeased ==
  ASSUME TypeOK, TypeOK', KeepsOwners, NEW d \in Devices
  PROVE  Leased(d)' <=> Leased(d)
  <1>1. Leased(d) <=> lease[d].room # None
    BY LeasedRecord, FreeIsNobody DEF Leased
  <1>2. Leased(d)' => lease'[d] \in Leases
    BY DEF TypeOK, RepoTypeOK, Leased
  <1>3. Leased(d)' <=> lease'[d].room # None
    BY <1>2, FreeIsNobody DEF Leased, Leases
  <1> QED
    BY <1>1, <1>3 DEF KeepsOwners

\* Any step of the broker is settled, or it is one of the four that serve or
\* change the queue, or the end of a refresh.
LEMMA QueueShape ==
  ASSUME TypeOK, TypeOK', GateShut, [Next]_vars
  PROVE  \/ Settled
         \/ \E r \in Rooms, q \in Requests : RequestGranted(r, q) \/ RequestQueued(r, q)
         \/ \E d \in Devices : Promote(d)
         \/ \E d \in Devices, name \in Nicknames : SetNickname(d, name)
         \/ FinishRefresh
  <1>1. ASSUME UNCHANGED <<asked, lease, grantable, turn, health, serial, nickname>>
        PROVE  Settled
    BY <1>1 DEF Settled, KeepsOwners, Leased
  <1>2. ASSUME UNCHANGED <<asked, lease>>, ~grantable' PROVE Settled
    BY <1>2 DEF Settled, KeepsOwners
  <1>3. ASSUME NEW d \in Devices, NEW state, Leased(d), ~Protected(d), Close(d, state), EventLoopFree,
               UNCHANGED <<grantable, health, serial, nickname>>,
               \A r \in Rooms : asked'[r] \in {asked[r], None}
        PROVE  Settled
    <2>1. lease' = [lease EXCEPT ![d] = Free] /\ turn' = {d}
      BY <1>3 DEF Close, CloseLease
    <2>2. \A e \in Devices : Leased(e) /\ ~Leased(e)' => e = d
      BY <2>1 DEF Leased
    <2> QED
      BY <1>3, <2>1, <2>2 DEF Settled, ClosesOne, EventLoopFree
  <1>4. ASSUME NEW d \in Devices, Leased(d), EventLoopFree,
               (\E mark : MaxDurationCheck(d, mark)) \/ Reclaim(d),
               UNCHANGED <<grantable, health, serial, nickname, asked>>
        PROVE  Settled
    <2>1. (~Protected(d) /\ Close(d, "expired")) \/ UNCHANGED <<lease, turn>>
      BY <1>4 DEF MaxDurationCheck, Reclaim
    <2> QED
      BY <1>1, <1>3, <1>4, <2>1
  <1>5. ASSUME NEW r \in Rooms, ReleaseOf(r), EventLoopFree,
               UNCHANGED <<grantable, health, serial, nickname>>
        PROVE  Settled
    <2>1. \A s \in Rooms : asked'[s] \in {asked[s], None}
      BY <1>5 DEF ReleaseOf, Leave
    <2>2. CASE Holds(r) /\ ~Protected(HeldBy(r))
      <3>1. HeldBy(r) \in Devices /\ lease[HeldBy(r)].room = r
        BY <2>2 DEF Holds, HeldBy
      <3>2. Leased(HeldBy(r))
        BY <3>1, FreeIsNobody DEF Leased
      <3>3. PICK e \in Devices : e = HeldBy(r)
        BY <3>1
      <3>4. Leased(e) /\ ~Protected(e) /\ Close(e, "closed")
        BY <1>5, <2>2, <3>2, <3>3 DEF ReleaseOf
      <3>5. UNCHANGED <<grantable, health, serial, nickname>> /\ EventLoopFree
        BY <1>5
      <3> QED
        BY <1>3, <2>1, <3>4, <3>5
    <2>3. CASE ~(Holds(r) /\ ~Protected(HeldBy(r)))
      <3>1. UNCHANGED <<lease, turn>>
        BY <1>5, <2>3 DEF ReleaseOf
      <3> QED
        BY <1>5, <2>1, <3>1 DEF Settled, KeepsOwners, Leased
    <2> QED
      BY <2>2, <2>3
  <1>6. ASSUME NEW r \in Rooms, RoomNext(r)
        PROVE  Settled \/ \E q \in Requests : RequestGranted(r, q) \/ RequestQueued(r, q)
    <2>1. CASE CancelRequest(r)
      <3>1. /\ \A s \in Rooms : asked'[s] \in {asked[s], None}
            /\ UNCHANGED <<lease, grantable, turn, health, serial, nickname>>
        BY <2>1 DEF CancelRequest, Leave
      <3> QED
        BY <3>1 DEF Settled, KeepsOwners, Leased
    <2>2. CASE ReleaseRoom(r)
      BY <1>5, <2>2 DEF ReleaseRoom
    <2>3. CASE SleepBegins(r)
      BY <1>5, <2>3 DEF SleepBegins
    <2>4. CASE SleepEnds(r) \/ RoomStatusChanges(r) \/ WorkerExits(r) \/ RecoverySettled(r)
      BY <1>1, <2>4 DEF SleepEnds, RoomStatusChanges, WorkerExits, RecoverySettled, repoVars
    <2> QED
      BY <1>6, <2>1, <2>2, <2>3, <2>4 DEF RoomNext
  <1>7. ASSUME NEW d \in Devices, DeviceNext(d)
        PROVE  \/ Settled \/ Promote(d)
               \/ \E name \in Nicknames : SetNickname(d, name)
    <2>1. ASSUME NEW busy, Leased(d), Touch(d, busy) PROVE Settled
      <3>1. lease[d] \in Leases /\ lease \in [Devices -> Leases \cup {Free}]
        BY <2>1, LeasedRecord DEF TypeOK, RepoTypeOK
      <3>2. KeepsOwners
        BY <2>1, <3>1 DEF Touch, KeepsOwners, Leases
      <3> QED
        BY <2>1, <3>2, KeptIsLeased DEF Touch, Settled
    <2>2. CASE Release(d)
      BY <1>3, <2>2 DEF Release
    <2>3. CASE UpsertDevice(d)
      <3>1. ~grantable' /\ UNCHANGED <<asked, lease>>
        BY <2>3 DEF UpsertDevice, GateShut
      <3> QED
        BY <1>2, <3>1
    <2>4. CASE MarkDisconnected(d)
      BY <1>2, <2>4 DEF MarkDisconnected, GateShut
    <2>5. CASE RevokeDisconnected(d)
      <3>1. ~grantable' /\ UNCHANGED asked
        BY <2>5 DEF RevokeDisconnected, GateShut
      <3>2. KeepsOwners \/ ClosesOne
        BY <2>5 DEF RevokeDisconnected, Revocable, CloseLease, KeepsOwners, ClosesOne
      <3> QED
        BY <3>1, <3>2 DEF Settled
    <2> QED
      BY <1>7, <2>1, <2>2, <2>3, <2>4, <2>5
      DEF DeviceNext, Heartbeat, RenewRecoveryLease, Protected
  <1>8. CASE ReapNext
    <2>1. ASSUME NEW d \in Devices, NEW id \in LeaseIds, lease[d].id = id PROVE Leased(d)
      BY <2>1, FreeIsNobody DEF Leased
    <2>2. ASSUME NEW id \in LeaseIds, ReapVisit(id) PROVE Settled
      BY <1>1, <1>4, <2>1, <2>2 DEF ReapVisit, Reapable
    <2>3. ASSUME ReapResume PROVE Settled
      <3>1. reaper.cur \in LeaseIds
        BY <2>3 DEF ReapResume, TypeOK, Reapers
      <3> QED
        BY <1>1, <1>4, <2>1, <2>3, <3>1 DEF ReapResume, StillSilent
    <2> QED
      BY <1>1, <1>8, <2>2, <2>3 DEF ReapNext, ReapStart, ReapEnd, repoVars
  <1>9. CASE Tick
    <2>1. KeepsOwners
      BY <1>9, TickKeepsOwners
    <2> QED
      BY <1>9, <2>1, KeptIsLeased DEF Tick, Settled
  <1>10. CASE RefreshNext
    <2>1. CASE RefreshInventory \/ ScanDevices \/ PlanInventory \/ InventoryApplied \/ ProbeFails
      BY <1>1, <1>2, <2>1
      DEF RefreshInventory, ScanDevices, PlanInventory, InventoryApplied, ProbeFails, repoVars
    <2> QED
      BY <1>10, <2>1 DEF RefreshNext
  <1>11. CASE Crash \/ UNCHANGED vars
    BY <1>1, <1>2, <1>11 DEF Crash, vars, repoVars
  <1> QED
    BY <1>6, <1>7, <1>8, <1>9, <1>10, <1>11 DEF Next

LEMMA NextGateShut ==
  ASSUME TypeOK, GateShut, [Next]_vars
  PROVE  GateShut'
  <1>1. ASSUME UNCHANGED <<grantable, adbOk, refresh>>,
               turn' = turn \/ EventLoopFree \/ turn' \subseteq turn
        PROVE  GateShut'
    BY <1>1 DEF GateShut, EventLoopFree
  <1>2. ASSUME NEW r \in Rooms, RoomNext(r) PROVE GateShut'
    BY <1>1, <1>2
    DEF RoomNext, RequestGranted, MayRequest, RequestQueued, CancelRequest, ReleaseRoom,
        SleepBegins, SleepEnds, RoomStatusChanges, WorkerExits, RecoverySettled, probeVars
  <1>3. ASSUME NEW d \in Devices, DeviceNext(d) PROVE GateShut'
    <2>1. CASE UpsertDevice(d)
      BY <2>1 DEF UpsertDevice, GateShut, ProbeReset
    <2>2. CASE Promote(d)
      <3>1. turn' \subseteq turn
        BY <2>2 DEF Promote
      <3> QED
        BY <1>1, <2>2, <3>1 DEF Promote, probeVars
    <2> QED
      BY <1>1, <1>3, <2>1, <2>2
      DEF DeviceNext, Heartbeat, RenewRecoveryLease, Touch, Release, SetNickname,
          MarkDisconnected, RevokeDisconnected, probeVars
  <1>4. CASE ReapNext
    BY <1>1, <1>4 DEF ReapNext, ReapStart, ReapVisit, ReapResume, ReapEnd, repoVars, probeVars
  <1>5. CASE RefreshNext
    <2>1. CASE RefreshInventory
      BY <2>1 DEF RefreshInventory, GateShut
    <2>2. CASE ProbeFails
      BY <2>2 DEF ProbeFails, ProbeReset, GateShut
    <2>3. CASE ScanDevices \/ PlanInventory \/ InventoryApplied
      BY <2>3 DEF ScanDevices, PlanInventory, InventoryApplied, GateShut, EventLoopFree
    <2>4. CASE FinishRefresh
      BY <2>4 DEF FinishRefresh, ProbeReset, GateShut
    <2> QED
      BY <1>5, <2>1, <2>2, <2>3, <2>4 DEF RefreshNext
  <1>6. CASE Tick \/ Crash \/ UNCHANGED vars
    BY <1>1, <1>6 DEF Tick, Crash, vars, probeVars, ProbeReset, GateShut
  <1> QED
    BY <1>2, <1>3, <1>4, <1>5, <1>6 DEF Next

LEMMA NextWaiters ==
  ASSUME TypeOK, TypeOK', GateShut, WaitersHoldNothing, [Next]_vars
  PROVE  WaitersHoldNothing'
  <1>1. ASSUME NEW r \in Rooms, Holds(r)', KeepsOwners \/ ClosesOne PROVE Holds(r)
    <2>1. PICK d \in Devices : lease'[d].room = r
      BY <1>1 DEF Holds
    <2>2. lease[d].room = r
      <3>1. CASE KeepsOwners
        BY <2>1, <3>1 DEF KeepsOwners
      <3>2. CASE ClosesOne
        BY <2>1, <3>2, FreeIsNobody DEF ClosesOne, TypeOK, RepoTypeOK
      <3> QED
        BY <1>1, <3>1, <3>2
    <2> QED
      BY <2>2 DEF Holds
  <1>2. ASSUME Settled PROVE WaitersHoldNothing'
    BY <1>1, <1>2 DEF Settled, WaitersHoldNothing, Waiting
  <1>3. ASSUME NEW d \in Devices, NEW r \in Rooms, Grant(d, r), NEW gone,
               Leave(gone), r \in gone
        PROVE  WaitersHoldNothing'
    <2>1. PICK new : new.room = r /\ lease' = [lease EXCEPT ![d] = new]
      BY <1>3 DEF Grant
    <2>2. \A s \in Rooms : asked'[s] # None => asked[s] # None /\ s # r
      BY <1>3 DEF Leave
    <2>3. \A s \in Rooms : Holds(s)' => Holds(s) \/ s = r
      BY <2>1 DEF Holds, TypeOK, RepoTypeOK
    <2> QED
      BY <2>2, <2>3 DEF WaitersHoldNothing, Waiting
  <1>4. ASSUME NEW r \in Rooms, NEW q \in Requests, RequestGranted(r, q)
        PROVE  WaitersHoldNothing'
    BY <1>3, <1>4 DEF RequestGranted
  <1>5. ASSUME NEW r \in Rooms, NEW q \in Requests, RequestQueued(r, q)
        PROVE  WaitersHoldNothing'
    <2>1. ~Holds(r) /\ lease' = lease /\ asked' = [asked EXCEPT ![r] = q]
      BY <1>5 DEF RequestQueued, MayRequest
    <2>2. \A s \in Rooms : asked'[s] # None => s = r \/ asked[s] # None
      BY <2>1 DEF TypeOK, RepoTypeOK
    <2> QED
      BY <2>1, <2>2 DEF WaitersHoldNothing, Waiting, Holds
  <1>6. ASSUME NEW d \in Devices, Promote(d) PROVE WaitersHoldNothing'
    <2>1. CASE UNCHANGED lease
      <3>1. \A s \in Rooms : asked'[s] # None => asked[s] # None
        BY <1>6 DEF Promote, Leave
      <3> QED
        BY <2>1, <3>1 DEF WaitersHoldNothing, Waiting, Holds
    <2>2. CASE ~UNCHANGED lease
      <3>1. PICK r \in Rooms, gone \in SUBSET Rooms : Grant(d, r) /\ Leave({r} \cup gone)
        BY <1>6, <2>2 DEF Promote, Waiting
      <3> QED
        BY <1>3, <3>1
    <2> QED
      BY <2>1, <2>2
  <1>7. CASE FinishRefresh
    BY <1>7 DEF FinishRefresh, repoVars, WaitersHoldNothing, Waiting, Holds
  <1>8. ASSUME NEW d \in Devices, NEW name, SetNickname(d, name) PROVE WaitersHoldNothing'
    BY <1>8 DEF SetNickname, WaitersHoldNothing, Waiting, Holds
  <1> QED
    BY <1>2, <1>4, <1>5, <1>6, <1>7, <1>8, QueueShape

\* No operator renames a phone that some Room asked for by its name.
RenamesChangeNothing == \A q \in Requests, m, n \in Nicknames : q.nick = None \/ m = n

\* What makes a phone lie idle next to a request it could serve
Neglected(d, r) ==
    /\ health[d] = "ready" /\ ~Leased(d)
    /\ r \in Waiting /\ Matches(d, asked[r])

LEMMA NextServed ==
  ASSUME TypeOK, TypeOK', GateShut, ServedOutsideTurn, RenamesChangeNothing, [Next]_vars
  PROVE  ServedOutsideTurn'
  <1> SUFFICES ASSUME grantable', NEW d \in Devices, d \notin turn', NEW r \in Rooms,
                      Neglected(d, r)'
               PROVE  FALSE
    BY DEF ServedOutsideTurn, Neglected, Waiting
  <1>1. ASSUME grantable, d \notin turn, Neglected(d, r) PROVE FALSE
    BY <1>1 DEF ServedOutsideTurn, Neglected
  <1>2. asked'[r] # None /\ asked'[r] \in Requests
    BY DEF Neglected, Waiting, TypeOK, RepoTypeOK
  <1>3. ASSUME grantable, d \notin turn, asked'[r] = asked[r], ~Leased(d),
               UNCHANGED <<health, serial, nickname>>
        PROVE  FALSE
    BY <1>1, <1>2, <1>3 DEF Neglected, Waiting, Matches
  <1>4. CASE Settled
    BY <1>2, <1>3, <1>4 DEF Settled, Neglected
  <1>5. ASSUME NEW s \in Rooms, NEW q \in Requests, RequestGranted(s, q) PROVE FALSE
    <2>1. /\ grantable /\ turn = {} /\ UNCHANGED <<health, serial, nickname>>
          /\ asked'[r] \in {asked[r], None}
      BY <1>5 DEF RequestGranted, MayRequest, EventLoopFree, Leave
    <2>2. \A e \in Devices : Leased(e) => Leased(e)'
      <3>1. PICK e \in Devices : ~Leased(e) /\ Grant(e, s)
        BY <1>5 DEF RequestGranted, Available
      <3> QED
        BY <3>1 DEF Grant, Leased
    <2> QED
      BY <1>2, <1>3, <2>1, <2>2 DEF Neglected
  <1>6. ASSUME NEW s \in Rooms, NEW q \in Requests, RequestQueued(s, q) PROVE FALSE
    <2>1. /\ grantable /\ turn = {} /\ UNCHANGED <<health, serial, nickname, lease>>
          /\ asked' = [asked EXCEPT ![s] = q]
          /\ ~Available(d, q)
      BY <1>6 DEF RequestQueued, MayRequest, EventLoopFree
    <2>2. ~Leased(d)
      BY <2>1 DEF Neglected, Leased
    <2>3. CASE r = s
      <3>1. asked'[r] = q
        BY <2>1, <2>3 DEF TypeOK, RepoTypeOK
      <3> QED
        BY <2>1, <2>2, <3>1 DEF Neglected, Available, Matches
    <2>4. CASE r # s
      <3>1. asked'[r] = asked[r]
        BY <2>1, <2>4 DEF TypeOK, RepoTypeOK
      <3> QED
        BY <1>3, <2>1, <2>2, <3>1
    <2> QED
      BY <2>3, <2>4
  <1>7. ASSUME NEW e \in Devices, Promote(e) PROVE FALSE
    <2>1. /\ turn' = turn \ {e} /\ grantable /\ UNCHANGED <<health, serial, nickname>>
          /\ adbOk
      BY <1>7 DEF Promote, GateShut
    <2>2. asked'[r] = asked[r]
      BY <1>2, <1>7 DEF Promote, Leave
    <2>3. ~Leased(d)
      <3>1. CASE UNCHANGED lease
        BY <3>1 DEF Neglected, Leased
      <3>2. CASE ~UNCHANGED lease
        <4>1. PICK s \in Rooms : Grant(e, s) /\ ~Leased(e)
          BY <1>7, <3>2 DEF Promote, Promotable, Waiting
        <4>2. \A f \in Devices : Leased(f) => Leased(f)'
          BY <4>1 DEF Grant, Leased
        <4> QED
          BY <4>2 DEF Neglected
      <3> QED
        BY <3>1, <3>2
    <2>4. CASE d # e
      BY <1>3, <2>1, <2>2, <2>3, <2>4
    <2>5. CASE d = e
      <3>1. Promotable(d) /\ r \in Waiting /\ Matches(d, asked[r])
        BY <1>2, <2>1, <2>2, <2>3, <2>5 DEF Neglected, Promotable, Waiting, Matches
      <3>2. asked[r].pin \in {None, d}
        BY <3>1 DEF Matches
      <3>3. ~\E s \in Rooms : Grant(d, s)
        BY FreeIsNobody DEF Grant, Leased, TypeOK, RepoTypeOK, Neglected
      <3>4. /\ Leave({s \in {t \in Waiting : asked[t].pin \in {None, d}} :
                         ~awake[s] \/ (Matches(d, asked[s]) /\ Holds(s))})
            /\ {s \in {t \in Waiting : asked[t].pin \in {None, d}} :
                         awake[s] /\ Matches(d, asked[s]) /\ ~Holds(s)} = {}
        BY <1>7, <2>5, <3>1, <3>3 DEF Promote, Waiting
      <3>5. ~awake[r] \/ Holds(r)
        BY <3>1, <3>2, <3>4
      <3> QED
        BY <1>2, <3>1, <3>2, <3>4, <3>5 DEF Leave
    <2> QED
      BY <2>4, <2>5
  <1>8. ASSUME NEW e \in Devices, NEW name \in Nicknames, SetNickname(e, name) PROVE FALSE
    <2>1. /\ grantable /\ turn' = turn /\ UNCHANGED <<health, serial, lease, asked>>
          /\ nickname' = [nickname EXCEPT ![e] = name]
      BY <1>8 DEF SetNickname
    <2>2. ~Leased(d) /\ r \in Waiting /\ asked'[r] = asked[r] /\ health[d] = "ready"
      BY <2>1 DEF Neglected, Leased, Waiting
    <2>3. nickname[d] \in Nicknames /\ nickname'[d] \in Nicknames
      BY DEF TypeOK, RepoTypeOK
    <2>4. asked[r].nick = None \/ nickname'[d] = nickname[d]
      BY <1>2, <2>2, <2>3 DEF RenamesChangeNothing
    <2>5. Matches(d, asked[r])
      BY <2>1, <2>2, <2>4 DEF Neglected, Matches
    <2> QED
      BY <1>1, <2>1, <2>2, <2>5 DEF Neglected
  <1>9. CASE FinishRefresh
    <2>1. turn' = {e \in Devices : health[e] = "ready"} /\ health' = health
      BY <1>9 DEF FinishRefresh, repoVars
    <2> QED
      BY <2>1 DEF Neglected
  <1> QED
    BY <1>4, <1>5, <1>6, <1>7, <1>8, <1>9, QueueShape

LEMMA QueueInvAlways == ASSUME RenamesChangeNothing PROVE Spec => []QueueInv
  <1>1. Init => QueueInv
    <2> SUFFICES ASSUME Init PROVE QueueInv
      OBVIOUS
    <2>1. TypeInv
      BY InitType DEF TypeInv, Init, PlanIsSighted
    <2> QED
      BY <2>1 DEF Init, QueueInv, GateShut, WaitersHoldNothing, ServedOutsideTurn, Waiting
  <1>2. QueueInv /\ [Next]_vars => QueueInv'
    <2> SUFFICES ASSUME QueueInv, [Next]_vars PROVE QueueInv'
      OBVIOUS
    <2>1. TypeOK /\ TypeOK' /\ TypeInv'
      BY NextType DEF QueueInv, TypeInv
    <2> QED
      BY <2>1, NextGateShut, NextWaiters, NextServed DEF QueueInv
  <1> QED
    BY <1>1, <1>2, PTL DEF Spec

\* Between two handlers no ready phone lies idle next to a request that it could
\* serve, whichever of the many handlers closed its lease or reopened the gate
\* (broker.ts, close, promote and refreshInventoryOnce).  The hypothesis is the
\* known gap: setNickname does not promote.
THEOREM NoPhoneIsNeglected ==
  ASSUME RenamesChangeNothing
  PROVE  Spec => []NoIdlePhone
  <1>1. QueueInv => NoIdlePhone
    BY DEF QueueInv, ServedOutsideTurn, NoIdlePhone
  <1> QED
    BY <1>1, QueueInvAlways, PTL

\* A phone goes to a Room only when no awake Room that could use it is ahead in
\* line.  A grant at once (requestDevice) finds nobody waiting for that phone,
\* because no phone is neglected; a promotion takes the first of those that hold
\* nothing, and whoever waits holds nothing.
THEOREM GrantsKeepTheLine ==
  ASSUME RenamesChangeNothing
  PROVE  Spec => ServedInOrder
  <1>1. QueueInv /\ [Next]_vars
          => [\A d \in Devices, r \in Rooms :
                ~Leased(d) /\ lease'[d].room = r =>
                    \A s \in Waiting \ {r} :
                        awake[s] /\ Matches(d, asked[s]) => r \in Waiting /\ Before(r, s)]_vars
    <2> SUFFICES ASSUME QueueInv, [Next]_vars, NEW d \in Devices, NEW r \in Rooms,
                        ~Leased(d), lease'[d].room = r,
                        NEW s \in Waiting \ {r}, awake[s], Matches(d, asked[s])
                 PROVE  r \in Waiting /\ Before(r, s)
      OBVIOUS
    <2>1. TypeOK /\ TypeOK' /\ GateShut /\ WaitersHoldNothing /\ ServedOutsideTurn
      BY NextType DEF QueueInv, TypeInv
    <2>2. lease[d] = Free /\ lease[d].room = None /\ r # None
      BY FreeIsNobody DEF Leased
    <2>3. ASSUME NEW e \in Devices, NEW q \in Rooms, Grant(e, q) PROVE e = d /\ q = r
      <3>1. PICK new : new.room = q /\ lease' = [lease EXCEPT ![e] = new]
        BY <2>3 DEF Grant
      <3> QED
        BY <2>1, <2>2, <3>1 DEF TypeOK, RepoTypeOK
    <2>4. CASE UNCHANGED lease \/ Settled
      <3>1. ~UNCHANGED lease /\ ~KeepsOwners
        BY <2>2 DEF KeepsOwners
      <3>2. ~ClosesOne
        BY <2>1, <2>2, FreeIsNobody DEF ClosesOne, TypeOK, RepoTypeOK
      <3> QED
        BY <2>4, <3>1, <3>2 DEF Settled
    <2>5. ASSUME NEW p \in Rooms, NEW q \in Requests, RequestGranted(p, q) PROVE FALSE
      <3>1. PICK e \in Devices : Available(e, q) /\ Grant(e, p)
        BY <2>5 DEF RequestGranted
      <3>2. health[d] = "ready" /\ grantable /\ turn = {}
        BY <2>3, <2>5, <3>1 DEF RequestGranted, MayRequest, Available, EventLoopFree
      <3> QED
        BY <2>1, <3>2 DEF ServedOutsideTurn
    <2>6. ASSUME NEW e \in Devices, Promote(e) PROVE r \in Waiting /\ Before(r, s)
      <3> DEFINE queued  == {q \in Waiting : asked[q].pin \in {None, e}}
                 able    == {q \in queued : awake[q] /\ Matches(e, asked[q]) /\ ~Holds(q)}
                 first(q) == q \in able /\ \A p \in able \ {q} : Before(q, p)
      <3>1. ~UNCHANGED lease
        BY <2>2
      <3>2. PICK q \in able : first(q) /\ Grant(e, q)
        BY <2>6, <3>1 DEF Promote
      <3>3. q \in Waiting /\ q \in Rooms
        BY DEF Waiting
      <3>4. e = d /\ q = r
        BY <2>3, <3>2, <3>3
      <3>5. s \in able
        <4>1. asked[s].pin \in {None, d} /\ ~Holds(s)
          BY <2>1 DEF Matches, WaitersHoldNothing
        <4> QED
          BY <3>4, <4>1
      <3> QED
        BY <3>2, <3>3, <3>4, <3>5
    <2> QED
      BY <2>1, <2>4, <2>5, <2>6, QueueShape DEF RequestQueued, FinishRefresh, SetNickname, repoVars
  <1> QED
    BY <1>1, QueueInvAlways, PTL DEF Spec, ServedInOrder

-----------------------------------------------------------------------------
(* Transports and unplugged phones *)

\* The transport under an active lease never changes: of all steps only
\* upsertDevice writes a serial, after its await, and it refuses a leased row.
THEOREM TransportStays == Spec => LeaseKeepsTransport
  <1>1. TypeInv /\ [Next]_vars
          => [\A d \in Devices :
                Leased(d) /\ lease'[d].id = lease[d].id => serial'[d] = serial[d]]_vars
    <2> SUFFICES ASSUME TypeOK, [Next]_vars, NEW d \in Devices, Leased(d)
                 PROVE  serial'[d] = serial[d]
      BY DEF TypeInv
    <2>1. ASSUME NEW e \in Devices, UpsertDevice(e) PROVE serial'[d] = serial[d]
      <3>1. CASE PinnedElsewhere(e, plan[e])
        BY <2>1, <3>1 DEF UpsertDevice
      <3>2. CASE ~PinnedElsewhere(e, plan[e])
        BY <2>1, <3>2 DEF UpsertDevice, PinnedElsewhere, TypeOK, RepoTypeOK
      <3> QED
        BY <3>1, <3>2
    <2>2. ASSUME NEW e \in Devices, DeviceNext(e) PROVE serial'[d] = serial[d]
      BY <2>1, <2>2
      DEF DeviceNext, Heartbeat, RenewRecoveryLease, Touch, Release, Promote, SetNickname,
          MarkDisconnected, RevokeDisconnected
    <2>3. ASSUME NEW r \in Rooms, RoomNext(r) PROVE UNCHANGED serial
      BY <2>3
      DEF RoomNext, RequestGranted, RequestQueued, CancelRequest, ReleaseRoom, SleepBegins,
          SleepEnds, RoomStatusChanges, WorkerExits, RecoverySettled, repoVars
    <2>4. CASE RefreshNext \/ ReapNext \/ Tick \/ Crash \/ UNCHANGED vars
      BY <2>4
      DEF RefreshNext, RefreshInventory, ProbeFails, ScanDevices, PlanInventory, InventoryApplied,
          FinishRefresh, ReapNext, ReapStart, ReapVisit, ReapResume, ReapEnd, Tick, Crash,
          vars, repoVars
    <2> QED
      BY <2>2, <2>3, <2>4 DEF Next
  <1>2. Init => TypeInv
    BY InitType DEF TypeInv, Init, PlanIsSighted
  <1>3. TypeInv /\ [Next]_vars => TypeInv'
    BY NextType
  <1> QED
    BY <1>1, <1>2, <1>3, PTL DEF Spec, LeaseKeepsTransport

LEMMA NextGoneInHand ==
  ASSUME TypeOK, TypeOK', PlanIsSighted, GateShut, GoneInHand, [Next]_vars
  PROVE  GoneInHand'
  <1>1. ASSUME UNCHANGED <<health, seen, closing, refresh>>, EventLoopFree \/ turn # {}
        PROVE  GoneInHand'
    BY <1>1 DEF GoneInHand, GateShut, EventLoopFree
  <1>2. ASSUME ProbeReset PROVE GoneInHand'
    BY <1>2 DEF ProbeReset, GoneInHand
  <1>3. ASSUME UNCHANGED <<health, seen, closing, refresh, pending>>, KeepsOwners
        PROVE  GoneInHand'
    <2>1. \A d \in Devices : /\ Leased(d)' <=> Leased(d)
                             /\ Protected(d)' <=> Protected(d)
      BY <1>3, KeptIsLeased DEF KeepsOwners, Protected
    <2> QED
      BY <1>3, <2>1 DEF GoneInHand
  <1>4. ASSUME NEW r \in Rooms, RoomNext(r) PROVE GoneInHand'
    <2>1. CASE WorkerExits(r)
      BY <1>3, <2>1 DEF WorkerExits, repoVars, probeVars, KeepsOwners
    <2> QED
      BY <1>1, <1>4, <2>1
      DEF RoomNext, RequestGranted, MayRequest, RequestQueued, CancelRequest, ReleaseRoom,
          SleepBegins, SleepEnds, RoomStatusChanges, RecoverySettled, probeVars, repoVars
  <1>5. ASSUME NEW d \in Devices, DeviceNext(d) PROVE GoneInHand'
    <2>1. CASE UpsertDevice(d)
      <3>1. CASE PinnedElsewhere(d, plan[d])
        BY <1>2, <2>1, <3>1 DEF UpsertDevice
      <3>2. CASE ~PinnedElsewhere(d, plan[d])
        <4>1. plan[d] \in Transports /\ obs[d][plan[d]] # "absent"
          BY <2>1 DEF UpsertDevice, PlanIsSighted, TypeOK, ProbeTypeOK
        <4>2. obs[d][plan[d]] \in Sightings
          BY <4>1 DEF TypeOK, ProbeTypeOK
        <4>3. obs[d][plan[d]] # "disconnected"
          BY <4>2 DEF Sightings
        <4>4. /\ health' = [health EXCEPT ![d] = obs[d][plan[d]]]
              /\ seen' = seen \cup {d} /\ closing' = closing /\ refresh' = "applying"
          BY <2>1, <3>2 DEF UpsertDevice
        <4>5. closing = {}
          BY <2>1 DEF UpsertDevice, GoneInHand
        <4> QED
          BY <4>3, <4>4, <4>5 DEF GoneInHand, TypeOK, RepoTypeOK
      <3> QED
        BY <3>1, <3>2
    <2>2. CASE MarkDisconnected(d)
      <3>1. /\ d \in closing /\ health' = [health EXCEPT ![d] = "disconnected"]
            /\ refresh = "closing"
            /\ UNCHANGED <<seen, closing, refresh, lease, pending>>
        BY <2>2 DEF MarkDisconnected, probeVars
      <3> QED
        BY <3>1 DEF GoneInHand, TypeOK, RepoTypeOK, Protected, Leased
    <2>3. CASE RevokeDisconnected(d)
      <3>1. /\ closing' = closing \ {d} /\ refresh = "closing"
            /\ UNCHANGED <<seen, health, refresh, pending>>
        BY <2>3 DEF RevokeDisconnected
      <3>2. CASE Revocable(d)
        <4>1. lease' = [lease EXCEPT ![d] = Free]
          BY <2>3, <3>2 DEF RevokeDisconnected, CloseLease
        <4>2. \A e \in Devices : e # d => lease'[e] = lease[e]
          BY <4>1
        <4>3. ~Leased(d)'
          BY <4>1 DEF Leased, TypeOK, RepoTypeOK
        <4> QED
          BY <3>1, <4>2, <4>3 DEF GoneInHand, Protected, Leased
      <3>3. CASE ~Revocable(d)
        <4>1. lease' = lease
          BY <2>3, <3>3 DEF RevokeDisconnected
        <4> QED
          BY <3>1, <3>3, <4>1 DEF GoneInHand, Protected, Leased, Revocable
      <3> QED
        BY <3>2, <3>3
    <2> QED
      BY <1>1, <1>5, <2>1, <2>2, <2>3
      DEF DeviceNext, Heartbeat, RenewRecoveryLease, Touch, Release, Promote, SetNickname, probeVars
  <1>6. CASE ReapNext
    BY <1>1, <1>6 DEF ReapNext, ReapStart, ReapVisit, ReapResume, ReapEnd, repoVars, probeVars
  <1>7. CASE RefreshNext
    <2>1. CASE InventoryApplied
      <3>1. /\ refresh = "applying" /\ refresh' = "closing" /\ closing' = Vanished
            /\ UNCHANGED <<health, seen, lease, pending>>
        BY <2>1 DEF InventoryApplied, repoVars
      <3> QED
        BY <3>1 DEF GoneInHand, Vanished, Leased
    <2>2. CASE RefreshInventory \/ ScanDevices \/ PlanInventory
      BY <2>2 DEF RefreshInventory, ScanDevices, PlanInventory, repoVars, GoneInHand
    <2> QED
      BY <1>2, <1>7, <2>1, <2>2 DEF RefreshNext, ProbeFails, FinishRefresh, ProbeReset, repoVars
  <1>8. CASE Tick
    <2>1. KeepsOwners
      BY <1>8, TickKeepsOwners
    <2> QED
      BY <1>3, <1>8, <2>1 DEF Tick, probeVars
  <1>9. CASE Crash \/ UNCHANGED vars
    BY <1>2, <1>3, <1>9 DEF Crash, vars, repoVars, probeVars, KeepsOwners
  <1> QED
    BY <1>4, <1>5, <1>6, <1>7, <1>8, <1>9 DEF Next

\* When a refresh reopens the gate, no phone that left the bus keeps a lease,
\* except one that a recovery record names - also when the last process died
\* between marking the row and revoking the lease - and a lease that a recovery
\* record names is never closed by anything (broker.ts, refreshInventoryOnce,
\* recoveryProtected).
THEOREM GoneLosesLease == Spec => GoneIsRevoked
  <1> DEFINE I == TypeInv /\ GateShut /\ GoneInHand
  <1>1. Init => I
    <2> SUFFICES ASSUME Init PROVE I
      OBVIOUS
    <2>1. TypeInv
      BY InitType DEF TypeInv, Init, PlanIsSighted
    <2> QED
      BY <2>1 DEF Init, GateShut, GoneInHand
  <1>2. I /\ [Next]_vars => I'
    <2> SUFFICES ASSUME I, [Next]_vars PROVE I'
      OBVIOUS
    <2>1. TypeOK /\ PlanIsSighted /\ TypeInv' /\ TypeOK'
      BY NextType DEF TypeInv
    <2> QED
      BY <2>1, NextGateShut, NextGoneInHand
  <1>3. I /\ [Next]_vars
          => [grantable' /\ ~grantable =>
                \A d \in Devices : Leased(d) /\ health[d] = "disconnected" => Protected(d)]_vars
    <2> SUFFICES ASSUME I, [Next]_vars, grantable', ~grantable,
                        NEW d \in Devices, Leased(d), health[d] = "disconnected"
                 PROVE  Protected(d)
      OBVIOUS
    <2>1. TypeOK /\ TypeOK'
      BY NextType DEF TypeInv
    <2>2. FinishRefresh
      BY <2>1, QueueShape
      DEF Settled, RequestGranted, RequestQueued, MayRequest, Promote, SetNickname
    <2> QED
      BY <2>2 DEF FinishRefresh, GoneInHand
  <1>4. I /\ [Next]_vars => [\A d \in Devices : Protected(d) => lease'[d].id = lease[d].id]_vars
    <2> SUFFICES ASSUME I, [Next]_vars, NEW d \in Devices, Protected(d)
                 PROVE  lease'[d].id = lease[d].id
      OBVIOUS
    <2>1. TypeOK
      BY DEF TypeInv
    <2>2. CASE KeepsOwners
      BY <2>2 DEF KeepsOwners
    <2>3. CASE ClosesOne
      BY <2>1, <2>3 DEF ClosesOne, TypeOK, RepoTypeOK
    <2>4. CASE GrantsOne
      BY <2>1, <2>4 DEF GrantsOne, Protected, TypeOK, RepoTypeOK
    <2> QED
      BY <2>1, <2>2, <2>3, <2>4, LeaseShape
  <1> HIDE DEF I
  <1>5. Spec => UnpluggedIsRevoked
    BY <1>1, <1>2, <1>3, PTL DEF Spec, UnpluggedIsRevoked
  <1>6. Spec => ProtectedLeaseStays
    BY <1>1, <1>2, <1>4, PTL DEF Spec, ProtectedLeaseStays
  <1> QED
    BY <1>5, <1>6 DEF GoneIsRevoked

-----------------------------------------------------------------------------
(* The reaper *)

\* The silence that a death mark of the lease of d stands for
Silence(d, mark) == lease[d].hb > mark + Ttl \/ lease[d].hb = AgeCap

LEMMA NextMark ==
  ASSUME TypeOK, TypeOK', MarkFollowsSilence, [Next]_vars
  PROVE  MarkFollowsSilence'
  <1>1. ASSUME UNCHANGED lease,
               \A id \in LeaseIds : death'[id] \in {death[id], -1}
        PROVE  MarkFollowsSilence'
    BY <1>1 DEF MarkFollowsSilence
  <1>2. ASSUME NEW id, Forget(id) PROVE \A i \in LeaseIds : death'[i] \in {death[i], -1}
    BY <1>2 DEF Forget, TypeOK
  <1>3. ASSUME NEW d \in Devices, Leased(d), Forget(lease[d].id),
               \A e \in Devices \ {d} : lease'[e] = lease[e]
        PROVE  MarkFollowsSilence'
    <2> SUFFICES ASSUME NEW id \in LeaseIds, death'[id] # -1
                 PROVE  \E e \in Devices : /\ lease'[e].id = id
                                           /\ lease'[e].hb > death'[id] + Ttl \/ lease'[e].hb = AgeCap
      BY DEF MarkFollowsSilence
    <2>1. id # lease[d].id /\ death'[id] = death[id]
      BY <1>3 DEF Forget, TypeOK
    <2>2. PICK e \in Devices : lease[e].id = id /\ Silence(e, death[id])
      BY <2>1 DEF MarkFollowsSilence, Silence
    <2>3. e # d /\ lease'[e] = lease[e]
      BY <1>3, <2>1, <2>2
    <2> QED
      BY <2>1, <2>2, <2>3 DEF Silence
  <1>4. ASSUME NEW d \in Devices, NEW state, Leased(d), Close(d, state) PROVE MarkFollowsSilence'
    BY <1>3, <1>4 DEF Close, CloseLease
  <1>5. ASSUME NEW d \in Devices, NEW r \in Rooms, Grant(d, r), ~Leased(d), UNCHANGED death
        PROVE  MarkFollowsSilence'
    <2> SUFFICES ASSUME NEW id \in LeaseIds, death[id] # -1
                 PROVE  \E e \in Devices : /\ lease'[e].id = id
                                           /\ lease'[e].hb > death[id] + Ttl \/ lease'[e].hb = AgeCap
      BY <1>5 DEF MarkFollowsSilence
    <2>1. PICK e \in Devices : lease[e].id = id /\ Silence(e, death[id])
      BY DEF MarkFollowsSilence, Silence
    <2>2. e # d
      BY <1>5, <2>1, FreeIsNobody DEF Leased
    <2>3. lease'[e] = lease[e]
      BY <1>5, <2>2 DEF Grant
    <2> QED
      BY <2>1, <2>3 DEF Silence
  <1>6. ASSUME NEW d \in Devices, Leased(d), Reclaim(d) PROVE MarkFollowsSilence'
    BY <1>1, <1>2, <1>4, <1>6 DEF Reclaim
  <1>7. ASSUME NEW d \in Devices, Leased(d), NEW mark \in Ages \cup {-1},
               mark = -1 \/ Silence(d, mark), MaxDurationCheck(d, mark)
        PROVE  MarkFollowsSilence'
    <2>1. CASE Overran(d)
      BY <1>6, <1>7, <2>1 DEF MaxDurationCheck
    <2>2. CASE ~Overran(d)
      <3>1. death' = [death EXCEPT ![lease[d].id] = mark] /\ UNCHANGED lease
        BY <1>7, <2>2 DEF MaxDurationCheck
      <3> SUFFICES ASSUME NEW id \in LeaseIds, death'[id] # -1
                   PROVE  \E e \in Devices : lease[e].id = id /\ Silence(e, death'[id])
        BY <3>1 DEF MarkFollowsSilence, Silence
      <3>2. CASE id = lease[d].id
        BY <1>7, <3>1, <3>2 DEF TypeOK
      <3>3. CASE id # lease[d].id
        <4>1. death'[id] = death[id]
          BY <3>1, <3>3 DEF TypeOK
        <4> QED
          BY <4>1 DEF MarkFollowsSilence, Silence
      <3> QED
        BY <3>2, <3>3
    <2> QED
      BY <2>1, <2>2
  <1>8. ASSUME NEW r \in Rooms, RoomNext(r) PROVE MarkFollowsSilence'
    <2>1. ASSUME NEW q \in Requests, RequestGranted(r, q) PROVE MarkFollowsSilence'
      BY <1>5, <2>1 DEF RequestGranted, Available
    <2>2. CASE ReleaseOf(r)
      <3>1. CASE Holds(r) /\ ~Protected(HeldBy(r))
        <4>1. HeldBy(r) \in Devices /\ lease[HeldBy(r)].room = r
          BY <3>1 DEF Holds, HeldBy
        <4>2. Leased(HeldBy(r))
          BY <4>1, FreeIsNobody DEF Leased
        <4>3. PICK e \in Devices : e = HeldBy(r)
          BY <4>1
        <4>4. Leased(e) /\ Close(e, "closed")
          BY <2>2, <3>1, <4>2, <4>3 DEF ReleaseOf
        <4> QED
          BY <1>4, <4>4
      <3>2. CASE ~(Holds(r) /\ ~Protected(HeldBy(r)))
        BY <1>1, <2>2, <3>2 DEF ReleaseOf
      <3> QED
        BY <3>1, <3>2
    <2> QED
      BY <1>1, <1>8, <2>1, <2>2
      DEF RoomNext, RequestQueued, CancelRequest, ReleaseRoom, SleepBegins, SleepEnds,
          RoomStatusChanges, WorkerExits, RecoverySettled, repoVars
  <1>9. ASSUME NEW d \in Devices, DeviceNext(d) PROVE MarkFollowsSilence'
    <2>1. ASSUME NEW busy, Leased(d), Touch(d, busy) PROVE MarkFollowsSilence'
      <3>1. Forget(lease[d].id) /\ \A e \in Devices \ {d} : lease'[e] = lease[e]
        BY <2>1 DEF Touch, TypeOK, RepoTypeOK
      <3> QED
        BY <1>3, <2>1, <3>1
    <2>2. CASE Release(d)
      BY <1>4, <2>2 DEF Release
    <2>3. CASE Promote(d)
      <3>1. UNCHANGED death /\ (UNCHANGED lease \/ \E r \in Rooms : Grant(d, r) /\ ~Leased(d))
        BY <2>3 DEF Promote, Promotable, Waiting
      <3> QED
        BY <1>1, <1>5, <3>1
    <2>4. CASE RevokeDisconnected(d)
      <3>1. CASE Revocable(d)
        <4>1. /\ Leased(d) /\ Forget(lease[d].id)
              /\ \A e \in Devices \ {d} : lease'[e] = lease[e]
          BY <2>4, <3>1 DEF RevokeDisconnected, Revocable, CloseLease, TypeOK, RepoTypeOK
        <4> QED
          BY <1>3, <4>1
      <3>2. CASE ~Revocable(d)
        BY <1>1, <2>4, <3>2 DEF RevokeDisconnected
      <3> QED
        BY <3>1, <3>2
    <2> QED
      BY <1>1, <1>9, <2>1, <2>2, <2>3, <2>4
      DEF DeviceNext, Heartbeat, RenewRecoveryLease, Protected, SetNickname, UpsertDevice,
          MarkDisconnected
  <1>10. CASE ReapNext
    <2>1. ASSUME NEW d \in Devices, NEW id \in LeaseIds, lease[d].id = id PROVE Leased(d)
      BY <2>1, FreeIsNobody DEF Leased
    <2>2. ASSUME NEW id \in LeaseIds, ReapVisit(id) PROVE MarkFollowsSilence'
      <3>1. ASSUME NEW d \in Devices, Reapable(id, d), MaxDurationCheck(d, death[id])
            PROVE  MarkFollowsSilence'
        <4>1. Leased(d) /\ lease[d].id = id
          BY <2>1, <3>1 DEF Reapable
        <4>2. CASE Overran(d)
          BY <1>6, <3>1, <4>1, <4>2 DEF MaxDurationCheck
        <4>3. CASE ~Overran(d)
          BY <1>1, <3>1, <4>1, <4>3 DEF MaxDurationCheck, TypeOK
        <4> QED
          BY <4>2, <4>3
      <3>2. CASE Forget(id) /\ UNCHANGED lease
        BY <1>1, <1>2, <3>2
      <3>3. CASE UNCHANGED <<lease, death>>
        BY <1>1, <3>3
      <3> QED
        BY <2>2, <3>1, <3>2, <3>3 DEF ReapVisit
    <2>3. ASSUME ReapResume PROVE MarkFollowsSilence'
      <3>1. PICK id \in LeaseIds : id = reaper.cur
        BY <2>3 DEF ReapResume, TypeOK, Reapers
      <3>2. reaper.age \in 0..MaxProbe /\ reaper.age \in Ages
        BY TimeAssumption DEF TypeOK, Reapers, Ages
      <3>3. ASSUME NEW d \in Devices, StillSilent(id, d)
            PROVE  /\ Leased(d) /\ FirstSeen(id) \in Ages \cup {-1}
                   /\ FirstSeen(id) = -1 \/ \E e \in Devices : lease[e].id = id /\ Silence(e, FirstSeen(id))
                   /\ lease[d].hb > reaper.age + Ttl
        <4>1. Leased(d) /\ lease[d] \in Leases
          BY <2>1, <3>3, LeasedRecord DEF StillSilent
        <4>2. lease[d].hb > reaper.age + Ttl
          BY <3>2, <3>3, <4>1, TimeAssumption DEF StillSilent, Silent, Leases, Ages
        <4>3. lease[d].id = id
          BY <3>3 DEF StillSilent
        <4>4. CASE death[id] = -1
          BY <3>2, <4>1, <4>2, <4>3, <4>4 DEF FirstSeen, Silence
        <4>5. CASE death[id] # -1
          BY <4>1, <4>2, <4>5 DEF FirstSeen, Silence, MarkFollowsSilence, TypeOK
        <4> QED
          BY <4>4, <4>5
      <3>4. ASSUME NEW d \in Devices, StillSilent(id, d),
                   MaxDurationCheck(d, FirstSeen(id))
            PROVE  MarkFollowsSilence'
        <4>1. CASE Overran(d)
          BY <1>6, <3>3, <3>4, <4>1 DEF MaxDurationCheck
        <4>2. CASE ~Overran(d)
          <5>1. lease[d].id = id
            BY <3>4 DEF StillSilent
          <5>2. death' = [death EXCEPT ![id] = FirstSeen(id)] /\ UNCHANGED lease
            BY <3>4, <4>2, <5>1 DEF MaxDurationCheck
          <5>3. PICK mark \in Ages \cup {-1} : mark = FirstSeen(id)
            BY <3>3, <3>4
          <5>4. death'[id] = mark /\ \A i \in LeaseIds \ {id} : death'[i] = death[i]
            BY <5>2, <5>3 DEF TypeOK
          <5> QED
            BY <3>3, <3>4, <5>2, <5>3, <5>4 DEF MarkFollowsSilence, Silence
        <4> QED
          BY <4>1, <4>2
      <3>5. ASSUME NEW d \in Devices, StillSilent(id, d), MaxDurationCheck(d, -1)
            PROVE  MarkFollowsSilence'
        BY <1>7, <3>3, <3>5
      <3>6. ASSUME NEW d \in Devices, StillSilent(id, d), Reclaim(d)
            PROVE  MarkFollowsSilence'
        BY <1>6, <3>3, <3>6
      <3>7. CASE Forget(id) /\ UNCHANGED lease
        BY <1>1, <1>2, <3>7
      <3> QED
        BY <2>3, <3>1, <3>4, <3>5, <3>6, <3>7 DEF ReapResume
    <2> QED
      BY <1>1, <1>10, <2>2, <2>3 DEF ReapNext, ReapStart, ReapEnd, repoVars
  <1>11. CASE Tick
    <2> SUFFICES ASSUME NEW id \in LeaseIds, death'[id] # -1
                 PROVE  \E e \in Devices : /\ lease'[e].id = id
                                           /\ lease'[e].hb > death'[id] + Ttl \/ lease'[e].hb = AgeCap
      BY DEF MarkFollowsSilence
    <2>1. death[id] # -1 /\ death'[id] = Older(death[id]) /\ death[id] \in Ages
      BY <1>11 DEF Tick, TypeOK
    <2>2. PICK e \in Devices : lease[e].id = id /\ Silence(e, death[id])
      BY <2>1 DEF MarkFollowsSilence, Silence
    <2>3. Leased(e)
      BY <2>2, FreeIsNobody DEF Leased
    <2>4. lease[e] \in Leases
      BY <2>3, LeasedRecord
    <2>5. lease'[e] = [lease[e] EXCEPT !.hb = Older(@), !.acq = Older(@), !.act = Older(@)]
      BY <1>11, <2>3 DEF Tick
    <2>6. lease'[e].id = id /\ lease'[e].hb = Older(lease[e].hb) /\ lease[e].hb \in Ages
      BY <2>2, <2>4, <2>5 DEF Leases
    <2> QED
      BY <2>1, <2>2, <2>6, TimeAssumption DEF Silence, Older, Ages
  <1>12. CASE RefreshNext \/ Crash \/ UNCHANGED vars
    BY <1>1, <1>12
    DEF RefreshNext, RefreshInventory, ProbeFails, ScanDevices, PlanInventory,
        InventoryApplied, FinishRefresh, Crash, vars, repoVars
  <1> QED
    BY <1>8, <1>9, <1>10, <1>11, <1>12 DEF Next

\* The loss of a phone to the reaper: what silence it rests on.
LEMMA ExpiryIsEarned ==
  ASSUME TypeOK, Next, NEW d \in Devices, Leased(d), ~Leased(d)',
         latest'[lease[d].room].state = "expired"
  PROVE  lease[d].hb > Ttl \/ (lease[d].act > Ttl /\ lease[d].acq > MaxDuration)
  <1> DEFINE Earned == lease[d].hb > Ttl \/ (lease[d].act > Ttl /\ lease[d].acq > MaxDuration)
  <1>1. /\ lease[d] \in Leases /\ lease[d].room \in Rooms
        /\ reaper.age \in Nat /\ lease[d].hb \in Nat /\ lease[d].act \in Nat /\ lease[d].acq \in Nat
    BY LeasedRecord, TimeAssumption DEF Leases, Ages, TypeOK, Reapers
  <1>2. ASSUME NEW e \in Devices, NEW state, CloseLease(e, state), state # "expired" PROVE FALSE
    <2>1. lease' = [lease EXCEPT ![e] = Free]
      BY <1>2 DEF CloseLease
    <2>2. e = d
      BY <2>1 DEF Leased
    <2>3. latest'[lease[d].room].state = state
      BY <1>1, <1>2, <2>2 DEF CloseLease, TypeOK, RepoTypeOK
    <2> QED
      BY <1>2, <2>3
  <1>3. ASSUME NEW e \in Devices, NEW state, CloseLease(e, state) PROVE e = d
    <2>1. lease' = [lease EXCEPT ![e] = Free]
      BY <1>3 DEF CloseLease
    <2> QED
      BY <2>1 DEF Leased
  <1>4. ASSUME UNCHANGED lease PROVE FALSE
    BY <1>4 DEF Leased
  <1>5. ASSUME NEW e \in Devices, NEW mark, MaxDurationCheck(e, mark) PROVE Earned
    <2>1. Overran(e) /\ e = d
      BY <1>3, <1>4, <1>5 DEF MaxDurationCheck, Reclaim, Close
    <2> QED
      BY <1>1, <2>1, TimeAssumption DEF Overran
  <1>6. ASSUME NEW r \in Rooms, RoomNext(r) PROVE FALSE
    <2>1. CASE ReleaseOf(r)
      <3>1. Holds(r) /\ ~Protected(HeldBy(r))
        BY <1>4, <2>1 DEF ReleaseOf
      <3>2. HeldBy(r) \in Devices
        BY <3>1 DEF Holds, HeldBy
      <3>3. CloseLease(HeldBy(r), "closed")
        BY <2>1, <3>1 DEF ReleaseOf, Close
      <3> QED
        BY <1>2, <3>2, <3>3
    <2>2. ASSUME NEW q \in Requests, RequestGranted(r, q) PROVE FALSE
      <3>1. PICK e \in Devices : ~Leased(e) /\ Grant(e, r)
        BY <2>2 DEF RequestGranted, Available
      <3> QED
        BY <3>1 DEF Grant, Leased
    <2> QED
      BY <1>4, <1>6, <2>1, <2>2
      DEF RoomNext, RequestQueued, CancelRequest, ReleaseRoom, SleepBegins, SleepEnds,
          RoomStatusChanges, WorkerExits, RecoverySettled, repoVars
  <1>7. ASSUME NEW e \in Devices, DeviceNext(e) PROVE FALSE
    <2>1. ASSUME NEW busy, Leased(e), Touch(e, busy) PROVE FALSE
      <3>1. KeepsOwners
        <4>1. lease[e] \in Leases /\ lease \in [Devices -> Leases \cup {Free}]
          BY <2>1, LeasedRecord DEF TypeOK, RepoTypeOK
        <4> QED
          BY <2>1, <4>1 DEF Touch, KeepsOwners, Leases
      <3> QED
        BY <1>1, <3>1, FreeIsNobody DEF KeepsOwners, Leased
    <2>2. CASE Promote(e)
      <3>1. PICK r \in Rooms : Grant(e, r) /\ ~Leased(e)
        BY <1>4, <2>2 DEF Promote, Promotable, Waiting
      <3> QED
        BY <3>1 DEF Grant, Leased
    <2>3. CASE Release(e) \/ RevokeDisconnected(e)
      BY <1>2, <1>4, <2>3 DEF Release, RevokeDisconnected, Close
    <2> QED
      BY <1>4, <1>7, <2>1, <2>2, <2>3
      DEF DeviceNext, Heartbeat, RenewRecoveryLease, Protected, SetNickname, UpsertDevice,
          MarkDisconnected
  <1>8. ASSUME ReapNext PROVE Earned
    <2>1. ASSUME NEW id \in LeaseIds, ReapVisit(id) PROVE Earned
      BY <1>4, <1>5, <2>1 DEF ReapVisit
    <2>2. ASSUME ReapResume PROVE Earned
      <3>1. PICK id \in LeaseIds : id = reaper.cur
        BY <2>2 DEF ReapResume, TypeOK, Reapers
      <3>2. ASSUME NEW e \in Devices, StillSilent(id, e), Reclaim(e) PROVE Earned
        <4>1. e = d
          BY <1>3, <1>4, <3>2 DEF Reclaim, Close
        <4> QED
          BY <1>1, <3>2, <4>1, TimeAssumption DEF StillSilent, Silent
      <3> QED
        BY <1>4, <1>5, <2>2, <3>1, <3>2 DEF ReapResume
    <2> QED
      BY <1>4, <1>8, <2>1, <2>2 DEF ReapNext, ReapStart, ReapEnd, repoVars
  <1>9. CASE Tick
    BY <1>1, <1>9, TickKeepsOwners, FreeIsNobody DEF KeepsOwners, Leased
  <1>10. CASE RefreshNext \/ Crash
    BY <1>4, <1>10
    DEF RefreshNext, RefreshInventory, ProbeFails, ScanDevices, PlanInventory,
        InventoryApplied, FinishRefresh, Crash, repoVars
  <1> QED
    BY <1>6, <1>7, <1>8, <1>9, <1>10 DEF Next

\* Only a silent owner loses its phone to the reaper, whatever heartbeats arrive
\* while a liveness probe is in flight, for every TTL, grace and maximal
\* duration: a death mark stands for a lease that is older than its TTL, and a
\* lease expires only when it is silent now or over its time (broker.ts, reap).
THEOREM OnlySilentOwnersLose == Spec => OnlyTheSilentLose
  <1>1. Init => TypeInv /\ MarkFollowsSilence
    BY InitType DEF TypeInv, Init, PlanIsSighted, MarkFollowsSilence
  <1>2. TypeInv /\ MarkFollowsSilence /\ [Next]_vars => TypeInv' /\ MarkFollowsSilence'
    BY NextType, NextMark DEF TypeInv
  <1>3. MarkFollowsSilence =>
            \A id \in LeaseIds : death[id] # -1 =>
                \E d \in Devices :
                    /\ lease[d].id = id
                    /\ lease[d].hb > death[id] + Ttl \/ lease[d].hb = AgeCap
    BY DEF MarkFollowsSilence
  <1>4. TypeInv /\ [Next]_vars
          => [\A d \in Devices :
                /\ Leased(d) /\ ~Leased(d)'
                /\ latest'[lease[d].room].state = "expired"
                => lease[d].hb > Ttl \/ (lease[d].act > Ttl /\ lease[d].acq > MaxDuration)]_vars
    BY ExpiryIsEarned DEF TypeInv
  <1> QED
    BY <1>1, <1>2, <1>3, <1>4, PTL DEF Spec, OnlyTheSilentLose

-----------------------------------------------------------------------------
(***************************************************************************)
(* The fences of a leased phone (PhysicalDeviceFence) hold for any Rooms,  *)
(* commands, leases and number of restarts of the application.             *)
(*                                                                         *)
(* The argument.  A writer's intent outlives its process, its lease and    *)
(* its child, so that at most one writer is unresolved (Writing), and a    *)
(* proof begins only when there is none and lets none begin while it       *)
(* stands (Gating).  Only leases tell the commands of two Rooms apart: an  *)
(* id is given to one Room, once, and a Room has one command under way     *)
(* (Leasing).  A command that still holds its lease has therefore been     *)
(* alone since it asked the fences (Alone).                                *)
(***************************************************************************)

CONSTANTS Ops, KindOf, RoomFor, MaxLeases, MaxStarts

VARIABLES held, granted, boot, intents, gate, op, child, app, writes, receipt, looked, revision, published

F == INSTANCE PhysicalDeviceFence WITH lease <- held, seen <- looked

\* A proof of the running process stands.
Current == gate # None /\ gate.boot = boot

At(o, states) == op[o].at \in states

UnderWay(o) == op[o].at \in F!Busy

\* A child lives only under an intent, and there is one intent.  The state of a
\* command tells what it is and whether its intent is there.
Writing ==
    /\ child \subseteq intents
    /\ \A i, j \in intents : i = j
    /\ \A o \in Ops :
          /\ o \in intents => KindOf[o] \in F!Writers
          /\ At(o, {"fenced"}) => o \in intents /\ o \notin child
          /\ At(o, {"running"}) => o \in intents
          /\ At(o, {"evidence", "recorded"}) => KindOf[o] = "tracked"
          /\ At(o, {"proving", "proved"}) => KindOf[o] = "accept"

\* While a proof stands no writer is unresolved, the proof is the one that its gate
\* names, and nothing was written since it looked.
Gating ==
    /\ gate # None => gate.boot <= boot
    /\ Current => /\ intents = {}
                  /\ At(gate.op, {"proving", "proved"})
                  /\ gate.lease = op[gate.op].lease
    /\ \A o \in Ops : At(o, {"proved"}) /\ gate = F!Row(o) => looked[o].writes = writes

\* A Room has one command under way, and the lease it works under was given to that
\* Room.
Leasing ==
    /\ held # None => held.id <= granted
    /\ \A o \in Ops : UnderWay(o) => op[o].lease <= granted
    /\ \A o \in Ops : UnderWay(o) /\ F!Holds(o) => held.room = RoomFor[o]
    /\ \A o, p \in Ops : UnderWay(o) /\ UnderWay(p) =>
          /\ op[o].lease = op[p].lease => RoomFor[o] = RoomFor[p]
          /\ RoomFor[o] = RoomFor[p] => o = p

\* Whoever installed and still holds its lease is alone at the phone.  The tracked
\* install is what is on the phone, and under the lease of the command that
\* recorded it or of the proof that asked for it.
Alone ==
    /\ \A o \in Ops : At(o, {"evidence", "recorded"}) /\ F!Holds(o) => intents = {} /\ ~Current
    /\ receipt # None => app = receipt.app /\ \A c \in child : KindOf[c] = "drive"
    /\ receipt # None => \A o \in Ops :
          /\ At(o, {"recorded"}) /\ receipt.app = o => receipt.lease = op[o].lease
          /\ UnderWay(o) /\ KindOf[o] = "accept" /\ (F!Holds(o) \/ gate = F!Row(o))
                => receipt.lease = op[o].lease

IInv == F!TypeOK /\ Writing /\ Gating /\ Leasing /\ Alone

-----------------------------------------------------------------------------
(* Types *)

LEMMA MovesTo ==
    ASSUME F!FenceAssumption, F!TypeOK, NEW o \in Ops, NEW at, F!Moves(o, at),
           at \in F!Busy \cup {"over"}
    PROVE  /\ op' \in [Ops -> [at: F!Busy \cup {"idle", "over"}, lease: F!LeaseIds]]
           /\ \A p \in Ops \ {o} : op'[p] = op[p]
           /\ op'[o].at = at
           /\ at # "over" => op'[o].lease = op[o].lease
<1>1. op \in [Ops -> [at: F!Busy \cup {"idle", "over"}, lease: F!LeaseIds]] /\ 0 \in F!LeaseIds
  BY DEF F!TypeOK, F!FenceAssumption, F!LeaseIds
<1>2. CASE at = "over"
  <2>1. F!Over \in [at: F!Busy \cup {"idle", "over"}, lease: F!LeaseIds] /\ F!Over.at = "over"
    BY <1>1 DEF F!Over
  <2> QED
    BY <1>1, <1>2, <2>1 DEF F!Moves
<1>3. CASE at # "over"
  <2>1. op[o] \in [at: F!Busy \cup {"idle", "over"}, lease: F!LeaseIds]
    BY <1>1
  <2>2. /\ [op[o] EXCEPT !.at = at] \in [at: F!Busy \cup {"idle", "over"}, lease: F!LeaseIds]
        /\ [op[o] EXCEPT !.at = at].at = at
        /\ [op[o] EXCEPT !.at = at].lease = op[o].lease
    BY <2>1
  <2> QED
    BY <1>1, <1>3, <2>2 DEF F!Moves
<1> QED
  BY <1>2, <1>3

LEMMA TypeInit == F!FenceAssumption /\ F!Init => F!TypeOK
BY DEF F!FenceAssumption, F!Init, F!TypeOK, F!Idle, F!LeaseIds

LEMMA TypeStep ==
    ASSUME F!FenceAssumption, F!TypeOK, [F!Next]_(F!vars)
    PROVE  F!TypeOK'
<1>a. 0 \in F!LeaseIds /\ MaxLeases \in Nat /\ MaxStarts \in Nat
  BY DEF F!FenceAssumption, F!LeaseIds
<1>b. {"captured", "fenced", "running", "evidence", "recorded", "proving", "proved"} = F!Busy
  BY DEF F!Busy
<1>1. CASE UNCHANGED F!vars
  BY <1>1 DEF F!vars, F!broker, F!fence, F!phone, F!report, F!TypeOK
<1>2. ASSUME NEW r \in Rooms, NEW purpose \in {"development", "acceptance"}, F!LeaseGranted(r, purpose)
      PROVE  F!TypeOK'
  BY <1>2, <1>a DEF F!LeaseGranted, F!fence, F!phone, F!report, F!TypeOK, F!LeaseIds, F!Leases
<1>3. CASE F!LeaseClosed
  BY <1>3 DEF F!LeaseClosed, F!fence, F!phone, F!report, F!TypeOK
<1>4. ASSUME NEW certain \in BOOLEAN, F!Start(certain)
      PROVE  F!TypeOK'
  <2>1. op' \in [Ops -> [at: F!Busy \cup {"idle", "over"}, lease: F!LeaseIds]]
    BY <1>4, <1>a DEF F!Start, F!Interrupted, F!Over, F!TypeOK
  <2>2. boot' \in 0..MaxStarts /\ gate' \in F!Gates \cup {None}
    BY <1>4, <1>a DEF F!Start, F!TypeOK
  <2> QED
    BY <1>4, <2>1, <2>2 DEF F!Start, F!broker, F!phone, F!report, F!TypeOK
<1>5. ASSUME NEW r \in Rooms, F!RoomChanges(r)
      PROVE  F!TypeOK'
  BY <1>5 DEF F!RoomChanges, F!broker, F!fence, F!phone, F!report, F!TypeOK
<1>6. ASSUME NEW o \in Ops, F!Capture(o)
      PROVE  F!TypeOK'
  <2>1. [at |-> "captured", lease |-> held.id] \in [at: F!Busy \cup {"idle", "over"}, lease: F!LeaseIds]
    BY <1>6, <1>b DEF F!Capture, F!TypeOK, F!Leases
  <2>2. RoomFor[o] \in Rooms
    BY DEF F!FenceAssumption
  <2>3. op' \in [Ops -> [at: F!Busy \cup {"idle", "over"}, lease: F!LeaseIds]]
    BY <1>6, <2>1 DEF F!Capture, F!TypeOK
  <2>4. looked' \in [Ops -> [writes: SUBSET Ops, revision: 0..1]]
    BY <1>6, <2>2 DEF F!Capture, F!TypeOK
  <2> QED
    BY <1>6, <2>3, <2>4 DEF F!Capture, F!broker, F!fence, F!phone, F!TypeOK
<1>7. ASSUME NEW o \in Ops, NEW certain \in BOOLEAN, F!BeginWrite(o, certain)
      PROVE  F!TypeOK'
  <2>1. op' \in [Ops -> [at: F!Busy \cup {"idle", "over"}, lease: F!LeaseIds]]
    BY <1>7, <1>b, MovesTo DEF F!BeginWrite
  <2>2. intents' \in SUBSET Ops /\ gate' \in F!Gates \cup {None}
    BY <1>7 DEF F!BeginWrite, F!GateAfter, F!fence, F!TypeOK
  <2> QED
    BY <1>7, <2>1, <2>2 DEF F!BeginWrite, F!broker, F!phone, F!report, F!TypeOK
<1>8. ASSUME NEW o \in Ops, F!Spawn(o)
      PROVE  F!TypeOK'
  <2>1. op' \in [Ops -> [at: F!Busy \cup {"idle", "over"}, lease: F!LeaseIds]]
    BY <1>8, <1>b, MovesTo DEF F!Spawn
  <2> QED
    BY <1>8, <2>1 DEF F!Spawn, F!Revoked, F!broker, F!phone, F!report, F!TypeOK
<1>9. ASSUME NEW o \in Ops, F!ChildWrites(o) \/ F!ChildCloses(o)
      PROVE  F!TypeOK'
  BY <1>9 DEF F!ChildWrites, F!ChildCloses, F!broker, F!fence, F!phone, F!report, F!TypeOK
<1>10. ASSUME NEW o \in Ops, F!FinishWrite(o)
       PROVE  F!TypeOK'
  <2>1. op' \in [Ops -> [at: F!Busy \cup {"idle", "over"}, lease: F!LeaseIds]]
    BY <1>10, <1>b, MovesTo DEF F!FinishWrite
  <2> QED
    BY <1>10, <2>1 DEF F!FinishWrite, F!broker, F!phone, F!report, F!TypeOK
<1>11. ASSUME NEW o \in Ops, F!Record(o)
       PROVE  F!TypeOK'
  <2>1. op' \in [Ops -> [at: F!Busy \cup {"idle", "over"}, lease: F!LeaseIds]]
    BY <1>11, <1>b, MovesTo DEF F!Record
  <2>2. op[o].lease \in F!LeaseIds
    BY DEF F!TypeOK
  <2>3. receipt' \in F!Receipts \cup {None}
    BY <1>11, <2>2 DEF F!Record, F!TypeOK, F!Receipts
  <2> QED
    BY <1>11, <2>1, <2>3 DEF F!Record, F!broker, F!fence, F!phone, F!report, F!TypeOK
<1>12. ASSUME NEW o \in Ops, F!Confirm(o)
       PROVE  F!TypeOK'
  <2>1. op' \in [Ops -> [at: F!Busy \cup {"idle", "over"}, lease: F!LeaseIds]]
    BY <1>12, <1>b, MovesTo DEF F!Confirm
  <2> QED
    BY <1>12, <2>1 DEF F!Confirm, F!broker, F!fence, F!phone, F!report, F!TypeOK
<1>13. ASSUME NEW o \in Ops, NEW certain \in BOOLEAN, F!BeginProof(o, certain)
       PROVE  F!TypeOK'
  <2>1. op' \in [Ops -> [at: F!Busy \cup {"idle", "over"}, lease: F!LeaseIds]]
    BY <1>13, <1>b, MovesTo DEF F!BeginProof
  <2>2. F!Row(o) \in F!Gates
    BY DEF F!Row, F!Gates, F!TypeOK
  <2> QED
    BY <1>13, <2>1, <2>2 DEF F!BeginProof, F!broker, F!phone, F!report, F!TypeOK
<1>14. ASSUME NEW o \in Ops, F!FirstProof(o)
       PROVE  F!TypeOK'
  <2>1. op' \in [Ops -> [at: F!Busy \cup {"idle", "over"}, lease: F!LeaseIds]]
    BY <1>14, <1>b, MovesTo DEF F!FirstProof
  <2>2. looked' \in [Ops -> [writes: SUBSET Ops, revision: 0..1]]
    BY <1>14 DEF F!FirstProof, F!TypeOK
  <2> QED
    BY <1>14, <2>1, <2>2 DEF F!FirstProof, F!broker, F!fence, F!phone, F!TypeOK
<1>15. ASSUME NEW o \in Ops, F!ProofFails(o)
       PROVE  F!TypeOK'
  <2>1. op' \in [Ops -> [at: F!Busy \cup {"idle", "over"}, lease: F!LeaseIds]]
    BY <1>15, <1>b, MovesTo DEF F!ProofFails
  <2> QED
    BY <1>15, <2>1 DEF F!ProofFails, F!ReleasedGate, F!broker, F!phone, F!report, F!TypeOK
<1>16. ASSUME NEW o \in Ops, F!Publish(o)
       PROVE  F!TypeOK'
  <2>1. op' \in [Ops -> [at: F!Busy \cup {"idle", "over"}, lease: F!LeaseIds]]
    BY <1>16, <1>b, MovesTo DEF F!Publish
  <2>2. published' \in SUBSET [op: Ops, whole: BOOLEAN]
    <3>1. (writes = looked[o].writes) \in BOOLEAN
      OBVIOUS
    <3>2. [op |-> o, whole |-> writes = looked[o].writes] \in [op: Ops, whole: BOOLEAN]
      BY <3>1, Zenon
    <3> QED
      BY <1>16, <3>2 DEF F!Publish, F!TypeOK
  <2> QED
    BY <1>16, <2>1, <2>2 DEF F!Publish, F!broker, F!phone, F!report, F!TypeOK
<1> QED
  BY <1>1, <1>2, <1>3, <1>4, <1>5, <1>6, <1>7, <1>8, <1>9, <1>10, <1>11, <1>12, <1>13, <1>14, <1>15,
     <1>16 DEF F!Next, F!World, F!Command

-----------------------------------------------------------------------------
(* Writers *)

LEMMA WritingStep ==
    ASSUME F!FenceAssumption, F!TypeOK, Writing, [F!Next]_(F!vars)
    PROVE  Writing'
<1>a. intents \in SUBSET Ops /\ child \in SUBSET Ops
  BY DEF F!TypeOK
<1>b. {"captured", "fenced", "running", "evidence", "recorded", "proving", "proved"} = F!Busy
  BY DEF F!Busy
<1>1. ASSUME child' \subseteq child, UNCHANGED <<intents, op>>
      PROVE  Writing'
  BY <1>1 DEF Writing, At
<1>2. ASSUME NEW certain \in BOOLEAN, F!Start(certain)
      PROVE  Writing'
  <2>1. \A o \in Ops : (op'[o] = op[o] /\ op[o].at \notin F!Busy) \/ op'[o].at = "over"
    BY <1>2 DEF F!Start, F!Interrupted, F!Over, F!TypeOK
  <2>2. UNCHANGED <<intents, child>>
    BY <1>2 DEF F!Start
  <2> QED
    BY <1>b, <2>1, <2>2 DEF Writing, At
<1>3. ASSUME NEW o \in Ops, NEW at \in F!Busy \cup {"over"}, F!Moves(o, at), UNCHANGED <<intents, child>>,
             ~At(o, {"fenced", "running"}), at \notin {"fenced", "running"},
             at \in {"evidence", "recorded"} => KindOf[o] = "tracked",
             at \in {"proving", "proved"} => KindOf[o] = "accept"
      PROVE  Writing'
  <2>1. (\A p \in Ops \ {o} : op'[p] = op[p]) /\ op'[o].at = at
    BY <1>3, MovesTo
  <2> QED
    BY <1>3, <2>1 DEF Writing, At
<1>4. ASSUME NEW o \in Ops, F!Capture(o)
      PROVE  Writing'
  <2>1. (\A p \in Ops \ {o} : op'[p] = op[p]) /\ op'[o].at = "captured"
    BY <1>4 DEF F!Capture, F!TypeOK
  <2> QED
    BY <1>4, <2>1 DEF F!Capture, F!fence, Writing, At
<1>5. ASSUME NEW o \in Ops, NEW certain \in BOOLEAN, F!BeginWrite(o, certain)
      PROVE  Writing'
  <2>1. CASE F!MayWrite(o, certain)
    <3>1. (\A p \in Ops \ {o} : op'[p] = op[p]) /\ op'[o].at = "fenced"
      BY <1>5, <1>b, <2>1, MovesTo DEF F!BeginWrite
    <3>2. intents = {} /\ intents' = {o} /\ child' = child /\ KindOf[o] \in F!Writers
      BY <1>5, <2>1 DEF F!BeginWrite, F!MayWrite, F!Unresolved
    <3> QED
      BY <3>1, <3>2 DEF Writing, At
  <2>2. CASE ~F!MayWrite(o, certain)
    <3>1. F!Moves(o, "over") /\ UNCHANGED <<intents, child>> /\ ~At(o, {"fenced", "running"})
      BY <1>5, <2>2 DEF F!BeginWrite, F!fence, At
    <3> QED
      BY <1>3, <3>1
  <2> QED
    BY <2>1, <2>2
<1>6. ASSUME NEW o \in Ops, F!Spawn(o)
      PROVE  Writing'
  <2>1. PICK at \in {"running", "over"} : F!Moves(o, at) /\ (at = "running" <=> F!Holds(o))
    BY <1>6 DEF F!Spawn
  <2>2. (\A p \in Ops \ {o} : op'[p] = op[p]) /\ op'[o].at = at
    BY <1>b, <2>1, MovesTo
  <2>3. o \in intents /\ o \notin child
    BY <1>6 DEF F!Spawn, Writing, At
  <2>4. \/ intents' = intents /\ child' = child \cup {o} /\ at = "running"
        \/ intents' = intents \ {o} /\ child' = child /\ at = "over"
    BY <1>6, <2>1 DEF F!Spawn
  <2> QED
    BY <2>2, <2>3, <2>4 DEF Writing, At
<1>7. ASSUME NEW o \in Ops, F!FinishWrite(o)
      PROVE  Writing'
  <2>1. PICK at \in {"evidence", "over"} :
           F!Moves(o, at) /\ (at = "evidence" => KindOf[o] = "tracked")
    BY <1>7 DEF F!FinishWrite
  <2>2. (\A p \in Ops \ {o} : op'[p] = op[p]) /\ op'[o].at = at
    BY <1>b, <2>1, MovesTo
  <2>3. o \notin child /\ o \in intents
    BY <1>7 DEF F!FinishWrite, Writing, At
  <2>4. intents' = intents \ {o} /\ child' = child
    BY <1>7 DEF F!FinishWrite
  <2> QED
    BY <2>1, <2>2, <2>3, <2>4 DEF Writing, At
<1>8. ASSUME NEW o \in Ops, F!Record(o) \/ F!Confirm(o)
      PROVE  Writing'
  <2>1. PICK at \in {"recorded", "over"} : F!Moves(o, at)
    BY <1>8 DEF F!Record, F!Confirm
  <2>2. UNCHANGED <<intents, child>> /\ At(o, {"evidence", "recorded"})
    BY <1>8 DEF F!Record, F!Confirm, F!fence, At
  <2>3. KindOf[o] = "tracked" /\ ~At(o, {"fenced", "running"})
    BY <2>2 DEF Writing, At
  <2> QED
    BY <1>3, <1>b, <2>1, <2>2, <2>3
<1>9. ASSUME NEW o \in Ops, NEW certain \in BOOLEAN,
             F!BeginProof(o, certain) \/ F!FirstProof(o) \/ F!ProofFails(o) \/ F!Publish(o)
      PROVE  Writing'
  <2>1. PICK at \in {"proving", "proved", "over"} : F!Moves(o, at)
    BY <1>9 DEF F!BeginProof, F!FirstProof, F!ProofFails, F!Publish
  <2>2. UNCHANGED <<intents, child>> /\ KindOf[o] = "accept" /\ ~At(o, {"fenced", "running"})
    BY <1>9 DEF F!BeginProof, F!FirstProof, F!ProofFails, F!Publish, F!fence, Writing, At
  <2> QED
    BY <1>3, <1>b, <2>1, <2>2
<1>10. ASSUME NEW o \in Ops, F!ChildWrites(o) \/ F!ChildCloses(o)
       PROVE  Writing'
  BY <1>1, <1>10 DEF F!ChildWrites, F!ChildCloses, F!fence
<1>11. CASE UNCHANGED F!vars \/ F!LeaseClosed \/ (\E r \in Rooms : F!RoomChanges(r))
              \/ \E r \in Rooms, purpose \in {"development", "acceptance"} : F!LeaseGranted(r, purpose)
  BY <1>1, <1>11 DEF F!vars, F!LeaseClosed, F!RoomChanges, F!LeaseGranted, F!fence
<1> QED
  BY <1>2, <1>4, <1>5, <1>6, <1>7, <1>8, <1>9, <1>10, <1>11 DEF F!Next, F!World, F!Command

-----------------------------------------------------------------------------
(* Proofs *)

\* A step that leaves gate, process, intents and the command of the gate alone
\* keeps what the gate says.
LEMMA GatingKept ==
    ASSUME F!FenceAssumption, F!TypeOK, Gating, UNCHANGED <<gate, boot, writes>>,
           Current => intents' = {} /\ op'[gate.op] = op[gate.op],
           \A o \in Ops : At(o, {"proved"})' => op'[o] = op[o] /\ looked'[o] = looked[o]
    PROVE  Gating'
<1>1. (gate # None => gate.boot <= boot)'
  BY DEF Gating
<1>2. (Current => /\ intents = {}
                  /\ At(gate.op, {"proving", "proved"})
                  /\ gate.lease = op[gate.op].lease)'
  BY DEF Gating, Current, At
<1>3. \A o \in Ops : At(o, {"proved"})' /\ gate' = F!Row(o)' => looked'[o].writes = writes'
  BY DEF Gating, At, F!Row
<1> QED
  BY <1>1, <1>2, <1>3 DEF Gating

LEMMA GatingStep ==
    ASSUME F!FenceAssumption, F!TypeOK, Writing, Gating, [F!Next]_(F!vars)
    PROVE  Gating'
<1>a. /\ intents \in SUBSET Ops /\ child \in SUBSET Ops /\ boot \in Nat /\ gate \in F!Gates \cup {None}
      /\ None \notin F!Gates
      /\ \A o \in Ops : F!Row(o) \in F!Gates /\ F!Row(o).op = o /\ F!Row(o).boot = boot /\ F!Row(o).lease = op[o].lease
  BY DEF F!TypeOK, F!FenceAssumption, F!Row, F!Gates
<1>b. {"captured", "fenced", "running", "evidence", "recorded", "proving", "proved"} = F!Busy
  BY DEF F!Busy
<1>c. Current => gate.op \in Ops /\ ~At(gate.op, {"idle", "captured", "fenced", "running", "evidence", "recorded", "over"})
  BY <1>a DEF Current, Gating, F!Gates, At
\* Commands that are no proof move.
<1>1. ASSUME NEW o \in Ops, NEW at \in F!Busy \cup {"over"}, F!Moves(o, at), UNCHANGED <<gate, boot, writes, looked>>,
             ~At(o, {"proving", "proved"}), at \notin {"proving", "proved"},
             Current => intents' = {}
      PROVE  Gating'
  <2>1. (\A p \in Ops \ {o} : op'[p] = op[p]) /\ op'[o].at = at
    BY <1>1, MovesTo
  <2>2. Current => gate.op # o
    BY <1>1 DEF Gating, At
  <2> QED
    BY <1>1, <1>c, <2>1, <2>2, GatingKept DEF At
<1>2. ASSUME NEW certain \in BOOLEAN, F!Start(certain)
      PROVE  Gating'
  <2>1. \A o \in Ops : op'[o].at # "proved"
    BY <1>2, <1>b DEF F!Start, F!Interrupted, F!Over, F!TypeOK
  <2>2. boot' = boot + 1 /\ gate' \in {gate, None} /\ boot < boot'
    BY <1>2, <1>a DEF F!Start
  <2>3. gate' # None => gate'.boot <= boot /\ gate'.boot \in Nat
    BY <1>a, <2>2 DEF Gating, F!Gates
  <2> QED
    BY <1>a, <2>1, <2>2, <2>3 DEF Gating, Current, At
<1>3. ASSUME NEW o \in Ops, F!Capture(o)
      PROVE  Gating'
  <2>1. (\A p \in Ops \ {o} : op'[p] = op[p] /\ looked'[p] = looked[p]) /\ op'[o].at = "captured"
    BY <1>3 DEF F!Capture, F!TypeOK
  <2>2. At(o, {"idle"}) /\ UNCHANGED <<gate, boot, writes, intents>>
    BY <1>3 DEF F!Capture, At, F!fence, F!phone
  <2>3. Current => gate.op # o /\ intents = {}
    BY <1>c, <2>2 DEF At, Gating
  <2> QED
    BY <1>c, <2>1, <2>2, <2>3, GatingKept DEF At
<1>4. ASSUME NEW o \in Ops, NEW certain \in BOOLEAN, F!BeginWrite(o, certain)
      PROVE  Gating'
  <2>0. At(o, {"captured"}) /\ UNCHANGED <<boot, writes, looked, child>>
    BY <1>4 DEF F!BeginWrite, At, F!phone, F!report
  <2>1. CASE F!MayWrite(o, certain)
    <3>1. F!GateAfter(certain) = None /\ gate' = None /\ F!Moves(o, "fenced")
      BY <1>4, <2>1 DEF F!BeginWrite, F!MayWrite
    <3>2. F!TypeOK'
      BY TypeStep
    <3>3. \A p \in Ops : F!Row(p)' # None
      BY <1>a, <3>2 DEF F!Row, F!Gates, F!TypeOK
    <3> QED
      BY <3>1, <3>3 DEF Gating, Current
  <2>2. CASE ~F!MayWrite(o, certain)
    <3>1. F!Moves(o, "over") /\ UNCHANGED <<gate, intents>>
      BY <1>4, <2>2 DEF F!BeginWrite, F!fence
    <3> QED
      BY <1>1, <2>0, <3>1 DEF At, Gating
  <2> QED
    BY <2>1, <2>2
<1>5. ASSUME NEW o \in Ops, F!Spawn(o) \/ F!FinishWrite(o) \/ F!Record(o) \/ F!Confirm(o)
      PROVE  Gating'
  <2>1. PICK at \in {"running", "evidence", "recorded", "over"} : F!Moves(o, at)
    BY <1>5 DEF F!Spawn, F!FinishWrite, F!Record, F!Confirm
  <2>2. ~At(o, {"proving", "proved"}) /\ UNCHANGED <<gate, boot, writes, looked>>
    BY <1>5 DEF F!Spawn, F!FinishWrite, F!Record, F!Confirm, At, F!fence, F!phone, F!report
  <2>3. intents' \subseteq intents
    BY <1>5 DEF F!Spawn, F!FinishWrite, F!Record, F!Confirm, F!fence
  <2> QED
    BY <1>1, <1>b, <2>1, <2>2, <2>3 DEF Gating
<1>6. ASSUME NEW o \in Ops, F!ChildWrites(o)
      PROVE  Gating'
  <2>1. ~Current
    BY <1>6 DEF F!ChildWrites, Gating, Writing
  <2>2. UNCHANGED <<gate, boot, op, looked, intents>>
    BY <1>6 DEF F!ChildWrites, F!fence, F!report
  <2>3. \A o1 \in Ops : gate # F!Row(o1)
    BY <1>a, <2>1 DEF Current
  <2> QED
    BY <2>1, <2>2, <2>3 DEF Gating, Current, F!Row
<1>7. ASSUME NEW o \in Ops, NEW certain \in BOOLEAN, F!BeginProof(o, certain)
      PROVE  Gating'
  <2>0. KindOf[o] = "accept" /\ At(o, {"captured"}) /\ UNCHANGED <<boot, writes, looked, intents>>
    BY <1>7 DEF F!BeginProof, At, F!phone, F!report
  <2>1. CASE gate' = gate /\ F!Moves(o, "over")
    BY <1>1, <2>0, <2>1 DEF At, Gating
  <2>2. CASE /\ gate' = F!Row(o) /\ F!Moves(o, "proving")
             /\ F!Unresolved = {}
    <3>1. (\A p \in Ops \ {o} : op'[p] = op[p]) /\ op'[o].at = "proving" /\ op'[o].lease = op[o].lease
      BY <1>b, <2>2, MovesTo
    <3>2. \A p \in Ops \ {o} : F!Row(p)' # gate'
      BY <1>a, <2>0, <2>2, <3>1 DEF F!Row
    <3> QED
      BY <1>a, <2>0, <2>2, <3>1, <3>2 DEF Gating, Current, At, F!Unresolved
  <2> QED
    BY <1>7, <2>1, <2>2 DEF F!BeginProof
<1>8. ASSUME NEW o \in Ops, F!FirstProof(o)
      PROVE  Gating'
  <2>0. At(o, {"proving"}) /\ UNCHANGED <<boot, writes, gate, intents>> /\ F!Gated(o)
    BY <1>8 DEF F!FirstProof, At, F!fence, F!phone
  <2>1. (\A p \in Ops \ {o} : op'[p] = op[p]) /\ op'[o].at = "proved" /\ op'[o].lease = op[o].lease
    BY <1>8, <1>b, MovesTo DEF F!FirstProof
  <2>2. (\A p \in Ops \ {o} : looked'[p] = looked[p]) /\ looked'[o].writes = writes
    BY <1>8 DEF F!FirstProof, F!TypeOK
  <2>3. Current /\ gate.op = o
    BY <1>a, <2>0 DEF F!Gated, Current
  <2>4. \A p \in Ops \ {o} : F!Row(p)' # gate'
    BY <1>a, <2>0, <2>1, <2>3 DEF F!Row
  <2> QED
    BY <1>a, <2>0, <2>1, <2>2, <2>3, <2>4 DEF Gating, Current, At
<1>9. ASSUME NEW o \in Ops, F!ProofFails(o) \/ F!Publish(o)
      PROVE  Gating'
  <2>0. At(o, {"proving", "proved"}) /\ F!Moves(o, "over") /\ UNCHANGED <<boot, writes, intents, looked>>
    BY <1>9 DEF F!ProofFails, F!Publish, At, F!phone, F!report
  <2>1. (\A p \in Ops \ {o} : op'[p] = op[p]) /\ op'[o].at = "over"
    BY <2>0, MovesTo
  <2>2. gate' = None \/ (gate' = gate /\ gate # F!Row(o))
    BY <1>9 DEF F!ProofFails, F!Publish, F!ReleasedGate
  <2>3. CASE gate' = None
    BY <1>a, <2>0, <2>1, <2>3 DEF Gating, Current, At, F!Row
  <2>4. CASE gate' = gate /\ gate # F!Row(o)
    <3>1. Current => gate.op # o
      BY <1>a, <2>4 DEF Current, Gating, F!Gates, F!Row
    <3> QED
      BY <1>c, <2>0, <2>1, <2>4, <3>1, GatingKept DEF At, Gating
  <2> QED
    BY <2>2, <2>3, <2>4
<1>10. CASE UNCHANGED <<gate, boot, op, intents, writes, looked>>
  BY <1>10 DEF Gating, Current, At, F!Row
<1>11. UNCHANGED F!vars \/ F!LeaseClosed \/ (\E r \in Rooms : F!RoomChanges(r)) \/ (\E o \in Ops : F!ChildCloses(o))
              \/ (\E r \in Rooms, purpose \in {"development", "acceptance"} : F!LeaseGranted(r, purpose))
       => UNCHANGED <<gate, boot, op, intents, writes, looked>>
  BY DEF F!vars, F!LeaseClosed, F!RoomChanges, F!ChildCloses, F!LeaseGranted, F!fence, F!phone, F!report
<1> QED
  BY <1>2, <1>3, <1>4, <1>5, <1>6, <1>7, <1>8, <1>9, <1>10, <1>11 DEF F!Next, F!World, F!Command

-----------------------------------------------------------------------------
(* Leases *)

\* What goes on keeps its lease; nothing but a capture comes under way.
LEMMA LeasingKept ==
    ASSUME F!FenceAssumption, F!TypeOK, Leasing, UNCHANGED granted, held' \in {held, None},
           \A o \in Ops : UnderWay(o)' => UnderWay(o) /\ op'[o].lease = op[o].lease
    PROVE  Leasing'
<1>1. (held # None => held.id <= granted)'
  BY DEF Leasing
<1>2. \A o \in Ops : UnderWay(o)' => op'[o].lease <= granted'
  BY DEF Leasing
<1>3. \A o \in Ops : UnderWay(o)' /\ F!Holds(o)' => held'.room = RoomFor[o]
  BY DEF Leasing, F!Holds
<1>4. \A o, p \in Ops : UnderWay(o)' /\ UnderWay(p)' =>
          /\ op'[o].lease = op'[p].lease => RoomFor[o] = RoomFor[p]
          /\ RoomFor[o] = RoomFor[p] => o = p
  BY DEF Leasing
<1> QED
  BY <1>1, <1>2, <1>3, <1>4 DEF Leasing

\* A command that moves, moves under its lease or ends.
LEMMA MovesUnderWay ==
    ASSUME F!FenceAssumption, F!TypeOK, NEW o \in Ops, NEW at \in F!Busy \cup {"over"}, F!Moves(o, at),
           op[o].at \in F!Busy
    PROVE  \A p \in Ops : UnderWay(p)' => UnderWay(p) /\ op'[p].lease = op[p].lease
<1>1. /\ \A p \in Ops \ {o} : op'[p] = op[p]
      /\ op'[o].at = at
      /\ at # "over" => op'[o].lease = op[o].lease
  BY MovesTo
<1>2. "over" \notin F!Busy
  BY DEF F!Busy
<1> QED
  BY <1>1, <1>2 DEF UnderWay

LEMMA LeasingStep ==
    ASSUME F!FenceAssumption, F!TypeOK, Leasing, [F!Next]_(F!vars)
    PROVE  Leasing'
<1>a. granted \in Int /\ held \in F!Leases \cup {None} /\ None \notin F!Leases
  BY DEF F!TypeOK, F!FenceAssumption, F!LeaseIds
<1>b. {"captured", "fenced", "running", "evidence", "recorded", "proving", "proved"} = F!Busy
  BY DEF F!Busy
<1>c. \A o \in Ops : op[o].lease \in Int
  BY DEF F!TypeOK, F!LeaseIds, F!FenceAssumption
<1>1. ASSUME NEW o \in Ops, NEW at \in F!Busy \cup {"over"}, F!Moves(o, at), op[o].at \in F!Busy,
             UNCHANGED F!broker
      PROVE  Leasing'
  BY <1>1, MovesUnderWay, LeasingKept DEF F!broker
<1>2. ASSUME NEW r \in Rooms, NEW purpose \in {"development", "acceptance"}, F!LeaseGranted(r, purpose)
      PROVE  Leasing'
  <2>1. granted' = granted + 1 /\ op' = op
    BY <1>2 DEF F!LeaseGranted
  <2>2. held' # None /\ held'.id = granted + 1
    <3>1. granted' \in F!LeaseIds
      BY TypeStep DEF F!TypeOK
    <3> QED
      BY <1>2, <1>a, <2>1, <3>1 DEF F!LeaseGranted, F!Leases
  <2>3. \A o \in Ops : UnderWay(o) => op[o].lease <= granted /\ ~F!Holds(o)'
    BY <1>a, <1>c, <2>1, <2>2 DEF Leasing, F!Holds
  <2> QED
    BY <1>a, <1>c, <2>1, <2>2, <2>3 DEF Leasing, UnderWay
<1>3. ASSUME NEW certain \in BOOLEAN, F!Start(certain)
      PROVE  Leasing'
  <2>1. \A o \in Ops : ~UnderWay(o)'
    BY <1>3, <1>b DEF F!Start, F!Interrupted, F!Over, UnderWay, F!TypeOK
  <2> QED
    BY <1>3, <2>1, LeasingKept DEF F!Start, F!broker
<1>4. ASSUME NEW o \in Ops, F!Capture(o)
      PROVE  Leasing'
  <2>1. /\ \A p \in Ops \ {o} : op'[p] = op[p]
        /\ op'[o] = [at |-> "captured", lease |-> held.id]
    BY <1>4 DEF F!Capture, F!TypeOK
  <2>2. UNCHANGED <<held, granted>> /\ held # None /\ held.room = RoomFor[o]
    BY <1>4 DEF F!Capture, F!broker
  <2>3. \A p \in Ops \ {o} : UnderWay(p) => RoomFor[p] # RoomFor[o]
    BY <1>4 DEF F!Capture, F!Locked, UnderWay
  <2>4. \A p \in Ops \ {o} : UnderWay(p) => op[p].lease # held.id
    BY <2>2, <2>3 DEF Leasing, F!Holds
  <2> QED
    BY <2>1, <2>2, <2>3, <2>4 DEF Leasing, UnderWay, F!Holds
<1>5. ASSUME NEW o \in Ops, NEW certain \in BOOLEAN, F!BeginWrite(o, certain) \/ F!BeginProof(o, certain)
      PROVE  Leasing'
  <2>1. PICK at \in {"fenced", "proving", "over"} : F!Moves(o, at)
    BY <1>5 DEF F!BeginWrite, F!BeginProof
  <2>2. op[o].at \in F!Busy /\ UNCHANGED F!broker
    BY <1>5, <1>b DEF F!BeginWrite, F!BeginProof
  <2> QED
    BY <1>1, <1>b, <2>1, <2>2
<1>6. ASSUME NEW o \in Ops,
             F!Spawn(o) \/ F!FinishWrite(o) \/ F!Record(o) \/ F!Confirm(o) \/ F!FirstProof(o) \/ F!ProofFails(o)
             \/ F!Publish(o)
      PROVE  Leasing'
  <2>1. PICK at \in {"running", "evidence", "recorded", "proved", "over"} : F!Moves(o, at)
    BY <1>6 DEF F!Spawn, F!FinishWrite, F!Record, F!Confirm, F!FirstProof, F!ProofFails, F!Publish
  <2>2. op[o].at \in F!Busy /\ UNCHANGED F!broker
    BY <1>6, <1>b DEF F!Spawn, F!FinishWrite, F!Record, F!Confirm, F!FirstProof, F!ProofFails, F!Publish
  <2> QED
    BY <1>1, <1>b, <2>1, <2>2
<1>7. CASE UNCHANGED <<granted, op>> /\ held' \in {held, None}
  BY <1>7, LeasingKept DEF UnderWay
<1>8. UNCHANGED F!vars \/ F!LeaseClosed \/ (\E r \in Rooms : F!RoomChanges(r))
      \/ (\E o \in Ops : F!ChildCloses(o) \/ F!ChildWrites(o))
      => UNCHANGED <<granted, op>> /\ held' \in {held, None}
  BY DEF F!vars, F!LeaseClosed, F!RoomChanges, F!ChildCloses, F!ChildWrites, F!broker
<1> QED
  BY <1>2, <1>3, <1>4, <1>5, <1>6, <1>7, <1>8 DEF F!Next, F!World, F!Command

-----------------------------------------------------------------------------
(* Who installed is alone *)

\* Commands that hold the lease are one.
LEMMA OneHolds ==
    ASSUME Leasing, NEW o \in Ops, NEW p \in Ops, UnderWay(o), UnderWay(p), op[o].lease = op[p].lease
    PROVE  o = p
BY DEF Leasing

\* A command that moves has to answer for what it becomes; the others stay as they
\* were.
LEMMA AloneMove ==
    ASSUME F!FenceAssumption, F!TypeOK, Alone, NEW o \in Ops, NEW at \in F!Busy \cup {"over"}, F!Moves(o, at),
           UNCHANGED <<held, boot, app>>, intents' \subseteq intents, child' \subseteq child,
           gate' \in {gate, None}, receipt' \in {receipt, None}, op[o].at \in F!Busy,
           at \in {"evidence", "recorded"} /\ F!Holds(o) => intents' = {} /\ ~Current,
           receipt' # None /\ at = "recorded" => receipt.app # o
    PROVE  Alone'
<1>1. /\ \A p \in Ops \ {o} : op'[p] = op[p]
      /\ op'[o].at = at
      /\ at # "over" => op'[o].lease = op[o].lease
  BY MovesTo
<1>a. "over" \notin F!Busy
  BY DEF F!Busy
<1>2. \A p \in Ops : At(p, {"evidence", "recorded"})' /\ F!Holds(p)' => intents' = {} /\ ~Current'
  <2> SUFFICES ASSUME NEW p \in Ops, At(p, {"evidence", "recorded"})', F!Holds(p)'
               PROVE  intents' = {} /\ ~Current'
    OBVIOUS
  <2>1. ~Current => ~Current'
    BY DEF Current
  <2>2. CASE p # o
    BY <1>1, <2>1, <2>2 DEF Alone, At, F!Holds
  <2>3. CASE p = o
    BY <1>1, <2>1, <2>3 DEF At, F!Holds
  <2> QED
    BY <2>2, <2>3
<1>3. receipt' # None => app' = receipt'.app /\ \A c \in child' : KindOf[c] = "drive"
  BY DEF Alone
<1>4. receipt' # None => \A p \in Ops : At(p, {"recorded"})' /\ receipt'.app = p => receipt'.lease = op'[p].lease
  BY <1>1 DEF Alone, At
<1>5. receipt' # None => \A p \in Ops :
         UnderWay(p)' /\ KindOf[p] = "accept" /\ (F!Holds(p)' \/ gate' = F!Row(p)')
           => receipt'.lease = op'[p].lease
  <2> SUFFICES ASSUME receipt' # None, NEW p \in Ops, UnderWay(p)', KindOf[p] = "accept",
                      F!Holds(p)' \/ gate' = F!Row(p)'
               PROVE  receipt'.lease = op'[p].lease
    OBVIOUS
  <2>1. UnderWay(p) /\ op'[p].lease = op[p].lease
    BY <1>1, <1>a DEF UnderWay
  <2>2. F!Row(p)' = F!Row(p)
    BY <2>1 DEF F!Row
  <2>3. F!Row(p) # None
    BY DEF F!Row, F!Gates, F!TypeOK, F!FenceAssumption
  <2> QED
    BY <2>1, <2>2, <2>3 DEF Alone, F!Holds
<1> QED
  BY <1>2, <1>3, <1>4, <1>5 DEF Alone

LEMMA AloneStep ==
    ASSUME F!FenceAssumption, IInv, [F!Next]_(F!vars)
    PROVE  Alone'
<1> USE DEF IInv
<1>b. {"captured", "fenced", "running", "evidence", "recorded", "proving", "proved"} = F!Busy
  BY DEF F!Busy
<1>c. /\ None \notin F!Gates /\ None \notin F!Leases /\ None \notin F!Receipts
      /\ \A o \in Ops : F!Row(o) \in F!Gates /\ F!Row(o).op = o /\ F!Row(o).boot = boot /\ F!Row(o).lease = op[o].lease
  BY DEF F!FenceAssumption, F!TypeOK, F!Row, F!Gates
<1>1. ASSUME NEW r \in Rooms, NEW purpose \in {"development", "acceptance"}, F!LeaseGranted(r, purpose)
      PROVE  Alone'
  <2>1. UNCHANGED <<boot, intents, gate, op, child, app, receipt>> /\ granted' = granted + 1
    BY <1>1 DEF F!LeaseGranted, F!fence, F!phone
  <2>2. held'.id = granted + 1
    BY <1>1, <2>1 DEF F!LeaseGranted
  <2>3. \A o \in Ops : UnderWay(o) => ~F!Holds(o)'
    <3>1. granted \in Int /\ \A o \in Ops : op[o].lease \in Int
      BY DEF F!TypeOK, F!LeaseIds, F!FenceAssumption
    <3> QED
      BY <2>1, <2>2, <3>1 DEF Leasing, F!Holds
  <2> QED
    BY <1>b, <2>1, <2>3 DEF Alone, At, UnderWay, Current, F!Row
<1>2. CASE F!LeaseClosed
  <2>1. UNCHANGED <<boot, intents, gate, op, child, app, receipt>> /\ \A o \in Ops : ~F!Holds(o)'
    BY <1>2 DEF F!LeaseClosed, F!fence, F!phone, F!Holds
  <2> QED
    BY <2>1 DEF Alone, At, UnderWay, Current, F!Row
<1>3. ASSUME NEW certain \in BOOLEAN, F!Start(certain)
      PROVE  Alone'
  <2>1. \A o \in Ops : op'[o].at \notin F!Busy
    BY <1>3, <1>b DEF F!Start, F!Interrupted, F!Over, F!TypeOK
  <2>2. UNCHANGED <<app, child, receipt>>
    BY <1>3 DEF F!Start, F!phone
  <2> QED
    BY <1>b, <2>1, <2>2 DEF Alone, At, UnderWay
<1>4. ASSUME NEW o \in Ops, F!Capture(o)
      PROVE  Alone'
  <2>1. /\ \A p \in Ops \ {o} : op'[p] = op[p]
        /\ op'[o] = [at |-> "captured", lease |-> held.id]
    BY <1>4 DEF F!Capture, F!TypeOK
  <2>2. UNCHANGED <<held, boot, intents, gate, child, app, receipt>>
    BY <1>4 DEF F!Capture, F!broker, F!fence, F!phone
  <2>3. KindOf[o] = "accept" => receipt.lease = held.id
    BY <1>4 DEF F!Capture, F!MayProve
  <2> QED
    BY <2>1, <2>2, <2>3 DEF Alone, At, UnderWay, Current, F!Row, F!Holds
<1>5. ASSUME NEW o \in Ops, NEW certain \in BOOLEAN, F!BeginWrite(o, certain)
      PROVE  Alone'
  <2>0. /\ op[o].at = "captured" /\ KindOf[o] \in F!Writers /\ op[o].at \in F!Busy
        /\ UNCHANGED <<held, boot, app, child, receipt>>
    BY <1>5, <1>b DEF F!BeginWrite, F!broker, F!phone
  <2>1. CASE F!MayWrite(o, certain)
    <3>1. F!Holds(o) /\ gate' = None /\ F!Moves(o, "fenced")
      BY <1>5, <2>1 DEF F!BeginWrite, F!MayWrite
    <3>2. (\A p \in Ops \ {o} : op'[p] = op[p]) /\ op'[o].at = "fenced"
      BY <1>b, <3>1, MovesTo
    <3>3. \A p \in Ops : At(p, {"evidence", "recorded"}) => ~F!Holds(p)
      BY <1>b, <2>0, <3>1, OneHolds DEF At, F!Holds, UnderWay
    <3>4. \A p \in Ops : F!Row(p)' # None
      BY <1>c, TypeStep DEF F!Row, F!Gates, F!TypeOK
    <3>5. \A p \in Ops \ {o} : F!Holds(p)' = F!Holds(p)
      BY <2>0, <3>2 DEF F!Holds
    <3>6. KindOf[o] # "accept"
      BY <2>0 DEF F!Writers
    <3> QED
      BY <2>0, <3>1, <3>2, <3>3, <3>4, <3>5, <3>6 DEF Alone, At, UnderWay
  <2>2. CASE ~F!MayWrite(o, certain)
    <3>1. F!Moves(o, "over") /\ UNCHANGED <<intents, gate>>
      BY <1>5, <2>2 DEF F!BeginWrite, F!fence
    <3> QED
      BY <2>0, <3>1, AloneMove
  <2> QED
    BY <2>1, <2>2
<1>6. ASSUME NEW o \in Ops, F!Spawn(o)
      PROVE  Alone'
  <2>0. op[o].at \in F!Busy /\ UNCHANGED <<held, boot, app, gate>>
    BY <1>6, <1>b DEF F!Spawn, F!broker, F!phone
  <2>1. CASE F!Holds(o)
    <3>1. child' = child \cup {o} /\ F!Moves(o, "running") /\ UNCHANGED intents
      BY <1>6, <2>1 DEF F!Spawn
    <3>2. receipt' = None \/ (receipt' = receipt /\ KindOf[o] = "drive")
      BY <1>6, <2>1 DEF F!Spawn, F!Revoked
    <3>3. /\ \A p \in Ops \ {o} : op'[p] = op[p]
          /\ op'[o].at = "running" /\ op'[o].lease = op[o].lease
      BY <1>b, <3>1, MovesTo
    <3>4. \A p \in Ops \ {o} : F!Holds(p)' = F!Holds(p) /\ F!Row(p)' = F!Row(p)
      BY <2>0, <3>3 DEF F!Holds, F!Row
    <3>5. Current' = Current
      BY <2>0 DEF Current
    <3> QED
      BY <3>1, <3>2, <3>3, <3>4, <3>5, <2>0 DEF Alone, At, UnderWay
  <2>2. CASE ~F!Holds(o)
    <3>1. intents' = intents \ {o} /\ F!Moves(o, "over") /\ UNCHANGED <<child, receipt>>
      BY <1>6, <2>2 DEF F!Spawn
    <3> QED
      BY <2>0, <3>1, AloneMove
  <2> QED
    BY <2>1, <2>2
<1>7. ASSUME NEW o \in Ops, F!ChildWrites(o)
      PROVE  Alone'
  <2>1. receipt # None => app' = app
    BY <1>7 DEF F!ChildWrites, Alone
  <2>2. UNCHANGED <<held, boot, intents, gate, op, child, receipt>>
    BY <1>7 DEF F!ChildWrites, F!broker, F!fence
  <2> QED
    BY <2>1, <2>2 DEF Alone, At, UnderWay, Current, F!Row, F!Holds
<1>8. ASSUME NEW o \in Ops, F!FinishWrite(o)
      PROVE  Alone'
  <2>1. PICK at \in {"evidence", "over"} : F!Moves(o, at)
    BY <1>8 DEF F!FinishWrite
  <2>2. /\ op[o].at = "running" /\ intents' = intents \ {o}
        /\ UNCHANGED <<held, boot, gate, child, app, receipt>>
    BY <1>8 DEF F!FinishWrite, F!broker, F!phone
  <2>3. o \in intents
    BY <2>2 DEF Writing, At
  <2>4. intents' = {} /\ ~Current
    BY <2>2, <2>3 DEF Writing, Gating
  <2> QED
    BY <1>b, <2>1, <2>2, <2>4, AloneMove
<1>9. ASSUME NEW o \in Ops, F!Record(o)
      PROVE  Alone'
  <2>0. op[o].at = "evidence" /\ UNCHANGED <<held, boot, intents, gate, child, app>>
    BY <1>9 DEF F!Record, F!broker, F!fence, F!phone
  <2>1. CASE app = o /\ F!Authorized(o)
    <3>1. receipt' = [app |-> o, lease |-> op[o].lease] /\ F!Moves(o, "recorded") /\ F!Holds(o)
      BY <1>9, <2>1 DEF F!Record, F!Authorized
    <3>2. /\ \A p \in Ops \ {o} : op'[p] = op[p]
          /\ op'[o].at = "recorded" /\ op'[o].lease = op[o].lease
      BY <1>b, <3>1, MovesTo
    <3>3. intents = {} /\ child = {} /\ ~Current
      BY <2>0, <3>1 DEF Alone, At, Writing
    <3>4. KindOf[o] = "tracked" /\ UnderWay(o)
      BY <1>b, <2>0 DEF Writing, At, UnderWay
    <3>5. \A p \in Ops : F!Holds(p)' = F!Holds(p) /\ F!Row(p)' = F!Row(p)
      BY <2>0, <3>2 DEF F!Holds, F!Row
    <3>6. \A p \in Ops : gate # F!Row(p)
      BY <1>c, <3>3 DEF Current
    <3>7. \A p \in Ops : UnderWay(p) /\ F!Holds(p) => p = o
      BY <3>1, <3>4, OneHolds DEF F!Holds
    <3>8. \A p \in Ops : UnderWay(p)' /\ KindOf[p] = "accept" => ~F!Holds(p)' /\ gate' # F!Row(p)'
      BY <2>0, <3>2, <3>4, <3>5, <3>6, <3>7 DEF UnderWay
    <3>9. /\ \A p \in Ops : At(p, {"evidence", "recorded"})' /\ F!Holds(p)' => intents' = {} /\ ~Current'
          /\ receipt' # None => app' = receipt'.app /\ \A c \in child' : KindOf[c] = "drive"
          /\ \A p \in Ops : At(p, {"recorded"})' /\ receipt'.app = p => receipt'.lease = op'[p].lease
      BY <2>0, <2>1, <3>1, <3>2, <3>3 DEF Current
    <3> QED
      BY <3>8, <3>9 DEF Alone
  <2>2. CASE ~(app = o /\ F!Authorized(o))
    <3>1. receipt' = receipt /\ F!Moves(o, "over")
      BY <1>9, <2>2 DEF F!Record
    <3> QED
      BY <1>b, <2>0, <3>1, AloneMove
  <2> QED
    BY <2>1, <2>2
<1>10. ASSUME NEW o \in Ops, F!Confirm(o)
       PROVE  Alone'
  <2>1. /\ op[o].at = "recorded" /\ F!Moves(o, "over") /\ receipt' \in {receipt, None}
        /\ UNCHANGED <<held, boot, intents, gate, child, app>>
    BY <1>10 DEF F!Confirm, F!broker, F!fence, F!phone
  <2> QED
    BY <1>b, <2>1, AloneMove
<1>11. ASSUME NEW o \in Ops, NEW certain \in BOOLEAN, F!BeginProof(o, certain)
       PROVE  Alone'
  <2>0. /\ op[o].at = "captured" /\ KindOf[o] = "accept" /\ op[o].at \in F!Busy
        /\ UNCHANGED <<held, boot, intents, app, child, receipt>>
    BY <1>11, <1>b DEF F!BeginProof, F!broker, F!phone
  <2>1. CASE gate' = gate /\ F!Moves(o, "over")
    BY <2>0, <2>1, AloneMove
  <2>2. CASE F!Holds(o) /\ gate' = F!Row(o) /\ F!Moves(o, "proving")
    <3>1. /\ \A p \in Ops \ {o} : op'[p] = op[p]
          /\ op'[o].at = "proving" /\ op'[o].lease = op[o].lease
      BY <1>b, <2>2, MovesTo
    <3>2. \A p \in Ops : At(p, {"evidence", "recorded"}) => ~F!Holds(p)
      BY <1>b, <2>0, <2>2, OneHolds DEF At, F!Holds, UnderWay
    <3>3. \A p \in Ops : F!Holds(p)' = F!Holds(p) /\ F!Row(p)' = F!Row(p)
      BY <2>0, <3>1 DEF F!Holds, F!Row
    <3>4. \A p \in Ops \ {o} : gate' # F!Row(p)'
      BY <1>c, <2>2, <3>3
    <3>5. receipt # None => receipt.lease = op[o].lease
      BY <2>0, <2>2 DEF Alone, UnderWay
    <3> QED
      BY <2>0, <3>1, <3>2, <3>3, <3>4, <3>5 DEF Alone, At, UnderWay
  <2> QED
    BY <1>11, <2>1, <2>2 DEF F!BeginProof
<1>12. ASSUME NEW o \in Ops, F!FirstProof(o) \/ F!ProofFails(o) \/ F!Publish(o)
       PROVE  Alone'
  <2>1. PICK at \in {"proved", "over"} : F!Moves(o, at)
    BY <1>12 DEF F!FirstProof, F!ProofFails, F!Publish
  <2>2. /\ op[o].at \in F!Busy /\ gate' \in {gate, None}
        /\ UNCHANGED <<held, boot, intents, child, app, receipt>>
    BY <1>12, <1>b DEF F!FirstProof, F!ProofFails, F!Publish, F!ReleasedGate, F!broker, F!fence, F!phone
  <2> QED
    BY <1>b, <2>1, <2>2, AloneMove
<1>13. CASE UNCHANGED <<held, boot, intents, gate, op, app, receipt>> /\ child' \subseteq child
  BY <1>13 DEF Alone, At, UnderWay, Current, F!Row, F!Holds
<1>14. UNCHANGED F!vars \/ (\E r \in Rooms : F!RoomChanges(r)) \/ (\E o \in Ops : F!ChildCloses(o))
       => UNCHANGED <<held, boot, intents, gate, op, app, receipt>> /\ child' \subseteq child
  BY DEF F!vars, F!RoomChanges, F!ChildCloses, F!broker, F!fence, F!phone
<1> QED
  BY <1>1, <1>2, <1>3, <1>4, <1>5, <1>6, <1>7, <1>8, <1>9, <1>10, <1>11, <1>12, <1>13, <1>14
  DEF F!Next, F!World, F!Command

-----------------------------------------------------------------------------
(* The theorems *)

LEMMA InvInit == F!FenceAssumption /\ F!Init => IInv
<1> SUFFICES ASSUME F!FenceAssumption, F!Init
             PROVE  IInv
  OBVIOUS
<1>1. F!TypeOK
  BY TypeInit
<1>2. \A o \in Ops : op[o].at = "idle"
  BY DEF F!Init, F!Idle
<1>3. held = None /\ gate = None /\ receipt = None /\ intents = {} /\ child = {}
  BY DEF F!Init
<1>4. \A o \in Ops : F!Row(o) # None
  BY <1>1 DEF F!Row, F!Gates, F!TypeOK, F!FenceAssumption
<1> QED
  BY <1>1, <1>2, <1>3, <1>4 DEF IInv, Writing, Gating, Leasing, Alone, At, UnderWay, Current, F!Busy, F!Holds

LEMMA InvStep ==
    ASSUME F!FenceAssumption, IInv, [F!Next]_(F!vars)
    PROVE  IInv'
BY TypeStep, WritingStep, GatingStep, LeasingStep, AloneStep DEF IInv

LEMMA Invariance == ASSUME F!FenceAssumption PROVE F!Spec => []IInv
<1>1. F!Init => IInv
  BY InvInit
<1>2. IInv /\ [F!Next]_(F!vars) => IInv'
  BY InvStep
<1> QED
  BY <1>1, <1>2, PTL DEF F!Spec

\* Every variable of the phone has its type, for any numbers of Rooms, commands,
\* leases and restarts.
THEOREM FenceTypeCorrect == ASSUME F!FenceAssumption PROVE F!Spec => []F!TypeOK
<1>1. IInv => F!TypeOK
  BY DEF IInv
<1> QED
  BY <1>1, Invariance, PTL

\* beginPhysicalDeviceOperation: at most one adb writer lives, whatever became
\* of the leases and the processes that started it.
THEOREM OneWriterAtATime == ASSUME F!FenceAssumption PROVE F!Spec => []F!OneWriter
<1>1. IInv => F!OneWriter
  BY DEF F!OneWriter, IInv, Writing
<1> QED
  BY <1>1, Invariance, PTL

\* beginPhysicalAcceptanceProof: no adb writer lives while a proof of the running
\* process stands.
THEOREM NoWriterWhileProving == ASSUME F!FenceAssumption PROVE F!Spec => []F!NoWriterUnderProof
<1>1. IInv => F!NoWriterUnderProof
  BY DEF IInv, F!NoWriterUnderProof, Gating, Writing, Current
<1> QED
  BY <1>1, Invariance, PTL

\* installAndRecordAndroidArtifactLocked: the tracked install is what is on the
\* phone.
THEOREM InstallIsTracked == ASSUME F!FenceAssumption PROVE F!Spec => []F!ReceiptIsTrue
<1>1. IInv => F!ReceiptIsTrue
  BY DEF IInv, F!ReceiptIsTrue, Alone
<1> QED
  BY <1>1, Invariance, PTL

\* A published report says what was on the phone from its first read to its last.
THEOREM ReportsAreWhole == ASSUME F!FenceAssumption PROVE F!Spec => []F!PublishedUndisturbed
<1>1. F!Init => F!PublishedUndisturbed
  BY DEF F!Init, F!PublishedUndisturbed
<1>2. IInv /\ F!PublishedUndisturbed /\ [F!Next]_(F!vars) => F!PublishedUndisturbed'
  <2> SUFFICES ASSUME IInv, F!PublishedUndisturbed, [F!Next]_(F!vars)
               PROVE  F!PublishedUndisturbed'
    OBVIOUS
  <2>1. ASSUME NEW o \in Ops, F!Publish(o)
        PROVE  F!PublishedUndisturbed'
    <3>1. writes = looked[o].writes
      BY <2>1 DEF F!Publish, F!Gated, IInv, Gating, At
    <3>2. \A p \in published' : p \in published \/ p = [op |-> o, whole |-> writes = looked[o].writes]
      BY <2>1, Zenon DEF F!Publish
    <3>3. [op |-> o, whole |-> writes = looked[o].writes].whole = (writes = looked[o].writes)
      BY Zenon
    <3> QED
      BY <3>1, <3>2, <3>3, Zenon DEF F!PublishedUndisturbed
  <2>2. CASE UNCHANGED published
    BY <2>2 DEF F!PublishedUndisturbed
  <2> QED
    BY <2>1, <2>2 DEF F!Next, F!World, F!Command, F!vars, F!report, F!LeaseGranted, F!LeaseClosed, F!Start, F!RoomChanges,
       F!Capture, F!BeginWrite, F!Spawn, F!ChildWrites, F!ChildCloses, F!FinishWrite, F!Record, F!Confirm, F!BeginProof,
       F!FirstProof, F!ProofFails
<1> QED
  BY <1>1, <1>2, Invariance, PTL DEF F!Spec

\* While a proof stands no command touches the receipt that it is about: what the
\* fences refuse has no effect, and what they let in before is over.
THEOREM ProofsKeepReceipt == ASSUME F!FenceAssumption PROVE F!Spec => [][F!ProofKeepsReceipt]_(F!vars)
<1>1. IInv /\ [F!Next]_(F!vars) => [Current => receipt' = receipt]_(F!vars)
  <2> SUFFICES ASSUME IInv, [F!Next]_(F!vars), Current
               PROVE  receipt' = receipt
    OBVIOUS
  <2> USE DEF IInv
  <2>a. {"captured", "fenced", "running", "evidence", "recorded", "proving", "proved"} = F!Busy
    BY DEF F!Busy
  <2>1. intents = {} /\ At(gate.op, {"proving", "proved"}) /\ gate.lease = op[gate.op].lease
    BY DEF Gating
  <2>2. gate.op \in Ops /\ gate = F!Row(gate.op)
    BY <2>1 DEF F!TypeOK, F!Gates, Current, F!Row
  <2>3. ASSUME NEW o \in Ops, F!Spawn(o)
        PROVE  receipt' = receipt
    BY <2>1, <2>3 DEF F!Spawn, Writing, At
  <2>4. ASSUME NEW o \in Ops, F!Record(o)
        PROVE  receipt' = receipt
    BY <2>4 DEF F!Record, Alone, At, F!Authorized
  <2>5. ASSUME NEW o \in Ops, F!Confirm(o)
        PROVE  receipt' = receipt
    <3> SUFFICES ASSUME receipt # None, receipt.app = o
                 PROVE  FALSE
      BY <2>5 DEF F!Confirm
    <3>1. At(o, {"recorded"}) /\ UnderWay(o)
      BY <2>5, <2>a DEF F!Confirm, At, UnderWay
    <3>2. UnderWay(gate.op) /\ KindOf[gate.op] = "accept" /\ KindOf[o] = "tracked"
      BY <2>1, <2>2, <2>a, <3>1 DEF At, UnderWay, Writing
    <3>3. receipt.lease = op[o].lease /\ receipt.lease = op[gate.op].lease
      BY <2>2, <3>1, <3>2 DEF Alone
    <3> QED
      BY <2>2, <3>1, <3>2, <3>3, OneHolds
  <2> QED
    BY <2>3, <2>4, <2>5 DEF F!Next, F!World, F!Command, F!vars, F!report, F!LeaseGranted, F!LeaseClosed, F!Start,
       F!RoomChanges, F!Capture, F!BeginWrite, F!ChildWrites, F!ChildCloses, F!FinishWrite, F!BeginProof, F!FirstProof,
       F!ProofFails, F!Publish
<1>2. [Current => receipt' = receipt]_(F!vars) => [F!ProofKeepsReceipt]_(F!vars)
  BY DEF F!ProofKeepsReceipt, Current
<1> QED
  BY <1>1, <1>2, Invariance, PTL DEF F!Spec
=============================================================================
