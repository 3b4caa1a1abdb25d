----------------------- MODULE OperationTrackerProofs -----------------------
(***************************************************************************)
(* Theorems about OperationTracker for any number of Rooms, calls,         *)
(* operation ids and restarts, and any retention window: every variable    *)
(* keeps its type, work is done once under an id, and an operation's end,  *)
(* once read, stays its end.                                               *)
(***************************************************************************)
EXTENDS OperationTracker, TLAPS

-----------------------------------------------------------------------------
(* The inductive invariant *)

\* A request that may still arrive has begun nothing yet.
SentOnce ==
    \A c \in Calls : /\ begun[c] <= 1
                     /\ call[c] = "idle" => wire[c].dir = "none"
                     /\ call[c] = "idle" \/ wire[c].dir = "request" => begun[c] = 0

\* A task that has not ended is in memory as running, a start under its Room.
BusyRuns ==
    \A id \in busy : /\ live[id] # None
                     /\ live[id].status = "running"
                     /\ live[id].kind = "start" => waking[live[id].room] = id

\* What memory holds has a row that still says running: memory forgets a record
\* as soon as its end is stored, and an end that is only in memory is a failure.
RowsBehind ==
    \A id \in Ids : live[id] # None =>
        /\ row[id] # None
        /\ row[id] = [live[id] EXCEPT !.status = "running"]
        /\ id \notin busy => live[id].status = "failed"

\* An operation that is on record was begun, and its Room's id was drawn.
OnRecord ==
    \A id \in Ids : row[id] # None =>
        /\ \E i \in 1..Len(started) : started[i] = id
        /\ row[id].room \in drawn
        /\ id \in Keys => row[id].keyed

\* A Room under creation is nobody else's: nothing else creates it, and it was
\* never named by a client.
Creating ==
    \A id \in busy : live[id].kind = "create" =>
        /\ live[id].room \notin exists
        /\ \A k \in Keys : performed[k][live[id].room] = 0
        /\ \A j \in busy : live[j].kind = "create" /\ live[j].room = live[id].room => j = id

\* What was performed under an id is on record, or its Room is gone for good.
Accounted ==
    \A k \in Keys :
        /\ \A r \in Rooms :
              /\ performed[k][r] <= 1
              /\ performed[k][r] > 0 =>
                    /\ r \in drawn
                    /\ r \in exists => row[k] # None /\ row[k].room = r
        /\ performed[k][None] <= 1 + erased[k]
        /\ performed[k][None] > erased[k] => row[k] # None /\ row[k].kind = "create"

IInv ==
    /\ TypeOK
    /\ SentOnce
    /\ BusyRuns
    /\ RowsBehind
    /\ OnRecord
    /\ exists \subseteq drawn
    /\ Creating
    /\ Accounted

-----------------------------------------------------------------------------
(* Lemmas about the operators *)

\* What save leaves in the table is the new state of a row, or nothing; it
\* removes nothing that runs or carries a client's id.
LEMMA SavedKeeps ==
  ASSUME NEW rows \in [Ids -> Records \cup {None}], NEW id \in Ids, NEW rec \in Records,
         NEW order
  PROVE  /\ Saved(rows, id, rec, order) \in [Ids -> Records \cup {None}]
         /\ \A i \in Ids :
               /\ \/ Saved(rows, id, rec, order)[i] = None
                  \/ Saved(rows, id, rec, order)[i] = IF i = id THEN rec ELSE rows[i]
               /\ \/ Saved(rows, id, rec, order)[i] = IF i = id THEN rec ELSE rows[i]
                  \/ Prunable(IF i = id THEN rec ELSE rows[i])
PROOF
  <1> DEFINE after == [rows EXCEPT ![id] = rec]
             Peers == {i \in Ids : after[i] # None /\ after[i].room = rec.room}
             Newer(i) == {j \in Peers : \E m, n \in 1..Len(order) :
                                            m > n /\ order[m] = j /\ order[n] = i}
             Out(i) == /\ i \in Peers /\ Prunable(after[i])
                       /\ Cardinality(Newer(i)) >= Window
  <1>1. Saved(rows, id, rec, order) = [i \in Ids |-> IF Out(i) THEN None ELSE after[i]]
    BY DEF Saved
  <1>2. after \in [Ids -> Records \cup {None}]
    OBVIOUS
  <1>3. \A i \in Ids : after[i] = IF i = id THEN rec ELSE rows[i]
    OBVIOUS
  <1>4. \A i \in Ids : Out(i) => Prunable(after[i])
    OBVIOUS
  <1> HIDE DEF after, Out
  <1> QED
    BY <1>1, <1>2, <1>3, <1>4

\* What a call asks for is a request, and a creation is one that names no Room.
LEMMA AskType ==
  ASSUME NEW c \in Calls, ask \in Plans
  PROVE  /\ ask[c] \in [kind: Kinds, room: Rooms \cup {None}, key: Keys \cup {None}, body: Bodies]
         /\ ask[c].kind = "create" <=> ask[c].room = None
PROOF
  BY RequestAssumption

\* The record that an operation begins with.
LEMMA RecordType ==
  ASSUME NEW c \in Calls, NEW r \in Rooms, ask \in Plans
  PROVE  /\ Record(ask[c], r, "running") \in Records
         /\ Record(ask[c], r, "running") # None
PROOF
  <1>1. Record(ask[c], r, "running") \in Records
    BY AskType DEF Record, Records
  <1> QED
    BY <1>1, NoneRecordAssumption

\* What a poll reads exists when a row exists, with the row's Room and kind.
LEMMA LookupIsRow ==
  ASSUME TypeOK, RowsBehind, NEW id \in Ids
  PROVE  /\ Lookup(id) = None <=> row[id] = None
         /\ Lookup(id) # None =>
               /\ Lookup(id).room = row[id].room
               /\ Lookup(id).kind = row[id].kind
               /\ Lookup(id).keyed = row[id].keyed
PROOF
  <1>1. CASE live[id] = None
    BY <1>1 DEF Lookup
  <1>2. CASE live[id] # None
    <2>1. live[id] \in Records
      BY <1>2 DEF TypeOK
    <2>2. row[id] # None /\ row[id] = [live[id] EXCEPT !.status = "running"]
      BY <1>2 DEF RowsBehind
    <2> QED
      BY <1>2, <2>1, <2>2 DEF Lookup, Records
  <1> QED
    BY <1>1, <1>2

-----------------------------------------------------------------------------
(* The actions *)

LEMMA InitInv == Init => IInv
PROOF
  <1> SUFFICES ASSUME Init PROVE IInv
    OBVIOUS
  <1> USE DEF Init
  <1>1. TypeOK
    BY ExistingAssumption, WindowAssumption DEF TypeOK, Silence
  <1>2. SentOnce
    BY DEF SentOnce, Silence
  <1>3. BusyRuns /\ RowsBehind /\ OnRecord /\ Creating /\ exists \subseteq drawn
    BY DEF BusyRuns, RowsBehind, OnRecord, Creating
  <1>4. Accounted
    <2> SUFFICES ASSUME NEW k \in Keys
                 PROVE  /\ \A r \in Rooms : performed[k][r] = 0
                        /\ performed[k][None] = 0 /\ erased[k] = 0
      BY DEF Accounted
    <2> QED
      OBVIOUS
  <1> QED
    BY <1>1, <1>2, <1>3, <1>4 DEF IInv

\* What one side of a connection does leaves the server's records alone.
LEMMA Kept ==
  ASSUME IInv, UNCHANGED <<store, tracker, history>>
  PROVE  /\ BusyRuns' /\ RowsBehind' /\ OnRecord' /\ Creating' /\ Accounted'
         /\ (exists \subseteq drawn)'
PROOF
  BY DEF IInv, BusyRuns, RowsBehind, OnRecord, Creating, Accounted, store, tracker, history

\* The steps of a client.
LEMMA ClientStep ==
  ASSUME IInv, NEW c \in Calls,
         Send(c) \/ Refused(c) \/ Lost(c) \/ TimesOut(c) \/ Receive(c)
  PROVE  IInv'
PROOF
  <1> USE DEF IInv
  <1>1. UNCHANGED <<store, tracker, history>> /\ boot' = boot
    BY DEF Send, Refused, Lost, TimesOut, Receive
  <1>2. /\ wire[c] \in [dir: {"none", "request", "response", "reset"}, to: 0..MaxBoots]
        /\ boot \in 0..MaxBoots /\ conn \in 0..MaxBoots \cup {None}
        /\ Silence \in [dir: {"none", "request", "response", "reset"}, to: 0..MaxBoots]
    BY WindowAssumption DEF TypeOK, Silence
  <1>3. TypeOK'
    <2>1. CASE Send(c)
      BY <1>1, <1>2, <2>1 DEF TypeOK, Send, store, tracker, history
    <2>2. CASE Refused(c)
      <3>1. wire' \in [Calls -> [dir: {"none", "request", "response", "reset"}, to: 0..MaxBoots]]
        <4>1. [wire[c] EXCEPT !.to = boot]
                  \in [dir: {"none", "request", "response", "reset"}, to: 0..MaxBoots]
          BY <1>2
        <4>2. wire' = [wire EXCEPT ![c] = [wire[c] EXCEPT !.to = boot]]
                \/ wire' = [wire EXCEPT ![c] = Silence]
          BY <2>2 DEF Refused
        <4> QED
          BY <1>2, <4>1, <4>2 DEF TypeOK
      <3>2. call' \in [Calls -> {"idle", "first", "again", "over"}]
        BY <2>2 DEF Refused, TypeOK
      <3>3. conn' \in 0..MaxBoots \cup {None}
        BY <1>2, <2>2 DEF Refused
      <3> QED
        BY <1>1, <3>1, <3>2, <3>3 DEF TypeOK, store, tracker, history
    <2>3. CASE Lost(c)
      BY <1>1, <1>2, <2>3 DEF TypeOK, Lost, Abandoned, store, tracker, history
    <2>4. CASE TimesOut(c)
      BY <1>1, <1>2, <2>4 DEF TypeOK, TimesOut, Abandoned, store, tracker, history
    <2>5. CASE Receive(c)
      BY <1>1, <1>2, <2>5 DEF TypeOK, Receive, store, tracker, history
    <2> QED
      BY <2>1, <2>2, <2>3, <2>4, <2>5
  <1>4. SentOnce'
    <2> USE DEF SentOnce, TypeOK, Silence, history
    <2>1. CASE Send(c)
      BY <1>1, <1>2, <2>1 DEF Send
    <2>2. CASE Refused(c)
      BY <1>1, <1>2, <2>2 DEF Refused
    <2>3. CASE Lost(c)
      BY <1>1, <1>2, <2>3 DEF Lost, Abandoned
    <2>4. CASE TimesOut(c)
      BY <1>1, <1>2, <2>4 DEF TimesOut, Abandoned
    <2>5. CASE Receive(c)
      BY <1>1, <1>2, <2>5 DEF Receive
    <2> QED
      BY <2>1, <2>2, <2>3, <2>4, <2>5
  <1> QED
    BY <1>1, <1>3, <1>4, Kept

\* The new operation of a request: its id and its Room are not in use.
LEMMA BeginStep ==
  ASSUME IInv, NEW c \in Calls, NEW r \in RoomOf(ask[c]), NEW id \in Fresh(ask[c]),
         ~Known(ask[c]), ~Joined(ask[c]), Begin(c, id, r),
         wire[c].dir = "request", UNCHANGED <<boot, conn, call>>,
         wire' = [wire EXCEPT ![c] = IF call[c] = "over" THEN Silence
                                     ELSE [@ EXCEPT !.dir = "response"]]
  PROVE  IInv'
PROOF
  <1> USE DEF IInv
  <1> DEFINE q == ask[c]
             rec == Record(q, r, "running")
  <1>1. /\ id \in Ids /\ Lookup(id) = None
        /\ id \in Keys => q.key = id
    <2>1. CASE q.key # None
      BY <2>1, AskType, NoneOpAssumption DEF Fresh, Known, TypeOK, Ids
    <2>2. CASE q.key = None
      <3>1. id \in Minted /\ \A i \in 1..Len(started) : started[i] # id
        BY <2>2 DEF Fresh
      <3>2. row[id] = None
        BY <3>1 DEF OnRecord, Ids
      <3> QED
        BY <3>1, <3>2, LookupIsRow, KeysAssumption DEF Ids
    <2> QED
      BY <2>1, <2>2
  <1>2. row[id] = None /\ live[id] = None /\ id \notin busy
    BY <1>1, LookupIsRow DEF RowsBehind, BusyRuns
  <1>3. /\ r \in Rooms
        /\ q.kind # "create" => r = q.room /\ r \in exists
        /\ q.kind = "create" => r \notin drawn /\ q.room = None
    <2>1. CASE q.kind = "create"
      BY <2>1, AskType, NoneOpAssumption DEF RoomOf, Known, TypeOK
    <2>2. CASE q.kind # "create"
      BY <2>2 DEF RoomOf, TypeOK
    <2> QED
      BY <2>1, <2>2
  <1>4. /\ rec \in Records /\ rec # None
        /\ rec.kind = q.kind /\ rec.room = r /\ rec.status = "running"
        /\ rec.keyed <=> q.key # None
        /\ q \in [kind: Kinds, room: Rooms \cup {None}, key: Keys \cup {None}, body: Bodies]
    BY <1>3, RecordType, AskType DEF Record, TypeOK
  <1>5. /\ started' = Append(started, id)
        /\ row' = Saved(row, id, rec, started')
        /\ live' = [live EXCEPT ![id] = rec]
        /\ waking' = IF q.kind = "start" THEN [waking EXCEPT ![r] = id] ELSE waking
        /\ busy' = busy \cup {id}
        /\ begun' = [begun EXCEPT ![c] = @ + 1]
        /\ performed' = IF id \in Keys THEN [performed EXCEPT ![id][q.room] = @ + 1]
                        ELSE performed
        /\ drawn' = drawn \cup {r}
        /\ ask' = ask /\ exists' = exists /\ erased' = erased
    BY DEF Begin
  <1> HIDE DEF q, rec
  <1>6. /\ row' \in [Ids -> Records \cup {None}]
        /\ row'[id] = rec
        /\ \A i \in Ids \ {id} : /\ row'[i] = None \/ row'[i] = row[i]
                                 /\ row'[i] = row[i] \/ Prunable(row[i])
    <2>1. row \in [Ids -> Records \cup {None}]
      BY DEF TypeOK
    <2>2. ~Prunable(rec)
      BY <1>4 DEF Prunable
    <2> QED
      BY <1>1, <1>4, <1>5, <2>1, <2>2, SavedKeeps
  <1>7. TypeOK'
    <2>1. wire' \in [Calls -> [dir: {"none", "request", "response", "reset"}, to: 0..MaxBoots]]
      <3>1. wire[c] \in [dir: {"none", "request", "response", "reset"}, to: 0..MaxBoots]
        BY DEF TypeOK
      <3>2. [wire[c] EXCEPT !.dir = "response"]
                    \in [dir: {"none", "request", "response", "reset"}, to: 0..MaxBoots]
        BY <3>1
      <3>3. Silence \in [dir: {"none", "request", "response", "reset"}, to: 0..MaxBoots]
        BY WindowAssumption DEF Silence
      <3> QED
        BY <3>2, <3>3 DEF TypeOK
    <2>2. performed' \in [Keys -> [Rooms \cup {None} -> Nat]]
      <3>1. CASE id \notin Keys
        BY <3>1, <1>5 DEF TypeOK
      <3>2. CASE id \in Keys
        <4>1. performed[id] \in [Rooms \cup {None} -> Nat]
          BY <3>2 DEF TypeOK
        <4>2. [performed[id] EXCEPT ![q.room] = @ + 1] \in [Rooms \cup {None} -> Nat]
          BY <4>1, <1>4
        <4>3. performed' = [performed EXCEPT ![id] = [performed[id] EXCEPT ![q.room] = @ + 1]]
          BY <3>2, <1>5
        <4> QED
          BY <4>2, <4>3 DEF TypeOK
      <3> QED
        BY <3>1, <3>2
    <2>3. started' \in Seq(Ids)
      BY <1>1, <1>5 DEF TypeOK
    <2>4. begun' \in [Calls -> Nat]
      BY <1>5 DEF TypeOK
    <2>5. live' \in [Ids -> Records \cup {None}] /\ waking' \in [Rooms -> Ids \cup {None}]
      BY <1>1, <1>3, <1>4, <1>5 DEF TypeOK
    <2> QED
      BY <1>1, <1>3, <1>5, <1>6, <2>1, <2>2, <2>3, <2>4, <2>5 DEF TypeOK
  <1>8. SentOnce'
    <2>1. begun[c] = 0 /\ call[c] # "idle"
      BY DEF SentOnce
    <2> QED
      BY <1>5, <2>1 DEF SentOnce, TypeOK, Silence
  <1>9. BusyRuns'
    <2> SUFFICES ASSUME NEW i \in busy'
                 PROVE  /\ live'[i] # None
                        /\ live'[i].status = "running"
                        /\ live'[i].kind = "start" => waking'[live'[i].room] = i
      BY DEF BusyRuns
    <2>1. CASE i = id
      BY <2>1, <1>1, <1>3, <1>4, <1>5 DEF TypeOK
    <2>2. CASE i # id
      <3>1. i \in busy /\ i \in Ids /\ live'[i] = live[i]
        BY <2>2, <1>5 DEF TypeOK
      <3>2. /\ live[i] # None /\ live[i].status = "running"
            /\ live[i].kind = "start" => waking[live[i].room] = i
        BY <3>1 DEF BusyRuns
      <3>3. live[i].kind = "start" => waking'[live[i].room] = i
        <4>1. CASE q.kind = "start" /\ live[i].kind = "start"
          <5>1. waking[r] = None
            BY <4>1, <1>3 DEF Joined, q
          <5>2. live[i].room # r
            BY <3>1, <3>2, <4>1, <5>1, NoneOpAssumption
          <5>3. live[i].room \in Rooms
            BY <3>1, <3>2 DEF TypeOK, Records
          <5> QED
            BY <1>5, <3>2, <5>2, <5>3 DEF TypeOK
        <4>2. CASE q.kind # "start" \/ live[i].kind # "start"
          BY <4>2, <1>5, <3>2
        <4> QED
          BY <4>1, <4>2
      <3> QED
        BY <3>1, <3>2, <3>3
    <2> QED
      BY <2>1, <2>2
  <1>10. RowsBehind'
    <2> SUFFICES ASSUME NEW i \in Ids, live'[i] # None
                 PROVE  /\ row'[i] # None
                        /\ row'[i] = [live'[i] EXCEPT !.status = "running"]
                        /\ i \notin busy' => live'[i].status = "failed"
      BY DEF RowsBehind
    <2>1. CASE i = id
      <3>1. [rec EXCEPT !.status = "running"] = rec
        BY <1>4 DEF Records
      <3> QED
        BY <2>1, <3>1, <1>1, <1>4, <1>5, <1>6 DEF TypeOK
    <2>2. CASE i # id
      <3>1. live'[i] = live[i] /\ (i \in busy' <=> i \in busy)
        BY <2>2, <1>5 DEF TypeOK
      <3>2. /\ row[i] # None /\ row[i] = [live[i] EXCEPT !.status = "running"]
            /\ i \notin busy => live[i].status = "failed"
        BY <3>1 DEF RowsBehind
      <3>3. live[i] \in Records
        BY <3>1 DEF TypeOK
      <3>4. row[i].status = "running"
        BY <3>2, <3>3 DEF Records
      <3>5. row'[i] = row[i]
        BY <2>2, <3>4, <1>6 DEF Prunable
      <3> QED
        BY <3>1, <3>2, <3>5
    <2> QED
      BY <2>1, <2>2
  <1>11. OnRecord'
    <2> SUFFICES ASSUME NEW i \in Ids, row'[i] # None
                 PROVE  /\ \E n \in 1..Len(started') : started'[n] = i
                        /\ row'[i].room \in drawn'
                        /\ i \in Keys => row'[i].keyed
      BY DEF OnRecord
    <2>1. started \in Seq(Ids)
      BY DEF TypeOK
    <2>2. CASE i = id
      <3>1. Len(started') = Len(started) + 1 /\ started'[Len(started) + 1] = id
            /\ Len(started) \in Nat
        BY <2>1, <1>1, <1>5
      <3>2. Len(started) + 1 \in 1..Len(started')
        BY <3>1
      <3> QED
        BY <2>2, <3>1, <3>2, <1>1, <1>4, <1>5, <1>6, NoneOpAssumption DEF Ids
    <2>3. CASE i # id
      <3>1. row[i] # None /\ row'[i] = row[i]
        BY <2>3, <1>6
      <3>2. PICK n \in 1..Len(started) : started[n] = i
        BY <3>1 DEF OnRecord
      <3>3. n \in 1..Len(started') /\ started'[n] = i
        BY <2>1, <3>2, <1>1, <1>5
      <3> QED
        BY <3>1, <3>3, <1>5 DEF OnRecord
    <2> QED
      BY <2>2, <2>3
  <1>12. (exists \subseteq drawn)'
    BY <1>5
  <1>13. Creating'
    <2> SUFFICES ASSUME NEW i \in busy', live'[i].kind = "create"
                 PROVE  /\ live'[i].room \notin exists'
                        /\ \A k \in Keys : performed'[k][live'[i].room] = 0
                        /\ \A j \in busy' : live'[j].kind = "create" /\ live'[j].room = live'[i].room
                                              => j = i
      BY DEF Creating
    <2>1. \A j \in busy : live'[j] = live[j] /\ live[j].room \in drawn /\ j \in Ids
                            /\ live[j].room \in Rooms
      <3> SUFFICES ASSUME NEW j \in busy
                   PROVE live'[j] = live[j] /\ live[j].room \in drawn /\ j \in Ids
                            /\ live[j].room \in Rooms
        OBVIOUS
      <3>1. j \in Ids /\ j # id /\ live[j] # None
        BY <1>2 DEF TypeOK, BusyRuns
      <3>2. live[j] \in Records
        BY <3>1 DEF TypeOK
      <3>3. row[j] # None /\ row[j].room = live[j].room
        BY <3>1, <3>2 DEF RowsBehind, Records
      <3> QED
        BY <3>1, <3>2, <3>3, <1>5 DEF OnRecord, Records, TypeOK
    <2>2. live'[id] = rec
      BY <1>1, <1>5 DEF TypeOK
    <2>3. CASE i = id
      <3>1. q.kind = "create" /\ r \notin drawn /\ q.room = None /\ live'[i].room = r
        BY <2>2, <2>3, <1>3, <1>4
      <3>2. \A k \in Keys : performed[k][r] = 0
        BY <3>1, <1>3 DEF Accounted, TypeOK
      <3>3. \A k \in Keys : performed'[k][r] = performed[k][r]
        BY <3>1, <1>1, <1>3, <1>5, NoneOpAssumption DEF TypeOK
      <3>4. r \notin exists'
        BY <3>1, <1>5
      <3>5. \A j \in busy' : live'[j].room = r => j = id
        BY <3>1, <2>1, <1>5
      <3> QED
        BY <2>3, <3>1, <3>2, <3>3, <3>4, <3>5
    <2>4. CASE i # id
      <3>1. i \in busy /\ live'[i] = live[i]
        BY <2>1, <2>4, <1>5
      <3> DEFINE s == live[i].room
      <3>2. /\ s \notin exists
            /\ \A k \in Keys : performed[k][s] = 0
            /\ \A j \in busy : live[j].kind = "create" /\ live[j].room = s => j = i
        BY <3>1 DEF Creating
      <3>3. s \in drawn /\ s \in Rooms
        BY <2>1, <3>1
      <3> HIDE DEF s
      <3>4. q.room # s
        BY <1>3, <3>2, <3>3, NoneOpAssumption
      <3>5. \A k \in Keys : performed'[k][s] = performed[k][s]
        BY <3>3, <3>4, <1>1, <1>5 DEF TypeOK
      <3>6. \A j \in busy' : live'[j].kind = "create" /\ live'[j].room = s => j = i
        <4> SUFFICES ASSUME NEW j \in busy', live'[j].kind = "create", live'[j].room = s
                     PROVE  j = i
          OBVIOUS
        <4>1. CASE j = id
          BY <4>1, <2>2, <1>3, <1>4, <3>3
        <4>2. CASE j # id
          BY <4>2, <1>5, <2>1, <3>2
        <4> QED
          BY <4>1, <4>2
      <3> QED
        BY <3>1, <3>2, <3>5, <3>6, <1>5 DEF s
    <2> QED
      BY <2>3, <2>4
  <1>14. Accounted'
    <2> SUFFICES ASSUME NEW k \in Keys
                 PROVE  /\ \A s \in Rooms :
                              /\ performed'[k][s] <= 1
                              /\ performed'[k][s] > 0 =>
                                    /\ s \in drawn'
                                    /\ s \in exists' => row'[k] # None /\ row'[k].room = s
                        /\ performed'[k][None] <= 1 + erased'[k]
                        /\ performed'[k][None] > erased'[k] =>
                                row'[k] # None /\ row'[k].kind = "create"
      BY DEF Accounted
    <2>1. k \in Ids /\ performed[k] \in [Rooms \cup {None} -> Nat] /\ erased[k] \in Nat
      BY DEF TypeOK, Ids
    <2>2. CASE k = id
      <3>1. /\ performed'[k] = [performed[k] EXCEPT ![q.room] = @ + 1]
            /\ q.room \in Rooms \cup {None}
        BY <2>2, <1>4, <1>5 DEF TypeOK
      <3>2. /\ performed[k][None] <= erased[k]
            /\ \A s \in Rooms : performed[k][s] > 0 => s \in drawn /\ s \notin exists
            /\ \A s \in Rooms : performed[k][s] <= 1
        BY <2>1, <2>2, <1>2 DEF Accounted
      <3>3. CASE q.kind = "create"
        <4>1. q.room = None
          BY <3>3, <1>3
        <4>2. /\ performed'[k][None] = performed[k][None] + 1
              /\ \A s \in Rooms : performed'[k][s] = performed[k][s]
          BY <2>1, <3>1, <4>1, NoneOpAssumption
        <4> QED
          BY <2>1, <2>2, <3>2, <3>3, <4>2, <1>4, <1>5, <1>6
      <3>4. CASE q.kind # "create"
        <4>1. q.room = r /\ r \in exists /\ r # None /\ r \in drawn'
          BY <3>4, <1>3, <1>5, NoneOpAssumption
        <4>2. /\ performed'[k][None] = performed[k][None]
              /\ \A s \in Rooms \ {r} : performed'[k][s] = performed[k][s]
              /\ performed'[k][r] = performed[k][r] + 1
          BY <2>1, <3>1, <4>1, <1>3
        <4>3. performed[k][r] = 0
          BY <2>1, <3>2, <4>1, <1>3
        <4> QED
          BY <2>1, <2>2, <3>2, <4>1, <4>2, <4>3, <1>4, <1>5, <1>6
      <3> QED
        BY <3>3, <3>4
    <2>3. CASE k # id
      <3>1. performed'[k] = performed[k]
        <4>1. CASE id \in Keys
          BY <4>1, <2>3, <1>5 DEF TypeOK
        <4>2. CASE id \notin Keys
          BY <4>2, <1>5
        <4> QED
          BY <4>1, <4>2
      <3>2. row'[k] = row[k]
        <4>1. CASE row[k] = None
          BY <4>1, <2>1, <2>3, <1>6
        <4>2. CASE row[k] # None
          <5>1. row[k].keyed
            BY <4>2, <2>1 DEF OnRecord
          <5> QED
            BY <5>1, <2>1, <2>3, <1>6 DEF Prunable
        <4> QED
          BY <4>1, <4>2
      <3> QED
        BY <2>1, <3>1, <3>2, <1>5 DEF Accounted
    <2> QED
      BY <2>2, <2>3
  <1> QED
    BY <1>7, <1>8, <1>9, <1>10, <1>11, <1>12, <1>13, <1>14

\* A request is served: refused, replayed, joined, or begun.
LEMMA ServeStep ==
  ASSUME IInv, NEW c \in Calls, Serve(c)
  PROVE  IInv'
PROOF
  <1> USE DEF IInv
  <1>1. /\ wire[c].dir = "request" /\ UNCHANGED <<boot, conn, call>>
        /\ wire' = [wire EXCEPT ![c] = IF call[c] = "over" THEN Silence
                                       ELSE [@ EXCEPT !.dir = "response"]]
    BY DEF Serve
  <1>2. CASE UNCHANGED <<store, tracker, history>>
    <2>1. wire[c] \in [dir: {"none", "request", "response", "reset"}, to: 0..MaxBoots]
      BY DEF TypeOK
    <2>2. [wire[c] EXCEPT !.dir = "response"]
                  \in [dir: {"none", "request", "response", "reset"}, to: 0..MaxBoots]
      BY <2>1
    <2>3. Silence \in [dir: {"none", "request", "response", "reset"}, to: 0..MaxBoots]
      BY WindowAssumption DEF Silence
    <2>4. TypeOK'
      BY <1>1, <1>2, <2>2, <2>3 DEF TypeOK, store, tracker, history
    <2>5. SentOnce'
      BY <1>1, <1>2 DEF SentOnce, TypeOK, Silence, history
    <2> QED
      BY <1>2, <2>4, <2>5, Kept
  <1>3. CASE /\ ~Known(ask[c]) /\ ~Joined(ask[c])
             /\ \E r \in RoomOf(ask[c]), id \in Fresh(ask[c]) : Begin(c, id, r)
    BY <1>1, <1>3, BeginStep
  <1> QED
    BY <1>2, <1>3 DEF Serve

\* The end of a task, however its record is saved.
LEMMA TaskEndsStep ==
  ASSUME IInv, NEW id \in Ids, NEW ok \in BOOLEAN,
         NEW saves \in {"stored", "retried", "lost"}, TaskEnds(id, ok, saves)
  PROVE  IInv'
PROOF
  <1> USE DEF IInv
  <1> DEFINE rec == [live[id] EXCEPT !.status = Outcome(ok, saves)]
  <1>1. /\ id \in busy /\ live[id] # None /\ live[id] \in Records
        /\ live[id].status = "running"
    BY DEF TaskEnds, BusyRuns, TypeOK
  <1>2. /\ rec \in Records /\ rec # None
        /\ rec.kind = live[id].kind /\ rec.room = live[id].room /\ rec.keyed = live[id].keyed
        /\ rec.status = Outcome(ok, saves)
        /\ [rec EXCEPT !.status = "running"] = live[id]
    <2>1. Outcome(ok, saves) \in Terminal
      BY DEF Outcome, Terminal
    <2>2. rec \in Records
      BY <1>1, <2>1 DEF Records
    <2> QED
      BY <1>1, <2>2, NoneRecordAssumption DEF Records
  <1>3. /\ row[id] # None /\ row[id] = live[id]
    <2>1. row[id] # None /\ row[id] = [live[id] EXCEPT !.status = "running"]
      BY <1>1 DEF RowsBehind
    <2> QED
      BY <1>1, <2>1 DEF Records
  <1>4. /\ busy' = busy \ {id}
        /\ exists' = IF rec.kind = "create" /\ ok THEN exists \cup {rec.room} ELSE exists
        /\ row' = IF saves = "lost" THEN row ELSE Saved(row, id, rec, started)
        /\ live' = [live EXCEPT ![id] = IF saves = "lost" THEN rec ELSE None]
        /\ waking' = [r \in Rooms |-> IF waking[r] = id THEN None ELSE waking[r]]
        /\ UNCHANGED <<ask, started, boot, conn, wire, call, history>>
    BY DEF TaskEnds, LiveAfter
  <1>5. saves = "lost" => rec.status = "failed"
    BY <1>2 DEF Outcome
  <1> HIDE DEF rec
  <1>6. /\ row' \in [Ids -> Records \cup {None}]
        /\ saves = "lost" => row' = row
        /\ saves # "lost" => row'[id] = rec \/ (row'[id] = None /\ ~rec.keyed)
        /\ \A i \in Ids \ {id} : /\ row'[i] = None \/ row'[i] = row[i]
                                 /\ row'[i] = row[i] \/ Prunable(row[i])
    <2>1. row \in [Ids -> Records \cup {None}]
      BY DEF TypeOK
    <2> QED
      BY <1>2, <1>4, <2>1, SavedKeeps DEF Prunable
  <1>7. live' \in [Ids -> Records \cup {None}]
    BY <1>2, <1>4 DEF TypeOK
  <1>8. TypeOK'
    <2>1. exists' \in SUBSET Rooms
      BY <1>2, <1>4 DEF TypeOK, Records
    <2>2. waking' \in [Rooms -> Ids \cup {None}]
      BY <1>4 DEF TypeOK
    <2> QED
      BY <1>4, <1>6, <1>7, <2>1, <2>2 DEF TypeOK, history
  <1>9. SentOnce'
    BY <1>4 DEF SentOnce, history
  <1>10. BusyRuns'
    <2> SUFFICES ASSUME NEW i \in busy'
                 PROVE  /\ live'[i] # None
                        /\ live'[i].status = "running"
                        /\ live'[i].kind = "start" => waking'[live'[i].room] = i
      BY DEF BusyRuns
    <2>1. i \in busy /\ i # id /\ i \in Ids
      BY <1>4 DEF TypeOK
    <2>2. live'[i] = live[i] /\ live[i] # None /\ live[i] \in Records
      BY <1>4, <2>1 DEF TypeOK, BusyRuns
    <2>3. live[i].room \in Rooms
      BY <2>2 DEF Records
    <2> QED
      BY <1>4, <2>1, <2>2, <2>3 DEF BusyRuns
  <1>11. RowsBehind'
    <2> SUFFICES ASSUME NEW i \in Ids, live'[i] # None
                 PROVE  /\ row'[i] # None
                        /\ row'[i] = [live'[i] EXCEPT !.status = "running"]
                        /\ i \notin busy' => live'[i].status = "failed"
      BY DEF RowsBehind
    <2>1. CASE i = id
      <3>1. saves = "lost" /\ live'[i] = rec
        BY <2>1, <1>4 DEF TypeOK
      <3> QED
        BY <2>1, <3>1, <1>2, <1>3, <1>5, <1>6
    <2>2. CASE i # id
      <3>1. live'[i] = live[i] /\ (i \in busy' <=> i \in busy) /\ live[i] \in Records
        BY <2>2, <1>4 DEF TypeOK
      <3>2. /\ row[i] # None /\ row[i] = [live[i] EXCEPT !.status = "running"]
            /\ i \notin busy => live[i].status = "failed"
        BY <3>1 DEF RowsBehind
      <3>3. row[i].status = "running"
        BY <3>1, <3>2 DEF Records
      <3>4. row'[i] = row[i]
        BY <2>2, <3>3, <1>6 DEF Prunable
      <3> QED
        BY <3>1, <3>2, <3>4
    <2> QED
      BY <2>1, <2>2
  <1>12. OnRecord'
    <2> SUFFICES ASSUME NEW i \in Ids, row'[i] # None
                 PROVE  /\ \E n \in 1..Len(started) : started[n] = i
                        /\ row'[i].room \in drawn
                        /\ i \in Keys => row'[i].keyed
      BY <1>4 DEF OnRecord, history
    <2>1. row[i] # None /\ row'[i].room = row[i].room /\ row'[i].keyed = row[i].keyed
      BY <1>2, <1>3, <1>6
    <2> QED
      BY <2>1 DEF OnRecord
  <1>13. live[id].room \in drawn
    BY <1>3 DEF OnRecord
  <1>14. (exists \subseteq drawn)'
    BY <1>2, <1>4, <1>13 DEF history
  <1>15. Creating'
    <2> SUFFICES ASSUME NEW i \in busy', live'[i].kind = "create"
                 PROVE  /\ live'[i].room \notin exists'
                        /\ \A k \in Keys : performed[k][live'[i].room] = 0
                        /\ \A j \in busy' : live'[j].kind = "create" /\ live'[j].room = live'[i].room
                                              => j = i
      BY <1>4 DEF Creating, history
    <2>1. \A j \in busy' : j \in busy /\ j # id /\ live'[j] = live[j]
      BY <1>4 DEF TypeOK
    <2>2. /\ live[i].room \notin exists
          /\ \A k \in Keys : performed[k][live[i].room] = 0
          /\ \A j \in busy : live[j].kind = "create" /\ live[j].room = live[i].room => j = i
      BY <2>1 DEF Creating
    <2>3. live[id].kind = "create" => live[id].room # live[i].room
      BY <1>1, <2>1, <2>2
    <2>4. live[i].room \notin exists'
      BY <1>2, <1>4, <2>2, <2>3
    <2> QED
      BY <2>1, <2>2, <2>4
  <1>16. Accounted'
    <2> SUFFICES ASSUME NEW k \in Keys
                 PROVE  /\ \A s \in Rooms :
                              /\ performed[k][s] <= 1
                              /\ performed[k][s] > 0 =>
                                    /\ s \in drawn
                                    /\ s \in exists' => row'[k] # None /\ row'[k].room = s
                        /\ performed[k][None] <= 1 + erased[k]
                        /\ performed[k][None] > erased[k] =>
                                row'[k] # None /\ row'[k].kind = "create"
      BY <1>4 DEF Accounted, history
    <2>1. k \in Ids /\ performed[k] \in [Rooms \cup {None} -> Nat]
      BY DEF Ids, TypeOK
    <2>2. row[k] # None => row'[k] # None /\ row'[k].room = row[k].room /\ row'[k].kind = row[k].kind
      <3> SUFFICES ASSUME row[k] # None
                   PROVE  row'[k] # None /\ row'[k].room = row[k].room /\ row'[k].kind = row[k].kind
        OBVIOUS
      <3>1. row[k].keyed
        BY <2>1 DEF OnRecord
      <3>2. CASE k = id
        BY <3>1, <3>2, <1>2, <1>3, <1>6
      <3>3. CASE k # id
        BY <3>1, <3>3, <2>1, <1>6 DEF Prunable
      <3> QED
        BY <3>2, <3>3
    <2>3. \A s \in Rooms : performed[k][s] > 0 /\ s \in exists' => s \in exists
      <3> SUFFICES ASSUME NEW s \in Rooms, performed[k][s] > 0, s \in exists', s \notin exists
                   PROVE  FALSE
        OBVIOUS
      <3>1. s = live[id].room /\ live[id].kind = "create"
        BY <1>2, <1>4
      <3>2. performed[k][s] = 0
        BY <1>1, <3>1 DEF Creating
      <3> QED
        BY <3>2
    <2> QED
      BY <2>2, <2>3 DEF Accounted
  <1> QED
    BY <1>8, <1>9, <1>10, <1>11, <1>12, <1>14, <1>15, <1>16

\* A Room is deleted with every record of it.
LEMMA RoomDeletedStep ==
  ASSUME IInv, NEW r \in Rooms, RoomDeleted(r)
  PROVE  IInv'
PROOF
  <1> USE DEF IInv
  <1> DEFINE Of == {id \in Ids : Lookup(id) # None /\ Lookup(id).room = r}
  <1>1. /\ Of \cap busy = {} /\ exists' = exists \ {r} /\ Of \subseteq Ids
        /\ row' = [id \in Ids |-> IF id \in Of THEN None ELSE row[id]]
        /\ live' = [id \in Ids |-> IF id \in Of THEN None ELSE live[id]]
        /\ erased' = [k \in Keys |->
                        IF k \in Of /\ Lookup(k).kind = "create" THEN erased[k] + 1
                        ELSE erased[k]]
        /\ UNCHANGED <<ask, started, waking, busy, boot, conn, wire, call, begun, performed, drawn>>
    BY DEF RoomDeleted
  <1>2. \A i \in Ids : i \in Of <=> row[i] # None /\ row[i].room = r
    BY LookupIsRow
  <1>3. \A k \in Keys : k \in Of => Lookup(k).kind = row[k].kind
    BY <1>2, LookupIsRow DEF Ids
  <1> HIDE DEF Of
  <1>4. TypeOK'
    <2>1. erased' \in [Keys -> Nat]
      BY <1>1 DEF TypeOK
    <2>2. /\ row' \in [Ids -> Records \cup {None}]
          /\ live' \in [Ids -> Records \cup {None}]
      BY <1>1 DEF TypeOK
    <2> QED
      BY <1>1, <2>1, <2>2 DEF TypeOK
  <1>5. SentOnce'
    BY <1>1 DEF SentOnce
  <1>6. \A i \in busy : i \in Ids /\ live'[i] = live[i]
    BY <1>1 DEF TypeOK
  <1>7. BusyRuns'
    BY <1>1, <1>6 DEF BusyRuns
  <1>8. RowsBehind' /\ OnRecord' /\ (exists \subseteq drawn)'
    BY <1>1 DEF RowsBehind, OnRecord
  <1>9. Creating'
    BY <1>1, <1>6 DEF Creating
  <1>10. Accounted'
    <2> SUFFICES ASSUME NEW k \in Keys
                 PROVE  /\ \A s \in Rooms :
                              /\ performed[k][s] <= 1
                              /\ performed[k][s] > 0 =>
                                    /\ s \in drawn
                                    /\ s \in exists' => row'[k] # None /\ row'[k].room = s
                        /\ performed[k][None] <= 1 + erased'[k]
                        /\ performed[k][None] > erased'[k] =>
                                row'[k] # None /\ row'[k].kind = "create"
      BY <1>1 DEF Accounted
    <2>1. /\ k \in Ids /\ erased[k] \in Nat
          /\ performed[k] \in [Rooms \cup {None} -> Nat]
      BY DEF TypeOK, Ids
    <2>2. CASE k \in Of
      <3>1. row[k] # None /\ row[k].room = r /\ (row[k].kind = "create" => erased'[k] = erased[k] + 1)
            /\ erased'[k] >= erased[k] /\ erased'[k] \in Nat
        BY <2>1, <2>2, <1>1, <1>2, <1>3
      <3>2. performed[k][None] <= erased'[k]
        BY <2>1, <3>1 DEF Accounted
      <3>3. \A s \in Rooms : performed[k][s] > 0 => s \notin exists'
        BY <2>1, <3>1, <1>1 DEF Accounted
      <3> QED
        BY <2>1, <3>1, <3>2, <3>3 DEF Accounted
    <2>3. CASE k \notin Of
      BY <2>1, <2>3, <1>1 DEF Accounted
    <2> QED
      BY <2>2, <2>3
  <1> QED
    BY <1>4, <1>5, <1>7, <1>8, <1>9, <1>10

\* A new process fails what the last one left running.
LEMMA RestartStep ==
  ASSUME IInv, Restart
  PROVE  IInv'
PROOF
  <1> USE DEF IInv
  <1>1. /\ boot' = boot + 1 /\ boot < MaxBoots
        /\ row' = [id \in Ids |-> Recovered(row[id])]
        /\ live' = [id \in Ids |-> None]
        /\ waking' = [r \in Rooms |-> None]
        /\ busy' = {}
        /\ wire' = [c \in Calls |-> IF call[c] \in {"idle", "over"} THEN Silence
                                    ELSE [wire[c] EXCEPT !.dir = "reset"]]
        /\ UNCHANGED <<ask, exists, started, conn, call, history>>
    BY DEF Restart
  <1>2. \A i \in Ids : /\ row'[i] \in Records \cup {None}
                       /\ row[i] = None => row'[i] = None
                       /\ row[i] # None => /\ row'[i] # None /\ row'[i].room = row[i].room
                                           /\ row'[i].kind = row[i].kind
                                           /\ row'[i].keyed = row[i].keyed
    <2> SUFFICES ASSUME NEW i \in Ids
                 PROVE /\ row'[i] \in Records \cup {None}
                       /\ row[i] = None => row'[i] = None
                       /\ row[i] # None => /\ row'[i] # None /\ row'[i].room = row[i].room
                                           /\ row'[i].kind = row[i].kind
                                           /\ row'[i].keyed = row[i].keyed
      OBVIOUS
    <2>1. CASE row[i] = None
      BY <2>1, <1>1 DEF Recovered
    <2>2. CASE row[i] # None
      <3>1. row[i] \in Records
        BY <2>2 DEF TypeOK
      <3>2. [row[i] EXCEPT !.status = "failed"] \in Records
        BY <3>1 DEF Records, Terminal
      <3> QED
        BY <2>2, <3>1, <3>2, <1>1, NoneRecordAssumption DEF Recovered, Records
    <2> QED
      BY <2>1, <2>2
  <1>3. TypeOK'
    <2>1. \A c \in Calls : /\ wire[c] \in [dir: {"none", "request", "response", "reset"}, to: 0..MaxBoots]
                           /\ wire'[c] \in [dir: {"none", "request", "response", "reset"}, to: 0..MaxBoots]
      <3> SUFFICES ASSUME NEW c \in Calls
                   PROVE /\ wire[c] \in [dir: {"none", "request", "response", "reset"}, to: 0..MaxBoots]
                         /\ wire'[c] \in [dir: {"none", "request", "response", "reset"}, to: 0..MaxBoots]
        OBVIOUS
      <3>1. wire[c] \in [dir: {"none", "request", "response", "reset"}, to: 0..MaxBoots]
        BY DEF TypeOK
      <3>2. [wire[c] EXCEPT !.dir = "reset"]
                 \in [dir: {"none", "request", "response", "reset"}, to: 0..MaxBoots]
        BY <3>1
      <3>3. Silence \in [dir: {"none", "request", "response", "reset"}, to: 0..MaxBoots]
        BY WindowAssumption DEF Silence
      <3> QED
        BY <1>1, <3>1, <3>2, <3>3
    <2>2. wire' \in [Calls -> [dir: {"none", "request", "response", "reset"}, to: 0..MaxBoots]]
      BY <1>1, <2>1
    <2>3. row' \in [Ids -> Records \cup {None}]
      BY <1>1, <1>2
    <2>4. boot' \in 0..MaxBoots
      BY <1>1, WindowAssumption DEF TypeOK
    <2> QED
      BY <1>1, <2>2, <2>3, <2>4 DEF TypeOK, history
  <1>4. SentOnce'
    BY <1>1 DEF SentOnce, TypeOK, Silence, history
  <1>5. BusyRuns' /\ RowsBehind' /\ Creating' /\ (exists \subseteq drawn)'
    BY <1>1 DEF BusyRuns, RowsBehind, Creating, history
  <1>6. OnRecord'
    BY <1>1, <1>2 DEF OnRecord, history
  <1>7. Accounted'
    BY <1>1, <1>2 DEF Accounted, history, Ids
  <1> QED
    BY <1>3, <1>4, <1>5, <1>6, <1>7

LEMMA InvStep == IInv /\ [Next]_vars => IInv'
PROOF
  <1> SUFFICES ASSUME IInv, [Next]_vars PROVE IInv'
    OBVIOUS
  <1>1. CASE UNCHANGED vars
    <2>1. UNCHANGED <<store, tracker, history, boot, conn, wire, call>>
      BY <1>1 DEF vars
    <2>2. TypeOK' /\ SentOnce'
      BY <2>1 DEF IInv, TypeOK, SentOnce, store, tracker, history
    <2> QED
      BY <2>1, <2>2, Kept DEF IInv
  <1>2. ASSUME NEW c \in Calls, CallNext(c) PROVE IInv'
    BY <1>2, ClientStep, ServeStep DEF CallNext
  <1>3. ASSUME NEW id \in Ids, NEW ok \in BOOLEAN,
               NEW saves \in {"stored", "retried", "lost"}, TaskEnds(id, ok, saves)
        PROVE  IInv'
    BY <1>3, TaskEndsStep
  <1>4. ASSUME NEW r \in Rooms, RoomDeleted(r) PROVE IInv'
    BY <1>4, RoomDeletedStep
  <1>5. CASE Restart
    BY <1>5, RestartStep
  <1> QED
    BY <1>1, <1>2, <1>3, <1>4, <1>5 DEF Next

-----------------------------------------------------------------------------
(* The theorems *)

\* The inductive invariant holds in every behaviour.
LEMMA InvAlways == Spec => []IInv
PROOF
  <1> QED
    BY InitInv, InvStep, PTL DEF Spec

\* Every variable of the tracker, the table and the clients keeps its type.
THEOREM TypeCorrect == Spec => []TypeOK
PROOF
  <1>1. IInv => TypeOK
    BY DEF IInv
  <1> QED
    BY <1>1, InvAlways, PTL

\* However often a client repeats a mutation under one operation id, and
\* whatever is lost, refused or restarted in between, its work on a Room is done
\* once (operations.ts, run and finish; operationsRepo.ts, save); a mutation
\* without an id is never sent twice when it may have arrived (client.ts,
\* resilientClient); and a Room is not woken twice at a time.
THEOREM WorkIsDoneOnce == Spec => []DoneOnce
PROOF
  <1>1. IInv => DoneOnce
    <2> SUFFICES ASSUME IInv PROVE DoneOnce
      OBVIOUS
    <2>1. PerformedOnce
      BY DEF IInv, Accounted, PerformedOnce
    <2>2. NoBlindRepeat
      BY DEF IInv, SentOnce, NoBlindRepeat
    <2>3. OneWake
      BY DEF IInv, BusyRuns, OneWake
    <2> QED
      BY <2>1, <2>2, <2>3 DEF DoneOnce
  <1> QED
    BY <1>1, InvAlways, PTL

\* The end of an operation, once a poll can read it, is what every later poll
\* reads until the record is pruned or its Room is deleted: no save of another
\* record, no lost save and no restart changes it.
LEMMA EndKept ==
  ASSUME IInv, Next, NEW id \in Ids,
         Lookup(id) # None, Lookup(id).status \in Terminal, Lookup(id)' # None
  PROVE  Lookup(id)'.status = Lookup(id).status
PROOF
  <1> USE DEF IInv
  <1>1. /\ id \notin busy
        /\ live[id] # None => /\ live[id].status = "failed" /\ row[id] # None
                              /\ row[id].status = "running"
    <2>1. id \notin busy
      BY DEF BusyRuns, Lookup, Terminal
    <2>2. live[id] # None => live[id] \in Records
      BY DEF TypeOK
    <2> QED
      BY <2>1, <2>2 DEF RowsBehind, Records
  <1>2. Lookup(id)' = IF live'[id] # None THEN live'[id] ELSE row'[id]
    BY DEF Lookup
  <1>3. /\ row \in [Ids -> Records \cup {None}] /\ live \in [Ids -> Records \cup {None}]
        /\ row[id] # None
    BY LookupIsRow DEF TypeOK
  <1>4. CASE UNCHANGED <<row, live>>
    BY <1>4, <1>2 DEF Lookup
  <1>5. CASE live' [id] = live[id] /\ (row'[id] = None \/ row'[id] = row[id])
    BY <1>5, <1>2 DEF Lookup
  <1>6. ASSUME NEW c \in Calls, CallNext(c) PROVE Lookup(id)'.status = Lookup(id).status
    <2>1. CASE UNCHANGED <<store, tracker, history>>
      BY <1>4, <2>1 DEF store, tracker
    <2>2. CASE ~UNCHANGED <<store, tracker, history>>
      <3>1. Serve(c)
        BY <1>6, <2>2 DEF CallNext, Send, Refused, Lost, TimesOut, Receive
      <3>2. PICK r \in RoomOf(ask[c]), i \in Fresh(ask[c]) :
                    ~Known(ask[c]) /\ Begin(c, i, r)
        BY <2>2, <3>1 DEF Serve
      <3>3. r \in Rooms
        BY <3>2, AskType, NoneOpAssumption, LookupIsRow DEF RoomOf, Known, TypeOK
      <3>4. i # id /\ i \in Ids
        <4>1. CASE ask[c].key # None
          BY <3>2, <4>1, AskType, NoneOpAssumption DEF Fresh, Known, TypeOK, Ids
        <4>2. CASE ask[c].key = None
          <5>1. i \in Minted /\ \A n \in 1..Len(started) : started[n] # i
            BY <3>2, <4>2 DEF Fresh
          <5> QED
            BY <5>1, <1>3 DEF OnRecord, Ids
        <4> QED
          BY <4>1, <4>2
      <3>5. PICK rec \in Records : rec = Record(ask[c], r, "running")
        BY <3>3, RecordType DEF TypeOK
      <3>6. /\ row' = Saved(row, i, rec, started')
            /\ live' = [live EXCEPT ![i] = rec]
        BY <3>2, <3>5 DEF Begin
      <3> QED
        BY <1>3, <1>5, <3>4, <3>6, SavedKeeps
    <2> QED
      BY <2>1, <2>2
  <1>7. ASSUME NEW i \in Ids, NEW ok \in BOOLEAN,
               NEW saves \in {"stored", "retried", "lost"}, TaskEnds(i, ok, saves)
        PROVE  Lookup(id)'.status = Lookup(id).status
    <2>1. i # id /\ live[i] # None /\ live[i] \in Records
      BY <1>1, <1>7 DEF TaskEnds, BusyRuns, TypeOK
    <2>2. PICK rec \in Records : rec = [live[i] EXCEPT !.status = Outcome(ok, saves)]
      BY <2>1 DEF Records, Outcome, Terminal
    <2>3. /\ row' = IF saves = "lost" THEN row ELSE Saved(row, i, rec, started)
          /\ live' = [live EXCEPT ![i] = IF saves = "lost" THEN rec ELSE None]
      BY <1>7, <2>2 DEF TaskEnds, LiveAfter
    <2> QED
      BY <1>3, <1>5, <2>1, <2>3, SavedKeeps
  <1>8. ASSUME NEW r \in Rooms, RoomDeleted(r) PROVE Lookup(id)'.status = Lookup(id).status
    <2> DEFINE Of == {i \in Ids : Lookup(i) # None /\ Lookup(i).room = r}
    <2>1. /\ row' = [i \in Ids |-> IF i \in Of THEN None ELSE row[i]]
          /\ live' = [i \in Ids |-> IF i \in Of THEN None ELSE live[i]]
      BY <1>8 DEF RoomDeleted
    <2> QED
      BY <1>2, <1>5, <2>1
  <1>9. CASE Restart
    <2>1. live'[id] = None /\ row'[id] = Recovered(row[id])
      BY <1>9 DEF Restart
    <2>2. row[id] \in Records
      BY <1>3
    <2>3. CASE live[id] # None
      BY <1>1, <1>2, <2>1, <2>2, <2>3 DEF Recovered, Records, Lookup
    <2>4. CASE live[id] = None
      BY <1>2, <2>1, <2>2, <2>4 DEF Recovered, Records, Lookup, Terminal
    <2> QED
      BY <2>3, <2>4
  <1> QED
    BY <1>6, <1>7, <1>8, <1>9 DEF Next

\* Once a poll has seen how an operation ended, no later poll sees another end
\* or sees it running again, also when the table refused the record of the end
\* and the process then died (operations.ts, get and finish; failInterrupted).
THEOREM EndIsFinal == Spec => AnswerStays
PROOF
  <1>1. IInv /\ [Next]_vars
           => [\A id \in Ids :
                  /\ Lookup(id) # None /\ Lookup(id).status \in Terminal
                  /\ Lookup(id)' # None
                  => Lookup(id)'.status = Lookup(id).status]_vars
    BY EndKept
  <1> QED
    BY <1>1, InvAlways, PTL DEF Spec, AnswerStays
=============================================================================
