-------------------------- MODULE OperationTracker --------------------------
(***************************************************************************)
(* How a mutation that a client asks for is performed once and answered:   *)
(* the MCP client that reconnects (packages/mcp/src/client.ts), the        *)
(* control API in front of the Orchestrator (controlApi.ts,                *)
(* runRoomMutation), the tracker of long operations (operations.ts) and    *)
(* the table that outlives the process (store/operationsRepo.ts).          *)
(*                                                                         *)
(* A call is one use of a client method.  It carries the operation id that *)
(* its agent chose, or none, and then the server mints one.  What happens  *)
(* under a Room's lock is RoomMutations; here a task is only begun and     *)
(* ended.                                                                  *)
(***************************************************************************)
EXTENDS Integers, Sequences, FiniteSets

CONSTANTS
    Rooms,
    Existing,       \* the Rooms that exist at the start
    Calls,
    Plans,          \* bound: what the calls of a behaviour ask for
    Bodies,         \* what distinguishes requests of one kind
    Keys,           \* operation ids chosen by clients
    Minted,         \* bound: ids that the server may mint
    Window,         \* RETAINED_PER_ROOM
    SavesFail,      \* a write to the operations table may fail
    Deletions,      \* Rooms are deleted
    MaxBoots,       \* bound: restarts of the application
    None

Ids == Keys \cup Minted

Kinds == {"start", "change", "create"}

ASSUME KeysAssumption == Keys \cap Minted = {}
ASSUME NoneOpAssumption == None \notin Ids \cup Rooms
ASSUME RequestAssumption ==
    /\ Plans \subseteq [Calls -> [kind: Kinds, room: Rooms \cup {None},
                                 key: Keys \cup {None}, body: Bodies]]
    /\ \A plan \in Plans, c \in Calls :
          plan[c].kind = "create" <=> plan[c].room = None
ASSUME WindowAssumption == Window \in Nat /\ MaxBoots \in Nat
ASSUME ExistingAssumption == Existing \subseteq Rooms

VARIABLES
    ask,        \* what each call asks for
    exists,     \* the Rooms of the database
    row,        \* the operations table, None where there is no row
    started,    \* the operations in the order of started_at
    live,       \* OperationTracker.live
    waking,     \* runningByKey of a Room's start
    busy,       \* the operations whose task has not ended
    boot,       \* which process answers on the control port
    conn,       \* the process that the cached client `inner' belongs to
    wire,       \* per call, the request or response under way
    call,       \* per call, what its client knows
    begun,      \* history: tasks that a call began
    performed,  \* history: tasks that ran under a client's id, by the Room it named
    erased,     \* history: Rooms that were deleted with the record of their creation
    drawn       \* history: the Room ids that were ever given out

store == <<ask, exists, row, started>>
tracker == <<live, waking, busy>>
history == <<begun, performed, erased, drawn>>
vars == <<store, tracker, boot, conn, wire, call, history>>

-----------------------------------------------------------------------------
(* Records *)

Terminal == {"succeeded", "failed"}

Records == [kind: Kinds, room: Rooms, body: Bodies, keyed: BOOLEAN,
            status: {"running"} \cup Terminal]

ASSUME NoneRecordAssumption == None \notin Records \cup 0..MaxBoots

\* operations.get: memory first, then the table
Lookup(id) == IF live[id] # None THEN live[id] ELSE row[id]

Record(q, r, status) ==
    [kind |-> q.kind, room |-> r, body |-> q.body, keyed |-> q.key # None, status |-> status]

Position(id) == CHOOSE i \in 1..Len(started) : started[i] = id

\* Mutant: an idempotency record leaves with the display history
MutantPrunable(rec) == rec.status # "running"

Prunable(rec) == rec.status # "running" /\ ~rec.keyed

\* save: the upsert, and then the retention of its Room; order is started_at.
Saved(rows, id, rec, order) ==
    LET after == [rows EXCEPT ![id] = rec]
        Peers == {i \in Ids : after[i] # None /\ after[i].room = rec.room}
        Newer(i) == {j \in Peers : \E m, n \in 1..Len(order) :
                                       m > n /\ order[m] = j /\ order[n] = i}
    IN  [i \in Ids |-> IF /\ i \in Peers /\ Prunable(after[i])
                          /\ Cardinality(Newer(i)) >= Window
                         THEN None ELSE after[i]]

\* No message of a call is under way
Silence == [dir |-> "none", to |-> 0]

-----------------------------------------------------------------------------
(* The server *)

\* The id of an operation that has not been published before
Fresh(q) == IF q.key # None THEN {q.key}
            ELSE {id \in Minted : \A i \in 1..Len(started) : started[i] # id}

\* A call that names a Room needs its row (mustGet) before the tracker looks
\* for a replay; a creation takes its Room from the record of a first try, or draws
\* an id at random, which no Room ever had (newRoomId: eight of 36 characters).
RoomOf(q) ==
    IF q.kind # "create" THEN {q.room} \cap exists
    ELSE IF q.key # None /\ Lookup(q.key) # None THEN {Lookup(q.key).room}
    ELSE Rooms \ drawn

\* The id was used: replayed when the request is the same, else refused
Known(q) == q.key # None /\ Lookup(q.key) # None

\* joinRunningByRoom
Joined(q) == q.kind = "start" /\ waking[q.room] # None

\* The task is begun: record saved, then published, then task() invoked.
Begin(c, id, r) ==
    LET q == ask[c]
        rec == Record(q, r, "running")
    IN  /\ started' = Append(started, id)
        /\ row' = Saved(row, id, rec, started')
        /\ live' = [live EXCEPT ![id] = rec]
        /\ waking' = IF q.kind = "start" THEN [waking EXCEPT ![r] = id] ELSE waking
        /\ busy' = busy \cup {id}
        /\ begun' = [begun EXCEPT ![c] = @ + 1]
        /\ performed' = IF id \in Keys THEN [performed EXCEPT ![id][q.room] = @ + 1]
                        ELSE performed
        /\ drawn' = drawn \cup {r}
        /\ UNCHANGED <<ask, exists, erased>>

\* The handler of the route up to its first await.  The response may be a
\* refusal, a replay, a join, or a new operation.
Serve(c) ==
    LET q == ask[c]
    IN  /\ wire[c] = [dir |-> "request", to |-> boot]
        /\ wire' = [wire EXCEPT ![c] = IF call[c] = "over" THEN Silence
                                       ELSE [@ EXCEPT !.dir = "response"]]
        /\ \/ /\ RoomOf(q) = {} \/ Known(q) \/ Joined(q) \/ SavesFail
              /\ UNCHANGED <<store, tracker, history>>
           \/ /\ ~Known(q) /\ ~Joined(q)
              /\ \E r \in RoomOf(q), id \in Fresh(q) : Begin(c, id, r)
        /\ UNCHANGED <<boot, conn, call>>

\* finish: memory forgets a record that is stored
LiveAfter(id, rec, saves) == [live EXCEPT ![id] = IF saves = "lost" THEN rec ELSE None]

\* An outcome whose first save failed is a failure
Outcome(ok, saves) == IF ok /\ saves = "stored" THEN "succeeded" ELSE "failed"

\* The task ends and finish() runs: the terminal record is stored, stored by
\* the second try, or lost and kept in memory only.
TaskEnds(id, ok, saves) ==
    LET rec == [live[id] EXCEPT !.status = Outcome(ok, saves)]
    IN  /\ id \in busy
        /\ saves # "stored" => SavesFail
        /\ busy' = busy \ {id}
        /\ exists' = IF rec.kind = "create" /\ ok THEN exists \cup {rec.room} ELSE exists
        /\ row' = IF saves = "lost" THEN row ELSE Saved(row, id, rec, started)
        /\ live' = LiveAfter(id, rec, saves)
        /\ waking' = [r \in Rooms |-> IF waking[r] = id THEN None ELSE waking[r]]
        /\ UNCHANGED <<ask, started, boot, conn, wire, call, history>>

\* Everything of a deleted Room goes; deletion waits for the Room's tasks.
RoomDeleted(r) ==
    LET Of == {id \in Ids : Lookup(id) # None /\ Lookup(id).room = r}
    IN  /\ Deletions
        /\ r \in exists
        /\ Of \cap busy = {}
        /\ exists' = exists \ {r}
        /\ row' = [id \in Ids |-> IF id \in Of THEN None ELSE row[id]]
        /\ live' = [id \in Ids |-> IF id \in Of THEN None ELSE live[id]]
        /\ erased' = [k \in Keys |->
                        IF k \in Of /\ Lookup(k).kind = "create" THEN erased[k] + 1
                        ELSE erased[k]]
        /\ UNCHANGED <<ask, started, waking, busy, boot, conn, wire, call, begun, performed, drawn>>

\* Mutant: interrupted operations stay as they were
MutantRecovered(rec) == rec

\* Mutant: finished operations are failed too
MutantRecoverAll(rec) == IF rec # None THEN [rec EXCEPT !.status = "failed"] ELSE rec

\* Mutant: a status that no reader knows
MutantLeft(rec) == IF rec # None THEN [rec EXCEPT !.status = "interrupted"] ELSE rec

\* failInterrupted
Recovered(rec) ==
    IF rec # None /\ rec.status = "running" THEN [rec EXCEPT !.status = "failed"] ELSE rec

\* The process dies, and a new one serves on another port with another token.
\* What was on the old connections is reset.
Restart ==
    /\ boot < MaxBoots
    /\ boot' = boot + 1
    /\ row' = [id \in Ids |-> Recovered(row[id])]
    /\ live' = [id \in Ids |-> None]
    /\ waking' = [r \in Rooms |-> None]
    /\ busy' = {}
    /\ wire' = [c \in Calls |-> IF call[c] \in {"idle", "over"} THEN Silence
                                ELSE [wire[c] EXCEPT !.dir = "reset"]]
    /\ UNCHANGED <<ask, exists, started, conn, call, history>>

-----------------------------------------------------------------------------
(* The client *)

\* Nobody reads the response any more; a request may still arrive.
Abandoned(c) == [wire EXCEPT ![c] = IF @.dir = "request" THEN @ ELSE Silence]

\* Sent on the cached connection, or on a new one
Send(c) ==
    /\ call[c] = "idle"
    /\ conn' = IF conn = None THEN boot ELSE conn
    /\ wire' = [wire EXCEPT ![c] = [dir |-> "request", to |-> conn']]
    /\ call' = [call EXCEPT ![c] = "first"]
    /\ UNCHANGED <<store, tracker, boot, history>>

\* Nobody listens there any more, or somebody else answers 401: the one
\* failure after which a mutation is sent again, once.
Refused(c) ==
    /\ wire[c].dir = "request" /\ wire[c].to # boot
    /\ IF call[c] = "first"
         THEN /\ call' = [call EXCEPT ![c] = "again"]
              /\ conn' = boot
              /\ wire' = [wire EXCEPT ![c].to = boot]
         ELSE /\ call' = [call EXCEPT ![c] = "over"]
              /\ wire' = [wire EXCEPT ![c] = Silence]
              /\ conn' = conn
    /\ UNCHANGED <<store, tracker, boot, history>>

\* The connection breaks after the request was sent: DevHotelAmbiguousMutationError
Lost(c) ==
    /\ call[c] \in {"first", "again"}
    /\ wire[c].dir \in {"request", "response", "reset"}
    /\ wire[c].to = boot \/ wire[c].dir = "reset"
    /\ call' = [call EXCEPT ![c] = "over"]
    /\ wire' = Abandoned(c)
    /\ conn' = None
    /\ UNCHANGED <<store, tracker, boot, history>>

\* DevHotelRequestTimeoutError: the connection stays as it is
TimesOut(c) ==
    /\ call[c] \in {"first", "again"}
    /\ wire[c].dir # "none"
    /\ call' = [call EXCEPT ![c] = "over"]
    /\ wire' = Abandoned(c)
    /\ UNCHANGED <<store, tracker, boot, conn, history>>

Receive(c) ==
    /\ call[c] \in {"first", "again"}
    /\ wire[c].dir = "response"
    /\ call' = [call EXCEPT ![c] = "over"]
    /\ wire' = [wire EXCEPT ![c] = Silence]
    /\ UNCHANGED <<store, tracker, boot, conn, history>>

-----------------------------------------------------------------------------
(* The specification *)

Init ==
    /\ ask \in Plans
    /\ exists = Existing
    /\ row = [id \in Ids |-> None]
    /\ started = <<>>
    /\ live = [id \in Ids |-> None]
    /\ waking = [r \in Rooms |-> None]
    /\ busy = {}
    /\ boot = 0
    /\ conn = None
    /\ wire = [c \in Calls |-> Silence]
    /\ call = [c \in Calls |-> "idle"]
    /\ begun = [c \in Calls |-> 0]
    /\ performed = [k \in Keys |-> [r \in Rooms \cup {None} |-> 0]]
    /\ erased = [k \in Keys |-> 0]
    /\ drawn = Existing

CallNext(c) ==
    Send(c) \/ Serve(c) \/ Refused(c) \/ Lost(c) \/ TimesOut(c) \/ Receive(c)

Next ==
    \/ \E c \in Calls : CallNext(c)
    \/ \E id \in Ids, ok \in BOOLEAN, saves \in {"stored", "retried", "lost"} :
          TaskEnds(id, ok, saves)
    \/ \E r \in Rooms : RoomDeleted(r)
    \/ Restart

\* Every engine call has a deadline, so a task ends.
Fairness == \A id \in Ids : WF_vars(\E ok \in BOOLEAN : TaskEnds(id, ok, "stored"))

Spec == Init /\ [][Next]_vars /\ Fairness

-----------------------------------------------------------------------------
(* Properties *)

\* Every variable has its type.
TypeOK ==
    /\ ask \in Plans
    /\ exists \in SUBSET Rooms
    /\ row \in [Ids -> Records \cup {None}]
    /\ started \in Seq(Ids)
    /\ live \in [Ids -> Records \cup {None}]
    /\ waking \in [Rooms -> Ids \cup {None}]
    /\ busy \in SUBSET Ids
    /\ boot \in 0..MaxBoots
    /\ conn \in 0..MaxBoots \cup {None}
    /\ wire \in [Calls -> [dir: {"none", "request", "response", "reset"}, to: 0..MaxBoots]]
    /\ call \in [Calls -> {"idle", "first", "again", "over"}]
    /\ begun \in [Calls -> Nat]
    /\ performed \in [Keys -> [Rooms \cup {None} -> Nat]]
    /\ erased \in [Keys -> Nat]
    /\ drawn \in SUBSET Rooms

\* However often a request is repeated under one id - at once, after a lost
\* response, after a restart, after many other operations of the Room - its
\* work on the Room that it names is done once.  A creation names none; it may
\* be repeated when its Room was deleted, because the record goes with the Room.
PerformedOnce ==
    \A k \in Keys : /\ \A r \in Rooms : performed[k][r] <= 1
                    /\ performed[k][None] <= 1 + erased[k]

\* A call without an id of its own, which the server cannot recognise, is
\* sent a second time only when the first certainly did not arrive.
NoBlindRepeat == \A c \in Calls : begun[c] <= 1

\* Two wakes of one Room never run at the same time: a start joins.
OneWake ==
    \A i, j \in busy : live[i].kind = "start" /\ live[j].kind = "start"
                          /\ live[i].room = live[j].room => i = j

\* Work is done once under an id, a call without one is not sent twice, and a
\* Room is woken once at a time.
DoneOnce == PerformedOnce /\ NoBlindRepeat /\ OneWake

\* Once a poll has seen how an operation ended, no later poll sees another
\* end, or sees it running again: not when the table refused the record, and
\* not after a restart.
AnswerStays ==
    [][\A id \in Ids :
          /\ Lookup(id) # None /\ Lookup(id).status \in Terminal
          /\ Lookup(id)' # None
          => Lookup(id)'.status = Lookup(id).status]_vars

\* Whoever polls an operation is not told forever that it runs, also when the
\* table refuses the record of its end or the process dies.
OperationsEnd ==
    \A id \in Ids :
        (Lookup(id) # None /\ Lookup(id).status = "running")
            ~> (Lookup(id) = None \/ Lookup(id).status # "running")
=============================================================================
