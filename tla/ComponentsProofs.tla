-------------------------- MODULE ComponentsProofs --------------------------
(***************************************************************************)
(* What the components that share no state keep, each for any number of    *)
(* generations, volumes, commands and failures.                            *)
(***************************************************************************)
EXTENDS MCComponents, TLAPS

-----------------------------------------------------------------------------
(***************************************************************************)
(* Host sync.  A generation that was never reserved is empty, and the one  *)
(* that a sync stages is the last that was reserved: what it imports into, *)
(* replaces or discards is never the working state nor the retained one.   *)
(* While a safe sync stands between its last comparison and its            *)
(* publication, programs run on no generation or on the staged one.        *)
(***************************************************************************)

SyncRows ==
    [status : {"awake", "asleep", "broken"}, ws : H!Gens, top : H!Gens, kept : {None} \cup H!Gens,
     base : H!Content, label : {"synced", "modified"}]

SyncSteps ==
    {"idle", "check", "reserve", "import", "pause", "compare", "unpause", "switch", "publish",
     "switchBack", "restore", "discard", "discardOrBreak", "drop"}

Syncs ==
    [step : SyncSteps, safe : BOOLEAN, accepted : {None} \cup H!Content, next : H!Gens,
     drop : {None} \cup H!Gens]

SyncTyped ==
    /\ H!TypeOK
    /\ record \in SyncRows /\ sync \in Syncs

\* Steps at which the sync owns a reserved generation, and at which something
\* was imported into it.
Staging == SyncSteps \ {"idle", "check", "reserve", "drop"}
Filled == {"pause", "compare", "switch", "publish"}

Generations ==
    /\ record.ws <= record.top /\ H!WorkIsThere
    /\ record.kept # None => record.kept < record.ws
    /\ \A g \in H!Gens : g > record.top => gens[g] = None
    /\ sync.step \in Staging => sync.next = record.top /\ record.ws < record.top
    /\ sync.step = "import" => gens[sync.next] = None
    /\ sync.step \in Filled => gens[sync.next] # None
    /\ sync.step = "drop" /\ sync.drop # None => record.kept # None /\ sync.drop < record.kept

\* What the web runs on, by step.
RunsAt(g, mode) == runtime = [gen |-> g, mode |-> mode]
Webs ==
    /\ sync.step # "idle" => record.status = "awake"
    /\ /\ record.status = "awake"
       /\ sync.step \notin {"compare", "unpause", "restore", "switch", "publish", "switchBack"}
       => RunsAt(record.ws, "running")
    /\ sync.step \in {"compare", "unpause", "restore"} => RunsAt(record.ws, "paused")
    /\ sync.step = "switch" => RunsAt(record.ws, IF sync.safe THEN "paused" ELSE "running")
    /\ sync.step = "publish" => RunsAt(sync.next, "running")
    /\ sync.step \in {"pause", "compare"} => sync.safe

Accepted == sync.safe /\ sync.step \in {"switch", "publish"} => H!Current = sync.accepted

SyncInv == SyncTyped /\ Generations /\ Webs /\ Accepted

LEMMA SyncInit == ASSUME H!HostSyncAssumption, H!Init PROVE SyncInv
BY DEF H!HostSyncAssumption, H!Init, SyncInv, SyncTyped, Generations, Webs, Accepted, H!TypeOK, SyncRows, Syncs,
       SyncSteps, Staging, Filled, H!Gens, H!Content, H!Imported, H!Idle, H!WorkIsThere, H!Current, RunsAt

LEMMA IdleTyped == ASSUME H!HostSyncAssumption PROVE H!Idle \in Syncs /\ H!Idle.step = "idle" /\ ~H!Idle.safe
BY DEF H!HostSyncAssumption, H!Idle, Syncs, SyncSteps, H!Gens

LEMMA ImportedTyped == ASSUME H!HostSyncAssumption, SyncInv PROVE H!Imported \in H!Content /\ H!Imported # None
BY DEF H!HostSyncAssumption, H!Imported, H!Content, SyncInv, SyncTyped, H!TypeOK

LEMMA CurrentTyped == ASSUME SyncInv PROVE H!Current \in H!Content
BY DEF SyncInv, SyncTyped, H!TypeOK, Generations, H!WorkIsThere, H!Current, SyncRows

LEMMA SyncAskPlain ==
    ASSUME H!HostSyncAssumption, SyncInv, H!AskPlain
    PROVE  SyncInv'
<1>1. sync' \in Syncs
  BY IdleTyped DEF SyncInv, SyncTyped, Syncs, SyncSteps, H!At, H!AskPlain
<1>2. record' \in SyncRows
  BY DEF SyncInv, SyncTyped, SyncRows, H!AskPlain
<1>3. H!TypeOK'
  BY <1>1, <1>2, IdleTyped DEF SyncInv, SyncTyped, H!TypeOK, SyncRows, Syncs, H!Gens, H!HostSyncAssumption,
       H!At, H!AskPlain
<1>4. Generations'
  BY <1>1, <1>2, IdleTyped DEF SyncInv, SyncTyped, H!TypeOK, SyncRows, Syncs, SyncSteps, Generations, Staging,
       Filled, H!HostSyncAssumption, H!Gens, H!WorkIsThere, H!Current, H!At, H!AskPlain
<1>5. Webs'
  BY <1>1, <1>2, IdleTyped DEF SyncInv, SyncTyped, H!TypeOK, SyncRows, Syncs, SyncSteps, Webs, RunsAt, H!At,
       H!AskPlain, H!Awake
<1>6. Accepted'
  BY <1>1, <1>2, IdleTyped DEF SyncInv, SyncTyped, H!TypeOK, SyncRows, Syncs, SyncSteps, Generations, Webs,
       RunsAt, Staging, Filled, Accepted, H!Current, H!At, H!AskPlain
<1> QED
  BY <1>1, <1>2, <1>3, <1>4, <1>5, <1>6 DEF SyncInv, SyncTyped

LEMMA SyncAskSafe ==
    ASSUME H!HostSyncAssumption, SyncInv, NEW caller \in H!Callers, NEW presented, H!AskSafe(caller, presented)
    PROVE  SyncInv'
<1>1. sync' \in Syncs
  BY IdleTyped, CurrentTyped DEF SyncInv, SyncTyped, Syncs, SyncSteps, H!At, H!AskSafe
<1>2. record' \in SyncRows
  BY CurrentTyped DEF SyncInv, SyncTyped, SyncRows, H!AskSafe
<1>3. H!TypeOK'
  BY <1>1, <1>2, IdleTyped, CurrentTyped DEF SyncInv, SyncTyped, H!TypeOK, SyncRows, Syncs, H!Gens,
       H!HostSyncAssumption, H!Confirmation, H!At, H!AskSafe
<1>4. Generations'
  BY <1>1, <1>2, IdleTyped DEF SyncInv, SyncTyped, H!TypeOK, SyncRows, Syncs, SyncSteps, Generations, Staging,
       Filled, H!HostSyncAssumption, H!Gens, H!WorkIsThere, H!Current, H!At, H!AskSafe
<1>5. Webs'
  BY <1>1, <1>2, IdleTyped DEF SyncInv, SyncTyped, H!TypeOK, SyncRows, Syncs, SyncSteps, Webs, RunsAt, H!At,
       H!AskSafe, H!Awake
<1>6. Accepted'
  BY <1>1, <1>2, IdleTyped DEF SyncInv, SyncTyped, H!TypeOK, SyncRows, Syncs, SyncSteps, Generations, Webs,
       RunsAt, Staging, Filled, Accepted, H!Current, H!At, H!AskSafe
<1> QED
  BY <1>1, <1>2, <1>3, <1>4, <1>5, <1>6 DEF SyncInv, SyncTyped

LEMMA SyncExpire ==
    ASSUME H!HostSyncAssumption, SyncInv, H!Expire
    PROVE  SyncInv'
<1>1. sync' \in Syncs
  BY DEF SyncInv, SyncTyped, Syncs, SyncSteps, H!Expire
<1>2. record' \in SyncRows
  BY DEF SyncInv, SyncTyped, SyncRows, H!Expire
<1>3. H!TypeOK'
  BY <1>1, <1>2 DEF SyncInv, SyncTyped, H!TypeOK, SyncRows, Syncs, H!Gens, H!HostSyncAssumption, H!Mishap,
       H!Expire
<1>4. Generations'
  BY <1>1, <1>2 DEF SyncInv, SyncTyped, H!TypeOK, SyncRows, Syncs, SyncSteps, Generations, Staging, Filled,
       H!HostSyncAssumption, H!Gens, H!WorkIsThere, H!Current, H!Expire
<1>5. Webs'
  BY <1>1, <1>2 DEF SyncInv, SyncTyped, H!TypeOK, SyncRows, Syncs, SyncSteps, Webs, RunsAt, H!Expire
<1>6. Accepted'
  BY <1>1, <1>2 DEF SyncInv, SyncTyped, H!TypeOK, SyncRows, Syncs, SyncSteps, Generations, Webs, RunsAt,
       Staging, Filled, Accepted, H!Current, H!Expire
<1> QED
  BY <1>1, <1>2, <1>3, <1>4, <1>5, <1>6 DEF SyncInv, SyncTyped

LEMMA SyncCheck ==
    ASSUME H!HostSyncAssumption, SyncInv, H!Check
    PROVE  SyncInv'
<1>1. sync' \in Syncs
  BY IdleTyped, CurrentTyped DEF SyncInv, SyncTyped, Syncs, SyncSteps, H!Goto, H!Over, H!At, H!Check
<1>2. record' \in SyncRows
  BY CurrentTyped DEF SyncInv, SyncTyped, SyncRows, H!Over, H!Check
<1>3. H!TypeOK'
  BY <1>1, <1>2, IdleTyped, CurrentTyped DEF SyncInv, SyncTyped, H!TypeOK, SyncRows, Syncs, H!Gens,
       H!HostSyncAssumption, H!Goto, H!Over, H!At, H!Check
<1>4. Generations'
  <2>1. gens' = gens /\ record'.ws = record.ws /\ record'.top = record.top /\ record'.kept = record.kept
    BY DEF SyncInv, SyncTyped, SyncRows, H!Check
  <2>2. sync'.step \in {"reserve", "idle"}
    BY IdleTyped DEF SyncInv, SyncTyped, Syncs, H!Check, H!Goto, H!Over
  <2> QED
    BY <2>1, <2>2 DEF SyncInv, Generations, Staging, Filled, H!WorkIsThere, H!Current
<1>5. Webs'
  BY <1>1, <1>2, IdleTyped DEF SyncInv, SyncTyped, H!TypeOK, SyncRows, Syncs, SyncSteps, Webs, RunsAt, H!At,
       H!Goto, H!Over, H!Check
<1>6. Accepted'
  BY <1>1, <1>2, IdleTyped DEF SyncInv, SyncTyped, H!TypeOK, SyncRows, Syncs, SyncSteps, Generations, Webs,
       RunsAt, Staging, Filled, Accepted, H!Current, H!At, H!Goto, H!Over, H!Check
<1> QED
  BY <1>1, <1>2, <1>3, <1>4, <1>5, <1>6 DEF SyncInv, SyncTyped

LEMMA SyncReserve ==
    ASSUME H!HostSyncAssumption, SyncInv, H!Reserve
    PROVE  SyncInv'
<1>1. sync' \in Syncs
  <2>1. record.top + 1 \in H!Gens
    BY DEF H!Reserve, SyncInv, SyncTyped, SyncRows, H!Gens, H!HostSyncAssumption
  <2> QED
    BY <2>1 DEF H!Reserve, SyncInv, SyncTyped, Syncs, SyncSteps
<1>2. record' \in SyncRows
  BY DEF SyncInv, SyncTyped, SyncRows, H!Reserve, H!Gens, H!HostSyncAssumption
<1>3. H!TypeOK'
  BY <1>1, <1>2 DEF SyncInv, SyncTyped, H!TypeOK, SyncRows, Syncs, H!Gens, H!HostSyncAssumption, H!At, H!Reserve
<1>4. Generations'
  BY <1>1, <1>2 DEF SyncInv, SyncTyped, H!TypeOK, SyncRows, Syncs, SyncSteps, Generations, Staging, Filled,
       H!HostSyncAssumption, H!Gens, H!WorkIsThere, H!Current, H!At, H!Reserve
<1>5. Webs'
  BY <1>1, <1>2 DEF SyncInv, SyncTyped, H!TypeOK, SyncRows, Syncs, SyncSteps, Webs, RunsAt, H!At, H!Reserve
<1>6. Accepted'
  BY <1>1, <1>2 DEF SyncInv, SyncTyped, H!TypeOK, SyncRows, Syncs, SyncSteps, Generations, Webs, RunsAt,
       Staging, Filled, Accepted, H!Current, H!At, H!Reserve
<1> QED
  BY <1>1, <1>2, <1>3, <1>4, <1>5, <1>6 DEF SyncInv, SyncTyped

LEMMA SyncImport ==
    ASSUME H!HostSyncAssumption, SyncInv, H!Import
    PROVE  SyncInv'
<1>1. sync' \in Syncs
  BY DEF SyncInv, SyncTyped, Syncs, SyncSteps, H!Goto, H!At, H!Import
<1>2. record' \in SyncRows
  BY ImportedTyped DEF SyncInv, SyncTyped, SyncRows, H!Import
<1>3. H!TypeOK'
  BY <1>1, <1>2, ImportedTyped DEF SyncInv, SyncTyped, H!TypeOK, SyncRows, Syncs, H!Gens, H!HostSyncAssumption,
       H!Goto, H!At, H!Import
<1>4. Generations'
  BY <1>1, <1>2, ImportedTyped DEF SyncInv, SyncTyped, H!TypeOK, SyncRows, Syncs, SyncSteps, Generations,
       Staging, Filled, H!HostSyncAssumption, H!Gens, H!WorkIsThere, H!Current, H!At, H!Goto, H!Import
<1>5. Webs'
  BY <1>1, <1>2 DEF SyncInv, SyncTyped, H!TypeOK, SyncRows, Syncs, SyncSteps, Webs, RunsAt, H!At, H!Goto,
       H!Import
<1>6. Accepted'
  BY <1>1, <1>2 DEF SyncInv, SyncTyped, H!TypeOK, SyncRows, Syncs, SyncSteps, Generations, Webs, RunsAt,
       Staging, Filled, Accepted, H!Current, H!At, H!Goto, H!Import
<1> QED
  BY <1>1, <1>2, <1>3, <1>4, <1>5, <1>6 DEF SyncInv, SyncTyped

LEMMA SyncImportFails ==
    ASSUME H!HostSyncAssumption, SyncInv, H!ImportFails
    PROVE  SyncInv'
<1>1. sync' \in Syncs
  BY IdleTyped DEF SyncInv, SyncTyped, Syncs, SyncSteps, H!Over, H!At, H!ImportFails
<1>2. record' \in SyncRows
  BY ImportedTyped DEF SyncInv, SyncTyped, SyncRows, H!Over, H!ImportFails
<1>3. H!TypeOK'
  BY <1>1, <1>2, IdleTyped, ImportedTyped DEF SyncInv, SyncTyped, H!TypeOK, SyncRows, Syncs, H!Gens,
       H!HostSyncAssumption, H!Over, H!Mishap, H!At, H!ImportFails
<1>4. Generations'
  BY <1>1, <1>2, IdleTyped, ImportedTyped DEF SyncInv, SyncTyped, H!TypeOK, SyncRows, Syncs, SyncSteps,
       Generations, Staging, Filled, H!HostSyncAssumption, H!Gens, H!WorkIsThere, H!Current, H!At, H!Over,
       H!ImportFails
<1>5. Webs'
  BY <1>1, <1>2, IdleTyped DEF SyncInv, SyncTyped, H!TypeOK, SyncRows, Syncs, SyncSteps, Webs, RunsAt, H!At,
       H!Over, H!ImportFails
<1>6. Accepted'
  BY <1>1, <1>2, IdleTyped DEF SyncInv, SyncTyped, H!TypeOK, SyncRows, Syncs, SyncSteps, Generations, Webs,
       RunsAt, Staging, Filled, Accepted, H!Current, H!At, H!Over, H!ImportFails
<1> QED
  BY <1>1, <1>2, <1>3, <1>4, <1>5, <1>6 DEF SyncInv, SyncTyped

LEMMA SyncPause ==
    ASSUME H!HostSyncAssumption, SyncInv, H!Pause
    PROVE  SyncInv'
<1>1. sync' \in Syncs
  BY DEF SyncInv, SyncTyped, Syncs, SyncSteps, H!Goto, H!At, H!Pause
<1>2. record' \in SyncRows
  BY DEF SyncInv, SyncTyped, SyncRows, H!Pause
<1>3. H!TypeOK'
  BY <1>1, <1>2 DEF SyncInv, SyncTyped, H!TypeOK, SyncRows, Syncs, H!Gens, H!HostSyncAssumption, H!Goto, H!At,
       H!Pause
<1>4. Generations'
  BY <1>1, <1>2 DEF SyncInv, SyncTyped, H!TypeOK, SyncRows, Syncs, SyncSteps, Generations, Staging, Filled,
       H!HostSyncAssumption, H!Gens, H!WorkIsThere, H!Current, H!At, H!Goto, H!Pause
<1>5. Webs'
  BY <1>1, <1>2 DEF SyncInv, SyncTyped, H!TypeOK, SyncRows, Syncs, SyncSteps, Webs, RunsAt, H!At, H!Goto,
       H!Pause
<1>6. Accepted'
  BY <1>1, <1>2 DEF SyncInv, SyncTyped, H!TypeOK, SyncRows, Syncs, SyncSteps, Generations, Webs, RunsAt,
       Staging, Filled, Accepted, H!Current, H!At, H!Goto, H!Pause
<1> QED
  BY <1>1, <1>2, <1>3, <1>4, <1>5, <1>6 DEF SyncInv, SyncTyped

LEMMA SyncPauseFails ==
    ASSUME H!HostSyncAssumption, SyncInv, H!PauseFails
    PROVE  SyncInv'
<1>1. sync' \in Syncs
  BY DEF SyncInv, SyncTyped, Syncs, SyncSteps, H!Goto, H!At, H!PauseFails
<1>2. record' \in SyncRows
  BY DEF SyncInv, SyncTyped, SyncRows, H!PauseFails
<1>3. H!TypeOK'
  BY <1>1, <1>2 DEF SyncInv, SyncTyped, H!TypeOK, SyncRows, Syncs, H!Gens, H!HostSyncAssumption, H!Goto,
       H!Mishap, H!At, H!PauseFails
<1>4. Generations'
  BY <1>1, <1>2 DEF SyncInv, SyncTyped, H!TypeOK, SyncRows, Syncs, SyncSteps, Generations, Staging, Filled,
       H!HostSyncAssumption, H!Gens, H!WorkIsThere, H!Current, H!At, H!Goto, H!PauseFails
<1>5. Webs'
  BY <1>1, <1>2 DEF SyncInv, SyncTyped, H!TypeOK, SyncRows, Syncs, SyncSteps, Webs, RunsAt, H!At, H!Goto,
       H!PauseFails
<1>6. Accepted'
  BY <1>1, <1>2 DEF SyncInv, SyncTyped, H!TypeOK, SyncRows, Syncs, SyncSteps, Generations, Webs, RunsAt,
       Staging, Filled, Accepted, H!Current, H!At, H!Goto, H!PauseFails
<1> QED
  BY <1>1, <1>2, <1>3, <1>4, <1>5, <1>6 DEF SyncInv, SyncTyped

LEMMA SyncCompare ==
    ASSUME H!HostSyncAssumption, SyncInv, H!Compare
    PROVE  SyncInv'
<1>1. sync' \in Syncs
  BY CurrentTyped DEF SyncInv, SyncTyped, Syncs, SyncSteps, H!Goto, H!At, H!Compare
<1>2. record' \in SyncRows
  BY CurrentTyped DEF SyncInv, SyncTyped, SyncRows, H!Compare
<1>3. H!TypeOK'
  BY <1>1, <1>2, CurrentTyped DEF SyncInv, SyncTyped, H!TypeOK, SyncRows, Syncs, H!Gens, H!HostSyncAssumption,
       H!Goto, H!At, H!Compare
<1>4. Generations'
  <2>1. gens' = gens /\ record'.ws = record.ws /\ record'.top = record.top /\ record'.kept = record.kept
    BY DEF SyncInv, SyncTyped, SyncRows, H!Compare
  <2>2. sync'.next = sync.next /\ sync'.step \in {"switch", "unpause"} /\ sync.step = "compare"
    BY DEF SyncInv, SyncTyped, Syncs, H!Compare, H!Goto, H!At
  <2> QED
    BY <2>1, <2>2 DEF SyncInv, Generations, Staging, SyncSteps, Filled, H!WorkIsThere, H!Current
<1>5. Webs'
  <2>1. record'.ws = record.ws /\ record'.status = record.status /\ runtime' = runtime
    BY DEF SyncInv, SyncTyped, SyncRows, H!Compare
  <2>2. sync'.step \in {"switch", "unpause"} /\ sync'.safe = sync.safe
    BY DEF SyncInv, SyncTyped, Syncs, H!Compare, H!Goto
  <2>3. sync.step = "compare" /\ (sync'.step = "switch" => sync.safe)
    BY DEF H!Compare, H!At, SyncInv, Webs
  <2> QED
    BY <2>1, <2>2, <2>3 DEF SyncInv, Webs, RunsAt
<1>6. Accepted'
  BY <1>1, <1>2 DEF SyncInv, SyncTyped, H!TypeOK, SyncRows, Syncs, SyncSteps, Generations, Webs, RunsAt,
       Staging, Filled, Accepted, H!Current, H!At, H!Goto, H!Compare
<1> QED
  BY <1>1, <1>2, <1>3, <1>4, <1>5, <1>6 DEF SyncInv, SyncTyped

LEMMA SyncCompareFails ==
    ASSUME H!HostSyncAssumption, SyncInv, H!CompareFails
    PROVE  SyncInv'
<1>1. sync' \in Syncs
  BY DEF SyncInv, SyncTyped, Syncs, SyncSteps, H!Goto, H!At, H!CompareFails
<1>2. record' \in SyncRows
  BY DEF SyncInv, SyncTyped, SyncRows, H!CompareFails
<1>3. H!TypeOK'
  BY <1>1, <1>2 DEF SyncInv, SyncTyped, H!TypeOK, SyncRows, Syncs, H!Gens, H!HostSyncAssumption, H!Goto,
       H!Mishap, H!At, H!CompareFails
<1>4. Generations'
  BY <1>1, <1>2 DEF SyncInv, SyncTyped, H!TypeOK, SyncRows, Syncs, SyncSteps, Generations, Staging, Filled,
       H!HostSyncAssumption, H!Gens, H!WorkIsThere, H!Current, H!At, H!Goto, H!CompareFails
<1>5. Webs'
  BY <1>1, <1>2 DEF SyncInv, SyncTyped, H!TypeOK, SyncRows, Syncs, SyncSteps, Webs, RunsAt, H!At, H!Goto,
       H!CompareFails
<1>6. Accepted'
  BY <1>1, <1>2 DEF SyncInv, SyncTyped, H!TypeOK, SyncRows, Syncs, SyncSteps, Generations, Webs, RunsAt,
       Staging, Filled, Accepted, H!Current, H!At, H!Goto, H!CompareFails
<1> QED
  BY <1>1, <1>2, <1>3, <1>4, <1>5, <1>6 DEF SyncInv, SyncTyped

LEMMA SyncUnpause ==
    ASSUME H!HostSyncAssumption, SyncInv, H!Unpause
    PROVE  SyncInv'
<1>1. sync' \in Syncs
  BY DEF SyncInv, SyncTyped, Syncs, SyncSteps, H!Goto, H!At, H!Unpause
<1>2. record' \in SyncRows
  BY DEF SyncInv, SyncTyped, SyncRows, H!Unpause
<1>3. H!TypeOK'
  BY <1>1, <1>2 DEF SyncInv, SyncTyped, H!TypeOK, SyncRows, Syncs, H!Gens, H!HostSyncAssumption, H!Goto, H!At,
       H!Unpause
<1>4. Generations'
  BY <1>1, <1>2 DEF SyncInv, SyncTyped, H!TypeOK, SyncRows, Syncs, SyncSteps, Generations, Staging, Filled,
       H!HostSyncAssumption, H!Gens, H!WorkIsThere, H!Current, H!At, H!Goto, H!Unpause
<1>5. Webs'
  BY <1>1, <1>2 DEF SyncInv, SyncTyped, H!TypeOK, SyncRows, Syncs, SyncSteps, Webs, RunsAt, H!At, H!Goto,
       H!Unpause
<1>6. Accepted'
  BY <1>1, <1>2 DEF SyncInv, SyncTyped, H!TypeOK, SyncRows, Syncs, SyncSteps, Generations, Webs, RunsAt,
       Staging, Filled, Accepted, H!Current, H!At, H!Goto, H!Unpause
<1> QED
  BY <1>1, <1>2, <1>3, <1>4, <1>5, <1>6 DEF SyncInv, SyncTyped

LEMMA SyncUnpauseFails ==
    ASSUME H!HostSyncAssumption, SyncInv, H!UnpauseFails
    PROVE  SyncInv'
<1>1. sync' \in Syncs
  BY DEF SyncInv, SyncTyped, Syncs, SyncSteps, H!Goto, H!At, H!UnpauseFails
<1>2. record' \in SyncRows
  BY DEF SyncInv, SyncTyped, SyncRows, H!UnpauseFails
<1>3. H!TypeOK'
  BY <1>1, <1>2 DEF SyncInv, SyncTyped, H!TypeOK, SyncRows, Syncs, H!Gens, H!HostSyncAssumption, H!Goto,
       H!Mishap, H!At, H!UnpauseFails
<1>4. Generations'
  BY <1>1, <1>2 DEF SyncInv, SyncTyped, H!TypeOK, SyncRows, Syncs, SyncSteps, Generations, Staging, Filled,
       H!HostSyncAssumption, H!Gens, H!WorkIsThere, H!Current, H!At, H!Goto, H!UnpauseFails
<1>5. Webs'
  BY <1>1, <1>2 DEF SyncInv, SyncTyped, H!TypeOK, SyncRows, Syncs, SyncSteps, Webs, RunsAt, H!At, H!Goto,
       H!UnpauseFails
<1>6. Accepted'
  BY <1>1, <1>2 DEF SyncInv, SyncTyped, H!TypeOK, SyncRows, Syncs, SyncSteps, Generations, Webs, RunsAt,
       Staging, Filled, Accepted, H!Current, H!At, H!Goto, H!UnpauseFails
<1> QED
  BY <1>1, <1>2, <1>3, <1>4, <1>5, <1>6 DEF SyncInv, SyncTyped

LEMMA SyncSwitch ==
    ASSUME H!HostSyncAssumption, SyncInv, H!Switch
    PROVE  SyncInv'
<1>1. sync' \in Syncs
  BY DEF SyncInv, SyncTyped, Syncs, SyncSteps, H!Goto, H!At, H!Switch
<1>2. record' \in SyncRows
  BY DEF SyncInv, SyncTyped, SyncRows, H!Switch
<1>3. H!TypeOK'
  BY <1>1, <1>2 DEF SyncInv, SyncTyped, H!TypeOK, SyncRows, Syncs, H!Gens, H!HostSyncAssumption, H!Goto,
       H!RunsOn, H!At, H!Switch
<1>4. Generations'
  BY <1>1, <1>2 DEF SyncInv, SyncTyped, H!TypeOK, SyncRows, Syncs, SyncSteps, Generations, Staging, Filled,
       H!HostSyncAssumption, H!Gens, H!WorkIsThere, H!Current, H!At, H!Goto, H!Switch
<1>5. Webs'
  BY <1>1, <1>2 DEF SyncInv, SyncTyped, H!TypeOK, SyncRows, Syncs, SyncSteps, Webs, RunsAt, H!At, H!Goto,
       H!RunsOn, H!Switch
<1>6. Accepted'
  BY <1>1, <1>2 DEF SyncInv, SyncTyped, H!TypeOK, SyncRows, Syncs, SyncSteps, Generations, Webs, RunsAt,
       Staging, Filled, Accepted, H!Current, H!At, H!Goto, H!Switch
<1> QED
  BY <1>1, <1>2, <1>3, <1>4, <1>5, <1>6 DEF SyncInv, SyncTyped

LEMMA SyncSwitchFails ==
    ASSUME H!HostSyncAssumption, SyncInv, H!SwitchFails
    PROVE  SyncInv'
<1>1. sync' \in Syncs
  BY DEF SyncInv, SyncTyped, Syncs, SyncSteps, H!Goto, H!At, H!SwitchFails
<1>2. record' \in SyncRows
  BY DEF SyncInv, SyncTyped, SyncRows, H!SwitchFails
<1>3. H!TypeOK'
  BY <1>1, <1>2 DEF SyncInv, SyncTyped, H!TypeOK, SyncRows, Syncs, H!Gens, H!HostSyncAssumption, H!Goto,
       H!Mishap, H!Down, H!At, H!SwitchFails
<1>4. Generations'
  BY <1>1, <1>2 DEF SyncInv, SyncTyped, H!TypeOK, SyncRows, Syncs, SyncSteps, Generations, Staging, Filled,
       H!HostSyncAssumption, H!Gens, H!WorkIsThere, H!Current, H!At, H!Goto, H!SwitchFails
<1>5. Webs'
  BY <1>1, <1>2 DEF SyncInv, SyncTyped, H!TypeOK, SyncRows, Syncs, SyncSteps, Webs, RunsAt, H!At, H!Goto,
       H!Down, H!SwitchFails
<1>6. Accepted'
  BY <1>1, <1>2 DEF SyncInv, SyncTyped, H!TypeOK, SyncRows, Syncs, SyncSteps, Generations, Webs, RunsAt,
       Staging, Filled, Accepted, H!Current, H!At, H!Goto, H!SwitchFails
<1> QED
  BY <1>1, <1>2, <1>3, <1>4, <1>5, <1>6 DEF SyncInv, SyncTyped

LEMMA SyncPublish ==
    ASSUME H!HostSyncAssumption, SyncInv, H!Publish
    PROVE  SyncInv'
<1>1. sync' \in Syncs
  BY DEF SyncInv, SyncTyped, Syncs, SyncSteps, H!At, H!Publish, H!Gens, H!HostSyncAssumption, SyncRows
<1>2. record' \in SyncRows
  BY DEF SyncInv, SyncTyped, SyncRows, H!Publish, H!Gens, H!HostSyncAssumption, H!Content, H!TypeOK,
       Generations, Filled, H!WorkIsThere, H!Current, H!At, Syncs
<1>3. H!TypeOK'
  <2>1. /\ record'.ws = sync.next /\ record'.top = record.top /\ record'.kept = record.ws
        /\ record'.label = "synced" /\ record'.status = record.status /\ record'.base \in H!Content
    BY <1>2 DEF H!Publish, SyncInv, SyncTyped, SyncRows
  <2>2. sync.next = record.top /\ record.ws \in H!Gens /\ record.top \in 0 .. MaxGen
    BY DEF H!Publish, H!At, SyncInv, SyncTyped, SyncRows, SyncSteps, Generations, Staging, H!Gens
  <2>3. sync'.next = sync.next /\ sync'.accepted = sync.accepted
    BY DEF H!Publish, SyncInv, SyncTyped, Syncs
  <2> QED
    BY <1>1, <2>1, <2>2, <2>3 DEF H!Publish, SyncInv, SyncTyped, H!TypeOK, H!Gens, H!HostSyncAssumption
<1>4. Generations'
  BY <1>1, <1>2 DEF SyncInv, SyncTyped, H!TypeOK, SyncRows, Syncs, SyncSteps, Generations, Staging, Filled,
       H!HostSyncAssumption, H!Gens, H!WorkIsThere, H!Current, H!At, H!Publish
<1>5. Webs'
  BY <1>1, <1>2 DEF SyncInv, SyncTyped, H!TypeOK, SyncRows, Syncs, SyncSteps, Webs, RunsAt, H!At, H!Publish
<1>6. Accepted'
  BY <1>1, <1>2 DEF SyncInv, SyncTyped, H!TypeOK, SyncRows, Syncs, SyncSteps, Generations, Webs, RunsAt,
       Staging, Filled, Accepted, H!Current, H!At, H!Publish
<1> QED
  BY <1>1, <1>2, <1>3, <1>4, <1>5, <1>6 DEF SyncInv, SyncTyped

LEMMA SyncPublishFails ==
    ASSUME H!HostSyncAssumption, SyncInv, H!PublishFails
    PROVE  SyncInv'
<1>1. sync' \in Syncs
  BY DEF SyncInv, SyncTyped, Syncs, SyncSteps, H!Goto, H!At, H!PublishFails
<1>2. record' \in SyncRows
  BY DEF SyncInv, SyncTyped, SyncRows, H!PublishFails
<1>3. H!TypeOK'
  BY <1>1, <1>2 DEF SyncInv, SyncTyped, H!TypeOK, SyncRows, Syncs, H!Gens, H!HostSyncAssumption, H!Goto,
       H!Mishap, H!At, H!PublishFails
<1>4. Generations'
  BY <1>1, <1>2 DEF SyncInv, SyncTyped, H!TypeOK, SyncRows, Syncs, SyncSteps, Generations, Staging, Filled,
       H!HostSyncAssumption, H!Gens, H!WorkIsThere, H!Current, H!At, H!Goto, H!PublishFails
<1>5. Webs'
  BY <1>1, <1>2 DEF SyncInv, SyncTyped, H!TypeOK, SyncRows, Syncs, SyncSteps, Webs, RunsAt, H!At, H!Goto,
       H!PublishFails
<1>6. Accepted'
  BY <1>1, <1>2 DEF SyncInv, SyncTyped, H!TypeOK, SyncRows, Syncs, SyncSteps, Generations, Webs, RunsAt,
       Staging, Filled, Accepted, H!Current, H!At, H!Goto, H!PublishFails
<1> QED
  BY <1>1, <1>2, <1>3, <1>4, <1>5, <1>6 DEF SyncInv, SyncTyped

LEMMA SyncGoesBack ==
    ASSUME H!HostSyncAssumption, SyncInv, H!GoesBack
    PROVE  SyncInv'
<1>1. sync' \in Syncs
  BY DEF SyncInv, SyncTyped, Syncs, SyncSteps, H!Goto, H!At, H!GoesBack
<1>2. record' \in SyncRows
  BY DEF SyncInv, SyncTyped, SyncRows, H!GoesBack
<1>3. H!TypeOK'
  BY <1>1, <1>2 DEF SyncInv, SyncTyped, H!TypeOK, SyncRows, Syncs, H!Gens, H!HostSyncAssumption, H!Goto,
       H!RunsOn, H!At, H!GoesBack
<1>4. Generations'
  BY <1>1, <1>2 DEF SyncInv, SyncTyped, H!TypeOK, SyncRows, Syncs, SyncSteps, Generations, Staging, Filled,
       H!HostSyncAssumption, H!Gens, H!WorkIsThere, H!Current, H!At, H!Goto, H!GoesBack
<1>5. Webs'
  BY <1>1, <1>2 DEF SyncInv, SyncTyped, H!TypeOK, SyncRows, Syncs, SyncSteps, Webs, RunsAt, H!At, H!Goto,
       H!RunsOn, H!GoesBack
<1>6. Accepted'
  BY <1>1, <1>2 DEF SyncInv, SyncTyped, H!TypeOK, SyncRows, Syncs, SyncSteps, Generations, Webs, RunsAt,
       Staging, Filled, Accepted, H!Current, H!At, H!Goto, H!GoesBack
<1> QED
  BY <1>1, <1>2, <1>3, <1>4, <1>5, <1>6 DEF SyncInv, SyncTyped

LEMMA SyncGoBackFails ==
    ASSUME H!HostSyncAssumption, SyncInv, H!GoBackFails
    PROVE  SyncInv'
<1>1. sync' \in Syncs
  BY IdleTyped DEF SyncInv, SyncTyped, Syncs, SyncSteps, H!Over, H!At, H!GoBackFails
<1>2. record' \in SyncRows
  BY DEF SyncInv, SyncTyped, SyncRows, H!Broken, H!Over, H!GoBackFails
<1>3. H!TypeOK'
  BY <1>1, <1>2, IdleTyped DEF SyncInv, SyncTyped, H!TypeOK, SyncRows, Syncs, H!Gens, H!HostSyncAssumption,
       H!Over, H!Mishap, H!Down, H!Broken, H!At, H!GoBackFails
<1>4. Generations'
  BY <1>1, <1>2, IdleTyped DEF SyncInv, SyncTyped, H!TypeOK, SyncRows, Syncs, SyncSteps, Generations, Staging,
       Filled, H!HostSyncAssumption, H!Gens, H!WorkIsThere, H!Current, H!At, H!Over, H!Broken, H!GoBackFails
<1>5. Webs'
  BY <1>1, <1>2, IdleTyped DEF SyncInv, SyncTyped, H!TypeOK, SyncRows, Syncs, SyncSteps, Webs, RunsAt, H!At,
       H!Over, H!Broken, H!Down, H!GoBackFails
<1>6. Accepted'
  BY <1>1, <1>2, IdleTyped DEF SyncInv, SyncTyped, H!TypeOK, SyncRows, Syncs, SyncSteps, Generations, Webs,
       RunsAt, Staging, Filled, Accepted, H!Current, H!At, H!Over, H!Broken, H!GoBackFails
<1> QED
  BY <1>1, <1>2, <1>3, <1>4, <1>5, <1>6 DEF SyncInv, SyncTyped

LEMMA SyncDiscard ==
    ASSUME H!HostSyncAssumption, SyncInv, H!Discard
    PROVE  SyncInv'
<1>1. sync' \in Syncs
  BY IdleTyped DEF SyncInv, SyncTyped, Syncs, SyncSteps, H!Over, H!At, H!Discard
<1>2. record' \in SyncRows
  BY DEF SyncInv, SyncTyped, SyncRows, H!Over, H!Discard
<1>3. H!TypeOK'
  BY <1>1, <1>2, IdleTyped DEF SyncInv, SyncTyped, H!TypeOK, SyncRows, Syncs, H!Gens, H!HostSyncAssumption,
       H!Over, H!At, H!Discard
<1>4. Generations'
  BY <1>1, <1>2, IdleTyped DEF SyncInv, SyncTyped, H!TypeOK, SyncRows, Syncs, SyncSteps, Generations, Staging,
       Filled, H!HostSyncAssumption, H!Gens, H!WorkIsThere, H!Current, H!At, H!Over, H!Discard
<1>5. Webs'
  BY <1>1, <1>2, IdleTyped DEF SyncInv, SyncTyped, H!TypeOK, SyncRows, Syncs, SyncSteps, Webs, RunsAt, H!At,
       H!Over, H!Discard
<1>6. Accepted'
  BY <1>1, <1>2, IdleTyped DEF SyncInv, SyncTyped, H!TypeOK, SyncRows, Syncs, SyncSteps, Generations, Webs,
       RunsAt, Staging, Filled, Accepted, H!Current, H!At, H!Over, H!Discard
<1> QED
  BY <1>1, <1>2, <1>3, <1>4, <1>5, <1>6 DEF SyncInv, SyncTyped

LEMMA SyncDiscardFails ==
    ASSUME H!HostSyncAssumption, SyncInv, H!DiscardFails
    PROVE  SyncInv'
<1>1. sync' \in Syncs
  BY IdleTyped DEF SyncInv, SyncTyped, Syncs, SyncSteps, H!Over, H!At, H!DiscardFails
<1>2. record' \in SyncRows
  BY DEF SyncInv, SyncTyped, SyncRows, H!Broken, H!Over, H!DiscardFails
<1>3. H!TypeOK'
  BY <1>1, <1>2, IdleTyped DEF SyncInv, SyncTyped, H!TypeOK, SyncRows, Syncs, H!Gens, H!HostSyncAssumption,
       H!Over, H!Mishap, H!Broken, H!At, H!DiscardFails
<1>4. Generations'
  <2>1. gens' = gens /\ record'.ws = record.ws /\ record'.top = record.top /\ record'.kept = record.kept
    BY DEF SyncInv, SyncTyped, SyncRows, H!DiscardFails, H!Broken
  <2>2. sync'.step = "idle"
    BY IdleTyped DEF H!DiscardFails, H!Over
  <2> QED
    BY <2>1, <2>2 DEF SyncInv, Generations, Staging, Filled, H!WorkIsThere, H!Current
<1>5. Webs'
  BY <1>1, <1>2, IdleTyped DEF SyncInv, SyncTyped, H!TypeOK, SyncRows, Syncs, SyncSteps, Webs, RunsAt, H!At,
       H!Over, H!Broken, H!DiscardFails
<1>6. Accepted'
  BY <1>1, <1>2, IdleTyped DEF SyncInv, SyncTyped, H!TypeOK, SyncRows, Syncs, SyncSteps, Generations, Webs,
       RunsAt, Staging, Filled, Accepted, H!Current, H!At, H!Over, H!Broken, H!DiscardFails
<1> QED
  BY <1>1, <1>2, <1>3, <1>4, <1>5, <1>6 DEF SyncInv, SyncTyped

LEMMA SyncDrop ==
    ASSUME H!HostSyncAssumption, SyncInv, H!Drop
    PROVE  SyncInv'
<1>1. sync' \in Syncs
  BY IdleTyped DEF SyncInv, SyncTyped, Syncs, SyncSteps, H!Over, H!At, H!Drop
<1>2. record' \in SyncRows
  BY DEF SyncInv, SyncTyped, SyncRows, H!Over, H!Drop
<1>3. H!TypeOK'
  <2>1. gens' \in [H!Gens -> H!Content \cup {None}]
    BY DEF H!Drop, SyncInv, SyncTyped, H!TypeOK
  <2>2. mishaps' \in 0 .. MaxMishaps
    BY DEF H!Drop, H!Mishap, SyncInv, SyncTyped, H!TypeOK, H!HostSyncAssumption
  <2> QED
    BY <1>1, <2>1, <2>2 DEF H!Drop, SyncInv, SyncTyped, H!TypeOK, Syncs
<1>4. Generations'
  <2>1. \A g \in H!Gens : gens[g] = None => gens'[g] = None
    BY DEF H!Drop, SyncInv, SyncTyped, H!TypeOK
  <2>2. gens'[record.ws] = gens[record.ws] /\ (record.kept # None => gens'[record.kept] = gens[record.kept])
    <3>1. CASE sync.drop = None \/ gens' = gens
      BY <3>1 DEF H!Drop
    <3>2. CASE sync.drop # None /\ gens' = [gens EXCEPT ![sync.drop] = None]
      <4>1. sync.drop < record.kept /\ record.kept < record.ws /\ record.kept # None
        BY <3>2 DEF H!Drop, H!At, SyncInv, Generations
      <4>2. sync.drop \in H!Gens /\ record.ws \in H!Gens /\ record.kept \in H!Gens
        BY <3>2, <4>1 DEF SyncInv, SyncTyped, Syncs, SyncRows
      <4> QED
        BY <3>2, <4>1, <4>2 DEF H!Gens, H!HostSyncAssumption, SyncInv, SyncTyped, H!TypeOK
    <3> QED
      BY <3>1, <3>2 DEF H!Drop
  <2>3. sync'.step = "idle" /\ UNCHANGED record
    BY IdleTyped DEF H!Drop, H!Over
  <2> QED
    BY <2>1, <2>2, <2>3 DEF SyncInv, Generations, Staging, Filled, H!WorkIsThere, H!Current
<1>5. Webs'
  BY <1>1, <1>2, IdleTyped DEF SyncInv, SyncTyped, H!TypeOK, SyncRows, Syncs, SyncSteps, Webs, RunsAt, H!At,
       H!Over, H!Drop
<1>6. Accepted'
  BY <1>1, <1>2, IdleTyped DEF SyncInv, SyncTyped, H!TypeOK, SyncRows, Syncs, SyncSteps, Generations, Webs,
       RunsAt, Staging, Filled, Accepted, H!Current, H!At, H!Over, H!Drop
<1> QED
  BY <1>1, <1>2, <1>3, <1>4, <1>5, <1>6 DEF SyncInv, SyncTyped

LEMMA SyncResetSyncBaseline ==
    ASSUME H!HostSyncAssumption, SyncInv, H!ResetSyncBaseline
    PROVE  SyncInv'
<1>1. sync' \in Syncs
  BY CurrentTyped DEF SyncInv, SyncTyped, Syncs, SyncSteps, H!At, H!ResetSyncBaseline
<1>2. record' \in SyncRows
  BY CurrentTyped DEF SyncInv, SyncTyped, SyncRows, H!ResetSyncBaseline
<1>3. H!TypeOK'
  BY <1>1, <1>2, CurrentTyped DEF SyncInv, SyncTyped, H!TypeOK, SyncRows, Syncs, H!Gens, H!HostSyncAssumption,
       H!At, H!ResetSyncBaseline
<1>4. Generations'
  BY <1>1, <1>2 DEF SyncInv, SyncTyped, H!TypeOK, SyncRows, Syncs, SyncSteps, Generations, Staging, Filled,
       H!HostSyncAssumption, H!Gens, H!WorkIsThere, H!Current, H!At, H!ResetSyncBaseline
<1>5. Webs'
  BY <1>1, <1>2 DEF SyncInv, SyncTyped, H!TypeOK, SyncRows, Syncs, SyncSteps, Webs, RunsAt, H!At,
       H!ResetSyncBaseline
<1>6. Accepted'
  BY <1>1, <1>2 DEF SyncInv, SyncTyped, H!TypeOK, SyncRows, Syncs, SyncSteps, Generations, Webs, RunsAt,
       Staging, Filled, Accepted, H!Current, H!At, H!ResetSyncBaseline
<1> QED
  BY <1>1, <1>2, <1>3, <1>4, <1>5, <1>6 DEF SyncInv, SyncTyped

LEMMA SyncWrite ==
    ASSUME H!HostSyncAssumption, SyncInv, NEW e \in SyncEdits, H!Write(e)
    PROVE  SyncInv'
<1>1. sync' \in Syncs
  BY DEF SyncInv, SyncTyped, Syncs, SyncSteps, H!Write
<1>2. record' \in SyncRows
  BY DEF SyncInv, SyncTyped, SyncRows, H!Write
<1>3. H!TypeOK'
  <2>1. gens' \in [H!Gens -> H!Content \cup {None}]
    <3> SUFFICES ASSUME NEW g \in H!Gens PROVE gens'[g] \in H!Content \cup {None}
      BY DEF H!Write, SyncInv, SyncTyped, H!TypeOK
    <3>1. CASE g = runtime.gen
      BY <3>1 DEF H!Write, SyncInv, SyncTyped, H!TypeOK, H!Content
    <3>2. CASE g # runtime.gen
      BY <3>2 DEF H!Write, SyncInv, SyncTyped, H!TypeOK
    <3> QED
      BY <3>1, <3>2
  <2> QED
    BY <2>1 DEF SyncInv, SyncTyped, H!TypeOK, H!Write
<1>4. Generations'
  <2>1. \A g \in H!Gens : gens'[g] = None <=> gens[g] = None
    <3> SUFFICES ASSUME NEW g \in H!Gens PROVE gens'[g] = None <=> gens[g] = None
      OBVIOUS
    <3>1. CASE g = runtime.gen
      <4>1. gens'[g] \in H!Content
        BY <3>1 DEF H!Write, SyncInv, SyncTyped, H!TypeOK, H!Content
      <4> QED
        BY <3>1, <4>1 DEF H!Write, H!HostSyncAssumption
    <3>2. CASE g # runtime.gen
      BY <3>2 DEF H!Write, SyncInv, SyncTyped, H!TypeOK
    <3> QED
      BY <3>1, <3>2
  <2>2. UNCHANGED <<record, sync>> /\ record \in SyncRows /\ sync \in Syncs
    BY DEF H!Write, SyncInv, SyncTyped
  <2> QED
    BY <2>1, <2>2 DEF SyncInv, Generations, H!WorkIsThere, H!Current, SyncRows, Syncs
<1>5. Webs'
  BY <1>1, <1>2 DEF SyncInv, SyncTyped, H!TypeOK, SyncRows, Syncs, SyncSteps, Webs, RunsAt, H!Write
<1>6. Accepted'
  BY <1>1, <1>2 DEF SyncInv, SyncTyped, H!TypeOK, SyncRows, Syncs, SyncSteps, Generations, Webs, RunsAt,
       Staging, Filled, Accepted, H!Current, H!Write
<1> QED
  BY <1>1, <1>2, <1>3, <1>4, <1>5, <1>6 DEF SyncInv, SyncTyped

LEMMA SyncHostChanges ==
    ASSUME H!HostSyncAssumption, SyncInv, H!HostChanges
    PROVE  SyncInv'
<1>1. sync' \in Syncs
  BY DEF SyncInv, SyncTyped, Syncs, SyncSteps, H!HostChanges
<1>2. record' \in SyncRows
  BY DEF SyncInv, SyncTyped, SyncRows, H!HostChanges
<1>3. H!TypeOK'
  BY <1>1, <1>2 DEF SyncInv, SyncTyped, H!TypeOK, SyncRows, Syncs, H!Gens, H!HostSyncAssumption, H!HostChanges
<1>4. Generations'
  BY <1>1, <1>2 DEF SyncInv, SyncTyped, H!TypeOK, SyncRows, Syncs, SyncSteps, Generations, Staging, Filled,
       H!HostSyncAssumption, H!Gens, H!WorkIsThere, H!Current, H!HostChanges
<1>5. Webs'
  BY <1>1, <1>2 DEF SyncInv, SyncTyped, H!TypeOK, SyncRows, Syncs, SyncSteps, Webs, RunsAt, H!HostChanges
<1>6. Accepted'
  BY <1>1, <1>2 DEF SyncInv, SyncTyped, H!TypeOK, SyncRows, Syncs, SyncSteps, Generations, Webs, RunsAt,
       Staging, Filled, Accepted, H!Current, H!HostChanges
<1> QED
  BY <1>1, <1>2, <1>3, <1>4, <1>5, <1>6 DEF SyncInv, SyncTyped

LEMMA SyncCrash ==
    ASSUME H!HostSyncAssumption, SyncInv, H!Crash
    PROVE  SyncInv'
<1>1. sync' \in Syncs
  BY IdleTyped DEF SyncInv, SyncTyped, Syncs, SyncSteps, H!Crash
<1>2. record' \in SyncRows
  BY DEF SyncInv, SyncTyped, SyncRows, H!Crash
<1>3. H!TypeOK'
  <2>1. record'.ws = record.ws /\ record'.top = record.top /\ record'.base = record.base
        /\ record'.kept = record.kept /\ record'.label = record.label /\ record'.status = "asleep"
    BY DEF H!Crash, SyncInv, SyncTyped, SyncRows
  <2>2. runtime' \in [gen : H!Gens, mode : {"running", "paused", "down"}]
    BY DEF H!Crash, H!Down, SyncInv, SyncTyped, H!TypeOK
  <2>3. mishaps' \in 0 .. MaxMishaps
    BY DEF H!Crash, H!Mishap, SyncInv, SyncTyped, H!TypeOK, H!HostSyncAssumption
  <2> QED
    BY <1>1, <2>1, <2>2, <2>3 DEF H!Crash, SyncInv, SyncTyped, H!TypeOK, Syncs
<1>4. Generations'
  BY <1>1, <1>2, IdleTyped DEF SyncInv, SyncTyped, H!TypeOK, SyncRows, Syncs, SyncSteps, Generations, Staging,
       Filled, H!HostSyncAssumption, H!Gens, H!WorkIsThere, H!Current, H!Crash
<1>5. Webs'
  BY <1>1, <1>2, IdleTyped DEF SyncInv, SyncTyped, H!TypeOK, SyncRows, Syncs, SyncSteps, Webs, RunsAt, H!Down,
       H!Crash
<1>6. Accepted'
  BY <1>1, <1>2, IdleTyped DEF SyncInv, SyncTyped, H!TypeOK, SyncRows, Syncs, SyncSteps, Generations, Webs,
       RunsAt, Staging, Filled, Accepted, H!Current, H!Crash
<1> QED
  BY <1>1, <1>2, <1>3, <1>4, <1>5, <1>6 DEF SyncInv, SyncTyped

LEMMA SyncWake ==
    ASSUME H!HostSyncAssumption, SyncInv, H!Wake
    PROVE  SyncInv'
<1>1. sync' \in Syncs
  BY DEF SyncInv, SyncTyped, Syncs, SyncSteps, H!At, H!Wake
<1>2. record' \in SyncRows
  BY DEF SyncInv, SyncTyped, SyncRows, H!Wake
<1>3. H!TypeOK'
  BY <1>1, <1>2 DEF SyncInv, SyncTyped, H!TypeOK, SyncRows, Syncs, H!Gens, H!HostSyncAssumption, H!RunsOn, H!At,
       H!Wake
<1>4. Generations'
  BY <1>1, <1>2 DEF SyncInv, SyncTyped, H!TypeOK, SyncRows, Syncs, SyncSteps, Generations, Staging, Filled,
       H!HostSyncAssumption, H!Gens, H!WorkIsThere, H!Current, H!At, H!Wake
<1>5. Webs'
  BY <1>1, <1>2 DEF SyncInv, SyncTyped, H!TypeOK, SyncRows, Syncs, SyncSteps, Webs, RunsAt, H!At, H!RunsOn,
       H!Wake
<1>6. Accepted'
  BY <1>1, <1>2 DEF SyncInv, SyncTyped, H!TypeOK, SyncRows, Syncs, SyncSteps, Generations, Webs, RunsAt,
       Staging, Filled, Accepted, H!Current, H!At, H!Wake
<1> QED
  BY <1>1, <1>2, <1>3, <1>4, <1>5, <1>6 DEF SyncInv, SyncTyped

LEMMA SyncStutter ==
    ASSUME SyncInv, UNCHANGED host
    PROVE  SyncInv'
BY DEF host, SyncInv, SyncTyped, H!TypeOK, Generations, H!WorkIsThere, H!Current, Webs, RunsAt, Accepted

LEMMA SyncStep ==
    ASSUME H!HostSyncAssumption, SyncInv, H!Next \/ UNCHANGED host
    PROVE  SyncInv'
<1>1. ASSUME NEW caller \in H!Callers, NEW presented, H!AskSafe(caller, presented) PROVE SyncInv'
  BY <1>1, SyncAskSafe
<1>2. ASSUME NEW e \in SyncEdits, H!Write(e) PROVE SyncInv'
  BY <1>2, SyncWrite
<1>3. CASE H!AskPlain
  BY <1>3, SyncAskPlain
<1>4. CASE H!Expire
  BY <1>4, SyncExpire
<1>5. CASE H!Check
  BY <1>5, SyncCheck
<1>6. CASE H!Reserve
  BY <1>6, SyncReserve
<1>7. CASE H!Import
  BY <1>7, SyncImport
<1>8. CASE H!ImportFails
  BY <1>8, SyncImportFails
<1>9. CASE H!Pause
  BY <1>9, SyncPause
<1>10. CASE H!PauseFails
  BY <1>10, SyncPauseFails
<1>11. CASE H!Compare
  BY <1>11, SyncCompare
<1>12. CASE H!CompareFails
  BY <1>12, SyncCompareFails
<1>13. CASE H!Unpause
  BY <1>13, SyncUnpause
<1>14. CASE H!UnpauseFails
  BY <1>14, SyncUnpauseFails
<1>15. CASE H!Switch
  BY <1>15, SyncSwitch
<1>16. CASE H!SwitchFails
  BY <1>16, SyncSwitchFails
<1>17. CASE H!Publish
  BY <1>17, SyncPublish
<1>18. CASE H!PublishFails
  BY <1>18, SyncPublishFails
<1>19. CASE H!GoesBack
  BY <1>19, SyncGoesBack
<1>20. CASE H!GoBackFails
  BY <1>20, SyncGoBackFails
<1>21. CASE H!Discard
  BY <1>21, SyncDiscard
<1>22. CASE H!DiscardFails
  BY <1>22, SyncDiscardFails
<1>23. CASE H!Drop
  BY <1>23, SyncDrop
<1>24. CASE H!ResetSyncBaseline
  BY <1>24, SyncResetSyncBaseline
<1>25. CASE H!HostChanges
  BY <1>25, SyncHostChanges
<1>26. CASE H!Crash
  BY <1>26, SyncCrash
<1>27. CASE H!Wake
  BY <1>27, SyncWake
<1>28. CASE UNCHANGED host
  BY <1>28, SyncStutter
<1> QED
  BY <1>1, <1>2, <1>3, <1>4, <1>5, <1>6, <1>7, <1>8, <1>9, <1>10, <1>11, <1>12, <1>13, <1>14, <1>15, <1>16, <1>17, <1>18, <1>19, <1>20, <1>21, <1>22, <1>23, <1>24, <1>25, <1>26, <1>27, <1>28 DEF H!Next

LEMMA SyncKeeps ==
    ASSUME H!HostSyncAssumption, SyncInv
    PROVE  /\ H!TypeOK /\ H!RunsWhatItNames /\ H!WorkIsThere
           /\ H!Next => H!ReplacesWhatWasSeen /\ H!ImportsIntoNew
<1>1. H!TypeOK /\ H!WorkIsThere
  BY DEF SyncInv, SyncTyped, Generations
<1>2. H!RunsWhatItNames
  BY DEF SyncInv, Webs, RunsAt, H!RunsWhatItNames, H!At
<1>3. H!ImportsIntoNew
  BY DEF SyncInv, Generations, H!ImportsIntoNew, H!At
<1>4. H!Next => H!ReplacesWhatWasSeen
  <2> SUFFICES ASSUME H!Next, record'.ws # record.ws, sync.safe PROVE H!Current = sync.accepted
    BY DEF H!ReplacesWhatWasSeen
  <2>1. sync.step = "publish"
    BY DEF SyncInv, SyncTyped, SyncRows, H!Next, H!AskPlain, H!AskSafe, H!Expire, H!Check, H!Reserve, H!Import,
           H!ImportFails, H!Pause, H!PauseFails, H!Compare, H!CompareFails, H!Unpause, H!UnpauseFails, H!Switch,
           H!SwitchFails, H!Publish, H!PublishFails, H!GoesBack, H!GoBackFails, H!Discard, H!DiscardFails, H!Drop,
           H!ResetSyncBaseline, H!Write, H!HostChanges, H!Crash, H!Wake, H!At, H!Broken
  <2> QED
    BY <2>1 DEF SyncInv, Accepted
<1> QED
  BY <1>1, <1>2, <1>3, <1>4

\* A Host sync replaces only the content that the inspection accepted or the
\* caller confirmed, imports only into a generation that nothing was ever in, and
\* ends with a Room that runs on the generation its row names or is marked broken
\* (replaceWorkspaceFromHost, orchestrator.ts 9100), for any number of
\* generations, of writes meanwhile, and of failures and crashes.
THEOREM SyncKeepsWork == ComponentsSpec => HostSyncKeepsWork
<1> DEFINE I == part = "sync" => SyncInv
<1>1. AllInit => I
  BY SyncInit, ComponentsAssumption DEF AllInit, ComponentsAssumption
<1>2. I /\ [AllNext]_allVars => I'
  <2> SUFFICES ASSUME I, [AllNext]_allVars, part' = "sync" PROVE SyncInv'
    OBVIOUS
  <2>1. part = "sync" /\ (H!Next \/ UNCHANGED host)
    BY DEF AllNext, allVars, InChanges, InContainers, InDisks, InSync, InCommands, InEmulator, InNetworks, InWitness,
           InOwning, InReading
  <2> QED
    BY <2>1, SyncStep, ComponentsAssumption DEF ComponentsAssumption
<1>3. I => (part = "sync" => H!TypeOK /\ H!RunsWhatItNames /\ H!WorkIsThere)
  BY SyncKeeps, ComponentsAssumption DEF ComponentsAssumption
<1>4. I /\ [AllNext]_allVars => [part = "sync" => H!ReplacesWhatWasSeen /\ H!ImportsIntoNew]_allVars
  <2> SUFFICES ASSUME I, AllNext, part = "sync" PROVE H!ReplacesWhatWasSeen /\ H!ImportsIntoNew
    OBVIOUS
  <2>1. H!Next
    BY DEF AllNext, InChanges, InContainers, InDisks, InSync, InCommands, InEmulator, InNetworks, InWitness, InOwning, InReading
  <2> QED
    BY <2>1, SyncKeeps, ComponentsAssumption DEF ComponentsAssumption
<1> QED
  BY <1>1, <1>2, <1>3, <1>4, PTL DEF ComponentsSpec, HostSyncKeepsWork

-----------------------------------------------------------------------------
(***************************************************************************)
(* Volumes.  Whose a volume is, is told by its labels or by the record of  *)
(* the adoption; neither ever names a volume that DevHotel did not make or *)
(* take over.  What an operation saw stays until it acts on it, as long as *)
(* others leave a name alone between a proof and its use (~Midway).        *)
(***************************************************************************)

VolumeSteps == {"over", "prove", "inspect", "write", "create", "made", "rm", "gone"}
VolumeResults == {None, "done", "refused", "lost", "failed", "ours", "unowned"}

Operations ==
    [kind : {None, "adopt", "ensure", "remove", "list"}, name : Volumes \cup {None}, at : VolumeSteps,
     seen : V!Stored \cup {None}, result : VolumeResults, aware : BOOLEAN]

Registries == [engine : Engines, names : [Volumes -> Nat \cup {None}]]

OwningTyped ==
    /\ V!TypeOK /\ stamps \in Nat /\ ours \subseteq Nat
    /\ there \in [Engines -> [Volumes -> V!Stored \cup {None}]]
    /\ rowNames \in [Volumes -> Nat \cup {None}]
    /\ registry \in Registries \cup {None} /\ loaded \in Registries \cup {None}
    /\ doing \in Operations /\ (doing.at # "over" => doing.name \in Volumes)
    /\ noticed \in BOOLEAN /\ manifest \in BOOLEAN

\* Labels and records tell the truth: what wears the labels of the Room, or is
\* written down, DevHotel made or took over.
LabelsAreTrue == \A e \in Engines, n \in Volumes : there[e][n] # None /\ there[e][n].labels = "room" => there[e][n].stamp \in ours
RecordsAreTrue ==
    \A n \in Volumes : /\ registry # None /\ registry.names[n] # None => registry.names[n] \in ours
                       /\ loaded # None /\ loaded.names[n] # None => loaded.names[n] \in ours

\* A volume that an operation has seen stays as it is, but for its use, until
\* the operation writes it down or removes it.
SeenStays ==
    doing.at \in {"write", "rm"} =>
      /\ V!Now # None /\ doing.seen # None /\ V!Now.stamp = doing.seen.stamp
      /\ doing.at = "write" => V!Now.labels = "none"
      /\ doing.at = "rm" => V!Now.stamp \in ours

\* An operation past its proof works on the pinned engine if the change was noticed before.
Pinned ==
    /\ proven => pin # None
    /\ noticed /\ proven => pin = engine
    /\ doing.at # "over" /\ doing.aware => noticed
    /\ doing.at \notin {"over", "prove"} => pin # None
    /\ doing.at \notin {"over", "prove"} /\ doing.aware => pin = engine

\* On the pinned engine, a labelled volume of a recorded name is the one that
\* the row goes on with; none has labels before an engine is pinned.
DataIsHeld ==
    /\ pin = None => \A e \in Engines, n \in Volumes : there[e][n] # None => there[e][n].labels # "room"
    /\ pin # None =>
         \A n \in Recorded :
           there[pin][n] # None /\ there[pin][n].labels = "room" /\ rowNames[n] # None => rowNames[n] = there[pin][n].stamp
    /\ doing.at = "create" /\ doing.name \in Recorded => rowNames[doing.name] = None

OwningInv == OwningTyped /\ LabelsAreTrue /\ RecordsAreTrue /\ SeenStays /\ Pinned /\ DataIsHeld /\ V!ListingIsTrue

LEMMA OwningInit == ASSUME V!RoomVolumesAssumption, V!Init PROVE OwningInv
<1>1. PICK old \in {{}} \cup {{n} : n \in Volumes} : V!Left(old)
  BY DEF V!Init
<1>2. stamps \in Nat /\ (old # {} => stamps = 1)
  BY <1>1 DEF V!Left
<1>3. engine \in Engines
  BY DEF V!Init, V!RoomVolumesAssumption
<1>4. there \in [Engines -> [Volumes -> V!Stored \cup {None}]] /\ rowNames \in [Volumes -> Nat \cup {None}]
  BY <1>1 DEF V!Stored, V!Left
<1>5. \A e \in Engines, n \in Volumes : there[e][n] # None => there[e][n].stamp = 1 /\ there[e][n].labels = "none" /\ stamps = 1
  BY <1>1, <1>2 DEF V!Left
<1>6. \A n \in Volumes : rowNames[n] = None \/ (rowNames[n] = 1 /\ stamps = 1)
  BY <1>1, <1>2 DEF V!Left
<1>7. V!TypeOK
  <2>1. pin = None /\ doing.kind = None
    BY DEF V!Init, V!Idle
  <2>2. proven \in BOOLEAN
    BY DEF V!Init
  <2>3. \A e \in Engines, n \in Volumes : there[e][n] # None => there[e][n].stamp \in 1 .. stamps
    BY <1>5
  <2>4. \A n \in Volumes : rowNames[n] \in (1 .. stamps) \cup {None}
    BY <1>6
  <2> QED
    BY <1>3, <2>1, <2>2, <2>3, <2>4 DEF V!TypeOK
<1>8. doing \in Operations /\ doing.at = "over" /\ doing.result = None /\ ours = {} /\ pin = None
  BY DEF V!Init, V!Idle, Operations, VolumeSteps, VolumeResults
<1>9. registry = None /\ loaded = None /\ ~proven /\ manifest \in BOOLEAN /\ noticed \in BOOLEAN
  BY DEF V!Init
<1>10. OwningTyped
  BY <1>2, <1>4, <1>7, <1>8, <1>9 DEF OwningTyped
<1> QED
  BY <1>5, <1>8, <1>9, <1>10 DEF OwningInv, LabelsAreTrue, RecordsAreTrue, SeenStays, Pinned, DataIsHeld, V!ListingIsTrue,
     V!RoomVolumesAssumption

LEMMA NowTyped ==
    ASSUME OwningTyped, doing.at # "over"
    PROVE  V!Now \in V!Stored \cup {None} /\ V!Now = there[engine][doing.name] /\ engine \in Engines /\ doing.name \in Volumes
BY DEF OwningTyped, V!TypeOK, V!Now

LEMMA LegacyTyped ==
    ASSUME V!RoomVolumesAssumption, OwningTyped, RecordsAreTrue
    PROVE  /\ V!Legacy \in Registries
           /\ \A n \in Volumes : V!Legacy.names[n] # None => V!Legacy.names[n] \in ours
<1>1. V!Empty(engine) \in Registries /\ \A n \in Volumes : V!Empty(engine).names[n] = None
  BY DEF V!Empty, Registries, OwningTyped, V!TypeOK
<1>2. \/ loaded # None /\ V!Legacy = loaded
      \/ registry # None /\ V!Legacy = registry
      \/ V!Legacy = V!Empty(engine)
  BY DEF V!Legacy
<1> QED
  BY <1>1, <1>2 DEF RecordsAreTrue, OwningTyped

LEMMA EndsIs ==
    ASSUME OwningTyped, NEW r \in VolumeResults, V!Ends(r)
    PROVE  /\ doing' \in Operations /\ doing'.at = "over" /\ doing'.result = r
           /\ doing'.kind = doing.kind /\ doing'.name = doing.name /\ doing'.seen = doing.seen
           /\ doing'.aware = doing.aware
BY DEF OwningTyped, Operations, VolumeSteps, V!Ends

LEMMA GoesIs ==
    ASSUME OwningTyped, NEW step \in VolumeSteps, V!Goes(step)
    PROVE  /\ doing' \in Operations /\ doing'.at = step /\ doing'.result = doing.result
           /\ doing'.kind = doing.kind /\ doing'.name = doing.name /\ doing'.seen = doing.seen
           /\ doing'.aware = doing.aware
BY DEF OwningTyped, Operations, V!Goes

LEMMA SeesIs ==
    ASSUME OwningTyped, doing.at # "over", NEW step \in VolumeSteps, V!Now # None,
           doing' = [doing EXCEPT !.at = step, !.seen = V!Now]
    PROVE  /\ doing' \in Operations /\ doing'.at = step /\ doing'.result = doing.result
           /\ doing'.kind = doing.kind /\ doing'.name = doing.name /\ doing'.seen = V!Now
           /\ doing'.aware = doing.aware
BY NowTyped DEF OwningTyped, Operations

LEMMA PutIs ==
    ASSUME OwningTyped, NEW n \in Volumes, NEW v \in V!Stored \cup {None}, V!Put(n, v)
    PROVE  /\ there' \in [Engines -> [Volumes -> V!Stored \cup {None}]]
           /\ there'[engine][n] = v
           /\ \A e \in Engines, m \in Volumes : e # engine \/ m # n => there'[e][m] = there[e][m]
<1>1. engine \in Engines /\ there[engine] \in [Volumes -> V!Stored \cup {None}]
  BY DEF OwningTyped, V!TypeOK
<1>2. there' = [there EXCEPT ![engine] = [there[engine] EXCEPT ![n] = v]]
  BY DEF V!Put
<1>3. [there[engine] EXCEPT ![n] = v] \in [Volumes -> V!Stored \cup {None}]
  BY <1>1
<1> HIDE DEF V!Stored
<1> QED
  BY <1>1, <1>2, <1>3 DEF OwningTyped

\* What no step of an operation needs to look into: stamps only grow.
LEMMA TypedAgain ==
    ASSUME V!RoomVolumesAssumption, OwningTyped,
           engine' \in Engines, pin' \in Engines \cup {None}, proven' \in BOOLEAN,
           doing' \in Operations, doing'.at # "over" => doing'.name \in Volumes,
           there' \in [Engines -> [Volumes -> V!Stored \cup {None}]], stamps' \in Nat, stamps' >= stamps,
           \A e \in Engines, n \in Volumes :
             there'[e][n] # None => there'[e][n].stamp \in 1 .. stamps' \/ (there[e][n] # None /\ there'[e][n].stamp = there[e][n].stamp),
           ours' \subseteq Nat, rowNames' \in [Volumes -> Nat \cup {None}],
           \A n \in Volumes : rowNames'[n] = rowNames[n] \/ rowNames'[n] \in 1 .. stamps,
           registry' \in Registries \cup {None}, loaded' \in Registries \cup {None},
           noticed' \in BOOLEAN, manifest' \in BOOLEAN
    PROVE  OwningTyped'
<1>1. \A e \in Engines, n \in Volumes : there'[e][n] # None => there'[e][n].stamp \in 1 .. stamps'
  BY DEF OwningTyped, V!TypeOK
<1>2. \A n \in Volumes : rowNames'[n] \in (1 .. stamps') \cup {None}
  BY DEF OwningTyped, V!TypeOK
<1>3. doing'.kind \in {None, "adopt", "ensure", "remove", "list"}
  BY DEF Operations
<1> QED
  BY <1>1, <1>2, <1>3 DEF OwningTyped, V!TypeOK

LEMMA OwnedIsOurs ==
    ASSUME V!RoomVolumesAssumption, OwningTyped, RecordsAreTrue, LabelsAreTrue, doing.at # "over",
           V!Now # None, V!Owned(doing.name, V!Now)
    PROVE  V!Now.stamp \in ours /\ V!Now.labels \in {"room", "none"}
BY NowTyped, LegacyTyped DEF V!Owned, V!IsRecorded, LabelsAreTrue, V!RoomVolumesAssumption, V!Stored

LEMMA TakesIs ==
    ASSUME V!RoomVolumesAssumption, OwningTyped, RecordsAreTrue, LabelsAreTrue, doing.at # "over",
           V!Now # None, V!Owned(doing.name, V!Now), V!Takes(doing.name, V!Now)
    PROVE  /\ V!Now \in V!Stored /\ V!Now.stamp \in ours /\ V!Now.labels \in {"room", "none"} /\ V!Now.stamp \in 1 .. stamps
           /\ ours' = ours \cup {V!Now.stamp}
           /\ \A n \in Volumes : rowNames'[n] = IF n = doing.name /\ engine = pin THEN V!Now.stamp ELSE rowNames[n]
           /\ rowNames' \in [Volumes -> Nat \cup {None}]
<1>1. V!Now \in V!Stored /\ V!Now.stamp \in 1 .. stamps /\ doing.name \in Volumes
  BY NowTyped DEF OwningTyped, V!TypeOK
<1>2. V!Now.stamp \in ours /\ V!Now.labels \in {"room", "none"}
  BY OwnedIsOurs
<1>3. ours' = ours \cup {V!Now.stamp}
  BY DEF V!Takes
<1>4. CASE engine = pin
  BY <1>1, <1>2, <1>3, <1>4 DEF V!Takes, OwningTyped
<1>5. CASE engine # pin
  BY <1>1, <1>2, <1>3, <1>5 DEF V!Takes, OwningTyped
<1> QED
  BY <1>4, <1>5

LEMMA VolumeBegin ==
    ASSUME V!RoomVolumesAssumption, ~Midway, OwningInv, NEW kind \in {"adopt", "ensure", "remove", "list"}, NEW n \in Volumes, V!Begin(kind, n)
    PROVE  OwningInv'
<1>1. doing' \in Operations /\ (doing'.at # "over" => doing'.name \in Volumes)
  BY DEF OwningInv, OwningTyped, Operations, VolumeSteps, VolumeResults, V!TypeOK, V!At, V!Idle, V!Begin
<1>2. there' \in [Engines -> [Volumes -> V!Stored \cup {None}]] /\ stamps' \in Nat /\ stamps' >= stamps
  BY DEF OwningInv, OwningTyped, V!TypeOK, V!Stored, V!At, V!Idle, V!Begin
<1>3. ours' \subseteq Nat /\ ours \subseteq ours' /\ rowNames' \in [Volumes -> Nat \cup {None}]
  BY DEF OwningInv, OwningTyped, V!TypeOK, V!Stored, V!At, V!Idle, V!Begin
<1>4. OwningTyped'
  BY <1>1, <1>2, <1>3 DEF OwningInv, OwningTyped, V!TypeOK, Registries, Operations, V!Stored, V!At, V!Idle, V!Begin
<1>5. LabelsAreTrue'
  BY DEF OwningInv, OwningTyped, LabelsAreTrue, V!TypeOK, V!Stored, V!At, V!Idle, V!Begin
<1>6. RecordsAreTrue'
  BY DEF OwningInv, OwningTyped, RecordsAreTrue, V!TypeOK, Registries, V!At, V!Idle, V!Begin
<1>7. SeenStays'
  BY DEF OwningInv, OwningTyped, SeenStays, Operations, V!TypeOK, V!Now, V!Stored, V!At, V!Idle, V!Begin
<1>8. Pinned'
  BY DEF OwningInv, OwningTyped, Pinned, Operations, V!TypeOK, V!At, V!Idle, V!Begin
<1>9. DataIsHeld'
  BY DEF OwningInv, OwningTyped, Pinned, DataIsHeld, Operations, V!TypeOK, V!Now, V!Stored, V!RoomVolumesAssumption, V!At, V!Idle, V!Begin
<1>10. V!ListingIsTrue'
  BY DEF OwningInv, V!ListingIsTrue, V!Idle, V!Begin, V!RoomVolumesAssumption
<1> QED
  BY <1>4, <1>5, <1>6, <1>7, <1>8, <1>9, <1>10 DEF OwningInv

LEMMA VolumeProve ==
    ASSUME V!RoomVolumesAssumption, ~Midway, OwningInv, V!Prove
    PROVE  OwningInv'
<1>1. doing' \in Operations /\ (doing'.at # "over" => doing'.name \in Volumes)
  <2>1. "inspect" \in VolumeSteps /\ "refused" \in VolumeResults
    BY DEF VolumeSteps, VolumeResults
  <2>2. doing.name \in Volumes /\ OwningTyped /\ (V!Goes("inspect") \/ V!Ends("refused"))
    BY DEF OwningInv, OwningTyped, V!Prove, V!At
  <2> QED
    BY <2>1, <2>2, GoesIs, EndsIs
<1>2. there' \in [Engines -> [Volumes -> V!Stored \cup {None}]] /\ stamps' \in Nat /\ stamps' >= stamps
  BY DEF OwningInv, OwningTyped, V!TypeOK, V!Stored, V!At, V!Goes, V!Ends, V!Verified, V!Prove
<1>3. ours' \subseteq Nat /\ ours \subseteq ours' /\ rowNames' \in [Volumes -> Nat \cup {None}]
  BY DEF OwningInv, OwningTyped, V!TypeOK, V!Stored, V!At, V!Goes, V!Ends, V!Verified, V!Prove
<1>4. OwningTyped'
  <2>1. pin' \in Engines \cup {None}
    BY DEF OwningInv, OwningTyped, V!TypeOK, V!Verified, V!Prove
  <2>2. proven' \in BOOLEAN
    <3>1. CASE proven
      BY <3>1 DEF V!Prove, OwningInv, OwningTyped, V!TypeOK
    <3>2. CASE ~proven
      BY <3>2 DEF V!Prove, V!Verified
    <3> QED
      BY <3>1, <3>2
  <2> QED
    BY <1>1, <1>2, <1>3, <2>1, <2>2, TypedAgain DEF OwningInv, OwningTyped, V!TypeOK, V!Prove
<1>5. LabelsAreTrue'
  BY DEF OwningInv, OwningTyped, LabelsAreTrue, V!TypeOK, V!Stored, V!At, V!Goes, V!Ends, V!Verified, V!Prove
<1>6. RecordsAreTrue'
  BY DEF OwningInv, OwningTyped, RecordsAreTrue, V!TypeOK, Registries, V!At, V!Goes, V!Ends, V!Verified, V!Prove
<1>7. SeenStays'
  BY DEF OwningInv, OwningTyped, SeenStays, Operations, V!TypeOK, V!Now, V!Stored, V!At, V!Goes, V!Ends, V!Verified, V!Prove
<1>8. Pinned'
  <2>1. engine # None /\ engine \in Engines
    BY DEF OwningInv, OwningTyped, V!TypeOK, V!RoomVolumesAssumption
  <2>2. /\ proven' => pin' = engine \/ (proven /\ pin' = pin)
        /\ pin' = pin \/ (pin = None /\ pin' = engine)
    BY DEF V!Prove, V!Verified
  <2>3. "inspect" \in VolumeSteps /\ "refused" \in VolumeResults
    BY DEF VolumeSteps, VolumeResults
  <2>4. /\ doing'.aware = doing.aware
        /\ \/ doing'.at = "over"
           \/ doing'.at = "inspect" /\ ((proven /\ pin' = pin) \/ pin' = engine)
    BY <2>3, GoesIs, EndsIs DEF OwningInv, V!Prove, V!Verified
  <2>5. engine' = engine /\ noticed' = noticed /\ doing.at = "prove"
    BY DEF V!Prove, V!At
  <2> QED
    BY <2>1, <2>2, <2>4, <2>5 DEF OwningInv, Pinned
<1>9. DataIsHeld'
  <2>1. pin' = pin \/ (pin = None /\ pin' = engine)
    BY DEF V!Prove, V!Verified
  <2>2. "inspect" \in VolumeSteps /\ "refused" \in VolumeResults
    BY DEF VolumeSteps, VolumeResults
  <2>3. doing'.at # "create"
    BY <2>2, GoesIs, EndsIs DEF OwningInv, V!Prove
  <2>4. engine \in Engines /\ UNCHANGED <<there, rowNames>>
    BY DEF OwningInv, OwningTyped, V!TypeOK, V!Prove
  <2> QED
    BY <2>1, <2>3, <2>4 DEF OwningInv, DataIsHeld, V!RoomVolumesAssumption
<1>10. V!ListingIsTrue'
  BY DEF OwningInv, OwningTyped, V!ListingIsTrue, Operations, V!TypeOK, V!At, V!Goes, V!Ends, V!Verified, V!Prove
<1> QED
  BY <1>4, <1>5, <1>6, <1>7, <1>8, <1>9, <1>10 DEF OwningInv

LEMMA VolumeInspectForAdoption ==
    ASSUME V!RoomVolumesAssumption, ~Midway, OwningInv, V!InspectForAdoption
    PROVE  OwningInv'
<1>a. /\ doing' \in Operations /\ doing'.name = doing.name /\ doing'.kind = doing.kind /\ doing'.aware = doing.aware
      /\ \/ doing'.at = "over" /\ doing'.result \in {"done", "refused"}
         \/ /\ doing'.at = "write" /\ doing'.seen = V!Now /\ doing'.result = doing.result
            /\ V!Now # None /\ V!Now.labels = "none"
  <2>1. doing.at # "over" /\ OwningTyped
    BY DEF V!InspectForAdoption, V!At, OwningInv
  <2>2. CASE V!Ends("done") \/ V!Ends("refused")
    BY <2>1, <2>2, EndsIs DEF VolumeResults
  <2>3. CASE V!Now # None /\ V!Now.labels = "none" /\ doing' = [doing EXCEPT !.at = "write", !.seen = V!Now]
    BY <2>1, <2>3, SeesIs DEF VolumeSteps
  <2> QED
    BY <2>2, <2>3 DEF V!InspectForAdoption
<1>1. doing' \in Operations /\ (doing'.at # "over" => doing'.name \in Volumes)
  BY <1>a DEF V!InspectForAdoption, V!At, OwningInv, OwningTyped
<1>2. there' \in [Engines -> [Volumes -> V!Stored \cup {None}]] /\ stamps' \in Nat /\ stamps' >= stamps
  BY NowTyped, LegacyTyped DEF OwningInv, OwningTyped, V!TypeOK, V!Stored, V!At, V!Ends, V!Looks, V!IsRecorded, V!Legible, V!InspectForAdoption
<1>3. ours' \subseteq Nat /\ ours \subseteq ours' /\ rowNames' \in [Volumes -> Nat \cup {None}]
  BY NowTyped, LegacyTyped DEF OwningInv, OwningTyped, V!TypeOK, V!Stored, V!At, V!Ends, V!Looks, V!IsRecorded, V!Legible, V!InspectForAdoption
<1>4. OwningTyped'
  <2>1. loaded' \in Registries \cup {None}
    BY LegacyTyped DEF OwningInv, OwningTyped, V!InspectForAdoption, V!Looks
  <2> QED
    BY <1>1, <1>2, <1>3, <2>1, TypedAgain DEF OwningInv, OwningTyped, V!TypeOK, V!InspectForAdoption
<1>5. LabelsAreTrue'
  BY NowTyped, LegacyTyped DEF OwningInv, OwningTyped, LabelsAreTrue, V!TypeOK, V!Stored, V!At, V!Ends, V!Looks, V!IsRecorded, V!Legible, V!InspectForAdoption
<1>6. RecordsAreTrue'
  BY NowTyped, LegacyTyped DEF OwningInv, OwningTyped, RecordsAreTrue, V!TypeOK, Registries, V!At, V!Ends, V!Looks, V!IsRecorded, V!Legible, V!InspectForAdoption
<1>7. SeenStays'
  BY <1>a DEF V!InspectForAdoption, SeenStays, V!Now
<1>8. Pinned'
  BY NowTyped, LegacyTyped DEF OwningInv, OwningTyped, Pinned, Operations, V!TypeOK, V!At, V!Ends, V!Looks, V!IsRecorded, V!Legible, V!InspectForAdoption
<1>9. DataIsHeld'
  BY NowTyped, LegacyTyped DEF OwningInv, OwningTyped, Pinned, DataIsHeld, Operations, V!TypeOK, V!Now, V!Stored, V!RoomVolumesAssumption, V!At, V!Ends, V!Looks, V!IsRecorded, V!Legible, V!InspectForAdoption
<1>10. V!ListingIsTrue'
  BY NowTyped, LegacyTyped DEF OwningInv, OwningTyped, V!ListingIsTrue, Operations, V!TypeOK, V!At, V!Ends, V!Looks, V!IsRecorded, V!Legible, V!InspectForAdoption
<1> QED
  BY <1>4, <1>5, <1>6, <1>7, <1>8, <1>9, <1>10 DEF OwningInv

LEMMA VolumeWrite ==
    ASSUME V!RoomVolumesAssumption, ~Midway, OwningInv, V!Write
    PROVE  OwningInv'
<1>a. /\ doing.at = "write" /\ doing' \in Operations /\ doing'.at = "over" /\ doing'.result = "done"
      /\ V!Now \in V!Stored /\ V!Now.stamp = doing.seen.stamp /\ V!Now.labels = "none"
      /\ V!Now.stamp \in 1 .. stamps
  <2>1. doing.at = "write" /\ doing.at # "over" /\ OwningTyped
    BY DEF V!Write, V!At, OwningInv
  <2>2. doing' \in Operations /\ doing'.at = "over" /\ doing'.result = "done"
    BY <2>1, EndsIs DEF VolumeResults, V!Write
  <2>3. V!Now # None /\ V!Now.stamp = doing.seen.stamp /\ V!Now.labels = "none"
    BY <2>1 DEF OwningInv, SeenStays
  <2> QED
    BY <2>1, <2>2, <2>3, NowTyped DEF OwningTyped, V!TypeOK
<1>b. ours' = ours \cup {V!Now.stamp} /\ \A n \in Volumes : rowNames'[n] = rowNames[n] \/ rowNames'[n] = V!Now.stamp
  BY <1>a DEF V!Write, V!Takes, OwningInv, OwningTyped
<1>1. doing' \in Operations /\ (doing'.at # "over" => doing'.name \in Volumes)
  BY <1>a
<1>2. there' \in [Engines -> [Volumes -> V!Stored \cup {None}]] /\ stamps' \in Nat /\ stamps' >= stamps
  BY NowTyped, LegacyTyped DEF OwningInv, OwningTyped, V!TypeOK, V!Stored, V!At, V!Ends, V!Takes, V!Write
<1>3. ours' \subseteq Nat /\ ours \subseteq ours' /\ rowNames' \in [Volumes -> Nat \cup {None}]
  BY <1>a, <1>b DEF V!Write, V!Takes, OwningInv, OwningTyped
<1>4. OwningTyped'
  <2>1. registry' \in Registries /\ loaded' = registry'
    BY <1>a, LegacyTyped DEF V!Write, OwningInv, Registries
  <2> QED
    BY <1>1, <1>2, <1>3, <1>a, <1>b, <2>1, TypedAgain DEF OwningInv, OwningTyped, V!TypeOK, V!Write
<1>5. LabelsAreTrue'
  BY NowTyped, LegacyTyped DEF OwningInv, OwningTyped, LabelsAreTrue, V!TypeOK, V!Stored, V!At, V!Ends, V!Takes, V!Write
<1>6. RecordsAreTrue'
  BY NowTyped, LegacyTyped DEF OwningInv, OwningTyped, RecordsAreTrue, V!TypeOK, Registries, V!At, V!Ends, V!Takes, V!Write
<1>7. SeenStays'
  BY NowTyped, LegacyTyped DEF OwningInv, OwningTyped, SeenStays, Operations, V!TypeOK, V!Now, V!Stored, V!At, V!Ends, V!Takes, V!Write
<1>8. Pinned'
  BY NowTyped, LegacyTyped DEF OwningInv, OwningTyped, Pinned, Operations, V!TypeOK, V!At, V!Ends, V!Takes, V!Write
<1>9. DataIsHeld'
  <2>1. /\ UNCHANGED <<there, pin, engine>>
        /\ \A n \in Volumes : n # doing.name \/ engine # pin => rowNames'[n] = rowNames[n]
    BY DEF V!Write, V!Takes, OwningInv, OwningTyped
  <2>2. V!Now = there[engine][doing.name] /\ engine \in Engines
    BY <1>a, NowTyped DEF OwningInv
  <2> QED
    BY <1>a, <2>1, <2>2 DEF OwningInv, DataIsHeld, V!RoomVolumesAssumption
<1>10. V!ListingIsTrue'
  BY NowTyped, LegacyTyped DEF OwningInv, OwningTyped, V!ListingIsTrue, Operations, V!TypeOK, V!At, V!Ends, V!Takes, V!Write
<1> QED
  BY <1>4, <1>5, <1>6, <1>7, <1>8, <1>9, <1>10 DEF OwningInv

LEMMA VolumeInspectForUse ==
    ASSUME V!RoomVolumesAssumption, ~Midway, OwningInv, V!InspectForUse
    PROVE  OwningInv'
<1>a. doing.at = "inspect" /\ OwningTyped
  BY DEF V!InspectForUse, V!At, OwningInv
<1>b. /\ doing' \in Operations /\ doing'.name = doing.name
      /\ doing'.kind = doing.kind /\ doing'.aware = doing.aware
      /\ \/ doing'.at = "over" /\ doing'.result \in {"done", "refused", "lost"}
         \/ /\ doing'.at = "create" /\ V!Now = None /\ UNCHANGED rowNames
            /\ (doing.name \in Recorded => rowNames[doing.name] = None) /\ doing'.result = doing.result
  BY <1>a, EndsIs, GoesIs DEF V!InspectForUse, VolumeSteps, VolumeResults
<1>c. \/ UNCHANGED <<ours, rowNames>>
      \/ /\ V!Now \in V!Stored /\ V!Now.stamp \in ours /\ V!Now.labels \in {"room", "none"} /\ V!Now.stamp \in 1 .. stamps
         /\ ours' = ours \cup {V!Now.stamp}
         /\ \A n \in Volumes : rowNames'[n] = IF n = doing.name /\ engine = pin THEN V!Now.stamp ELSE rowNames[n]
         /\ rowNames' \in [Volumes -> Nat \cup {None}]
  BY <1>a, TakesIs DEF OwningInv, V!InspectForUse
<1>1. doing' \in Operations /\ (doing'.at # "over" => doing'.name \in Volumes)
  BY <1>a, <1>b DEF OwningTyped
<1>2. there' \in [Engines -> [Volumes -> V!Stored \cup {None}]] /\ stamps' \in Nat /\ stamps' >= stamps
  BY <1>a DEF OwningTyped, V!InspectForUse
<1>3. ours' \subseteq Nat /\ ours \subseteq ours' /\ rowNames' \in [Volumes -> Nat \cup {None}]
  BY <1>a, <1>c DEF OwningTyped
<1>4. OwningTyped'
  <2>1. loaded' \in Registries \cup {None}
    BY <1>a, LegacyTyped DEF OwningInv, OwningTyped, V!InspectForUse, V!Looks
  <2> QED
    BY <1>1, <1>2, <1>3, <1>a, <1>c, <2>1, TypedAgain DEF OwningTyped, V!TypeOK, V!InspectForUse
<1>5. LabelsAreTrue'
  BY NowTyped, LegacyTyped, OwnedIsOurs DEF OwningInv, OwningTyped, LabelsAreTrue, V!TypeOK, V!Stored, V!At, V!Goes, V!Ends, V!Looks, V!Takes, V!Legible, V!Owned, V!InspectForUse
<1>6. RecordsAreTrue'
  BY NowTyped, LegacyTyped, OwnedIsOurs DEF OwningInv, OwningTyped, RecordsAreTrue, V!TypeOK, Registries, V!At, V!Goes, V!Ends, V!Looks, V!Takes, V!Legible, V!Owned, V!InspectForUse
<1>7. SeenStays'
  BY NowTyped, LegacyTyped, OwnedIsOurs DEF OwningInv, OwningTyped, SeenStays, Operations, V!TypeOK, V!Now, V!Stored, V!At, V!Goes, V!Ends, V!Looks, V!Takes, V!Legible, V!Owned, V!InspectForUse
<1>8. Pinned'
  BY NowTyped, LegacyTyped, OwnedIsOurs DEF OwningInv, OwningTyped, Pinned, Operations, V!TypeOK, V!At, V!Goes, V!Ends, V!Looks, V!Takes, V!Legible, V!Owned, V!InspectForUse
<1>9. DataIsHeld'
  <2>1. UNCHANGED <<there, pin, engine>> /\ V!Now = there[engine][doing.name] /\ engine \in Engines
    BY <1>a, NowTyped DEF V!InspectForUse
  <2>2. CASE UNCHANGED rowNames
    BY <1>a, <1>b, <2>1, <2>2 DEF OwningInv, DataIsHeld
  <2>3. CASE ~UNCHANGED rowNames
    <3>1. doing'.at = "over"
      BY <1>b, <2>3
    <3>2. \A n \in Volumes : rowNames'[n] = IF n = doing.name /\ engine = pin THEN V!Now.stamp ELSE rowNames[n]
      BY <1>c, <2>3
    <3> QED
      BY <2>1, <3>1, <3>2 DEF OwningInv, DataIsHeld, V!RoomVolumesAssumption
  <2> QED
    BY <2>2, <2>3
<1>10. V!ListingIsTrue'
  BY NowTyped, LegacyTyped, OwnedIsOurs DEF OwningInv, OwningTyped, V!ListingIsTrue, Operations, V!TypeOK, V!At, V!Goes, V!Ends, V!Looks, V!Takes, V!Legible, V!Owned, V!InspectForUse
<1> QED
  BY <1>4, <1>5, <1>6, <1>7, <1>8, <1>9, <1>10 DEF OwningInv

LEMMA VolumeCreate ==
    ASSUME V!RoomVolumesAssumption, ~Midway, OwningInv, V!Create
    PROVE  OwningInv'
<1>a. doing.at = "create" /\ OwningTyped /\ engine \in Engines /\ doing.name \in Volumes /\ V!Now = there[engine][doing.name]
  BY NowTyped DEF V!Create, V!At, OwningInv
<1>b. /\ doing' \in Operations /\ doing'.at = "made" /\ doing'.name = doing.name
      /\ doing'.kind = doing.kind /\ doing'.aware = doing.aware /\ doing'.result = doing.result /\ doing'.seen = doing.seen
  BY <1>a, GoesIs DEF V!Create, VolumeSteps
<1>c. \/ UNCHANGED <<there, stamps, ours>>
      \/ /\ V!Now = None /\ stamps' = stamps + 1 /\ ours' = ours \cup {stamps + 1}
         /\ there' \in [Engines -> [Volumes -> V!Stored \cup {None}]]
         /\ there'[engine][doing.name].stamp = stamps + 1 /\ there'[engine][doing.name].labels = "room"
         /\ \A e \in Engines, m \in Volumes : e # engine \/ m # doing.name => there'[e][m] = there[e][m]
  <2>1. V!Volume("room") \in V!Stored /\ V!Volume("room").stamp = stamps + 1 /\ V!Volume("room").labels = "room"
    BY <1>a DEF V!Volume, V!Stored, OwningTyped
  <2> QED
    BY <1>a, <2>1, PutIs DEF V!Create
<1>d. stamps \in Nat
  BY <1>a DEF OwningTyped
<1>1. doing' \in Operations /\ (doing'.at # "over" => doing'.name \in Volumes)
  BY <1>a, <1>b
<1>2. there' \in [Engines -> [Volumes -> V!Stored \cup {None}]] /\ stamps' \in Nat /\ stamps' >= stamps
  BY <1>a, <1>c, <1>d DEF OwningTyped
<1>3. ours' \subseteq Nat /\ ours \subseteq ours' /\ rowNames' \in [Volumes -> Nat \cup {None}]
  <2>1. UNCHANGED rowNames
    BY DEF V!Create
  <2>2. ours' \subseteq Nat /\ ours \subseteq ours'
    <3>1. CASE ours' = ours
      BY <1>a, <3>1 DEF OwningTyped
    <3>2. CASE ours' = ours \cup {stamps + 1}
      BY <1>a, <1>d, <3>2 DEF OwningTyped
    <3> QED
      BY <1>c, <3>1, <3>2
  <2> QED
    BY <1>a, <2>1, <2>2 DEF OwningTyped
<1>4. OwningTyped'
  <2>1. \A e \in Engines, n \in Volumes : there'[e][n] # None =>
          there'[e][n].stamp \in 1 .. stamps' \/ (there[e][n] # None /\ there'[e][n].stamp = there[e][n].stamp)
    BY <1>a, <1>c, <1>d
  <2> QED
    BY <1>1, <1>2, <1>3, <1>a, <2>1, TypedAgain DEF OwningTyped, V!TypeOK, V!Create
<1>5. LabelsAreTrue'
  <2> SUFFICES ASSUME NEW e \in Engines, NEW n \in Volumes, there'[e][n] # None, there'[e][n].labels = "room"
               PROVE  there'[e][n].stamp \in ours'
    BY DEF LabelsAreTrue
  <2>1. CASE UNCHANGED <<there, stamps, ours>>
    BY <2>1 DEF OwningInv, LabelsAreTrue
  <2>2. CASE ~UNCHANGED <<there, stamps, ours>>
    BY <1>c, <2>2 DEF OwningInv, LabelsAreTrue
  <2> QED
    BY <2>1, <2>2
<1>6. RecordsAreTrue'
  BY <1>3 DEF OwningInv, RecordsAreTrue, V!Create
<1>7. SeenStays'
  BY <1>b DEF SeenStays
<1>8. Pinned'
  BY NowTyped, LegacyTyped DEF OwningInv, OwningTyped, Pinned, Operations, V!TypeOK, V!At, V!Goes, V!Volume, V!Put, V!Create
<1>9. DataIsHeld'
  <2>1. UNCHANGED <<pin, engine, rowNames>> /\ doing'.at # "create"
    BY <1>b DEF V!Create
  <2>2. pin # None
    BY <1>a DEF OwningInv, Pinned
  <2>3. doing.name \in Recorded => rowNames[doing.name] = None
    BY <1>a DEF OwningInv, DataIsHeld
  <2>4. \A n \in Recorded : n \in Volumes
    BY DEF V!RoomVolumesAssumption
  <2>5. pin \in Engines
    BY <1>a, <2>2 DEF OwningTyped, V!TypeOK
  <2> QED
    BY <1>c, <2>1, <2>2, <2>3, <2>4, <2>5 DEF OwningInv, DataIsHeld
<1>10. V!ListingIsTrue'
  BY NowTyped, LegacyTyped DEF OwningInv, OwningTyped, V!ListingIsTrue, Operations, V!TypeOK, V!At, V!Goes, V!Volume, V!Put, V!Create
<1> QED
  BY <1>4, <1>5, <1>6, <1>7, <1>8, <1>9, <1>10 DEF OwningInv

LEMMA VolumeMade ==
    ASSUME V!RoomVolumesAssumption, ~Midway, OwningInv, V!Made
    PROVE  OwningInv'
<1>a. doing.at = "made" /\ OwningTyped
  BY DEF V!Made, V!At, OwningInv
<1>b. /\ doing' \in Operations /\ doing'.name = doing.name
      /\ doing'.kind = doing.kind /\ doing'.aware = doing.aware
      /\ doing'.at = "over" /\ doing'.result \in {"done", "refused"}
  BY <1>a, EndsIs DEF V!Made, VolumeSteps, VolumeResults
<1>c. \/ UNCHANGED <<ours, rowNames>>
      \/ /\ V!Now \in V!Stored /\ V!Now.stamp \in ours /\ V!Now.labels \in {"room", "none"} /\ V!Now.stamp \in 1 .. stamps
         /\ ours' = ours \cup {V!Now.stamp}
         /\ \A n \in Volumes : rowNames'[n] = IF n = doing.name /\ engine = pin THEN V!Now.stamp ELSE rowNames[n]
         /\ rowNames' \in [Volumes -> Nat \cup {None}]
  BY <1>a, TakesIs DEF OwningInv, V!Made
<1>1. doing' \in Operations /\ (doing'.at # "over" => doing'.name \in Volumes)
  BY <1>a, <1>b DEF OwningTyped
<1>2. there' \in [Engines -> [Volumes -> V!Stored \cup {None}]] /\ stamps' \in Nat /\ stamps' >= stamps
  BY <1>a DEF OwningTyped, V!Made
<1>3. ours' \subseteq Nat /\ ours \subseteq ours' /\ rowNames' \in [Volumes -> Nat \cup {None}]
  BY <1>a, <1>c DEF OwningTyped
<1>4. OwningTyped'
  BY <1>1, <1>2, <1>3, <1>a, <1>c, TypedAgain DEF OwningTyped, V!TypeOK, V!Made
<1>5. LabelsAreTrue'
  BY NowTyped, LegacyTyped, OwnedIsOurs DEF OwningInv, OwningTyped, LabelsAreTrue, V!TypeOK, V!Stored, V!At, V!Ends, V!Takes, V!Owned, V!Made
<1>6. RecordsAreTrue'
  BY NowTyped, LegacyTyped, OwnedIsOurs DEF OwningInv, OwningTyped, RecordsAreTrue, V!TypeOK, Registries, V!At, V!Ends, V!Takes, V!Owned, V!Made
<1>7. SeenStays'
  BY NowTyped, LegacyTyped, OwnedIsOurs DEF OwningInv, OwningTyped, SeenStays, Operations, V!TypeOK, V!Now, V!Stored, V!At, V!Ends, V!Takes, V!Owned, V!Made
<1>8. Pinned'
  BY NowTyped, LegacyTyped, OwnedIsOurs DEF OwningInv, OwningTyped, Pinned, Operations, V!TypeOK, V!At, V!Ends, V!Takes, V!Owned, V!Made
<1>9. DataIsHeld'
  <2>1. UNCHANGED <<there, pin, engine>> /\ V!Now = there[engine][doing.name] /\ engine \in Engines
    BY <1>a, NowTyped DEF V!Made
  <2>2. CASE UNCHANGED rowNames
    BY <1>a, <1>b, <2>1, <2>2 DEF OwningInv, DataIsHeld
  <2>3. CASE ~UNCHANGED rowNames
    <3>1. doing'.at = "over"
      BY <1>b, <2>3
    <3>2. \A n \in Volumes : rowNames'[n] = IF n = doing.name /\ engine = pin THEN V!Now.stamp ELSE rowNames[n]
      BY <1>c, <2>3
    <3> QED
      BY <2>1, <3>1, <3>2 DEF OwningInv, DataIsHeld, V!RoomVolumesAssumption
  <2> QED
    BY <2>2, <2>3
<1>10. V!ListingIsTrue'
  BY NowTyped, LegacyTyped, OwnedIsOurs DEF OwningInv, OwningTyped, V!ListingIsTrue, Operations, V!TypeOK, V!At, V!Ends, V!Takes, V!Owned, V!Made
<1> QED
  BY <1>4, <1>5, <1>6, <1>7, <1>8, <1>9, <1>10 DEF OwningInv

LEMMA VolumeInspectForRemoval ==
    ASSUME V!RoomVolumesAssumption, ~Midway, OwningInv, V!InspectForRemoval
    PROVE  OwningInv'
<1>a. doing.at = "inspect" /\ OwningTyped
  BY DEF V!InspectForRemoval, V!At, OwningInv
<1>b. /\ doing' \in Operations /\ doing'.name = doing.name /\ doing'.kind = doing.kind /\ doing'.aware = doing.aware
      /\ \/ doing'.at = "over" /\ doing'.result \in {"done", "refused"}
         \/ /\ doing'.at = "rm" /\ doing'.seen = V!Now /\ doing'.result = doing.result
            /\ V!Now # None /\ V!Now.stamp \in ours
  <2>1. CASE V!Ends("done") \/ V!Ends("refused")
    BY <1>a, <2>1, EndsIs DEF VolumeResults
  <2>2. CASE V!Now # None /\ V!Owned(doing.name, V!Now) /\ doing' = [doing EXCEPT !.at = "rm", !.seen = V!Now]
    BY <1>a, <2>2, SeesIs, OwnedIsOurs DEF VolumeSteps, OwningInv
  <2> QED
    BY <2>1, <2>2 DEF V!InspectForRemoval
<1>1. doing' \in Operations /\ (doing'.at # "over" => doing'.name \in Volumes)
  BY <1>a, <1>b DEF OwningTyped
<1>2. there' \in [Engines -> [Volumes -> V!Stored \cup {None}]] /\ stamps' \in Nat /\ stamps' >= stamps
  BY NowTyped, LegacyTyped, OwnedIsOurs DEF OwningInv, OwningTyped, V!TypeOK, V!Stored, V!At, V!Ends, V!Looks, V!Legible, V!Owned, V!InspectForRemoval
<1>3. ours' \subseteq Nat /\ ours \subseteq ours' /\ rowNames' \in [Volumes -> Nat \cup {None}]
  BY NowTyped, LegacyTyped, OwnedIsOurs DEF OwningInv, OwningTyped, V!TypeOK, V!Stored, V!At, V!Ends, V!Looks, V!Legible, V!Owned, V!InspectForRemoval
<1>4. OwningTyped'
  <2>1. loaded' \in Registries \cup {None}
    BY <1>a, LegacyTyped DEF OwningInv, OwningTyped, V!InspectForRemoval, V!Looks
  <2> QED
    BY <1>1, <1>2, <1>3, <1>a, <2>1, TypedAgain DEF OwningTyped, V!TypeOK, V!InspectForRemoval
<1>5. LabelsAreTrue'
  BY NowTyped, LegacyTyped, OwnedIsOurs DEF OwningInv, OwningTyped, LabelsAreTrue, V!TypeOK, V!Stored, V!At, V!Ends, V!Looks, V!Legible, V!Owned, V!InspectForRemoval
<1>6. RecordsAreTrue'
  BY NowTyped, LegacyTyped, OwnedIsOurs DEF OwningInv, OwningTyped, RecordsAreTrue, V!TypeOK, Registries, V!At, V!Ends, V!Looks, V!Legible, V!Owned, V!InspectForRemoval
<1>7. SeenStays'
  BY <1>b DEF V!InspectForRemoval, SeenStays, V!Now
<1>8. Pinned'
  BY NowTyped, LegacyTyped, OwnedIsOurs DEF OwningInv, OwningTyped, Pinned, Operations, V!TypeOK, V!At, V!Ends, V!Looks, V!Legible, V!Owned, V!InspectForRemoval
<1>9. DataIsHeld'
  BY NowTyped, LegacyTyped, OwnedIsOurs DEF OwningInv, OwningTyped, Pinned, DataIsHeld, Operations, V!TypeOK, V!Now, V!Stored, V!RoomVolumesAssumption, V!At, V!Ends, V!Looks, V!Legible, V!Owned, V!InspectForRemoval
<1>10. V!ListingIsTrue'
  BY NowTyped, LegacyTyped, OwnedIsOurs DEF OwningInv, OwningTyped, V!ListingIsTrue, Operations, V!TypeOK, V!At, V!Ends, V!Looks, V!Legible, V!Owned, V!InspectForRemoval
<1> QED
  BY <1>4, <1>5, <1>6, <1>7, <1>8, <1>9, <1>10 DEF OwningInv

LEMMA VolumeRm ==
    ASSUME V!RoomVolumesAssumption, ~Midway, OwningInv, V!Rm
    PROVE  OwningInv'
<1>a. doing.at = "rm" /\ OwningTyped /\ engine \in Engines /\ doing.name \in Volumes /\ V!Now = there[engine][doing.name]
  BY NowTyped DEF V!Rm, V!At, OwningInv
<1>b. /\ doing' \in Operations /\ doing'.at \in {"gone", "over"} /\ doing'.name = doing.name
      /\ doing'.kind = doing.kind /\ doing'.aware = doing.aware /\ doing'.seen = doing.seen
      /\ doing'.result = doing.result \/ doing'.result = "refused"
  BY <1>a, GoesIs, EndsIs DEF V!Rm, VolumeSteps, VolumeResults
<1>c. \/ UNCHANGED there
      \/ /\ there' \in [Engines -> [Volumes -> V!Stored \cup {None}]]
         /\ there'[engine][doing.name] = None
         /\ \A e \in Engines, m \in Volumes : e # engine \/ m # doing.name => there'[e][m] = there[e][m]
  BY <1>a, PutIs DEF V!Rm
<1>1. doing' \in Operations /\ (doing'.at # "over" => doing'.name \in Volumes)
  BY <1>a, <1>b
<1>2. there' \in [Engines -> [Volumes -> V!Stored \cup {None}]] /\ stamps' \in Nat /\ stamps' >= stamps
  BY <1>a, <1>c DEF OwningTyped, V!Rm
<1>3. ours' \subseteq Nat /\ ours \subseteq ours' /\ rowNames' \in [Volumes -> Nat \cup {None}]
  BY NowTyped, LegacyTyped DEF OwningInv, OwningTyped, V!TypeOK, V!Stored, V!At, V!Goes, V!Ends, V!Put, V!Rm
<1>4. OwningTyped'
  <2>1. \A e \in Engines, n \in Volumes : there'[e][n] # None => there[e][n] # None /\ there'[e][n].stamp = there[e][n].stamp
    BY <1>c
  <2> QED
    BY <1>1, <1>2, <1>3, <1>a, <2>1, TypedAgain DEF OwningTyped, V!TypeOK, V!Rm
<1>5. LabelsAreTrue'
  BY <1>c DEF OwningInv, LabelsAreTrue, V!Rm
<1>6. RecordsAreTrue'
  BY NowTyped, LegacyTyped DEF OwningInv, OwningTyped, RecordsAreTrue, V!TypeOK, Registries, V!At, V!Goes, V!Ends, V!Put, V!Rm
<1>7. SeenStays'
  BY <1>b DEF SeenStays
<1>8. Pinned'
  BY NowTyped, LegacyTyped DEF OwningInv, OwningTyped, Pinned, Operations, V!TypeOK, V!At, V!Goes, V!Ends, V!Put, V!Rm
<1>9. DataIsHeld'
  <2>1. UNCHANGED <<pin, engine, rowNames>> /\ doing'.at # "create"
    BY <1>b DEF V!Rm
  <2>2. pin \in Engines /\ pin # None
    BY <1>a DEF OwningInv, Pinned, OwningTyped, V!TypeOK
  <2> QED
    BY <1>c, <2>1, <2>2 DEF OwningInv, DataIsHeld, V!RoomVolumesAssumption
<1>10. V!ListingIsTrue'
  BY NowTyped, LegacyTyped DEF OwningInv, OwningTyped, V!ListingIsTrue, Operations, V!TypeOK, V!At, V!Goes, V!Ends, V!Put, V!Rm
<1> QED
  BY <1>4, <1>5, <1>6, <1>7, <1>8, <1>9, <1>10 DEF OwningInv

LEMMA VolumeGone ==
    ASSUME V!RoomVolumesAssumption, ~Midway, OwningInv, V!Gone
    PROVE  OwningInv'
<1>a. doing.at = "gone" /\ OwningTyped
  BY DEF V!Gone, V!At, OwningInv
<1>b. /\ doing' \in Operations /\ doing'.at = "over" /\ doing'.result \in {"done", "refused"}
      /\ doing'.kind = doing.kind /\ doing'.aware = doing.aware /\ doing'.seen = doing.seen
  BY <1>a, EndsIs DEF V!Gone, VolumeResults
<1>1. doing' \in Operations /\ (doing'.at # "over" => doing'.name \in Volumes)
  BY <1>b
<1>2. there' \in [Engines -> [Volumes -> V!Stored \cup {None}]] /\ stamps' \in Nat /\ stamps' >= stamps
  BY NowTyped, LegacyTyped DEF OwningInv, OwningTyped, V!TypeOK, V!Stored, V!At, V!Ends, V!Gone
<1>3. ours' \subseteq Nat /\ ours \subseteq ours' /\ rowNames' \in [Volumes -> Nat \cup {None}]
  BY NowTyped, LegacyTyped DEF OwningInv, OwningTyped, V!TypeOK, V!Stored, V!At, V!Ends, V!Gone
<1>4. OwningTyped'
  <2>1. UNCHANGED <<registry, loaded>> \/ (registry' \in Registries /\ loaded' = registry')
    BY <1>a, LegacyTyped DEF V!Gone, OwningInv, Registries
  <2> QED
    BY <1>1, <1>2, <1>3, <1>a, <2>1, TypedAgain DEF OwningTyped, V!TypeOK, V!Gone
<1>5. LabelsAreTrue'
  BY NowTyped, LegacyTyped DEF OwningInv, OwningTyped, LabelsAreTrue, V!TypeOK, V!Stored, V!At, V!Ends, V!Gone
<1>6. RecordsAreTrue'
  BY NowTyped, LegacyTyped DEF OwningInv, OwningTyped, RecordsAreTrue, V!TypeOK, Registries, V!At, V!Ends, V!Gone
<1>7. SeenStays'
  BY NowTyped, LegacyTyped DEF OwningInv, OwningTyped, SeenStays, Operations, V!TypeOK, V!Now, V!Stored, V!At, V!Ends, V!Gone
<1>8. Pinned'
  BY NowTyped, LegacyTyped DEF OwningInv, OwningTyped, Pinned, Operations, V!TypeOK, V!At, V!Ends, V!Gone
<1>9. DataIsHeld'
  BY NowTyped, LegacyTyped DEF OwningInv, OwningTyped, Pinned, DataIsHeld, Operations, V!TypeOK, V!Now, V!Stored, V!RoomVolumesAssumption, V!At, V!Ends, V!Gone
<1>10. V!ListingIsTrue'
  BY NowTyped, LegacyTyped DEF OwningInv, OwningTyped, V!ListingIsTrue, Operations, V!TypeOK, V!At, V!Ends, V!Gone
<1> QED
  BY <1>4, <1>5, <1>6, <1>7, <1>8, <1>9, <1>10 DEF OwningInv

LEMMA VolumeList ==
    ASSUME V!RoomVolumesAssumption, ~Midway, OwningInv, V!List
    PROVE  OwningInv'
<1>1. doing' \in Operations /\ (doing'.at # "over" => doing'.name \in Volumes)
  BY NowTyped, LegacyTyped, OwnedIsOurs DEF OwningInv, OwningTyped, Operations, VolumeSteps, VolumeResults, V!TypeOK, V!At, V!Looks, V!Legible, V!Owned, V!List
<1>2. there' \in [Engines -> [Volumes -> V!Stored \cup {None}]] /\ stamps' \in Nat /\ stamps' >= stamps
  BY NowTyped, LegacyTyped, OwnedIsOurs DEF OwningInv, OwningTyped, V!TypeOK, V!Stored, V!At, V!Looks, V!Legible, V!Owned, V!List
<1>3. ours' \subseteq Nat /\ ours \subseteq ours' /\ rowNames' \in [Volumes -> Nat \cup {None}]
  BY NowTyped, LegacyTyped, OwnedIsOurs DEF OwningInv, OwningTyped, V!TypeOK, V!Stored, V!At, V!Looks, V!Legible, V!Owned, V!List
<1>4. OwningTyped'
  BY <1>1, <1>2, <1>3, NowTyped, LegacyTyped, OwnedIsOurs DEF OwningInv, OwningTyped, V!TypeOK, Registries, Operations, V!Stored, V!At, V!Looks, V!Legible, V!Owned, V!List
<1>5. LabelsAreTrue'
  BY NowTyped, LegacyTyped, OwnedIsOurs DEF OwningInv, OwningTyped, LabelsAreTrue, V!TypeOK, V!Stored, V!At, V!Looks, V!Legible, V!Owned, V!List
<1>6. RecordsAreTrue'
  BY NowTyped, LegacyTyped, OwnedIsOurs DEF OwningInv, OwningTyped, RecordsAreTrue, V!TypeOK, Registries, V!At, V!Looks, V!Legible, V!Owned, V!List
<1>7. SeenStays'
  BY NowTyped, LegacyTyped, OwnedIsOurs DEF OwningInv, OwningTyped, SeenStays, Operations, V!TypeOK, V!Now, V!Stored, V!At, V!Looks, V!Legible, V!Owned, V!List
<1>8. Pinned'
  BY NowTyped, LegacyTyped, OwnedIsOurs DEF OwningInv, OwningTyped, Pinned, Operations, V!TypeOK, V!At, V!Looks, V!Legible, V!Owned, V!List
<1>9. DataIsHeld'
  BY NowTyped, LegacyTyped, OwnedIsOurs DEF OwningInv, OwningTyped, Pinned, DataIsHeld, Operations, V!TypeOK, V!Now, V!Stored, V!RoomVolumesAssumption, V!At, V!Looks, V!Legible, V!Owned, V!List
<1>10. V!ListingIsTrue'
  BY NowTyped, LegacyTyped, OwnedIsOurs DEF OwningInv, OwningTyped, V!ListingIsTrue, Operations, V!TypeOK, V!At, V!Looks, V!Legible, V!Owned, V!List
<1> QED
  BY <1>4, <1>5, <1>6, <1>7, <1>8, <1>9, <1>10 DEF OwningInv

LEMMA VolumeHealth ==
    ASSUME V!RoomVolumesAssumption, ~Midway, OwningInv, V!Health
    PROVE  OwningInv'
<1>1. doing' \in Operations /\ (doing'.at # "over" => doing'.name \in Volumes)
  BY DEF OwningInv, OwningTyped, Operations, VolumeSteps, VolumeResults, V!TypeOK, V!Verified, V!Health
<1>2. there' \in [Engines -> [Volumes -> V!Stored \cup {None}]] /\ stamps' \in Nat /\ stamps' >= stamps
  BY DEF OwningInv, OwningTyped, V!TypeOK, V!Stored, V!Verified, V!Health
<1>3. ours' \subseteq Nat /\ ours \subseteq ours' /\ rowNames' \in [Volumes -> Nat \cup {None}]
  BY DEF OwningInv, OwningTyped, V!TypeOK, V!Stored, V!Verified, V!Health
<1>4. OwningTyped'
  BY <1>1, <1>2, <1>3 DEF OwningInv, OwningTyped, V!TypeOK, Registries, Operations, V!Stored, V!Verified, V!Health
<1>5. LabelsAreTrue'
  BY DEF OwningInv, OwningTyped, LabelsAreTrue, V!TypeOK, V!Stored, V!Verified, V!Health
<1>6. RecordsAreTrue'
  BY DEF OwningInv, OwningTyped, RecordsAreTrue, V!TypeOK, Registries, V!Verified, V!Health
<1>7. SeenStays'
  BY DEF OwningInv, OwningTyped, SeenStays, Operations, V!TypeOK, V!Now, V!Stored, V!Verified, V!Health
<1>8. Pinned'
  <2>1. engine # None /\ UNCHANGED <<engine, doing>>
    BY DEF V!Health, OwningInv, OwningTyped, V!TypeOK, V!RoomVolumesAssumption
  <2>2. /\ proven' => pin' = engine
        /\ pin' = pin \/ (pin = None /\ pin' = engine)
        /\ noticed' /\ ~noticed
    BY DEF V!Health, V!Verified
  <2> QED
    BY <2>1, <2>2 DEF OwningInv, Pinned
<1>9. DataIsHeld'
  BY DEF OwningInv, OwningTyped, Pinned, DataIsHeld, Operations, V!TypeOK, V!Now, V!Stored, V!RoomVolumesAssumption, V!Verified, V!Health
<1>10. V!ListingIsTrue'
  BY DEF OwningInv, OwningTyped, V!ListingIsTrue, Operations, V!TypeOK, V!Verified, V!Health
<1> QED
  BY <1>4, <1>5, <1>6, <1>7, <1>8, <1>9, <1>10 DEF OwningInv

LEMMA VolumeCallFails ==
    ASSUME V!RoomVolumesAssumption, ~Midway, OwningInv, V!CallFails
    PROVE  OwningInv'
<1>1. doing' \in Operations /\ (doing'.at # "over" => doing'.name \in Volumes)
  BY DEF OwningInv, OwningTyped, Operations, VolumeSteps, VolumeResults, V!TypeOK, V!At, V!Ends, V!Moves, V!CallFails
<1>2. there' \in [Engines -> [Volumes -> V!Stored \cup {None}]] /\ stamps' \in Nat /\ stamps' >= stamps
  BY DEF OwningInv, OwningTyped, V!TypeOK, V!Stored, V!At, V!Ends, V!Moves, V!CallFails
<1>3. ours' \subseteq Nat /\ ours \subseteq ours' /\ rowNames' \in [Volumes -> Nat \cup {None}]
  BY DEF OwningInv, OwningTyped, V!TypeOK, V!Stored, V!At, V!Ends, V!Moves, V!CallFails
<1>4. OwningTyped'
  BY <1>1, <1>2, <1>3 DEF OwningInv, OwningTyped, V!TypeOK, Registries, Operations, V!Stored, V!At, V!Ends, V!Moves, V!CallFails
<1>5. LabelsAreTrue'
  BY DEF OwningInv, OwningTyped, LabelsAreTrue, V!TypeOK, V!Stored, V!At, V!Ends, V!Moves, V!CallFails
<1>6. RecordsAreTrue'
  BY DEF OwningInv, OwningTyped, RecordsAreTrue, V!TypeOK, Registries, V!At, V!Ends, V!Moves, V!CallFails
<1>7. SeenStays'
  BY DEF OwningInv, OwningTyped, SeenStays, Operations, V!TypeOK, V!Now, V!Stored, V!At, V!Ends, V!Moves, V!CallFails
<1>8. Pinned'
  BY DEF OwningInv, OwningTyped, Pinned, Operations, V!TypeOK, V!At, V!Ends, V!Moves, V!CallFails
<1>9. DataIsHeld'
  BY DEF OwningInv, OwningTyped, Pinned, DataIsHeld, Operations, V!TypeOK, V!Now, V!Stored, V!RoomVolumesAssumption, V!At, V!Ends, V!Moves, V!CallFails
<1>10. V!ListingIsTrue'
  BY DEF OwningInv, OwningTyped, V!ListingIsTrue, Operations, V!TypeOK, V!At, V!Ends, V!Moves, V!CallFails
<1> QED
  BY <1>4, <1>5, <1>6, <1>7, <1>8, <1>9, <1>10 DEF OwningInv

LEMMA VolumeEngineChanges ==
    ASSUME V!RoomVolumesAssumption, ~Midway, OwningInv, V!EngineChanges
    PROVE  OwningInv'
<1>1. doing' \in Operations /\ (doing'.at # "over" => doing'.name \in Volumes)
  BY DEF OwningInv, OwningTyped, Operations, VolumeSteps, VolumeResults, V!TypeOK, V!Moves, V!Quiet, V!EngineChanges
<1>2. there' \in [Engines -> [Volumes -> V!Stored \cup {None}]] /\ stamps' \in Nat /\ stamps' >= stamps
  BY DEF OwningInv, OwningTyped, V!TypeOK, V!Stored, V!Moves, V!Quiet, V!EngineChanges
<1>3. ours' \subseteq Nat /\ ours \subseteq ours' /\ rowNames' \in [Volumes -> Nat \cup {None}]
  BY DEF OwningInv, OwningTyped, V!TypeOK, V!Stored, V!Moves, V!Quiet, V!EngineChanges
<1>4. OwningTyped'
  BY <1>1, <1>2, <1>3 DEF OwningInv, OwningTyped, V!TypeOK, Registries, Operations, V!Stored, V!Moves, V!Quiet, V!EngineChanges
<1>5. LabelsAreTrue'
  BY DEF OwningInv, OwningTyped, LabelsAreTrue, V!TypeOK, V!Stored, V!Moves, V!Quiet, V!EngineChanges
<1>6. RecordsAreTrue'
  BY DEF OwningInv, OwningTyped, RecordsAreTrue, V!TypeOK, Registries, V!Moves, V!Quiet, V!EngineChanges
<1>7. SeenStays'
  <2>1. doing.at = "over" /\ UNCHANGED <<doing, pin, proven, there>> /\ ~noticed'
    BY DEF V!EngineChanges, V!Quiet, V!At
  <2> QED
    BY <2>1 DEF OwningInv, SeenStays, Pinned
<1>8. Pinned'
  <2>1. doing.at = "over" /\ UNCHANGED <<doing, pin, proven, there>> /\ ~noticed'
    BY DEF V!EngineChanges, V!Quiet, V!At
  <2> QED
    BY <2>1 DEF OwningInv, SeenStays, Pinned
<1>9. DataIsHeld'
  BY DEF OwningInv, OwningTyped, Pinned, DataIsHeld, Operations, V!TypeOK, V!Now, V!Stored, V!RoomVolumesAssumption, V!Moves, V!Quiet, V!EngineChanges
<1>10. V!ListingIsTrue'
  BY DEF OwningInv, OwningTyped, V!ListingIsTrue, Operations, V!TypeOK, V!Moves, V!Quiet, V!EngineChanges
<1> QED
  BY <1>4, <1>5, <1>6, <1>7, <1>8, <1>9, <1>10 DEF OwningInv

LEMMA VolumeRestart ==
    ASSUME V!RoomVolumesAssumption, ~Midway, OwningInv, V!Restart
    PROVE  OwningInv'
<1>1. doing' \in Operations /\ (doing'.at # "over" => doing'.name \in Volumes)
  BY DEF OwningInv, OwningTyped, Operations, VolumeSteps, VolumeResults, V!TypeOK, V!Moves, V!Idle, V!Restart
<1>2. there' \in [Engines -> [Volumes -> V!Stored \cup {None}]] /\ stamps' \in Nat /\ stamps' >= stamps
  BY DEF OwningInv, OwningTyped, V!TypeOK, V!Stored, V!Moves, V!Idle, V!Restart
<1>3. ours' \subseteq Nat /\ ours \subseteq ours' /\ rowNames' \in [Volumes -> Nat \cup {None}]
  BY DEF OwningInv, OwningTyped, V!TypeOK, V!Stored, V!Moves, V!Idle, V!Restart
<1>4. OwningTyped'
  BY <1>1, <1>2, <1>3 DEF OwningInv, OwningTyped, V!TypeOK, Registries, Operations, V!Stored, V!Moves, V!Idle, V!Restart
<1>5. LabelsAreTrue'
  BY DEF OwningInv, OwningTyped, LabelsAreTrue, V!TypeOK, V!Stored, V!Moves, V!Idle, V!Restart
<1>6. RecordsAreTrue'
  BY DEF OwningInv, OwningTyped, RecordsAreTrue, V!TypeOK, Registries, V!Moves, V!Idle, V!Restart
<1>7. SeenStays'
  BY DEF OwningInv, OwningTyped, SeenStays, Operations, V!TypeOK, V!Now, V!Stored, V!Moves, V!Idle, V!Restart
<1>8. Pinned'
  BY DEF OwningInv, OwningTyped, Pinned, Operations, V!TypeOK, V!Moves, V!Idle, V!Restart
<1>9. DataIsHeld'
  BY DEF OwningInv, OwningTyped, Pinned, DataIsHeld, Operations, V!TypeOK, V!Now, V!Stored, V!RoomVolumesAssumption, V!Moves, V!Idle, V!Restart
<1>10. V!ListingIsTrue'
  BY DEF OwningInv, OwningTyped, V!ListingIsTrue, Operations, V!TypeOK, V!Moves, V!Idle, V!Restart
<1> QED
  BY <1>4, <1>5, <1>6, <1>7, <1>8, <1>9, <1>10 DEF OwningInv

LEMMA VolumeForget ==
    ASSUME V!RoomVolumesAssumption, ~Midway, OwningInv, V!Forget
    PROVE  OwningInv'
<1>1. doing' \in Operations /\ (doing'.at # "over" => doing'.name \in Volumes)
  BY DEF OwningInv, OwningTyped, Operations, VolumeSteps, VolumeResults, V!TypeOK, V!At, V!Moves, V!Forget
<1>2. there' \in [Engines -> [Volumes -> V!Stored \cup {None}]] /\ stamps' \in Nat /\ stamps' >= stamps
  BY DEF OwningInv, OwningTyped, V!TypeOK, V!Stored, V!At, V!Moves, V!Forget
<1>3. ours' \subseteq Nat /\ ours \subseteq ours' /\ rowNames' \in [Volumes -> Nat \cup {None}]
  BY DEF OwningInv, OwningTyped, V!TypeOK, V!Stored, V!At, V!Moves, V!Forget
<1>4. OwningTyped'
  BY <1>1, <1>2, <1>3 DEF OwningInv, OwningTyped, V!TypeOK, Registries, Operations, V!Stored, V!At, V!Moves, V!Forget
<1>5. LabelsAreTrue'
  BY DEF OwningInv, OwningTyped, LabelsAreTrue, V!TypeOK, V!Stored, V!At, V!Moves, V!Forget
<1>6. RecordsAreTrue'
  BY DEF OwningInv, OwningTyped, RecordsAreTrue, V!TypeOK, Registries, V!At, V!Moves, V!Forget
<1>7. SeenStays'
  BY DEF OwningInv, OwningTyped, SeenStays, Operations, V!TypeOK, V!Now, V!Stored, V!At, V!Moves, V!Forget
<1>8. Pinned'
  BY DEF OwningInv, OwningTyped, Pinned, Operations, V!TypeOK, V!At, V!Moves, V!Forget
<1>9. DataIsHeld'
  BY DEF OwningInv, OwningTyped, Pinned, DataIsHeld, Operations, V!TypeOK, V!Now, V!Stored, V!RoomVolumesAssumption, V!At, V!Moves, V!Forget
<1>10. V!ListingIsTrue'
  BY DEF OwningInv, OwningTyped, V!ListingIsTrue, Operations, V!TypeOK, V!At, V!Moves, V!Forget
<1> QED
  BY <1>4, <1>5, <1>6, <1>7, <1>8, <1>9, <1>10 DEF OwningInv

LEMMA VolumeOthers ==
    ASSUME V!RoomVolumesAssumption, ~Midway, OwningInv, NEW n \in Volumes, V!Others(n)
    PROVE  OwningInv'
<1>a. OwningTyped /\ engine \in Engines /\ stamps \in Nat /\ there[engine][n] \in V!Stored \cup {None}
  BY DEF OwningInv, OwningTyped, V!TypeOK
<1>b. PICK w \in V!Stored \cup {None} :
         /\ V!Put(n, w)
         /\ \/ there[engine][n] = None /\ w # None /\ w.labels # "room" /\ w.stamp = stamps + 1 /\ stamps' = stamps + 1
            \/ there[engine][n] # None /\ w # None /\ w.labels = there[engine][n].labels /\ w.stamp = there[engine][n].stamp
               /\ stamps' = stamps
            \/ w = None /\ (doing.at = "over" \/ n # doing.name) /\ stamps' = stamps
  <2>1. CASE there[engine][n] = None /\ (\E labels \in {"none", "other"} : V!Put(n, V!Volume(labels))) /\ stamps' = stamps + 1
    <3>1. PICK labels \in {"none", "other"} : V!Put(n, V!Volume(labels))
      BY <2>1
    <3>2. V!Volume(labels) \in V!Stored /\ V!Volume(labels).stamp = stamps + 1 /\ V!Volume(labels).labels = labels
      BY <1>a DEF V!Volume, V!Stored
    <3> QED
      BY <2>1, <3>1, <3>2 DEF V!RoomVolumesAssumption
  <2>2. CASE there[engine][n] # None /\ V!Put(n, [there[engine][n] EXCEPT !.used = ~@]) /\ stamps' = stamps
    <3> DEFINE u == [there[engine][n] EXCEPT !.used = ~@]
    <3>1. u \in V!Stored /\ u.labels = there[engine][n].labels /\ u.stamp = there[engine][n].stamp
      BY <1>a, <2>2 DEF V!Stored
    <3>2. V!Put(n, u)
      BY <2>2
    <3> HIDE DEF u
    <3> QED
      BY <2>2, <3>1, <3>2 DEF V!RoomVolumesAssumption
  <2>3. CASE there[engine][n] # None /\ ~there[engine][n].used /\ (V!Quiet \/ n # doing.name) /\ V!Put(n, None) /\ stamps' = stamps
    BY <2>3 DEF V!Quiet, V!At
  <2> QED
    BY <2>1, <2>2, <2>3 DEF V!Others
<1>c. /\ there' \in [Engines -> [Volumes -> V!Stored \cup {None}]]
      /\ there'[engine][n] = w
      /\ \A e \in Engines, m \in Volumes : e # engine \/ m # n => there'[e][m] = there[e][m]
  BY <1>a, <1>b, PutIs
<1>d. UNCHANGED <<engine, pin, proven, registry, loaded, manifest, ours, rowNames, doing, noticed>>
  BY DEF V!Others
<1>1. doing' \in Operations /\ (doing'.at # "over" => doing'.name \in Volumes)
  BY <1>a, <1>d DEF OwningTyped
<1>2. there' \in [Engines -> [Volumes -> V!Stored \cup {None}]] /\ stamps' \in Nat /\ stamps' >= stamps
  BY <1>a, <1>b, <1>c
<1>3. ours' \subseteq Nat /\ ours \subseteq ours' /\ rowNames' \in [Volumes -> Nat \cup {None}]
  BY <1>a, <1>d DEF OwningTyped
<1>4. OwningTyped'
  <2>1. \A e \in Engines, m \in Volumes : there'[e][m] # None =>
          there'[e][m].stamp \in 1 .. stamps' \/ (there[e][m] # None /\ there'[e][m].stamp = there[e][m].stamp)
    BY <1>a, <1>b, <1>c
  <2> QED
    BY <1>1, <1>2, <1>3, <1>a, <1>d, <2>1, TypedAgain DEF OwningTyped, V!TypeOK
<1>5. LabelsAreTrue'
  <2>1. \A e \in Engines, m \in Volumes : there'[e][m] # None /\ there'[e][m].labels = "room" =>
          there[e][m] # None /\ there[e][m].labels = "room" /\ there'[e][m].stamp = there[e][m].stamp
    BY <1>a, <1>b, <1>c
  <2> QED
    BY <1>d, <2>1 DEF OwningInv, LabelsAreTrue
<1>6. RecordsAreTrue'
  BY DEF OwningInv, OwningTyped, RecordsAreTrue, V!TypeOK, Registries, V!Volume, V!Put, V!Moves, V!Quiet, V!Others
<1>7. SeenStays'
  <2> SUFFICES ASSUME doing.at \in {"write", "rm"} PROVE SeenStays'
    BY <1>d DEF SeenStays
  <2>1. V!Now = there[engine][doing.name] /\ doing.name \in Volumes
    BY <1>a, NowTyped
  <2>2. V!Now' = there'[engine][doing.name]
    BY <1>d DEF V!Now
  <2>3. V!Now # None
    BY DEF OwningInv, SeenStays
  <2>4. V!Now' # None /\ V!Now'.labels = V!Now.labels /\ V!Now'.stamp = V!Now.stamp
    BY <1>a, <1>b, <1>c, <2>1, <2>2, <2>3
  <2> QED
    BY <1>d, <2>4 DEF OwningInv, SeenStays
<1>8. Pinned'
  BY DEF OwningInv, OwningTyped, Pinned, Operations, V!TypeOK, V!Volume, V!Put, V!Moves, V!Quiet, V!Others
<1>9. DataIsHeld'
  <2>1. \A e \in Engines, m \in Volumes : there'[e][m] # None /\ there'[e][m].labels = "room" =>
          there[e][m] # None /\ there[e][m].labels = "room" /\ there'[e][m].stamp = there[e][m].stamp
    BY <1>a, <1>b, <1>c
  <2>2. pin # None => pin \in Engines
    BY <1>a DEF OwningTyped, V!TypeOK
  <2> QED
    BY <1>d, <2>1, <2>2 DEF OwningInv, DataIsHeld, V!RoomVolumesAssumption
<1>10. V!ListingIsTrue'
  BY DEF OwningInv, OwningTyped, V!ListingIsTrue, Operations, V!TypeOK, V!Volume, V!Put, V!Moves, V!Quiet, V!Others
<1> QED
  BY <1>4, <1>5, <1>6, <1>7, <1>8, <1>9, <1>10 DEF OwningInv

LEMMA OwningStutter ==
    ASSUME OwningInv, UNCHANGED ownership
    PROVE  OwningInv'
BY DEF ownership, OwningInv, OwningTyped, V!TypeOK, LabelsAreTrue, RecordsAreTrue, SeenStays, V!Now, Pinned, DataIsHeld,
       V!ListingIsTrue

LEMMA OwningStep ==
    ASSUME V!RoomVolumesAssumption, ~Midway, OwningInv, V!Next \/ UNCHANGED ownership
    PROVE  OwningInv'
<1>1. ASSUME NEW kind \in {"adopt", "ensure", "remove", "list"}, NEW n \in Volumes, V!Begin(kind, n) PROVE OwningInv'
  BY <1>1, VolumeBegin
<1>2. ASSUME NEW n \in Volumes, V!Others(n) PROVE OwningInv'
  BY <1>2, VolumeOthers
<1>3. CASE V!Prove
  BY <1>3, VolumeProve
<1>4. CASE V!InspectForAdoption
  BY <1>4, VolumeInspectForAdoption
<1>5. CASE V!Write
  BY <1>5, VolumeWrite
<1>6. CASE V!InspectForUse
  BY <1>6, VolumeInspectForUse
<1>7. CASE V!Create
  BY <1>7, VolumeCreate
<1>8. CASE V!Made
  BY <1>8, VolumeMade
<1>9. CASE V!InspectForRemoval
  BY <1>9, VolumeInspectForRemoval
<1>10. CASE V!Rm
  BY <1>10, VolumeRm
<1>11. CASE V!Gone
  BY <1>11, VolumeGone
<1>12. CASE V!List
  BY <1>12, VolumeList
<1>13. CASE V!Health
  BY <1>13, VolumeHealth
<1>14. CASE V!CallFails
  BY <1>14, VolumeCallFails
<1>15. CASE V!EngineChanges
  BY <1>15, VolumeEngineChanges
<1>16. CASE V!Restart
  BY <1>16, VolumeRestart
<1>17. CASE V!Forget
  BY <1>17, VolumeForget
<1>18. CASE UNCHANGED ownership
  BY <1>18, OwningStutter
<1> QED
  BY <1>1, <1>2, <1>3, <1>4, <1>5, <1>6, <1>7, <1>8, <1>9, <1>10, <1>11, <1>12, <1>13, <1>14, <1>15, <1>16, <1>17, <1>18 DEF V!Next

\* Only the step that ends a removal, or a creation, moves an operation and a volume.
LEMMA MovesBoth ==
    ASSUME V!Next, there' # there, doing' # doing
    PROVE  V!Create \/ V!Rm
BY DEF V!Next, V!Begin, V!Prove, V!InspectForAdoption, V!Write, V!InspectForUse, V!Create, V!Made, V!InspectForRemoval, V!Rm, V!Gone, V!List, V!Health, V!CallFails, V!EngineChanges, V!Restart, V!Forget, V!Others

LEMMA TakesOver ==
    ASSUME V!Next, rowNames' # rowNames
    PROVE  V!Write \/ V!InspectForUse \/ V!Made
BY DEF V!Next, V!Begin, V!Prove, V!InspectForAdoption, V!Write, V!InspectForUse, V!Create, V!Made, V!InspectForRemoval, V!Rm, V!Gone, V!List, V!Health, V!CallFails, V!EngineChanges, V!Restart, V!Forget, V!Others

LEMMA OwningKeeps ==
    ASSUME V!RoomVolumesAssumption, OwningInv, V!Next
    PROVE  V!RemovesOwn /\ V!EngineIsPinned /\ V!DataIsTheSame
<1>1. V!RemovesOwn
  <2> SUFFICES ASSUME NEW e \in Engines, NEW n \in Volumes, doing.at = "rm", doing' # doing, there[e][n] # None, there'[e][n] = None
               PROVE  e = engine /\ there[e][n].stamp \in ours /\ ~there[e][n].used
    BY DEF V!RemovesOwn, V!At
  <2>1. V!Rm
    BY MovesBoth DEF V!Create, V!At
  <2>2. /\ OwningTyped /\ V!Now = there[engine][doing.name] /\ doing.name \in Volumes
        /\ V!Now # None /\ V!Now.stamp \in ours
    BY NowTyped DEF OwningInv, SeenStays
  <2>3. ~V!Now.used /\ V!Put(doing.name, None)
    BY <2>1 DEF V!Rm
  <2>4. e = engine /\ n = doing.name
    BY <2>2, <2>3, PutIs
  <2> QED
    BY <2>2, <2>3, <2>4
<1>2. V!EngineIsPinned
  BY DEF V!EngineIsPinned, OwningInv, Pinned
<1>3. V!DataIsTheSame
  <2> SUFFICES ASSUME NEW n \in Recorded, rowNames[n] # None, rowNames'[n] # rowNames[n]
               PROVE  there[engine][n].labels = "none"
    BY DEF V!DataIsTheSame
  <2>1. n \in Volumes
    BY DEF V!RoomVolumesAssumption
  <2>2. V!Write \/ V!InspectForUse \/ V!Made
    BY TakesOver
  <2>3. doing.at # "over" /\ OwningTyped /\ V!Now = there[engine][doing.name]
    BY <2>2, NowTyped DEF V!Write, V!InspectForUse, V!Made, V!At, OwningInv
  <2>4. CASE V!Write
    <3>1. n = doing.name
      BY <2>1, <2>3, <2>4 DEF V!Write, V!Takes, OwningTyped
    <3>2. V!Now.labels = "none"
      BY <2>4 DEF V!Write, V!At, OwningInv, SeenStays
    <3> QED
      BY <2>3, <3>1, <3>2
  <2>5. CASE V!InspectForUse \/ V!Made
    <3>1. V!Now # None /\ V!Owned(doing.name, V!Now) /\ V!Takes(doing.name, V!Now)
      BY <2>5 DEF V!InspectForUse, V!Made
    <3>2. /\ V!Now.labels \in {"room", "none"}
          /\ n = doing.name /\ engine = pin /\ rowNames'[n] = V!Now.stamp
      BY <2>1, <2>3, <3>1, TakesIs DEF OwningInv
    <3>3. V!Now.labels # "room"
      BY <2>3, <3>1, <3>2 DEF OwningInv, DataIsHeld, OwningTyped, V!TypeOK, V!RoomVolumesAssumption
    <3> QED
      BY <2>3, <3>2, <3>3
  <2> QED
    BY <2>2, <2>4, <2>5
<1> QED
  BY <1>1, <1>2, <1>3

\* What RoomDisksProofs shows of the collection holds here too: a step of
\* another component moves no variable of it.
LEMMA DisksBehave == ComponentsSpec => D!Spec
<1>1. AllInit => D!Init
  BY DEF AllInit
<1>2. [AllNext]_allVars => [D!Next]_(D!vars)
  BY DEF AllNext, allVars, volumes, D!vars, InChanges, InContainers, InDisks, InSync, InCommands, InEmulator, InNetworks,
         InWitness, InOwning, InReading
<1> QED
  BY <1>1, <1>2, PTL DEF ComponentsSpec, D!Spec

\* The garbage collection leaves what the row, the last Host sync and every change
\* that can still be undone go back to, and a Room that is busy; no operation
\* removes a volume that DevHotel did not make or take over, works on another engine
\* once that was noticed, or goes on with an empty volume in place of a recorded one
\* (backend/ociCli.ts): for any volumes, engines, generations, changes, sweeps and
\* failures.  Every pointer is recorded (LegacyGen = 0), and between a proof and its
\* use others leave the volume alone (~Midway).
THEOREM VolumesAreKept ==
    ASSUME LegacyGen = 0, ~Midway
    PROVE  ComponentsSpec => DisksAreKept
<1> DEFINE I == part = "owning" => OwningInv
<1>0. D!RoomDisksAssumption /\ V!RoomVolumesAssumption
  BY ComponentsAssumption DEF ComponentsAssumption
<1>1. ComponentsSpec => [](D!TypeOK /\ D!RowHasItsDisks /\ D!UndoFindsItsDisks) /\ [][D!SweepSparesTheBusy]_(D!vars)
  BY <1>0, DisksBehave, D!TypeCorrect, D!RowKeepsItsDisks, D!UndoKeepsItsDisks, D!BusyRoomsAreSpared, PTL
<1>2. AllInit => I
  BY <1>0, OwningInit DEF AllInit
<1>3. I /\ [AllNext]_allVars => I'
  <2> SUFFICES ASSUME I, [AllNext]_allVars, part' = "owning" PROVE OwningInv'
    OBVIOUS
  <2>1. part = "owning" /\ (V!Next \/ UNCHANGED ownership)
    BY DEF AllNext, allVars, InChanges, InContainers, InDisks, InSync, InCommands, InEmulator, InNetworks, InWitness,
           InOwning, InReading
  <2> QED
    BY <1>0, <2>1, OwningStep
<1>4. I => (part = "owning" => V!TypeOK /\ V!ListingIsTrue)
  BY DEF OwningInv, OwningTyped
<1>5. I /\ [AllNext]_allVars => [part = "owning" => V!RemovesOwn /\ V!EngineIsPinned /\ V!DataIsTheSame]_allVars
  <2> SUFFICES ASSUME I, AllNext, part = "owning" PROVE V!RemovesOwn /\ V!EngineIsPinned /\ V!DataIsTheSame
    OBVIOUS
  <2>1. V!Next
    BY DEF AllNext, InChanges, InContainers, InDisks, InSync, InCommands, InEmulator, InNetworks, InWitness, InOwning, InReading
  <2> QED
    BY <1>0, <2>1, OwningKeeps
<1>6. [D!SweepSparesTheBusy]_(D!vars) => [part = "disks" => D!SweepSparesTheBusy]_allVars
  <2>1. UNCHANGED D!vars => D!SweepSparesTheBusy
    BY DEF D!vars, D!SweepSparesTheBusy
  <2> QED
    BY <2>1
<1> QED
  BY <1>1, <1>2, <1>3, <1>4, <1>5, <1>6, PTL DEF ComponentsSpec, DisksAreKept

-----------------------------------------------------------------------------
(***************************************************************************)
(* Containers, addresses and status reads: RoomContainersProofs has what   *)
(* each of them keeps, and each is a behaviour of this run.                *)
(***************************************************************************)

LEMMA BoxesBehave == ComponentsSpec => B!Spec
<1>1. AllInit => B!Init
  BY DEF AllInit
<1>2. [AllNext]_allVars => [B!Next]_(B!vars)
  BY DEF AllNext, allVars, containers, B!vars, InChanges, InContainers, InDisks, InSync, InCommands, InEmulator, InNetworks,
         InWitness, InOwning, InReading
<1> QED
  BY <1>1, <1>2, PTL DEF ComponentsSpec, B!Spec

LEMMA PoolBehaves == ComponentsSpec => B!N!Spec
<1>1. AllInit => B!N!Init
  <2>1. N!Init => B!N!Init
    BY DEF N!Init, B!N!Init, N!Subnets, B!N!Subnets, N!NoAsk, B!N!NoAsk
  <2> QED
    BY <2>1 DEF AllInit
<1>2. N!Next => B!N!Next
  <2>1. ASSUME NEW r \in Tenants, N!Wake(r) PROVE B!N!Wake(r)
    BY <2>1 DEF N!Wake, B!N!Wake, N!Asks, B!N!Asks, N!At, B!N!At, N!NoAsk, B!N!NoAsk, N!memory, B!N!memory
  <2>2. ASSUME NEW r \in Tenants, N!Look(r) PROVE B!N!Look(r)
    BY <2>2 DEF N!Look, B!N!Look, N!At, B!N!At, N!Adopts, B!N!Adopts, N!Goes, B!N!Goes, N!memory, B!N!memory
  <2>3. ASSUME NEW r \in Tenants, N!Collect(r) PROVE B!N!Collect(r)
    BY <2>3 DEF N!Collect, B!N!Collect, N!At, B!N!At, N!InUse, B!N!InUse, N!Glitch, B!N!Glitch, N!memory,
       B!N!memory
  <2>4. ASSUME NEW r \in Tenants, N!Allocate(r) PROVE B!N!Allocate(r)
    BY <2>4 DEF N!Allocate, B!N!Allocate, N!At, B!N!At, N!Goes, B!N!Goes, N!memory, B!N!memory, N!Free,
       B!N!Free, N!Subnets, B!N!Subnets, N!NoAsk, B!N!NoAsk, N!Min, B!N!Min
  <2>5. ASSUME NEW r \in Tenants, N!Reclaim(r) PROVE B!N!Reclaim(r)
    BY <2>5 DEF N!Reclaim, B!N!Reclaim, N!At, B!N!At, N!Releases, B!N!Releases, N!memory, B!N!memory,
       N!Glitch, B!N!Glitch
  <2>6. ASSUME NEW r \in Tenants, N!Reclaimed(r) PROVE B!N!Reclaimed(r)
    BY <2>6 DEF N!Reclaimed, B!N!Reclaimed, N!At, B!N!At, N!NoAsk, B!N!NoAsk, N!memory, B!N!memory
  <2>7. ASSUME NEW r \in Tenants, N!Create(r) PROVE B!N!Create(r)
    BY <2>7 DEF N!Create, B!N!Create, N!At, B!N!At, N!InUse, B!N!InUse, N!memory, B!N!memory, N!Glitch,
       B!N!Glitch, N!Releases, B!N!Releases, N!NoAsk, B!N!NoAsk
  <2>8. ASSUME NEW r \in Tenants, N!Delete(r) PROVE B!N!Delete(r)
    BY <2>8 DEF N!Delete, B!N!Delete, N!Active, B!N!Active, N!Asks, B!N!Asks, N!At, B!N!At, N!NoAsk,
       B!N!NoAsk, N!memory, B!N!memory
  <2>9. ASSUME NEW r \in Tenants, N!RemoveNetwork(r) PROVE B!N!RemoveNetwork(r)
    BY <2>9 DEF N!RemoveNetwork, B!N!RemoveNetwork, N!At, B!N!At, N!Releases, B!N!Releases, N!Goes, B!N!Goes,
       N!Glitch, B!N!Glitch, N!memory, B!N!memory
  <2>10. ASSUME NEW r \in Tenants, N!ForgetRow(r) PROVE B!N!ForgetRow(r)
    BY <2>10 DEF N!ForgetRow, B!N!ForgetRow, N!At, B!N!At, N!Goes, B!N!Goes, N!memory, B!N!memory
  <2>11. ASSUME NEW r \in Tenants, NEW q \in Tenants, N!Inspect(r, q) PROVE B!N!Inspect(r, q)
    BY <2>11 DEF N!Inspect, B!N!Inspect, N!At, B!N!At, N!Active, B!N!Active, N!memory, B!N!memory
  <2>12. N!Die => B!N!Die
    BY DEF N!Die, B!N!Die, N!Glitch, B!N!Glitch, N!Active, B!N!Active, N!NoAsk, B!N!NoAsk
  <2>13. N!Outside => B!N!Outside
    BY DEF N!Outside, B!N!Outside, N!Subnets, B!N!Subnets, N!InUse, B!N!InUse, N!memory, B!N!memory
  <2> QED
    BY <2>1, <2>2, <2>3, <2>4, <2>5, <2>6, <2>7, <2>8, <2>9, <2>10, <2>11, <2>12, <2>13 DEF N!Next, B!N!Next
<1>3. [AllNext]_allVars => [N!Next]_(N!vars)
  BY DEF AllNext, allVars, pool, N!vars, N!memory, InChanges, InContainers, InDisks, InSync, InCommands, InEmulator, InNetworks,
         InWitness, InOwning, InReading
<1>4. [N!Next]_(N!vars) => [B!N!Next]_(B!N!vars)
  BY <1>2 DEF N!vars, N!memory, B!N!vars, B!N!memory
<1> QED
  BY <1>1, <1>3, <1>4, PTL DEF ComponentsSpec, B!N!Spec

LEMMA ReadsBehave == ComponentsSpec => B!U!Spec
<1>1. AllInit => B!U!Init
  <2>1. U!Init => B!U!Init
    BY DEF U!Init, B!U!Init, U!Live, B!U!Live, U!NoLook, B!U!NoLook, U!Nothing, B!U!Nothing, U!Now, B!U!Now,
       U!Up, B!U!Up, U!Serves, B!U!Serves
  <2> QED
    BY <2>1 DEF AllInit
<1>2. U!Next => B!U!Next
  <2>1. ASSUME NEW op \in {"start", "sleep"}, U!Admit(op) PROVE B!U!Admit(op)
    BY <2>1 DEF U!Admit, B!U!Admit, U!Entered, B!U!Entered, U!Live, B!U!Live
  <2>2. ASSUME NEW kind \in {"list", "inspect"}, U!Ask(kind) PROVE B!U!Ask(kind)
    BY <2>2 DEF U!Ask, B!U!Ask, U!At, B!U!At, U!Nothing, B!U!Nothing, U!Snapshot, B!U!Snapshot, U!NoLook,
       B!U!NoLook, U!Expected, B!U!Expected, U!Now, B!U!Now, U!Up, B!U!Up, U!Serves, B!U!Serves
  <2>3. U!Start => B!U!Start
    BY DEF U!Start, B!U!Start, U!Holds, B!U!Holds, U!Ends, B!U!Ends, U!Entered, B!U!Entered, U!Live, B!U!Live,
       U!Witness, B!U!Witness, U!Now, B!U!Now, U!Up, B!U!Up, U!Serves, B!U!Serves, U!At, B!U!At
  <2>4. U!Sleep => B!U!Sleep
    BY DEF U!Sleep, B!U!Sleep, U!Holds, B!U!Holds, U!Ends, B!U!Ends, U!Entered, B!U!Entered, U!Live, B!U!Live,
       U!Witness, B!U!Witness, U!Now, B!U!Now, U!Up, B!U!Up, U!Serves, B!U!Serves, U!At, B!U!At, U!Still,
       B!U!Still
  <2>5. U!Health => B!U!Health
    BY DEF U!Health, B!U!Health, U!At, B!U!At, U!Answers, B!U!Answers, U!Snapshot, B!U!Snapshot, U!NoLook,
       B!U!NoLook, U!Expected, B!U!Expected, U!Now, B!U!Now, U!Up, B!U!Up, U!Serves, B!U!Serves, U!Hiccup,
       B!U!Hiccup, U!Quietly, B!U!Quietly, U!Reads, B!U!Reads
  <2>6. U!Inventory => B!U!Inventory
    BY DEF U!Inventory, B!U!Inventory, U!At, B!U!At, U!Answers, B!U!Answers, U!Up, B!U!Up, U!Sees, B!U!Sees,
       U!ThenEmulator, B!U!ThenEmulator, U!Hiccup, B!U!Hiccup, U!Missed, B!U!Missed, U!Quietly, B!U!Quietly,
       U!Reads, B!U!Reads
  <2>7. U!SecondHealth => B!U!SecondHealth
    BY DEF U!SecondHealth, B!U!SecondHealth, U!At, B!U!At, U!Answers, B!U!Answers, U!Sees, B!U!Sees, U!Hiccup,
       B!U!Hiccup, U!Missed, B!U!Missed, U!Quietly, B!U!Quietly, U!Reads, B!U!Reads
  <2>8. U!Top => B!U!Top
    BY DEF U!Top, B!U!Top, U!At, B!U!At, U!Answers, B!U!Answers, U!ThenEmulator, B!U!ThenEmulator, U!Sees,
       B!U!Sees, U!Hiccup, B!U!Hiccup, U!Missed, B!U!Missed, U!Quietly, B!U!Quietly, U!Reads, B!U!Reads
  <2>9. U!Web => B!U!Web
    BY DEF U!Web, B!U!Web, U!At, B!U!At, U!Answers, B!U!Answers, U!Up, B!U!Up, U!Sees, B!U!Sees,
       U!ThenEmulator, B!U!ThenEmulator, U!Hiccup, B!U!Hiccup, U!Missed, B!U!Missed, U!Quietly, B!U!Quietly,
       U!Reads, B!U!Reads
  <2>10. U!Authority => B!U!Authority
    BY DEF U!Authority, B!U!Authority, U!At, B!U!At, U!Answers, B!U!Answers, U!ThenEmulator, B!U!ThenEmulator,
       U!Sees, B!U!Sees, U!Hiccup, B!U!Hiccup, U!Missed, B!U!Missed, U!Quietly, B!U!Quietly, U!Reads,
       B!U!Reads
  <2>11. U!Container => B!U!Container
    BY DEF U!Container, B!U!Container, U!At, B!U!At, U!Answers, B!U!Answers, U!ThenEmulator, B!U!ThenEmulator,
       U!Sees, B!U!Sees, U!Up, B!U!Up, U!Hiccup, B!U!Hiccup, U!Missed, B!U!Missed, U!Quietly, B!U!Quietly,
       U!Reads, B!U!Reads
  <2>12. U!Emulator => B!U!Emulator
    BY DEF U!Emulator, B!U!Emulator, U!At, B!U!At, U!Answers, B!U!Answers, U!Sees, B!U!Sees, U!Hiccup,
       B!U!Hiccup, U!Missed, B!U!Missed, U!Quietly, B!U!Quietly, U!Reads, B!U!Reads
  <2>13. U!Judge => B!U!Judge
    BY DEF U!Judge, B!U!Judge, U!At, B!U!At, U!States, B!U!States, U!Expected, B!U!Expected, U!Parts,
       B!U!Parts, U!Combined, B!U!Combined, U!MayRevoke, B!U!MayRevoke, U!Reads, B!U!Reads
  <2>14. U!Deaths => B!U!Deaths
    BY DEF U!Deaths, B!U!Deaths, U!Up, B!U!Up, U!Witness, B!U!Witness, U!Now, B!U!Now, U!Serves, B!U!Serves,
       U!At, B!U!At
  <2> QED
    BY <2>1, <2>2, <2>3, <2>4, <2>5, <2>6, <2>7, <2>8, <2>9, <2>10, <2>11, <2>12, <2>13, <2>14 DEF U!Next,
       B!U!Next
<1>3. [AllNext]_allVars => [U!Next]_(U!vars)
  BY DEF AllNext, allVars, statuses, U!vars, InChanges, InContainers, InDisks, InSync, InCommands, InEmulator, InNetworks,
         InWitness, InOwning, InReading
<1>4. [U!Next]_(U!vars) => [B!U!Next]_(B!U!vars)
  BY <1>2 DEF U!vars, B!U!vars
<1> QED
  BY <1>1, <1>3, <1>4, PTL DEF ComponentsSpec, B!U!Spec

\* An operation on the containers of a Room leaves nothing behind when it says so, and
\* no stranger is touched; no address of the pool is given twice, and a Room keeps its
\* network; a status read calls a Room dead, running or stray only when it was, and takes
\* no route that was made meanwhile (backend/ociCli.ts, orchestrator.ts): for any
\* operations, Rooms, pool, mutations and failures.  The engine gives no answer at most
\* twice in a read (MaxHiccups <= 2; section 6 of the README shows the third).
THEOREM ContainersAreSafe ==
    ASSUME MaxHiccups <= 2
    PROVE  ComponentsSpec => ContainersHold
<1>1. B!RoomContainersAssumption /\ B!N!RoomNetworksAssumption /\ B!U!RuntimeStatusAssumption
  BY ComponentsAssumption DEF ComponentsAssumption, N!RoomNetworksAssumption, B!N!RoomNetworksAssumption,
     U!RuntimeStatusAssumption, B!U!RuntimeStatusAssumption
<1>2. ComponentsSpec => /\ [](B!TypeOK /\ B!NothingLeftOver /\ B!RelayOpensAnchor /\ B!SharedNamespace)
                        /\ [][B!ForeignUntouched /\ B!LeavesFirst]_(B!vars)
  BY <1>1, BoxesBehave, B!TypeCorrect, B!NothingIsLeft, B!RelayIsOpened, B!NamespaceIsShared, B!StrangersAreSpared, PTL
<1>3. ComponentsSpec => /\ [](B!N!TypeOK /\ B!N!ClaimsAreBacked)
                        /\ [][B!N!RoomKeepsNetwork /\ B!N!RefusalIsTrue]_(B!N!vars)
  BY <1>1, PoolBehaves, B!AddressesAreKept, PTL
<1>4. ComponentsSpec => [](B!U!TypeOK /\ B!U!NewRouteStays /\ B!U!DeadIsProven /\ B!U!RunningWasSeen /\ B!U!StrayIsTold)
  BY <1>1, ReadsBehave, B!ReadsAreTrue, PTL
<1>5. B!N!TypeOK /\ B!N!ClaimsAreBacked => N!TypeOK /\ N!ClaimsAreBacked
  BY DEF N!TypeOK, B!N!TypeOK, N!ClaimsAreBacked, B!N!ClaimsAreBacked, N!Subnets, B!N!Subnets, N!Active, B!N!Active
<1>6. B!U!TypeOK /\ B!U!NewRouteStays /\ B!U!DeadIsProven /\ B!U!RunningWasSeen /\ B!U!StrayIsTold
      => U!TypeOK /\ U!NewRouteStays /\ U!DeadIsProven /\ U!RunningWasSeen /\ U!StrayIsTold
  BY DEF U!TypeOK, B!U!TypeOK, U!NewRouteStays, B!U!NewRouteStays, U!DeadIsProven, B!U!DeadIsProven,
     U!RunningWasSeen, B!U!RunningWasSeen, U!StrayIsTold, B!U!StrayIsTold
<1>7. [B!N!RoomKeepsNetwork /\ B!N!RefusalIsTrue]_(B!N!vars)
      => [part = "networks" => N!RoomKeepsNetwork /\ N!RefusalIsTrue]_allVars
  <2>1. B!N!RoomKeepsNetwork /\ B!N!RefusalIsTrue => N!RoomKeepsNetwork /\ N!RefusalIsTrue
    BY DEF N!RoomKeepsNetwork, B!N!RoomKeepsNetwork, N!RefusalIsTrue, B!N!RefusalIsTrue, N!At, B!N!At, N!Subnets, B!N!Subnets,
       N!InUse, B!N!InUse, N!Active, B!N!Active
  <2>2. UNCHANGED B!N!vars => N!RoomKeepsNetwork /\ N!RefusalIsTrue
    BY DEF B!N!vars, B!N!memory, N!RoomKeepsNetwork, N!RefusalIsTrue
  <2> QED
    BY <2>1, <2>2
<1>8. [B!ForeignUntouched /\ B!LeavesFirst]_(B!vars) => [part = "containers" => B!ForeignUntouched /\ B!LeavesFirst]_allVars
  <2>1. box' = box /\ nets' = nets => B!ForeignUntouched
    BY DEF B!ForeignUntouched
  <2>2. UNCHANGED box => B!LeavesFirst
    BY DEF B!LeavesFirst, B!Running, B!Ours
  <2> QED
    BY <2>1, <2>2 DEF B!vars
<1>9. /\ [part = "containers" => B!ForeignUntouched /\ B!LeavesFirst]_allVars
      /\ [part = "networks" => N!RoomKeepsNetwork /\ N!RefusalIsTrue]_allVars
      => [/\ part = "containers" => B!ForeignUntouched /\ B!LeavesFirst
          /\ part = "networks" => N!RoomKeepsNetwork /\ N!RefusalIsTrue]_allVars
  OBVIOUS
<1> QED
  BY <1>2, <1>3, <1>4, <1>5, <1>6, <1>7, <1>8, <1>9, PTL DEF ContainersHold
=============================================================================
