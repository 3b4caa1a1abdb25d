--------------------------- MODULE RoomChangesProofs ---------------------------
(***************************************************************************)
(* Proofs about the changes of a Room (RoomChanges): what its row names is *)
(* whole, no write is lost, the data of its service is covered, it runs    *)
(* what its row names, and installs and snapshots are earned.              *)
(*                                                                         *)
(* The lists of steps are all consistent with one order (Rank), and the    *)
(* steps that are left of a list are those from the next one on (Shape):   *)
(* a step that is not left was done.  So the facts that a step establishes *)
(* are stated as what holds once it is not left any more.                  *)
(***************************************************************************)
EXTENDS RoomChanges, TLAPS

\* A Room whose dependencies are both installed and cleanly installed may be
\* pointed at a layer that the undo of an install removed; that takes two changes
\* and the undo of both.
ChangesApart == {"install", "clean"} \subseteq Kinds => MaxEntries <= 2

----------------------------------------------------------------------------
(* The inductive invariant.                                                 *)

Rank == [reserve |-> 1, dump |-> 1, unlist |-> 1, listOld |-> 1, fingerprint |-> 1, set |-> 1, setBack |-> 1,
         pointBack |-> 1, load |-> 1, rename |-> 1, renameBack |-> 1, refuse |-> 1,
         pause |-> 2, listNew |-> 2, switchBack |-> 2,
         copy |-> 3, snapshot |-> 3, drop |-> 3, publishBack |-> 3,
         resume |-> 4, create |-> 4, delist |-> 4, forget |-> 4, discard |-> 4,
         recheck |-> 5, rewrite |-> 5, build |-> 5, reserveLayer |-> 5, restore |-> 5,
         layer |-> 6, unsnapshot |-> 6,
         hold |-> 7, point |-> 7, boot |-> 7, revoke |-> 7,
         compare |-> 8, recreate |-> 8, install |-> 8,
         switch |-> 9, launch |-> 9, publish |-> 10]

Names == DOMAIN Rank
Statuses == {"pending", "applied", "verified", "failed", "unrevoked", "rolled-back", "undone"}
Entries == [kind : Kinds \cup {"undo"}, status : Statuses, cap : Captures]
Modes == {"idle", "apply", "catch", "unrevoked", "verify", "rollback", "undo"}

Elems(q) == {q[i] : i \in DOMAIN q}
Left == Elems(job.todo)
C(i) == journal[i].cap
OnStaging(k) == k \in {"install", "normalize"}

RowType == [gen : Gens, deps : Gens, rev : Nat, service : {"old", "new", "none"}, domain : {"old", "new"},
            config : {"old", "new"}]
SpentType == [gen : Gens, deps : Gens]
TreeType == [Gens -> [state : {"none", "partial", "whole"}, edits : SUBSET Edits]]
LayerType == [Gens -> {"none", "partial", "whole"}]
WebType == [mode : {"running", "paused", "down"}, gen : Gens, config : {"old", "new"}]
JobType == [mode : Modes, entry : Nat, todo : Seq(Names)]

Typed ==
    /\ row \in RowType /\ spent \in SpentType /\ trees \in TreeType /\ layers \in LayerType
    /\ web \in WebType /\ data \in {"none", "empty", "half", "whole"}
    /\ journal \in Seq(Entries) /\ Len(journal) <= MaxEntries
    /\ snapshots \subseteq DOMAIN journal /\ receipts \subseteq DOMAIN journal
    /\ job \in JobType
    /\ job.mode = "idle" => job = Idle
    /\ job.mode # "idle" => job.entry \in DOMAIN journal
    /\ seen \subseteq Edits /\ crashes \in 0 .. MaxCrashes

\* The steps of a change, in a Room that sleeps or not.
Web == {"pause", "resume", "recheck", "hold", "switch", "recreate"}
Whole(k) ==
    CASE k = "install" -> {"reserve", "pause", "copy", "resume", "recheck", "layer", "hold", "compare", "switch", "publish"}
      [] k = "normalize" -> {"reserve", "pause", "copy", "resume", "rewrite", "hold", "compare", "switch", "publish"}
      [] k \in {"clean", "renew"} -> {"reserveLayer", "layer", "point", "recreate"}
      [] k = "reset" -> {"drop", "create", "reserveLayer", "layer", "point", "recreate"}
      [] k = "wipe" -> {"drop", "delist", "recreate"}
      [] k = "config" -> {"set", "recreate"}
      [] k = "remove" -> {"unlist", "drop"}
      [] k = "version" -> {"dump", "listNew", "drop", "create", "restore"}
      [] k = "load" -> {"load"}
      [] k = "domain" -> {"rename"}
      [] k = "run" -> {"pause", "snapshot", "resume", "build", "unsnapshot", "boot", "install", "launch"}
Plan(k) == {s \in Whole(k) : Awake \/ s \notin Web}

\* The lists of an undo.
Back(k) ==
    CASE k \in {"install", "normalize"} ->
              {{"refuse"}, {"switchBack", "discard"}, {"fingerprint", "switchBack", "publishBack", "forget"}}
      [] k = "clean" -> {{s \in {"pointBack", "recreate"} : Awake \/ s \notin Web}}
      [] k = "config" -> {{s \in {"setBack", "recreate"} : Awake \/ s \notin Web}}
      [] k = "remove" -> {{"refuse"}, {"listOld", "create", "restore"}}
      [] k = "version" -> {{"listOld"}, {"listOld", "drop", "create", "restore"}}
      [] k = "load" -> {{"refuse"}, {"restore"}}
      [] k = "domain" -> {{"renameBack"}}
      [] k \in {"run", "reset", "wipe", "renew"} -> {{"refuse"}}

Suffix(p) == Left \subseteq p /\ \A s \in Left, t \in p : Rank[s] <= Rank[t] => t \in Left
Ordered(q) == \A i, j \in DOMAIN q : i < j => Rank[q[i]] < Rank[q[j]]

Shape ==
    /\ Ordered(job.todo)
    /\ job.mode \in {"idle", "verify", "unrevoked"} => Left = {}
    /\ job.mode = "apply" => Suffix(Plan(Kind))
    /\ job.mode = "catch" => Left \subseteq IF Kind = "run" THEN {"resume", "unsnapshot", "revoke"} ELSE {"resume"}
    /\ job.mode \in {"rollback", "undo"} => \E p \in Back(Kind) : Suffix(p)

\* The engine works on an entry whose status says so.
Working ==
    /\ job.mode # "idle" => Kind \in Kinds
    /\ job.mode \in {"apply", "catch", "unrevoked"} => journal[job.entry].status = "pending"
    /\ job.mode = "unrevoked" => Kind = "run"
    /\ job.mode = "verify" => journal[job.entry].status = "applied"
    /\ job.mode = "undo" => journal[job.entry].status \in {"applied", "verified"} /\ Len(journal) < MaxEntries
    /\ job.mode = "rollback" => \/ journal[job.entry].status = "failed"
                                \/ journal[job.entry].status = "applied" /\ Kind = "domain"
    /\ job.mode \in {"rollback", "undo"} => Undoable(Kind)

\* Numbers are reserved once, above all that are in use.
Numbered ==
    /\ row.gen <= spent.gen /\ row.deps <= spent.deps
    /\ spent.gen <= Len(journal) /\ spent.deps <= Len(journal)
    /\ "reserve" \in Left => spent.gen < Len(journal) /\ spent.deps < Len(journal)
    /\ "reserveLayer" \in Left => spent.deps < Len(journal)
    /\ \A i \in DOMAIN journal :
          /\ C(i).gen <= spent.gen /\ C(i).deps <= spent.deps
          /\ C(i).next # NoEntry => C(i).gen < C(i).next /\ C(i).next <= spent.gen
          /\ C(i).layer # NoEntry => C(i).deps < C(i).layer /\ C(i).layer <= spent.deps

Distinct ==
    \A i, j \in DOMAIN journal : i # j =>
       /\ C(i).next # NoEntry => C(i).next # C(j).next
       /\ C(i).layer # NoEntry => C(i).layer # C(j).layer

\* What an entry may have captured.
Captured1 ==
    \A i \in DOMAIN journal :
       /\ ~OnStaging(journal[i].kind) => C(i).next = NoEntry
       /\ journal[i].kind = "install" => (C(i).next = NoEntry <=> C(i).layer = NoEntry)
       /\ journal[i].kind = "normalize" => C(i).layer = NoEntry
       /\ C(i).switched => C(i).next # NoEntry

\* Until it is published the row is as it was captured, and so it is when the
\* change is rolled back.
AtBase ==
    /\ job.mode = "apply" /\ OnStaging(Kind) /\ "publish" \in Left => row.gen = Cap.gen /\ row.deps = Cap.deps
    /\ job.mode \in {"catch", "rollback"} /\ OnStaging(Kind) => row.gen = Cap.gen /\ row.deps = Cap.deps

\* What a step of a change did, once it is not left.  A number is reserved
\* before it is used.
Reserved ==
    /\ job.mode = "apply" =>
          /\ OnStaging(Kind) /\ "reserve" \notin Left => Cap.next # NoEntry
          /\ Kind \in {"clean", "reset", "renew"} /\ "reserveLayer" \notin Left => Cap.layer # NoEntry
    /\ job.mode \in {"rollback", "undo"} /\ Left \cap {"publishBack", "forget", "discard"} # {} => Cap.next # NoEntry

Newest ==
    job.mode = "apply" /\ "layer" \in Left /\ Cap.layer # NoEntry =>
       row.deps < Cap.layer /\ \A i \in DOMAIN journal : C(i).deps < Cap.layer

Copied ==
    job.mode = "apply" /\ OnStaging(Kind) =>
       /\ "copy" \notin Left => /\ trees[Cap.next].state = "whole"
                                /\ Cap.src \subseteq trees[Cap.next].edits /\ Cap.out = Cap.src
       /\ "hold" \notin Left => web.mode # "running" \/ web.gen = Cap.next
       /\ "compare" \notin Left /\ "publish" \in Left => trees[Cap.gen].edits = Cap.src

Layered ==
    job.mode = "apply" /\ Kind \in {"install", "clean", "reset", "renew"} /\ "layer" \notin Left =>
       Cap.layer # NoEntry /\ layers[Cap.layer] = "whole"

Switched ==
    job.mode = "apply" /\ OnStaging(Kind) /\ "switch" \notin Left =>
       web.mode = "down" \/ (web.gen = Cap.next /\ Cap.switched)

\* On which side of a staged change its undo is.
UndoSide ==
    job.mode \in {"rollback", "undo"} /\ OnStaging(Kind) =>
       /\ "publishBack" \in Left => Staged(Kind, Cap) /\ row.rev = Cap.rev + 1
       /\ "discard" \in Left \/ ("forget" \in Left /\ "publishBack" \notin Left) => Untouched(Kind, Cap)

GoesBack ==
    job.mode = "undo" /\ OnStaging(Kind) /\ "publishBack" \in Left /\ "switchBack" \notin Left =>
       web.mode = "down" \/ web.gen = Cap.gen

\* What is to be discarded by an undo has nothing that was written to it later.
Fingerprinted ==
    job.mode = "undo" /\ OnStaging(Kind) /\ "publishBack" \in Left /\ "fingerprint" \notin Left =>
       trees[Cap.next].edits = Cap.out

\* A published change that is still the latest replaced a generation that is
\* whole and has all that the change was made from.
IsLatest(i) == row.gen = C(i).next /\ row.rev = C(i).rev + 1

ParentTrees ==
    \A i \in DOMAIN journal : IsLatest(i) =>
       trees[C(i).gen].state = "whole" /\ C(i).out \subseteq trees[C(i).gen].edits

ParentLayers ==
    \A i \in DOMAIN journal : IsLatest(i) /\ journal[i].kind = "install" /\ row.deps = C(i).layer =>
       layers[C(i).deps] = "whole"

\* The revision tells the changes apart that the row's generation went through.
Dated ==
    /\ \A i \in DOMAIN journal : C(i).next # NoEntry /\ row.gen = C(i).next => C(i).rev < row.rev
    /\ \A i, j \in DOMAIN journal : C(i).next # NoEntry /\ C(j).gen = C(i).next => C(i).rev < C(j).rev

\* Without installs a dependency volume is never removed.
LayersStay ==
    "install" \notin Kinds => layers[0] = "whole" /\ \A i \in DOMAIN journal : layers[C(i).deps] = "whole"

\* The layer that a clean install came from is there while it may be rolled back,
\* and the one before all changes is always there.
Forward == job.mode \in {"apply", "catch", "rollback"} /\ Kind = "clean"

Firsts ==
    /\ layers[0] = "whole"
    /\ \A i \in DOMAIN journal : i = 1 => C(i).deps = 0
    /\ Forward => layers[Cap.deps] = "whole"

TreeIsWhole == trees[row.gen].state = "whole"
LayerIsWhole == layers[row.deps] = "whole"

Others == \E i \in DOMAIN journal : i # job.entry /\ journal[i].status \in {"pending", "failed"}

RunsItsRow ==
    \/ web.mode = "down" \/ web.gen = row.gen \/ Others
    \/ /\ job.mode = "apply" /\ OnStaging(Kind) /\ "switch" \notin Left /\ "publish" \in Left
    \/ /\ job.mode = "catch" /\ OnStaging(Kind) /\ Cap.switched
    \/ /\ job.mode = "rollback" /\ OnStaging(Kind) /\ "switchBack" \in Left
    \/ /\ job.mode = "undo" /\ OnStaging(Kind) /\ "switchBack" \notin Left /\ "publishBack" \in Left

HasItsSettings ==
    \/ web.mode = "down" \/ web.config = row.config \/ HalfUndone \/ Others
    \/ job.mode = "apply" /\ Kind = "config" /\ "recreate" \in Left
    \/ job.mode = "catch" /\ Kind = "config"
    \/ job.mode = "rollback" /\ Kind = "config" /\ "recreate" \in Left

Recreated ==
    job.mode \in {"undo", "rollback", "apply"} /\ Kind = "config" /\ "recreate" \notin Left =>
       web.mode = "down" \/ web.config = row.config

Dumped(i) == C(i).dump # "no"
Covered == \E i \in DOMAIN journal : C(i).dump = "whole"

Dumps ==
    /\ Covered \/ (data = "whole" /\ \A i \in DOMAIN journal : C(i).dump = "no")
    /\ \A i \in DOMAIN journal : DumpsFirst(journal[i].kind) => Dumped(i)
    /\ \A i \in DOMAIN journal :
          journal[i].kind = "version" /\ journal[i].status \in {"applied", "verified"} => Dumped(i)
    /\ job.mode = "apply" /\ Kind = "version" => ("dump" \in Left <=> Cap.dump = "no")
    /\ job.mode \in {"rollback", "undo"} /\ Kind = "version" => Cap.dump # "no"

Earned ==
    /\ ReceiptsAreEarned
    /\ \A e \in receipts \cup snapshots : journal[e].kind = "run"
    /\ job.mode = "apply" /\ job.entry \in snapshots => "unsnapshot" \in Left
    /\ job.mode = "catch" /\ job.entry \in receipts => "revoke" \in Left
    /\ job.mode = "verify" => job.entry \notin snapshots

Basic == Typed /\ Shape /\ Working /\ Numbered /\ Distinct /\ Captured1 /\ Reserved
Bases == AtBase /\ Newest /\ Copied /\ Layered /\ Switched /\ UndoSide /\ GoesBack
Trees == ParentTrees /\ Dated /\ TreeIsWhole
Layers == LayersStay /\ ParentLayers /\ LayerIsWhole
Runs == RunsItsRow /\ HasItsSettings /\ Recreated

IInv ==
    /\ Basic /\ Dumps /\ Earned /\ Bases /\ Trees /\ Runs
    /\ ChangesApart => Layers /\ Firsts
    /\ ~EditsInUndo => Fingerprinted /\ NoEditLost

----------------------------------------------------------------------------
(* The lists.                                                               *)

LEMMA NamesAre ==
    Names = {"reserve", "dump", "unlist", "listOld", "fingerprint", "set", "setBack", "pointBack", "load",
             "rename", "renameBack", "refuse", "pause", "listNew", "switchBack", "copy", "snapshot", "drop",
             "publishBack", "resume", "create", "delist", "forget", "discard", "recheck", "rewrite", "build",
             "reserveLayer", "restore", "layer", "unsnapshot", "hold", "point", "boot", "revoke",
             "compare", "recreate", "install", "switch", "launch", "publish"}
BY DEF Names, Rank

LEMMA RankTyped == Rank \in [Names -> Nat]
BY DEF Names, Rank

LEMMA KindsAre ==
    ASSUME RoomChangesAssumption, NEW k \in Kinds
    PROVE  k \in {"install", "normalize", "clean", "reset", "wipe", "renew", "remove", "version", "load", "config",
                  "domain", "run"}
BY DEF RoomChangesAssumption

\* What is left after the first step of an ordered list comes later.
LEMMA TailIs ==
    ASSUME NEW q \in Seq(Names), q # <<>>, Ordered(q)
    PROVE  /\ Head(q) \in Names /\ Head(q) \in Elems(q)
           /\ Tail(q) \in Seq(Names) /\ Ordered(Tail(q))
           /\ Elems(Tail(q)) = Elems(q) \ {Head(q)}
           /\ \A s \in Elems(Tail(q)) : Rank[Head(q)] < Rank[s]
<1>1. /\ Len(q) \in Nat /\ Len(q) > 0 /\ DOMAIN q = 1 .. Len(q) /\ Head(q) = q[1] /\ q[1] \in Names
      /\ Tail(q) \in Seq(Names) /\ Len(Tail(q)) = Len(q) - 1
  OBVIOUS
<1>2. DOMAIN Tail(q) = 1 .. Len(q) - 1 /\ \A i \in 1 .. Len(q) - 1 : Tail(q)[i] = q[i + 1]
  BY <1>1
<1>3. \A i \in DOMAIN q : i = 1 \/ (i - 1 \in 1 .. Len(q) - 1 /\ q[i] = Tail(q)[i - 1])
  BY <1>1, <1>2
<1>4. \A i \in 1 .. Len(q) - 1 : i + 1 \in DOMAIN q /\ Rank[q[1]] < Rank[q[i + 1]]
  BY <1>1 DEF Ordered
<1>5. \A i \in DOMAIN q : q[i] \in Names /\ Rank[q[i]] \in Nat
  BY <1>1, RankTyped
<1>6. Ordered(Tail(q))
  <2>1. ASSUME NEW i \in DOMAIN Tail(q), NEW j \in DOMAIN Tail(q), i < j
        PROVE  Rank[Tail(q)[i]] < Rank[Tail(q)[j]]
    <3>1. i + 1 \in DOMAIN q /\ j + 1 \in DOMAIN q /\ i + 1 < j + 1
      BY <1>1, <1>2, <2>1
    <3> QED
      BY <1>2, <2>1, <3>1 DEF Ordered
  <2> QED
    BY <2>1 DEF Ordered
<1>7. \A s \in Elems(Tail(q)) : s \in Elems(q) /\ Rank[Head(q)] < Rank[s]
  BY <1>1, <1>2, <1>4 DEF Elems
<1>8. Elems(Tail(q)) \subseteq Elems(q) \ {Head(q)}
  <2>1. \A s \in Elems(Tail(q)) : s # Head(q)
    BY <1>1, <1>5, <1>7 DEF Elems
  <2> QED
    BY <1>7, <2>1
<1>9. Elems(q) \ {Head(q)} \subseteq Elems(Tail(q))
  BY <1>1, <1>2, <1>3 DEF Elems
<1>10. Head(q) \in Elems(q)
  BY <1>1 DEF Elems
<1> QED
  BY <1>1, <1>6, <1>7, <1>8, <1>9, <1>10

IsList(q, p) == q \in Seq(Names) /\ Ordered(q) /\ Elems(q) = p

LEMMA EmptyList ==
    ASSUME NEW q \in Seq(Names), Elems(q) = {}
    PROVE  q = <<>>
<1>1. \A i \in 1..Len(q) : q[i] \in Elems(q)
  BY DEF Elems
<1>2. Len(q) \in Nat /\ ~(1 \in 1..Len(q))
  BY <1>1
<1> QED
  BY <1>2

LEMMA NoSteps == IsList(<<>>, {})
BY DEF IsList, Ordered, Elems

\* The lists of the changes are ordered.
LEMMA ShortLists ==
    /\ IsList(<<"load">>, {"load"})
    /\ IsList(<<"rename">>, {"rename"})
    /\ IsList(<<"renameBack">>, {"renameBack"})
    /\ IsList(<<"refuse">>, {"refuse"})
    /\ IsList(<<"resume">>, {"resume"})
    /\ IsList(<<"revoke">>, {"revoke"})
    /\ IsList(<<"restore">>, {"restore"})
    /\ IsList(<<"listOld">>, {"listOld"})
    /\ IsList(<<"discard">>, {"discard"})
    /\ IsList(<<"set">>, {"set"})
    /\ IsList(<<"setBack">>, {"setBack"})
    /\ IsList(<<"pointBack">>, {"pointBack"})
    /\ IsList(<<"set", "recreate">>, {"set", "recreate"})
    /\ IsList(<<"setBack", "recreate">>, {"setBack", "recreate"})
    /\ IsList(<<"pointBack", "recreate">>, {"pointBack", "recreate"})
    /\ IsList(<<"unlist", "drop">>, {"unlist", "drop"})
    /\ IsList(<<"switchBack", "discard">>, {"switchBack", "discard"})
    /\ IsList(<<"resume", "unsnapshot", "revoke">>, {"resume", "unsnapshot", "revoke"})
    /\ IsList(<<"listOld", "create", "restore">>, {"listOld", "create", "restore"})
    /\ IsList(<<"reserveLayer", "layer", "point">>, {"reserveLayer", "layer", "point"})
    /\ IsList(<<"listOld", "drop", "create", "restore">>, {"listOld", "drop", "create", "restore"})
    /\ IsList(<<"fingerprint", "switchBack", "publishBack", "forget">>, {"fingerprint", "switchBack", "publishBack", "forget"})
    /\ IsList(<<"reserveLayer", "layer", "point", "recreate">>, {"reserveLayer", "layer", "point", "recreate"})
<1>1. /\ IsList(<<"load">>, {"load"})
      /\ IsList(<<"rename">>, {"rename"})
      /\ IsList(<<"renameBack">>, {"renameBack"})
      /\ IsList(<<"refuse">>, {"refuse"})
      /\ IsList(<<"resume">>, {"resume"})
      /\ IsList(<<"revoke">>, {"revoke"})
  BY NamesAre DEF IsList, Ordered, Elems, Rank
<1>2. /\ IsList(<<"restore">>, {"restore"})
      /\ IsList(<<"listOld">>, {"listOld"})
      /\ IsList(<<"discard">>, {"discard"})
      /\ IsList(<<"set">>, {"set"})
      /\ IsList(<<"setBack">>, {"setBack"})
      /\ IsList(<<"pointBack">>, {"pointBack"})
  BY NamesAre DEF IsList, Ordered, Elems, Rank
<1>3. /\ IsList(<<"set", "recreate">>, {"set", "recreate"})
      /\ IsList(<<"setBack", "recreate">>, {"setBack", "recreate"})
      /\ IsList(<<"pointBack", "recreate">>, {"pointBack", "recreate"})
      /\ IsList(<<"unlist", "drop">>, {"unlist", "drop"})
      /\ IsList(<<"switchBack", "discard">>, {"switchBack", "discard"})
      /\ IsList(<<"resume", "unsnapshot", "revoke">>, {"resume", "unsnapshot", "revoke"})
  BY NamesAre DEF IsList, Ordered, Elems, Rank
<1>4. /\ IsList(<<"listOld", "create", "restore">>, {"listOld", "create", "restore"})
      /\ IsList(<<"reserveLayer", "layer", "point">>, {"reserveLayer", "layer", "point"})
      /\ IsList(<<"listOld", "drop", "create", "restore">>, {"listOld", "drop", "create", "restore"})
      /\ IsList(<<"fingerprint", "switchBack", "publishBack", "forget">>, {"fingerprint", "switchBack", "publishBack", "forget"})
      /\ IsList(<<"reserveLayer", "layer", "point", "recreate">>, {"reserveLayer", "layer", "point", "recreate"})
  BY NamesAre DEF IsList, Ordered, Elems, Rank
<1> QED
  BY <1>1, <1>2, <1>3, <1>4

LEMMA LongLists ==
    /\ IsList(<<"dump", "listNew", "drop", "create", "restore">>, {"dump", "listNew", "drop", "create", "restore"})
    /\ IsList(<<"reserve", "copy", "layer", "compare", "publish">>, {"reserve", "copy", "layer", "compare", "publish"})
    /\ IsList(<<"reserve", "copy", "rewrite", "compare", "publish">>, {"reserve", "copy", "rewrite", "compare", "publish"})
    /\ IsList(<<"drop", "delist">>, {"drop", "delist"})
    /\ IsList(<<"drop", "delist", "recreate">>, {"drop", "delist", "recreate"})
    /\ IsList(<<"drop", "create", "reserveLayer", "layer", "point">>, {"drop", "create", "reserveLayer", "layer", "point"})
    /\ IsList(<<"drop", "create", "reserveLayer", "layer", "point", "recreate">>, {"drop", "create", "reserveLayer", "layer", "point", "recreate"})
    /\ IsList(<<"pause", "snapshot", "resume", "build", "unsnapshot", "boot", "install", "launch">>, {"pause", "snapshot", "resume", "build", "unsnapshot", "boot", "install", "launch"})
    /\ IsList(<<"reserve", "pause", "copy", "resume", "rewrite", "hold", "compare", "switch", "publish">>, {"reserve", "pause", "copy", "resume", "rewrite", "hold", "compare", "switch", "publish"})
    /\ IsList(<<"reserve", "pause", "copy", "resume", "recheck", "layer", "hold", "compare", "switch", "publish">>, {"reserve", "pause", "copy", "resume", "recheck", "layer", "hold", "compare", "switch", "publish"})
<1>1. /\ IsList(<<"dump", "listNew", "drop", "create", "restore">>, {"dump", "listNew", "drop", "create", "restore"})
      /\ IsList(<<"reserve", "copy", "layer", "compare", "publish">>, {"reserve", "copy", "layer", "compare", "publish"})
      /\ IsList(<<"reserve", "copy", "rewrite", "compare", "publish">>, {"reserve", "copy", "rewrite", "compare", "publish"})
  BY NamesAre DEF IsList, Ordered, Elems, Rank
<1>2. /\ IsList(<<"drop", "create", "reserveLayer", "layer", "point">>, {"drop", "create", "reserveLayer", "layer", "point"})
      /\ IsList(<<"drop", "create", "reserveLayer", "layer", "point", "recreate">>, {"drop", "create", "reserveLayer", "layer", "point", "recreate"})
      /\ IsList(<<"pause", "snapshot", "resume", "build", "unsnapshot", "boot", "install", "launch">>, {"pause", "snapshot", "resume", "build", "unsnapshot", "boot", "install", "launch"})
  BY NamesAre DEF IsList, Ordered, Elems, Rank
<1>4. /\ IsList(<<"drop", "delist">>, {"drop", "delist"})
      /\ IsList(<<"drop", "delist", "recreate">>, {"drop", "delist", "recreate"})
  BY NamesAre DEF IsList, Ordered, Elems, Rank
<1>3. /\ IsList(<<"reserve", "pause", "copy", "resume", "rewrite", "hold", "compare", "switch", "publish">>, {"reserve", "pause", "copy", "resume", "rewrite", "hold", "compare", "switch", "publish"})
      /\ IsList(<<"reserve", "pause", "copy", "resume", "recheck", "layer", "hold", "compare", "switch", "publish">>, {"reserve", "pause", "copy", "resume", "recheck", "layer", "hold", "compare", "switch", "publish"})
  BY NamesAre DEF IsList, Ordered, Elems, Rank
<1> QED
  BY <1>1, <1>2, <1>3, <1>4

LEMMA ApplyList ==
    ASSUME RoomChangesAssumption, NEW k \in Kinds, k = "run" => Awake
    PROVE  IsList(ApplySteps(k), Plan(k))
<1>1. CASE k = "install" /\ Awake
  <2>1. ApplySteps(k) = <<"reserve", "pause", "copy", "resume", "recheck", "layer", "hold", "compare", "switch", "publish">>
    BY <1>1 DEF ApplySteps, InstallSteps
  <2>2. Plan(k) = {"reserve", "pause", "copy", "resume", "recheck", "layer", "hold", "compare", "switch", "publish"}
    BY <1>1 DEF Plan, Whole, Web
  <2> QED
    BY <2>1, <2>2, LongLists
<1>2. CASE k = "install" /\ ~Awake
  <2>1. ApplySteps(k) = <<"reserve", "copy", "layer", "compare", "publish">>
    BY <1>2 DEF ApplySteps, InstallSteps
  <2>2. Plan(k) = {"reserve", "copy", "layer", "compare", "publish"}
    BY <1>2 DEF Plan, Whole, Web
  <2> QED
    BY <2>1, <2>2, LongLists
<1>3. CASE k = "normalize" /\ Awake
  <2>1. ApplySteps(k) = <<"reserve", "pause", "copy", "resume", "rewrite", "hold", "compare", "switch", "publish">>
    BY <1>3 DEF ApplySteps, NormalizeSteps
  <2>2. Plan(k) = {"reserve", "pause", "copy", "resume", "rewrite", "hold", "compare", "switch", "publish"}
    BY <1>3 DEF Plan, Whole, Web
  <2> QED
    BY <2>1, <2>2, LongLists
<1>4. CASE k = "normalize" /\ ~Awake
  <2>1. ApplySteps(k) = <<"reserve", "copy", "rewrite", "compare", "publish">>
    BY <1>4 DEF ApplySteps, NormalizeSteps
  <2>2. Plan(k) = {"reserve", "copy", "rewrite", "compare", "publish"}
    BY <1>4 DEF Plan, Whole, Web
  <2> QED
    BY <2>1, <2>2, LongLists
<1>5. CASE k \in {"clean", "renew"} /\ Awake
  <2>1. ApplySteps(k) = <<"reserveLayer", "layer", "point", "recreate">>
    BY <1>5 DEF ApplySteps, CleanSteps, RenewSteps
  <2>2. Plan(k) = {"reserveLayer", "layer", "point", "recreate"}
    BY <1>5 DEF Plan, Whole, Web
  <2> QED
    BY <2>1, <2>2, ShortLists
<1>6. CASE k \in {"clean", "renew"} /\ ~Awake
  <2>1. ApplySteps(k) = <<"reserveLayer", "layer", "point">>
    BY <1>6 DEF ApplySteps, CleanSteps, RenewSteps
  <2>2. Plan(k) = {"reserveLayer", "layer", "point"}
    BY <1>6 DEF Plan, Whole, Web
  <2> QED
    BY <2>1, <2>2, ShortLists
<1>7. CASE k = "reset" /\ Awake
  <2>1. ApplySteps(k) = <<"drop", "create", "reserveLayer", "layer", "point", "recreate">>
    BY <1>7 DEF ApplySteps, ResetSteps
  <2>2. Plan(k) = {"drop", "create", "reserveLayer", "layer", "point", "recreate"}
    BY <1>7 DEF Plan, Whole, Web
  <2> QED
    BY <2>1, <2>2, LongLists
<1>8. CASE k = "reset" /\ ~Awake
  <2>1. ApplySteps(k) = <<"drop", "create", "reserveLayer", "layer", "point">>
    BY <1>8 DEF ApplySteps, ResetSteps
  <2>2. Plan(k) = {"drop", "create", "reserveLayer", "layer", "point"}
    BY <1>8 DEF Plan, Whole, Web
  <2> QED
    BY <2>1, <2>2, LongLists
<1>9. CASE k = "config" /\ Awake
  <2>1. ApplySteps(k) = <<"set", "recreate">>
    BY <1>9 DEF ApplySteps, ConfigSteps
  <2>2. Plan(k) = {"set", "recreate"}
    BY <1>9 DEF Plan, Whole, Web
  <2> QED
    BY <2>1, <2>2, ShortLists
<1>10. CASE k = "config" /\ ~Awake
  <2>1. ApplySteps(k) = <<"set">>
    BY <1>10 DEF ApplySteps, ConfigSteps
  <2>2. Plan(k) = {"set"}
    BY <1>10 DEF Plan, Whole, Web
  <2> QED
    BY <2>1, <2>2, ShortLists
<1>11. CASE k = "remove"
  <2>1. ApplySteps(k) = <<"unlist", "drop">>
    BY <1>11 DEF ApplySteps, RemoveSteps
  <2>2. Plan(k) = {"unlist", "drop"}
    BY <1>11 DEF Plan, Whole, Web
  <2> QED
    BY <2>1, <2>2, ShortLists
<1>12. CASE k = "version"
  <2>1. ApplySteps(k) = <<"dump", "listNew", "drop", "create", "restore">>
    BY <1>12 DEF ApplySteps, VersionSteps
  <2>2. Plan(k) = {"dump", "listNew", "drop", "create", "restore"}
    BY <1>12 DEF Plan, Whole, Web
  <2> QED
    BY <2>1, <2>2, LongLists
<1>13. CASE k = "load"
  <2>1. ApplySteps(k) = <<"load">>
    BY <1>13 DEF ApplySteps, LoadSteps
  <2>2. Plan(k) = {"load"}
    BY <1>13 DEF Plan, Whole, Web
  <2> QED
    BY <2>1, <2>2, ShortLists
<1>14. CASE k = "domain"
  <2>1. ApplySteps(k) = <<"rename">>
    BY <1>14 DEF ApplySteps, DomainSteps
  <2>2. Plan(k) = {"rename"}
    BY <1>14 DEF Plan, Whole, Web
  <2> QED
    BY <2>1, <2>2, ShortLists
<1>15. CASE k = "run"
  <2>1. ApplySteps(k) = <<"pause", "snapshot", "resume", "build", "unsnapshot", "boot", "install", "launch">>
    BY <1>15 DEF ApplySteps, RunSteps
  <2>2. Plan(k) = {"pause", "snapshot", "resume", "build", "unsnapshot", "boot", "install", "launch"}
    BY <1>15 DEF Plan, Whole, Web
  <2> QED
    BY <2>1, <2>2, LongLists
<1>16. CASE k = "wipe" /\ Awake
  <2>1. ApplySteps(k) = <<"drop", "delist", "recreate">>
    BY <1>16 DEF ApplySteps, WipeSteps
  <2>2. Plan(k) = {"drop", "delist", "recreate"}
    BY <1>16 DEF Plan, Whole, Web
  <2> QED
    BY <2>1, <2>2, LongLists
<1>17. CASE k = "wipe" /\ ~Awake
  <2>1. ApplySteps(k) = <<"drop", "delist">>
    BY <1>17 DEF ApplySteps, WipeSteps
  <2>2. Plan(k) = {"drop", "delist"}
    BY <1>17 DEF Plan, Whole, Web
  <2> QED
    BY <2>1, <2>2, LongLists
<1> QED
  BY <1>1, <1>2, <1>3, <1>4, <1>5, <1>6, <1>7, <1>8, <1>9, <1>10, <1>11, <1>12, <1>13, <1>14, <1>15, <1>16, <1>17, KindsAre

LEMMA CatchList ==
    ASSUME NEW k, NEW s
    PROVE  /\ IsList(CatchSteps(k, s), Elems(CatchSteps(k, s)))
           /\ Elems(CatchSteps(k, s)) \subseteq IF k = "run" THEN {"resume", "unsnapshot", "revoke"} ELSE {"resume"}
           /\ k = "run" => "revoke" \in Elems(CatchSteps(k, s))
           /\ s \in {"copy", "hold", "compare"} \/ k = "run" \/ CatchSteps(k, s) = <<>>
<1>1. CASE k = "run" /\ s \in {"boot", "install", "launch", "unsnapshot"}
  <2>1. CatchSteps(k, s) = <<"revoke">>
    BY <1>1 DEF CatchSteps
  <2>2. IsList(<<"revoke">>, {"revoke"})
    BY ShortLists
  <2> QED
    BY <1>1, <2>1, <2>2 DEF IsList
<1>2. CASE k = "run" /\ s \notin {"boot", "install", "launch", "unsnapshot"}
  <2>1. CatchSteps(k, s) = <<"resume", "unsnapshot", "revoke">>
    BY <1>2 DEF CatchSteps
  <2>2. IsList(<<"resume", "unsnapshot", "revoke">>, {"resume", "unsnapshot", "revoke"})
    BY ShortLists
  <2> QED
    BY <1>2, <2>1, <2>2 DEF IsList
<1>3. CASE k # "run" /\ s \in {"copy", "hold", "compare"}
  <2>1. CatchSteps(k, s) = <<"resume">>
    BY <1>3 DEF CatchSteps
  <2> QED
    BY <1>3, <2>1, ShortLists, NoSteps DEF IsList
<1>4. CASE k # "run" /\ s \notin {"copy", "hold", "compare"}
  <2>1. CatchSteps(k, s) = <<>>
    BY <1>4 DEF CatchSteps
  <2> QED
    BY <1>4, <2>1, ShortLists, NoSteps DEF IsList
<1> QED
  BY <1>1, <1>2, <1>3, <1>4

\* What an undo begins with.
BackFor(k, c, p) ==
    /\ k \in {"install", "normalize"} =>
          \/ p = {} /\ c.next = NoEntry
          \/ p = {"refuse"} /\ c.next # NoEntry /\ (Staged(k, c) \/ ~Untouched(k, c))
          \/ /\ p = {"fingerprint", "switchBack", "publishBack", "forget"}
             /\ c.next # NoEntry /\ Staged(k, c) /\ ~LaterWork(c)
          \/ p = {"switchBack", "discard"} /\ c.next # NoEntry /\ Untouched(k, c) /\ ~Staged(k, c)
          \/ p = {"discard"} /\ c.next # NoEntry /\ Untouched(k, c) /\ ~Staged(k, c) /\ ~c.switched
    /\ k \notin {"install", "normalize"} => p \in Back(k)

LEMMA BackList ==
    ASSUME RoomChangesAssumption, NEW k \in Kinds, Undoable(k), NEW c
    PROVE  /\ IsList(UndoSteps(k, c), Elems(UndoSteps(k, c)))
           /\ BackFor(k, c, Elems(UndoSteps(k, c)))
<1>1. CASE k \in {"install", "normalize"}
  <2>a. UndoSteps(k, c) = UndoGenerations(k, c)
    BY <1>1 DEF UndoSteps
  <2>1. CASE c.next = NoEntry
    <3>1. UndoSteps(k, c) = <<>>
      BY <2>a, <2>1 DEF UndoGenerations
    <3>2. IsList(UndoSteps(k, c), {})
      BY <3>1, ShortLists, NoSteps
    <3> QED
      BY <1>1, <2>1, <3>2 DEF IsList, BackFor
  <2>2. CASE c.next # NoEntry /\ Staged(k, c) /\ LaterWork(c)
    <3>1. UndoSteps(k, c) = <<"refuse">>
      BY <2>a, <2>2 DEF UndoGenerations
    <3>2. IsList(UndoSteps(k, c), {"refuse"})
      BY <3>1, ShortLists, NoSteps
    <3> QED
      BY <1>1, <2>2, <3>2 DEF IsList, BackFor
  <2>3. CASE c.next # NoEntry /\ Staged(k, c) /\ ~LaterWork(c)
    <3>1. UndoSteps(k, c) = <<"fingerprint", "switchBack", "publishBack", "forget">>
      BY <2>a, <2>3 DEF UndoGenerations
    <3>2. IsList(UndoSteps(k, c), {"fingerprint", "switchBack", "publishBack", "forget"})
      BY <3>1, ShortLists, NoSteps
    <3> QED
      BY <1>1, <2>3, <3>2 DEF IsList, BackFor
  <2>4. CASE c.next # NoEntry /\ ~Staged(k, c) /\ Untouched(k, c) /\ c.switched
    <3>1. UndoSteps(k, c) = <<"switchBack", "discard">>
      BY <2>a, <2>4 DEF UndoGenerations
    <3>2. IsList(UndoSteps(k, c), {"switchBack", "discard"})
      BY <3>1, ShortLists, NoSteps
    <3> QED
      BY <1>1, <2>4, <3>2 DEF IsList, BackFor
  <2>5. CASE c.next # NoEntry /\ ~Staged(k, c) /\ Untouched(k, c) /\ ~c.switched
    <3>1. UndoSteps(k, c) = <<"discard">>
      BY <2>a, <2>5 DEF UndoGenerations
    <3>2. IsList(UndoSteps(k, c), {"discard"})
      BY <3>1, ShortLists, NoSteps
    <3> QED
      BY <1>1, <2>5, <3>2 DEF IsList, BackFor
  <2>6. CASE c.next # NoEntry /\ ~Staged(k, c) /\ ~Untouched(k, c)
    <3>1. UndoSteps(k, c) = <<"refuse">>
      BY <2>a, <2>6 DEF UndoGenerations
    <3>2. IsList(UndoSteps(k, c), {"refuse"})
      BY <3>1, ShortLists, NoSteps
    <3> QED
      BY <1>1, <2>6, <3>2 DEF IsList, BackFor
  <2> QED
    BY <2>1, <2>2, <2>3, <2>4, <2>5, <2>6
<1>2. CASE k = "clean" /\ Awake
  <2>1. UndoSteps(k, c) = <<"pointBack", "recreate">>
    BY <1>2 DEF UndoClean, UndoSteps
  <2>2. IsList(UndoSteps(k, c), {"pointBack", "recreate"})
    BY <2>1, ShortLists
  <2>3. {"pointBack", "recreate"} \in Back(k)
    BY <1>2 DEF Back, Web
  <2> QED
    BY <1>2, <2>2, <2>3 DEF IsList, BackFor
<1>3. CASE k = "clean" /\ ~Awake
  <2>1. UndoSteps(k, c) = <<"pointBack">>
    BY <1>3 DEF UndoClean, UndoSteps
  <2>2. IsList(UndoSteps(k, c), {"pointBack"})
    BY <2>1, ShortLists
  <2>3. {"pointBack"} \in Back(k)
    BY <1>3 DEF Back, Web
  <2> QED
    BY <1>3, <2>2, <2>3 DEF IsList, BackFor
<1>4. CASE k = "config" /\ Awake
  <2>1. UndoSteps(k, c) = <<"setBack", "recreate">>
    BY <1>4 DEF UndoConfig, UndoSteps
  <2>2. IsList(UndoSteps(k, c), {"setBack", "recreate"})
    BY <2>1, ShortLists
  <2>3. {"setBack", "recreate"} \in Back(k)
    BY <1>4 DEF Back, Web
  <2> QED
    BY <1>4, <2>2, <2>3 DEF IsList, BackFor
<1>5. CASE k = "config" /\ ~Awake
  <2>1. UndoSteps(k, c) = <<"setBack">>
    BY <1>5 DEF UndoConfig, UndoSteps
  <2>2. IsList(UndoSteps(k, c), {"setBack"})
    BY <2>1, ShortLists
  <2>3. {"setBack"} \in Back(k)
    BY <1>5 DEF Back, Web
  <2> QED
    BY <1>5, <2>2, <2>3 DEF IsList, BackFor
<1>6. CASE k = "remove" /\ c.dump # "no" /\ Awake
  <2>1. UndoSteps(k, c) = <<"listOld", "create", "restore">>
    BY <1>6 DEF UndoRemove, UndoSteps
  <2>2. IsList(UndoSteps(k, c), {"listOld", "create", "restore"})
    BY <2>1, ShortLists
  <2>3. {"listOld", "create", "restore"} \in Back(k)
    BY <1>6 DEF Back, Web
  <2> QED
    BY <1>6, <2>2, <2>3 DEF IsList, BackFor
<1>7. CASE k = "remove" /\ ~(c.dump # "no" /\ Awake)
  <2>1. UndoSteps(k, c) = <<"refuse">>
    BY <1>7 DEF UndoRemove, UndoSteps
  <2>2. IsList(UndoSteps(k, c), {"refuse"})
    BY <2>1, ShortLists
  <2>3. {"refuse"} \in Back(k)
    BY <1>7 DEF Back, Web
  <2> QED
    BY <1>7, <2>2, <2>3 DEF IsList, BackFor
<1>8. CASE k = "version" /\ Awake
  <2>1. UndoSteps(k, c) = <<"listOld", "drop", "create", "restore">>
    BY <1>8 DEF UndoVersion, UndoSteps
  <2>2. IsList(UndoSteps(k, c), {"listOld", "drop", "create", "restore"})
    BY <2>1, ShortLists
  <2>3. {"listOld", "drop", "create", "restore"} \in Back(k)
    BY <1>8 DEF Back, Web
  <2> QED
    BY <1>8, <2>2, <2>3 DEF IsList, BackFor
<1>9. CASE k = "version" /\ ~Awake
  <2>1. UndoSteps(k, c) = <<"listOld">>
    BY <1>9 DEF UndoVersion, UndoSteps
  <2>2. IsList(UndoSteps(k, c), {"listOld"})
    BY <2>1, ShortLists
  <2>3. {"listOld"} \in Back(k)
    BY <1>9 DEF Back, Web
  <2> QED
    BY <1>9, <2>2, <2>3 DEF IsList, BackFor
<1>10. CASE k = "load" /\ Awake
  <2>1. UndoSteps(k, c) = <<"restore">>
    BY <1>10 DEF UndoLoad, UndoSteps
  <2>2. IsList(UndoSteps(k, c), {"restore"})
    BY <2>1, ShortLists
  <2>3. {"restore"} \in Back(k)
    BY <1>10 DEF Back, Web
  <2> QED
    BY <1>10, <2>2, <2>3 DEF IsList, BackFor
<1>11. CASE k = "load" /\ ~Awake
  <2>1. UndoSteps(k, c) = <<"refuse">>
    BY <1>11 DEF UndoLoad, UndoSteps
  <2>2. IsList(UndoSteps(k, c), {"refuse"})
    BY <2>1, ShortLists
  <2>3. {"refuse"} \in Back(k)
    BY <1>11 DEF Back, Web
  <2> QED
    BY <1>11, <2>2, <2>3 DEF IsList, BackFor
<1>12. CASE k = "domain"
  <2>1. UndoSteps(k, c) = <<"renameBack">>
    BY <1>12 DEF UndoDomain, UndoSteps
  <2>2. IsList(UndoSteps(k, c), {"renameBack"})
    BY <2>1, ShortLists
  <2>3. {"renameBack"} \in Back(k)
    BY <1>12 DEF Back, Web
  <2> QED
    BY <1>12, <2>2, <2>3 DEF IsList, BackFor
<1> QED
  BY <1>1, <1>2, <1>3, <1>4, <1>5, <1>6, <1>7, <1>8, <1>9, <1>10, <1>11, <1>12, KindsAre DEF Undoable

----------------------------------------------------------------------------
(* The effects of a step.                                                   *)

RowSteps == {"publish", "point", "pointBack", "unlist", "delist", "listNew", "listOld", "set", "setBack", "rename",
             "renameBack", "publishBack"}
WebChanges == {"pause", "hold", "resume", "switch", "recreate", "switchBack"}
DataSteps == {"drop", "load", "create", "restore"}
CaptureSteps == {"reserve", "reserveLayer", "copy", "switch", "dump"}
KeepSteps == {"snapshot", "unsnapshot", "install", "revoke"}
Discards == {"forget", "discard"}

\* A step that succeeds changes what it is about.
LEMMA EffectFrame ==
    ASSUME NEW s \in Names, Effect(s)
    PROVE  /\ s \notin RowSteps => row' = row
           /\ s \notin {"reserve", "reserveLayer"} => spent' = spent
           /\ s \notin {"copy"} \cup Discards => trees' = trees
           /\ s \notin {"layer"} \cup Discards => layers' = layers
           /\ s \notin WebChanges => web' = web
           /\ s \notin DataSteps => data' = data
           /\ s \notin CaptureSteps => journal' = journal
           /\ s \notin KeepSteps => snapshots' = snapshots /\ receipts' = receipts
<1> USE DEF RowSteps, WebChanges, DataSteps, CaptureSteps, KeepSteps, Discards
<1>1. CASE s \in {"reserve", "reserveLayer"}
  BY <1>1 DEF Effect, Reserve, ReserveLayer, Captured
<1>2. CASE s \in {"copy", "layer", "switch", "dump"}
  BY <1>2 DEF Effect, Copy, Layer, Switch, Dump, Captured
<1>5. CASE s \in {"publish", "publishBack"}
  BY <1>5 DEF Effect, PublishStaged, PublishBack, Publish
<1>11. CASE s \in {"pause", "hold"}
  BY <1>11 DEF Effect, Suspended
<1>12. CASE s \in {"resume"}
  BY <1>12 DEF Effect, Suspended, Nothing
<1>13. CASE s \in {"recreate", "switchBack"}
  BY <1>13 DEF Effect, Mounted, Nothing
<1>14. CASE s \in {"recheck", "compare"}
  BY <1>14 DEF Effect, Compare
<1>15. CASE s \in {"rewrite", "build", "boot", "launch", "fingerprint"}
  BY <1>15 DEF Effect, Nothing
<1>16. CASE s \in {"point", "pointBack"}
  BY <1>16 DEF Effect, SetRow
<1>17. CASE s \in {"unlist", "delist", "listNew", "listOld"}
  BY <1>17 DEF Effect, SetRow
<1>18. CASE s \in {"set", "setBack"}
  BY <1>18 DEF Effect, SetRow
<1>19. CASE s \in {"rename", "renameBack"}
  BY <1>19 DEF Effect, SetRow
<1>20. CASE s \in {"drop", "load"}
  BY <1>20 DEF Effect, SetData
<1>21. CASE s \in {"create", "restore"}
  BY <1>21 DEF Effect, SetData, Restore
<1>8. CASE s \in KeepSteps
  BY <1>8 DEF Effect, Keep
<1>9. CASE s \in Discards
  BY <1>9 DEF Effect, Discard
<1>10. CASE s = "refuse"
  BY <1>10 DEF Effect
<1> QED
  BY <1>1, <1>2, <1>5, <1>11, <1>12, <1>13, <1>14, <1>15, <1>16, <1>17, <1>18, <1>19, <1>20, <1>21, <1>8, <1>9, <1>10, NamesAre

\* So does a step that fails.
LEMMA ResidueFrame ==
    ASSUME NEW s \in Names, Residue(s)
    PROVE  /\ row' = row /\ spent' = spent
           /\ s \notin {"copy"} \cup Discards => trees' = trees
           /\ s # "layer" => layers' = layers
           /\ s \notin {"switch", "recreate", "switchBack", "resume", "publishBack"} => web' = web
           /\ s \notin {"drop", "restore", "load"} => data' = data
           /\ s # "switch" => journal' = journal
           /\ s # "snapshot" => snapshots' = snapshots
           /\ s \notin {"install", "revoke"} => receipts' = receipts
           /\ s = "revoke" => receipts' \subseteq receipts
<1> USE DEF Discards
<1>1. CASE s \in {"copy", "layer", "switch"}
  BY <1>1 DEF Residue, Captured
<1>2. CASE s \in {"recreate", "switchBack", "resume", "publishBack"}
  BY <1>2 DEF Residue, Mounted, Suspended, Nothing
<1>3. CASE s \in {"snapshot", "install", "revoke"}
  BY <1>3 DEF Residue, Keep, Nothing
<1>4. CASE s \in {"drop", "restore", "load"}
  BY <1>4 DEF Residue, SetData, Nothing
<1>5. CASE s \in Discards
  BY <1>5 DEF Residue, Nothing
<1>6. CASE s \notin {"copy", "layer", "switch", "recreate", "switchBack", "resume", "publishBack",
                      "snapshot", "install", "revoke", "drop", "restore", "load"} \cup Discards
  BY <1>6 DEF Residue, Nothing
<1> QED
  BY <1>1, <1>2, <1>3, <1>4, <1>5, <1>6

\* What each step does that is more than a row or the data of a service.
LEMMA EffectIs ==
    ASSUME NEW s, Effect(s)
    PROVE  /\ s = "reserve" => Reserve
           /\ s = "reserveLayer" => ReserveLayer
           /\ s = "copy" => Copy
           /\ s = "layer" => Layer
           /\ s = "compare" => Compare
           /\ s \in {"pause", "hold"} => Suspended("paused")
           /\ s = "resume" => IF web.mode = "paused" THEN Suspended("running") ELSE Nothing
           /\ s = "switch" => Switch
           /\ s = "publish" => PublishStaged
           /\ s = "publishBack" => PublishBack
           /\ s = "point" => SetRow([row EXCEPT !.deps = Cap.layer])
           /\ s = "pointBack" => SetRow([row EXCEPT !.deps = Cap.deps])
           /\ s = "recreate" => Mounted("running", row.gen)
           /\ s = "switchBack" => IF Awake THEN Mounted("running", Cap.gen) ELSE Nothing
           /\ s \in Discards => Discard
           /\ s = "dump" => Dump
           /\ s # "refuse"
<1>1. /\ s = "reserve" => Reserve
      /\ s = "reserveLayer" => ReserveLayer
      /\ s = "copy" => Copy
      /\ s = "layer" => Layer
      /\ s = "compare" => Compare
      /\ s \in {"pause", "hold"} => Suspended("paused")
      /\ s = "resume" => IF web.mode = "paused" THEN Suspended("running") ELSE Nothing
  BY DEF Effect
<1>2. /\ s = "switch" => Switch
      /\ s = "publish" => PublishStaged
      /\ s = "publishBack" => PublishBack
      /\ s = "point" => SetRow([row EXCEPT !.deps = Cap.layer])
      /\ s = "pointBack" => SetRow([row EXCEPT !.deps = Cap.deps])
      /\ s = "recreate" => Mounted("running", row.gen)
  BY DEF Effect
<1>3. /\ s = "switchBack" => IF Awake THEN Mounted("running", Cap.gen) ELSE Nothing
      /\ s \in Discards => Discard
      /\ s = "dump" => Dump
      /\ s # "refuse"
  BY DEF Effect, Discards
<1> QED
  BY <1>1, <1>2, <1>3

\* The other steps leave the generations of the row alone.
LEMMA RowIs ==
    ASSUME NEW s \in Names, Effect(s), row \in RowType, s \notin {"publish", "publishBack", "point", "pointBack"}
    PROVE  /\ row' \in RowType
           /\ row'.gen = row.gen /\ row'.deps = row.deps /\ row'.rev = row.rev
           /\ s = "set" => row'.config = "new"
           /\ s = "setBack" => row'.config = "old"
           /\ s \notin {"set", "setBack"} => row'.config = row.config
<1> USE DEF RowType
<1>1. CASE s \notin RowSteps
  BY <1>1, EffectFrame DEF RowSteps
<1>2. CASE s = "set"
  BY <1>2 DEF Effect, SetRow
<1>3. CASE s = "setBack"
  BY <1>3 DEF Effect, SetRow
<1>4. CASE s \in {"unlist", "delist", "listNew", "listOld"}
  BY <1>4 DEF Effect, SetRow
<1>5. CASE s \in {"rename", "renameBack"}
  BY <1>5 DEF Effect, SetRow
<1> QED
  BY <1>1, <1>2, <1>3, <1>4, <1>5 DEF RowSteps

\* What happens to the data.
LEMMA DataIs ==
    ASSUME NEW s, Effect(s)
    PROVE  /\ s = "drop" => data' = "none"
           /\ s = "load" => data' = "whole"
           /\ s = "create" => data' = IF data = "none" THEN "empty" ELSE data
           /\ s = "restore" => data' = IF Cap.dump = "no" THEN data ELSE Cap.dump
BY DEF Effect, SetData, Restore

LEMMA KeepIs ==
    ASSUME NEW s, Effect(s)
    PROVE  /\ s = "snapshot" => snapshots' = snapshots \cup {job.entry} /\ receipts' = receipts
           /\ s = "unsnapshot" => snapshots' = snapshots \ {job.entry} /\ receipts' = receipts
           /\ s = "install" => snapshots' = snapshots /\ receipts' = receipts \cup {job.entry}
           /\ s = "revoke" => snapshots' = snapshots /\ receipts' = receipts \ {job.entry}
BY DEF Effect, Keep

LEMMA ResidueIs ==
    ASSUME NEW s, Residue(s)
    PROVE  /\ s = "copy" => trees' = [trees EXCEPT ![Cap.next] = [state |-> "partial", edits |-> {}]]
           /\ s = "layer" => layers' = [layers EXCEPT ![Cap.layer] = "partial"]
           /\ s = "switch" => /\ web' \in {web, [web EXCEPT !.mode = "down"]}
                              /\ journal' = [journal EXCEPT ![job.entry].cap = [Cap EXCEPT !.switched = TRUE]]
           /\ s \in {"recreate", "switchBack"} => web' = web \/ web' = [web EXCEPT !.mode = "down"]
           /\ s = "resume" => web' = web \/ web' = [mode |-> "running", gen |-> row.gen, config |-> row.config]
           /\ s = "snapshot" => snapshots' = snapshots \cup {job.entry}
           /\ s = "install" => receipts' = receipts \/ receipts' = receipts \cup {job.entry}
           /\ s \in DataSteps => data' \in {data, "none", "half"}
           /\ s = "publishBack" => \/ web' = [mode |-> "running", gen |-> Cap.next, config |-> row.config]
                                   \/ web' = [web EXCEPT !.mode = "down"]
           /\ s \in Discards => trees' = trees \/ trees' = [trees EXCEPT ![Cap.next] = NoTree]
<1>1. /\ s = "copy" => trees' = [trees EXCEPT ![Cap.next] = [state |-> "partial", edits |-> {}]]
      /\ s = "layer" => layers' = [layers EXCEPT ![Cap.layer] = "partial"]
      /\ s = "switch" => /\ web' \in {web, [web EXCEPT !.mode = "down"]}
                         /\ journal' = [journal EXCEPT ![job.entry].cap = [Cap EXCEPT !.switched = TRUE]]
  BY DEF Residue, Captured
<1>2. s \in {"recreate", "switchBack"} => web' = web \/ web' = [web EXCEPT !.mode = "down"]
  BY DEF Residue, Nothing, Suspended
<1>3. s = "resume" => web' = web \/ web' = [mode |-> "running", gen |-> row.gen, config |-> row.config]
  BY DEF Residue, Nothing, Mounted
<1>4. s = "publishBack" => \/ web' = [mode |-> "running", gen |-> Cap.next, config |-> row.config]
                           \/ web' = [web EXCEPT !.mode = "down"]
  BY DEF Residue, Mounted, Suspended
<1>5. /\ s = "snapshot" => snapshots' = snapshots \cup {job.entry}
      /\ s = "install" => receipts' = receipts \/ receipts' = receipts \cup {job.entry}
  BY DEF Residue, Keep, Nothing
<1>6. s \in DataSteps => data' \in {data, "none", "half"}
  BY DEF Residue, SetData, Nothing, DataSteps
<1>7. s \in Discards => trees' = trees \/ trees' = [trees EXCEPT ![Cap.next] = NoTree]
  BY DEF Residue, Nothing, Discards
<1> QED
  BY <1>1, <1>2, <1>3, <1>4, <1>5, <1>6, <1>7

----------------------------------------------------------------------------
(* One step of a list.                                                      *)

\* What the journal keeps in a step, and what the entry of the change captures.
EntriesStay ==
    /\ journal' \in Seq(Entries) /\ DOMAIN journal' = DOMAIN journal /\ Len(journal') = Len(journal)
    /\ \A i \in DOMAIN journal :
          /\ journal'[i].kind = journal[i].kind /\ journal'[i].status = journal[i].status
          /\ journal'[i].cap.gen = C(i).gen /\ journal'[i].cap.deps = C(i).deps /\ journal'[i].cap.rev = C(i).rev
          /\ i # job.entry => journal'[i].cap = C(i)

CapStays(s) ==
    LET c == Cap
        d == journal'[job.entry].cap IN
    /\ s # "reserve" => d.next = c.next
    /\ s \notin {"reserve", "reserveLayer"} => d.layer = c.layer
    /\ s # "copy" => d.src = c.src /\ d.out = c.out
    /\ s # "switch" => d.switched = c.switched
    /\ s # "dump" => d.dump = c.dump

AtHead(s) ==
    /\ job.todo # <<>> /\ s = Head(job.todo) /\ s \in Names /\ s \in Left
    /\ job.entry \in DOMAIN journal /\ job.mode \in {"apply", "catch", "rollback", "undo"}
    /\ Kind \in Kinds
    /\ \A t \in Left : t = s \/ Rank[s] < Rank[t]

Doing(s) ==
    /\ AtHead(s) /\ Unchanged(s) /\ Effect(s)
    /\ job' \in JobType /\ job'.mode = job.mode /\ job'.entry = job.entry
    /\ Left' = Left \ {s} /\ Ordered(job'.todo)
    /\ seen' = seen /\ crashes' = crashes

Stopped(s) ==
    \/ /\ job.mode = "apply" /\ job'.mode = "catch" /\ job'.entry = job.entry
       /\ job'.todo = CatchSteps(Kind, s)
    \/ /\ job.mode = "catch" \/ s = "forget"
       /\ job'.mode = job.mode /\ job'.entry = job.entry /\ Left' = Left \ {s}
    \/ /\ job.mode \in {"rollback", "undo"} /\ s # "forget" /\ job' = Idle

Failed(s) ==
    /\ AtHead(s) /\ s # "revoke"
    /\ IF s \in {"recheck", "compare"} /\ trees[Cap.gen].edits # Cap.src
       THEN row' = [row EXCEPT !.rev = @ + 1]
            /\ UNCHANGED <<spent, trees, layers, web, data, journal, snapshots, receipts>>
       ELSE Residue(s)
    /\ job' \in JobType /\ Ordered(job'.todo) /\ Stopped(s)
    /\ seen' = seen /\ crashes' = crashes

\* The revocation of a run failed: the last of what its handler awaits.
Unrevoked ==
    /\ job.mode = "catch" /\ Kind = "run" /\ job.entry \in DOMAIN journal
    /\ UNCHANGED <<row, spent, trees, layers, web, data, journal, snapshots, seen, crashes>>
    /\ receipts' \subseteq receipts
    /\ job' \in JobType /\ job'.mode = "unrevoked" /\ job'.entry = job.entry /\ job'.todo = <<>>

LEMMA HeadIs ==
    ASSUME Typed, Shape, Working, job.todo # <<>>
    PROVE  /\ AtHead(Head(job.todo))
           /\ Elems(Tail(job.todo)) = Left \ {Head(job.todo)}
           /\ Tail(job.todo) \in Seq(Names) /\ Ordered(Tail(job.todo))
<1>1. job.todo \in Seq(Names) /\ Ordered(job.todo)
  BY DEF Typed, JobType, Shape
<1>2. /\ Head(job.todo) \in Names /\ Head(job.todo) \in Left
      /\ Tail(job.todo) \in Seq(Names) /\ Ordered(Tail(job.todo))
      /\ Elems(Tail(job.todo)) = Left \ {Head(job.todo)}
      /\ \A s \in Elems(Tail(job.todo)) : Rank[Head(job.todo)] < Rank[s]
  BY <1>1, TailIs DEF Left
<1>3. job.mode \in {"apply", "catch", "rollback", "undo"}
  BY <1>2 DEF Shape, Typed, JobType, Modes
<1>4. job.entry \in DOMAIN journal /\ Kind \in Kinds
  BY <1>3 DEF Typed, Working
<1> QED
  BY <1>2, <1>3, <1>4 DEF AtHead

LEMMA StepIs ==
    ASSUME Typed, Shape, Working, StepDone
    PROVE  \E s \in Names : Doing(s)
<1> DEFINE s == Head(job.todo)
<1>1. job.todo # <<>> /\ Unchanged(s) /\ Effect(s) /\ job' = [job EXCEPT !.todo = Tail(job.todo)]
      /\ seen' = seen /\ crashes' = crashes
  BY DEF StepDone, Rest
<1>2. AtHead(s) /\ Elems(Tail(job.todo)) = Left \ {s} /\ Tail(job.todo) \in Seq(Names) /\ Ordered(Tail(job.todo))
  BY <1>1, HeadIs
<1>3. job \in JobType
  BY DEF Typed, JobType
<1>4. /\ job' \in JobType /\ job'.mode = job.mode /\ job'.entry = job.entry /\ job'.todo = Tail(job.todo)
  BY <1>1, <1>2, <1>3 DEF JobType
<1>5. s \in Names
  BY <1>2 DEF AtHead
<1> HIDE DEF s
<1>6. Left' = Left \ {s} /\ Ordered(job'.todo)
  BY <1>2, <1>4 DEF Left
<1>7. Doing(s)
  BY <1>1, <1>2, <1>4, <1>6 DEF Doing
<1> QED
  BY <1>5, <1>7

\* Where a step can be.
LEMMA Where ==
    ASSUME RoomChangesAssumption, Shape, Working, NEW s, AtHead(s)
    PROVE  /\ s \in {"reserve", "copy", "hold", "compare", "switch", "publish"} => job.mode = "apply" /\ OnStaging(Kind)
           /\ s = "reserveLayer" => job.mode = "apply" /\ Kind \in {"clean", "reset", "renew"}
           /\ s = "layer" => job.mode = "apply" /\ Kind \in {"install", "clean", "reset", "renew"}
           /\ s = "point" => job.mode = "apply" /\ Kind \in {"clean", "reset", "renew"}
           /\ s = "pointBack" => job.mode \in {"rollback", "undo"} /\ Kind = "clean"
           /\ s = "dump" => job.mode = "apply" /\ Kind = "version"
           /\ s \in {"fingerprint", "switchBack", "publishBack", "forget", "discard"} =>
                 job.mode \in {"rollback", "undo"} /\ OnStaging(Kind)
           /\ s = "set" => job.mode = "apply" /\ Kind = "config"
           /\ s = "setBack" => job.mode \in {"rollback", "undo"} /\ Kind = "config"
           /\ s = "recreate" => job.mode # "catch" /\ Kind \in {"clean", "reset", "wipe", "renew", "config"} /\ Awake
           /\ s \in {"pause", "snapshot", "install"} => job.mode = "apply"
           /\ s = "pause" => OnStaging(Kind) \/ Kind = "run"
           /\ s \in KeepSteps => job.mode \in {"apply", "catch"} /\ Kind = "run"
           /\ s = "revoke" => job.mode = "catch"
           /\ s \in DataSteps => Kind \in {"remove", "version", "load", "reset", "wipe"}
           /\ s = "resume" => job.mode \in {"apply", "catch"} /\ (job.mode = "apply" => OnStaging(Kind) \/ Kind = "run")
           /\ s \in Web /\ job.mode = "apply" => Awake
<1>1. s \in Left /\ Kind \in Kinds
  BY DEF AtHead
<1>2. CASE job.mode = "apply"
  <2>1. s \in Plan(Kind)
    BY <1>1, <1>2 DEF Shape, Suffix
  <2> QED
    BY <1>1, <1>2, <2>1, KindsAre DEF Plan, Whole, Web, OnStaging, KeepSteps, DataSteps
<1>3. CASE job.mode = "catch"
  <2>1. s \in {"resume"} \/ (Kind = "run" /\ s \in {"resume", "unsnapshot", "revoke"})
    BY <1>1, <1>3 DEF Shape
  <2> QED
    BY <1>3, <2>1 DEF KeepSteps, DataSteps
<1>4. CASE job.mode \in {"rollback", "undo"}
  <2>1. PICK p \in Back(Kind) : s \in p
    BY <1>1, <1>4 DEF Shape, Suffix
  <2>2. Undoable(Kind)
    BY <1>4 DEF Working
  <2> QED
    BY <1>1, <1>4, <2>1, <2>2, KindsAre DEF Back, Web, OnStaging, KeepSteps, DataSteps, Undoable
<1> QED
  BY <1>2, <1>3, <1>4 DEF AtHead

LEMMA FailIs ==
    ASSUME RoomChangesAssumption, Typed, Shape, Working, StepFails
    PROVE  Unrevoked \/ \E s \in Names : Failed(s)
<1> DEFINE s == Head(job.todo)
<1>1. /\ job.todo # <<>> /\ job' = Failing(s) /\ seen' = seen /\ crashes' = crashes
      /\ IF s \in {"recheck", "compare"} /\ trees[Cap.gen].edits # Cap.src
         THEN row' = [row EXCEPT !.rev = @ + 1]
              /\ UNCHANGED <<spent, trees, layers, web, data, journal, snapshots, receipts>>
         ELSE Residue(s)
  BY DEF StepFails, Modified
<1>2. AtHead(s) /\ Elems(Tail(job.todo)) = Left \ {s} /\ Tail(job.todo) \in Seq(Names) /\ Ordered(Tail(job.todo))
  BY <1>1, HeadIs
<1>3. job \in JobType
  BY DEF Typed, JobType
<1>5. s \in Names
  BY <1>2 DEF AtHead
<1> HIDE DEF s
<1>6. CASE s = "revoke"
  <2>1. job.mode = "catch" /\ Kind = "run" /\ job.entry \in DOMAIN journal
    BY <1>2, <1>6, Where DEF AtHead, KeepSteps
  <2>2. job' = [job EXCEPT !.mode = "unrevoked", !.todo = Tail(job.todo)]
    BY <1>1, <1>6, <2>1 DEF Failing, Rest
  <2>3. Tail(job.todo) = <<>>
    <3>1. Left \subseteq {"resume", "unsnapshot", "revoke"}
      BY <2>1 DEF Shape
    <3>2. Rank["resume"] = 4 /\ Rank["unsnapshot"] = 6 /\ Rank["revoke"] = 7
      BY DEF Rank
    <3>3. \A t \in Left : t = "revoke"
      BY <1>2, <1>6, <3>1, <3>2 DEF AtHead
    <3>4. Elems(Tail(job.todo)) = {}
      BY <1>2, <1>6, <3>3
    <3> QED
      BY <1>2, <3>4, EmptyList
  <2>4. receipts' \subseteq receipts /\ UNCHANGED <<row, spent, trees, layers, web, data, journal, snapshots>>
    BY <1>1, <1>5, <1>6, ResidueFrame DEF DataSteps, Discards
  <2>5. job' \in JobType /\ job'.mode = "unrevoked" /\ job'.entry = job.entry /\ job'.todo = <<>>
    BY <1>2, <1>3, <2>2, <2>3 DEF JobType, Modes
  <2> QED
    BY <1>1, <2>1, <2>4, <2>5 DEF Unrevoked
<1>8. SUFFICES ASSUME s # "revoke"
               PROVE  Failed(s)
  BY <1>5, <1>6
<1>4. job' \in JobType /\ Ordered(job'.todo) /\ Stopped(s)
  <2>1. CASE job.mode = "apply"
    <3>1. Failing(s) = [job EXCEPT !.mode = "catch", !.todo = CatchSteps(Kind, s)]
      <4>1. s # "forget"
        BY <1>2, <2>1, Where
      <4> QED
        BY <1>8, <2>1, <4>1 DEF Failing
    <3>2. CatchSteps(Kind, s) \in Seq(Names) /\ Ordered(CatchSteps(Kind, s))
      BY CatchList DEF IsList
    <3> QED
      BY <1>1, <1>3, <2>1, <3>1, <3>2 DEF JobType, Modes, Stopped
  <2>2. CASE job.mode # "apply" /\ (job.mode = "catch" \/ s = "forget")
    <3>1. job' = [job EXCEPT !.todo = Tail(job.todo)]
      BY <1>1, <1>8, <2>2 DEF Failing, Rest
    <3> QED
      BY <1>2, <1>3, <2>2, <3>1 DEF JobType, Stopped, Left
  <2>3. CASE job.mode # "apply" /\ ~(job.mode = "catch" \/ s = "forget")
    <3>1. job' = Idle
      BY <1>1, <1>8, <2>3 DEF Failing
    <3>2. Idle \in JobType /\ Idle.todo = <<>>
      BY DEF Idle, JobType, Modes
    <3> QED
      BY <1>2, <2>3, <3>1, <3>2, NoSteps DEF Stopped, AtHead, IsList
  <2> QED
    BY <2>1, <2>2, <2>3
<1> QED
  BY <1>1, <1>2, <1>4, <1>8 DEF Failed

----------------------------------------------------------------------------
(* What the journal keeps.                                                  *)

LEMMA Entry ==
    ASSUME Typed, NEW i \in DOMAIN journal
    PROVE  /\ journal[i] \in Entries /\ journal[i].kind \in Kinds \cup {"undo"} /\ journal[i].status \in Statuses
           /\ C(i) \in Captures
           /\ C(i).gen \in Gens /\ C(i).deps \in Gens /\ C(i).rev \in Nat
           /\ C(i).next \in Gens \cup {NoEntry} /\ C(i).layer \in Gens \cup {NoEntry}
           /\ C(i).src \subseteq Edits /\ C(i).out \subseteq Edits /\ C(i).switched \in BOOLEAN
           /\ C(i).dump \in {"no", "none", "empty", "half", "whole"}
<1>1. journal[i] \in Entries
  BY DEF Typed
<1>2. journal[i].kind \in Kinds \cup {"undo"} /\ journal[i].status \in Statuses /\ C(i) \in Captures
  BY <1>1 DEF Entries, C
<1> QED
  BY <1>1, <1>2 DEF Captures

LEMMA Numbers ==
    ASSUME RoomChangesAssumption
    PROVE  /\ MaxEntries \in Nat /\ NoEntry \in Nat /\ NoEntry \notin Gens /\ NoEntry > MaxEntries
           /\ \A g \in Gens : g \in Nat /\ g <= MaxEntries
           /\ \A n \in Nat : n <= MaxEntries => n \in Gens
           /\ 0 \in Gens
BY DEF RoomChangesAssumption, NoEntry, Gens

\* The length of the journal bounds the numbers.
LEMMA Length ==
    ASSUME RoomChangesAssumption, Typed
    PROVE  /\ Len(journal) \in Nat /\ Len(journal) <= MaxEntries /\ DOMAIN journal = 1 .. Len(journal)
           /\ row.gen \in Gens /\ row.deps \in Gens /\ row.rev \in Nat
           /\ spent.gen \in Gens /\ spent.deps \in Gens
           /\ row.gen \in Nat /\ row.deps \in Nat /\ spent.gen \in Nat /\ spent.deps \in Nat
<1>1. Len(journal) \in Nat /\ Len(journal) <= MaxEntries /\ DOMAIN journal = 1 .. Len(journal)
  BY DEF Typed
<1>2. row.gen \in Gens /\ row.deps \in Gens /\ row.rev \in Nat
  BY DEF Typed, RowType
<1>3. spent.gen \in Gens /\ spent.deps \in Gens
  BY DEF Typed, SpentType
<1> QED
  BY <1>1, <1>2, <1>3, Numbers

\* The entry of the change captures something.
LEMMA CapSet ==
    ASSUME Typed, job.entry \in DOMAIN journal, NEW d \in Captures,
           d.gen = Cap.gen, d.deps = Cap.deps, d.rev = Cap.rev,
           journal' = [journal EXCEPT ![job.entry].cap = d]
    PROVE  EntriesStay /\ journal'[job.entry].cap = d
<1>1. journal' = [journal EXCEPT ![job.entry] = [journal[job.entry] EXCEPT !.cap = d]]
  OBVIOUS
<1>2. journal[job.entry] \in Entries /\ journal \in Seq(Entries)
  BY Entry DEF Typed
<1>3. [journal[job.entry] EXCEPT !.cap = d] \in Entries
  BY <1>2 DEF Entries
<1>4. journal' \in Seq(Entries) /\ DOMAIN journal' = DOMAIN journal /\ Len(journal') = Len(journal)
  BY <1>1, <1>2, <1>3
<1>5. journal'[job.entry] = [journal[job.entry] EXCEPT !.cap = d]
  BY <1>1, <1>2
<1>6. /\ journal'[job.entry].cap = d /\ journal'[job.entry].kind = journal[job.entry].kind
      /\ journal'[job.entry].status = journal[job.entry].status
  BY <1>2, <1>5 DEF Entries
<1>7. \A i \in DOMAIN journal : i # job.entry => journal'[i] = journal[i]
  BY <1>1, <1>2
<1>8. \A i \in DOMAIN journal :
         /\ journal'[i].kind = journal[i].kind /\ journal'[i].status = journal[i].status
         /\ journal'[i].cap.gen = C(i).gen /\ journal'[i].cap.deps = C(i).deps /\ journal'[i].cap.rev = C(i).rev
         /\ i # job.entry => journal'[i].cap = C(i)
  <2> TAKE i \in DOMAIN journal
  <2>1. CASE i = job.entry
    BY <1>6, <2>1 DEF C, Cap
  <2>2. CASE i # job.entry
    BY <1>7, <2>2 DEF C
  <2> QED
    BY <2>1, <2>2
<1> QED
  BY <1>4, <1>6, <1>8 DEF EntriesStay

LEMMA CapSame ==
    ASSUME Typed, journal' = journal
    PROVE  EntriesStay
BY DEF Typed, EntriesStay, C

\* The numbers that are reserved next.
LEMMA Fresh ==
    ASSUME RoomChangesAssumption, Typed, Numbered, NEW s, AtHead(s)
    PROVE  /\ s = "reserve" => /\ NextTree = spent.gen + 1 /\ NextTree \in Gens /\ NextTree <= Len(journal)
                               /\ NextLayer = spent.deps + 1 /\ NextLayer \in Gens /\ NextLayer <= Len(journal)
           /\ s = "reserveLayer" => NextLayer = spent.deps + 1 /\ NextLayer \in Gens /\ NextLayer <= Len(journal)
<1>1. s \in Left
  BY DEF AtHead
<1>2. /\ row.gen <= spent.gen /\ row.deps <= spent.deps
      /\ s = "reserve" => spent.gen < Len(journal) /\ spent.deps < Len(journal)
      /\ s = "reserveLayer" => spent.deps < Len(journal)
  BY <1>1 DEF Numbered
<1>3. NextTree = spent.gen + 1 /\ NextLayer = spent.deps + 1
  BY <1>2, Length DEF NextTree, NextLayer
<1> QED
  BY <1>2, <1>3, Length, Numbers

\* What a step that succeeds captures.
LEMMA Captures1 ==
    ASSUME RoomChangesAssumption, Typed, Numbered, NEW s, AtHead(s), Effect(s)
    PROVE  /\ EntriesStay /\ CapStays(s)
           /\ s = "reserve" => /\ journal'[job.entry].cap.next = NextTree
                               /\ journal'[job.entry].cap.layer = IF Kind = "install" THEN NextLayer ELSE NoEntry
                               /\ spent' = [gen |-> NextTree, deps |-> IF Kind = "install" THEN NextLayer ELSE spent.deps]
           /\ s = "reserveLayer" => /\ journal'[job.entry].cap.layer = NextLayer
                                    /\ spent' = [spent EXCEPT !.deps = NextLayer]
           /\ s = "copy" => /\ journal'[job.entry].cap.src = trees[Cap.gen].edits
                            /\ journal'[job.entry].cap.out = trees[Cap.gen].edits
           /\ s = "switch" => journal'[job.entry].cap.switched = TRUE
           /\ s = "dump" => journal'[job.entry].cap.dump = data
<1>1. job.entry \in DOMAIN journal /\ s \in Names /\ C(job.entry) = Cap
  BY DEF AtHead, C, Cap
<1>2. Cap \in Captures
  BY <1>1, Entry
<1>3. CASE s = "reserve"
  <2> DEFINE l == IF Kind = "install" THEN NextLayer ELSE NoEntry
             d == [Cap EXCEPT !.next = NextTree, !.layer = l]
  <2>1. Reserve
    BY <1>3, EffectIs
  <2>2. journal' = [journal EXCEPT ![job.entry].cap = d]
        /\ spent' = [gen |-> NextTree, deps |-> IF Kind = "install" THEN NextLayer ELSE spent.deps]
    BY <2>1 DEF Reserve, Captured
  <2>3. NextTree \in Gens /\ l \in Gens \cup {NoEntry}
    BY <1>3, Fresh
  <2>4. /\ d \in Captures /\ d.gen = Cap.gen /\ d.deps = Cap.deps /\ d.rev = Cap.rev /\ d.next = NextTree /\ d.layer = l
        /\ d.src = Cap.src /\ d.out = Cap.out /\ d.switched = Cap.switched /\ d.dump = Cap.dump
    BY <1>2, <2>3 DEF Captures
  <2>5. EntriesStay /\ journal'[job.entry].cap = d
    BY <1>1, <2>2, <2>4, CapSet
  <2>6. CapStays(s)
    BY <1>3, <2>4, <2>5 DEF CapStays
  <2> QED
    BY <1>3, <2>2, <2>4, <2>5, <2>6
<1>4. CASE s = "reserveLayer"
  <2> DEFINE d == [Cap EXCEPT !.layer = NextLayer]
  <2>1. ReserveLayer
    BY <1>4, EffectIs
  <2>2. journal' = [journal EXCEPT ![job.entry].cap = d] /\ spent' = [spent EXCEPT !.deps = NextLayer]
    BY <2>1 DEF ReserveLayer, Captured
  <2>3. NextLayer \in Gens
    BY <1>4, Fresh
  <2>4. /\ d \in Captures /\ d.gen = Cap.gen /\ d.deps = Cap.deps /\ d.rev = Cap.rev /\ d.layer = NextLayer
        /\ d.next = Cap.next
        /\ d.src = Cap.src /\ d.out = Cap.out /\ d.switched = Cap.switched /\ d.dump = Cap.dump
    BY <1>2, <2>3 DEF Captures
  <2>5. EntriesStay /\ journal'[job.entry].cap = d
    BY <1>1, <2>2, <2>4, CapSet
  <2>6. CapStays(s)
    BY <1>4, <2>4, <2>5 DEF CapStays
  <2> QED
    BY <1>4, <2>2, <2>4, <2>5, <2>6
<1>5. CASE s = "copy"
  <2> DEFINE w == trees[Cap.gen].edits
             d == [Cap EXCEPT !.src = w, !.out = w]
  <2>1. Copy
    BY <1>5, EffectIs
  <2>2. journal' = [journal EXCEPT ![job.entry].cap = d]
    BY <2>1 DEF Copy, Captured
  <2>3. w \subseteq Edits
    BY <1>1, Entry DEF Typed, TreeType
  <2>4. /\ d \in Captures /\ d.gen = Cap.gen /\ d.deps = Cap.deps /\ d.rev = Cap.rev /\ d.src = w /\ d.out = w
        /\ d.next = Cap.next /\ d.layer = Cap.layer /\ d.switched = Cap.switched /\ d.dump = Cap.dump
    BY <1>2, <2>3 DEF Captures
  <2>5. EntriesStay /\ journal'[job.entry].cap = d
    BY <1>1, <2>2, <2>4, CapSet
  <2>6. CapStays(s)
    BY <1>5, <2>4, <2>5 DEF CapStays
  <2> QED
    BY <1>5, <2>4, <2>5, <2>6
<1>6. CASE s = "switch"
  <2> DEFINE d == [Cap EXCEPT !.switched = TRUE]
  <2>1. Switch
    BY <1>6, EffectIs
  <2>2. journal' = [journal EXCEPT ![job.entry].cap = d]
    BY <2>1 DEF Switch, Captured
  <2>4. /\ d \in Captures /\ d.gen = Cap.gen /\ d.deps = Cap.deps /\ d.rev = Cap.rev /\ d.switched = TRUE
        /\ d.next = Cap.next /\ d.layer = Cap.layer /\ d.src = Cap.src /\ d.out = Cap.out /\ d.dump = Cap.dump
    BY <1>2 DEF Captures
  <2>5. EntriesStay /\ journal'[job.entry].cap = d
    BY <1>1, <2>2, <2>4, CapSet
  <2>6. CapStays(s)
    BY <1>6, <2>4, <2>5 DEF CapStays
  <2> QED
    BY <1>6, <2>4, <2>5, <2>6
<1>7. CASE s = "dump"
  <2> DEFINE d == [Cap EXCEPT !.dump = data]
  <2>1. Dump
    BY <1>7, EffectIs
  <2>2. journal' = [journal EXCEPT ![job.entry].cap = d]
    BY <2>1 DEF Dump, Captured
  <2>3. data \in {"no", "none", "empty", "half", "whole"}
    BY DEF Typed
  <2>4. /\ d \in Captures /\ d.gen = Cap.gen /\ d.deps = Cap.deps /\ d.rev = Cap.rev /\ d.dump = data
        /\ d.next = Cap.next /\ d.layer = Cap.layer /\ d.src = Cap.src /\ d.out = Cap.out
        /\ d.switched = Cap.switched
    BY <1>2, <2>3 DEF Captures
  <2>5. EntriesStay /\ journal'[job.entry].cap = d
    BY <1>1, <2>2, <2>4, CapSet
  <2>6. CapStays(s)
    BY <1>7, <2>4, <2>5 DEF CapStays
  <2> QED
    BY <1>7, <2>4, <2>5, <2>6
<1>8. CASE s \notin CaptureSteps
  <2>1. journal' = journal
    BY <1>1, <1>8, EffectFrame
  <2> QED
    BY <1>8, <2>1, CapSame DEF CapStays, Cap, CaptureSteps
<1> QED
  BY <1>3, <1>4, <1>5, <1>6, <1>7, <1>8 DEF CaptureSteps

\* A step that fails captures only that the container may have been switched.
LEMMA Captures2 ==
    ASSUME Typed, NEW s, Failed(s)
    PROVE  /\ EntriesStay /\ CapStays(s)
           /\ s = "switch" => journal'[job.entry].cap.switched = TRUE
<1>1. job.entry \in DOMAIN journal /\ s \in Names /\ C(job.entry) = Cap
  BY DEF Failed, AtHead, C, Cap
<1>2. Cap \in Captures
  BY <1>1, Entry
<1>3. CASE s = "switch"
  <2> DEFINE d == [Cap EXCEPT !.switched = TRUE]
  <2>2. journal' = [journal EXCEPT ![job.entry].cap = d]
    BY <1>3, ResidueIs DEF Failed
  <2>4. /\ d \in Captures /\ d.gen = Cap.gen /\ d.deps = Cap.deps /\ d.rev = Cap.rev /\ d.switched = TRUE
        /\ d.next = Cap.next /\ d.layer = Cap.layer /\ d.src = Cap.src /\ d.out = Cap.out /\ d.dump = Cap.dump
    BY <1>2 DEF Captures
  <2>5. EntriesStay /\ journal'[job.entry].cap = d
    BY <1>1, <2>2, <2>4, CapSet
  <2>6. CapStays(s)
    BY <1>3, <2>4, <2>5 DEF CapStays
  <2> QED
    BY <1>3, <2>4, <2>5, <2>6
<1>4. CASE s # "switch"
  <2>1. journal' = journal
    BY <1>1, <1>4, ResidueFrame DEF Failed
  <2> QED
    BY <1>4, <2>1, CapSame DEF CapStays, Cap
<1> QED
  BY <1>3, <1>4

----------------------------------------------------------------------------
(* A step that succeeds keeps what is basic.                                *)

LEMMA DoingKeeps ==
    ASSUME RoomChangesAssumption, Basic, NEW s, Doing(s)
    PROVE  /\ AtHead(s) /\ Effect(s) /\ EntriesStay /\ CapStays(s) /\ s \in Names
           /\ Kind' = Kind /\ Cap' = journal'[job.entry].cap /\ job'.mode = job.mode /\ job'.entry = job.entry
           /\ Left' = Left \ {s} /\ s \in Left
           /\ Awake' <=> Awake
<1>1. AtHead(s) /\ Effect(s) /\ s \in Names /\ s \in Left /\ job.entry \in DOMAIN journal /\ job'.entry = job.entry
  BY DEF Doing, AtHead
<1>2. EntriesStay /\ CapStays(s)
  BY <1>1, Captures1 DEF Basic
<1>3. Kind' = Kind /\ Cap' = journal'[job.entry].cap
  BY <1>1, <1>2 DEF Kind, Cap, EntriesStay
<1>4. Awake' <=> Awake
  <2>1. CASE s \notin WebChanges
    BY <1>1, <2>1, EffectFrame DEF Awake
  <2>2. CASE s \in {"pause", "hold"}
    <3>1. s \in Web /\ job.mode = "apply"
      BY <1>1, <2>2, Where DEF Web, Basic
    <3>2. Awake
      BY <1>1, <3>1, Where DEF Basic
    <3>3. web' = [web EXCEPT !.mode = "paused"]
      BY <1>1, <2>2, EffectIs DEF Suspended
    <3> QED
      BY <3>2, <3>3 DEF Awake, Basic, Typed, WebType
  <2>3. CASE s = "resume"
    <3>1. IF web.mode = "paused" THEN web' = [web EXCEPT !.mode = "running"] ELSE web' = web
      BY <1>1, <2>3, EffectIs DEF Suspended, Nothing
    <3> QED
      BY <3>1 DEF Awake, Basic, Typed, WebType
  <2>4. CASE s = "switch"
    <3>1. s \in Web /\ job.mode = "apply"
      BY <1>1, <2>4, Where DEF Web, Basic
    <3>2. Awake
      BY <1>1, <3>1, Where DEF Basic
    <3>3. web'.mode = "running"
      BY <1>1, <2>4, EffectIs DEF Switch
    <3> QED
      BY <3>2, <3>3 DEF Awake
  <2>5. CASE s = "recreate"
    <3>1. Awake
      BY <1>1, <2>5, Where DEF Basic
    <3>2. web'.mode = "running"
      BY <1>1, <2>5, EffectIs DEF Mounted
    <3> QED
      BY <3>1, <3>2 DEF Awake
  <2>6. CASE s = "switchBack"
    <3>1. IF Awake THEN web'.mode = "running" ELSE web' = web
      BY <1>1, <2>6, EffectIs DEF Mounted, Nothing
    <3> QED
      BY <3>1 DEF Awake
  <2> QED
    BY <2>1, <2>2, <2>3, <2>4, <2>5, <2>6 DEF WebChanges
<1> QED
  BY <1>1, <1>2, <1>3, <1>4 DEF Doing

LEMMA DoingShape ==
    ASSUME RoomChangesAssumption, Basic, NEW s, Doing(s)
    PROVE  Shape'
<1>1. /\ AtHead(s) /\ Kind' = Kind /\ job'.mode = job.mode /\ Left' = Left \ {s} /\ s \in Left /\ (Awake' <=> Awake)
  BY DoingKeeps
<1>2. Ordered(job'.todo) /\ Shape
  BY DEF Doing, Basic
<1>3. \A t \in Left : t \in Names /\ Rank[t] \in Nat
  BY RankTyped DEF Basic, Typed, JobType, Left, Elems
<1>4. \A p : Suffix(p) /\ p \subseteq Names => Left' \subseteq p /\ \A a \in Left', t \in p : Rank[a] <= Rank[t] => t \in Left'
  <2> SUFFICES ASSUME NEW p, Suffix(p), p \subseteq Names
               PROVE  Left' \subseteq p /\ \A a \in Left', t \in p : Rank[a] <= Rank[t] => t \in Left'
    OBVIOUS
  <2>1. Left' \subseteq p
    BY <1>1 DEF Suffix
  <2>2. ASSUME NEW a \in Left', NEW t \in p, Rank[a] <= Rank[t]
        PROVE  t \in Left'
    <3>1. a \in Left /\ a # s
      BY <1>1
    <3>2. t \in Left
      BY <2>2, <3>1 DEF Suffix
    <3>3. Rank[s] < Rank[a]
      BY <1>1, <3>1 DEF AtHead
    <3>4. Rank[s] \in Nat /\ Rank[a] \in Nat /\ Rank[t] \in Nat
      BY <1>1, <1>3, <3>1, <3>2
    <3>5. t # s
      BY <2>2, <3>3, <3>4
    <3> QED
      BY <1>1, <3>2, <3>5
  <2> QED
    BY <2>1, <2>2
<1>5. \A k : (Plan(k))' = Plan(k) /\ (Back(k))' = Back(k)
  BY <1>1 DEF Plan, Back
<1>6. CASE job.mode = "apply"
  <2>1. Suffix(Plan(Kind))
    BY <1>2, <1>6 DEF Shape
  <2>2. Plan(Kind) \subseteq Names
    BY <1>1, KindsAre, NamesAre DEF Plan, Whole, AtHead
  <2>3. Suffix(Plan(Kind))'
    BY <1>1, <1>4, <1>5, <2>1, <2>2 DEF Suffix
  <2> QED
    BY <1>1, <1>2, <1>6, <2>3 DEF Shape
<1>7. CASE job.mode = "catch"
  BY <1>1, <1>2, <1>7 DEF Shape
<1>8. CASE job.mode \in {"rollback", "undo"}
  <2>1. PICK p \in Back(Kind) : Suffix(p)
    BY <1>2, <1>8 DEF Shape
  <2>2. Undoable(Kind) /\ Kind \in Kinds
    BY <1>1, <1>8 DEF Basic, Working, AtHead
  <2>3. p \subseteq Names
    BY <2>1, <2>2, KindsAre, NamesAre DEF Back, Undoable
  <2>4. p \in (Back(Kind))'
    BY <1>1, <1>5, <2>1
  <2>5. Suffix(p)'
    BY <1>4, <2>1, <2>3 DEF Suffix
  <2>6. \E q \in (Back(Kind))' : Suffix(q)'
    BY <2>4, <2>5
  <2> QED
    BY <1>1, <1>2, <1>8, <2>6 DEF Shape
<1> QED
  BY <1>1, <1>6, <1>7, <1>8 DEF AtHead

LEMMA DoingWorking ==
    ASSUME RoomChangesAssumption, Basic, NEW s, Doing(s)
    PROVE  Working'
<1>1. /\ AtHead(s) /\ EntriesStay /\ Kind' = Kind /\ job'.mode = job.mode /\ job'.entry = job.entry
  BY DoingKeeps
<1>2. journal'[job'.entry].status = journal[job.entry].status /\ Len(journal') = Len(journal)
  BY <1>1 DEF EntriesStay, AtHead
<1> QED
  BY <1>1, <1>2 DEF Basic, Working

LEMMA RowSet ==
    ASSUME row \in RowType, NEW g \in Gens, NEW d \in Gens, NEW n \in Nat,
           row' = [row EXCEPT !.gen = g, !.deps = d, !.rev = n]
    PROVE  row' \in RowType /\ row'.gen = g /\ row'.deps = d /\ row'.rev = n /\ row'.config = row.config
BY DEF RowType

\* What the steps do to the row that the container and the service are not about.
LEMMA DoingRow ==
    ASSUME RoomChangesAssumption, Basic, NEW s, Doing(s)
    PROVE  /\ row' \in RowType
           /\ s = "publish" => /\ row.gen = Cap.gen /\ row.deps = Cap.deps /\ row.rev = Cap.rev
                               /\ row'.gen = Cap.next /\ row'.rev = row.rev + 1
                               /\ row'.deps = IF Kind = "install" THEN Cap.layer ELSE Cap.deps
           /\ s = "publishBack" => /\ row.gen = Cap.next /\ row.rev = Cap.rev + 1
                                   /\ row.deps = IF Kind = "install" THEN Cap.layer ELSE Cap.deps
                                   /\ row'.gen = Cap.gen /\ row'.deps = Cap.deps /\ row'.rev = row.rev + 1
           /\ s = "point" => row'.gen = row.gen /\ row'.deps = Cap.layer /\ row'.rev = row.rev
           /\ s = "pointBack" => row'.gen = row.gen /\ row'.deps = Cap.deps /\ row'.rev = row.rev
           /\ s \notin {"publish", "publishBack", "point", "pointBack"} =>
                 row'.gen = row.gen /\ row'.deps = row.deps /\ row'.rev = row.rev
           /\ s = "set" => row'.config = "new"
           /\ s = "setBack" => row'.config = "old"
           /\ s \notin {"set", "setBack"} => row'.config = row.config
<1>1. AtHead(s) /\ Effect(s) /\ s \in Names /\ job.entry \in DOMAIN journal /\ Typed /\ Reserved /\ Captured1
      /\ s \in Left /\ Shape /\ Working
  BY DoingKeeps DEF AtHead, Basic
<1>2. row \in RowType
  BY <1>1 DEF Typed
<1>3. /\ Cap.gen \in Gens /\ Cap.deps \in Gens /\ Cap.next \in Gens \cup {NoEntry} /\ Cap.layer \in Gens \cup {NoEntry}
  BY <1>1, Entry DEF C, Cap
<1>9. row.rev + 1 \in Nat
  BY <1>1, Length
<1>4. CASE s = "publish"
  <2>1. job.mode = "apply" /\ OnStaging(Kind)
    BY <1>1, <1>4, Where
  <2>2. "reserve" \notin Left
    BY <1>1, <1>4 DEF AtHead, Rank
  <2>3. Cap.next # NoEntry /\ (Kind = "install" => Cap.layer # NoEntry)
    BY <1>1, <2>1, <2>2 DEF Reserved, Captured1, C, Cap, Kind
  <2>4. PublishStaged
    BY <1>1, <1>4, EffectIs
  <2>5. /\ row.gen = Cap.gen /\ row.deps = Cap.deps /\ row.rev = Cap.rev
        /\ row' = [row EXCEPT !.gen = Cap.next, !.deps = IF Kind = "install" THEN Cap.layer ELSE Cap.deps,
                              !.rev = row.rev + 1]
    BY <2>4 DEF PublishStaged, Publish
  <2> DEFINE l == IF Kind = "install" THEN Cap.layer ELSE Cap.deps
  <2>6. l \in Gens /\ Cap.next \in Gens
    BY <1>3, <2>3
  <2>7. row' = [row EXCEPT !.gen = Cap.next, !.deps = l, !.rev = row.rev + 1]
    BY <2>5
  <2> HIDE DEF l
  <2>8. row' \in RowType /\ row'.gen = Cap.next /\ row'.deps = l /\ row'.rev = row.rev + 1 /\ row'.config = row.config
    BY <1>2, <1>9, <2>6, <2>7, RowSet, Zenon
  <2> QED
    BY <1>4, <2>5, <2>8 DEF l
<1>5. CASE s = "publishBack"
  <2>4. PublishBack
    BY <1>1, <1>5, EffectIs
  <2>5. /\ row.gen = Cap.next /\ row.rev = Cap.rev + 1
        /\ row.deps = IF Kind = "install" THEN Cap.layer ELSE Cap.deps
        /\ row' = [row EXCEPT !.gen = Cap.gen, !.deps = Cap.deps, !.rev = row.rev + 1]
    BY <2>4 DEF PublishBack, Publish
  <2>6. row' \in RowType /\ row'.gen = Cap.gen /\ row'.deps = Cap.deps /\ row'.rev = row.rev + 1 /\ row'.config = row.config
    BY <1>2, <1>3, <1>9, <2>5, RowSet, Zenon
  <2> QED
    BY <1>5, <2>5, <2>6
<1>6. CASE s = "point"
  <2>1. job.mode = "apply" /\ Kind \in {"clean", "reset", "renew"}
    BY <1>1, <1>6, Where
  <2>2. "reserveLayer" \notin Left
    BY <1>1, <1>6 DEF AtHead, Rank
  <2>3. Cap.layer # NoEntry
    BY <1>1, <2>1, <2>2 DEF Reserved
  <2>4. row' = [row EXCEPT !.deps = Cap.layer]
    BY <1>1, <1>6, EffectIs DEF SetRow
  <2> QED
    BY <1>2, <1>3, <1>6, <2>3, <2>4 DEF RowType
<1>7. CASE s = "pointBack"
  <2>4. row' = [row EXCEPT !.deps = Cap.deps]
    BY <1>1, <1>7, EffectIs DEF SetRow
  <2> QED
    BY <1>2, <1>3, <1>7, <2>4 DEF RowType
<1>8. CASE s \notin {"publish", "publishBack", "point", "pointBack"}
  BY <1>1, <1>2, <1>8, RowIs
<1> QED
  BY <1>4, <1>5, <1>6, <1>7, <1>8

\* The steps reserve numbers that no entry has.
LEMMA DoingNumbered ==
    ASSUME RoomChangesAssumption, Basic, NEW s, Doing(s)
    PROVE  Numbered' /\ Distinct'
<1>1. /\ AtHead(s) /\ Effect(s) /\ EntriesStay /\ CapStays(s) /\ s \in Names /\ Left' = Left \ {s} /\ s \in Left
      /\ job.entry \in DOMAIN journal
  BY DoingKeeps DEF AtHead
<1>2. Typed /\ Numbered /\ Distinct /\ Shape /\ Working /\ Reserved /\ Captured1
  BY DEF Basic
<1>3. /\ Len(journal') = Len(journal) /\ DOMAIN journal' = DOMAIN journal
      /\ \A i \in DOMAIN journal :
            /\ C(i)'.gen = C(i).gen /\ C(i)'.deps = C(i).deps
            /\ i # job.entry => C(i)' = C(i)
  BY <1>1 DEF EntriesStay, C
<1>4. \A i \in DOMAIN journal :
         /\ C(i).gen \in Nat /\ C(i).deps \in Nat /\ C(i).next \in Nat /\ C(i).layer \in Nat
  BY <1>2, Entry, Numbers
<1>a. /\ Len(journal) \in Nat /\ row.gen \in Nat /\ row.deps \in Nat /\ spent.gen \in Nat /\ spent.deps \in Nat
      /\ NoEntry \in Nat
  BY <1>2, Length, Numbers
<1>5. CASE s = "reserve"
  <2>1. /\ NextTree = spent.gen + 1 /\ NextTree <= Len(journal) /\ NextTree # NoEntry
        /\ NextLayer = spent.deps + 1 /\ NextLayer <= Len(journal) /\ NextLayer # NoEntry
    BY <1>1, <1>2, <1>5, Fresh, Numbers
  <2>2. /\ journal'[job.entry].cap.next = NextTree
        /\ journal'[job.entry].cap.layer = IF Kind = "install" THEN NextLayer ELSE NoEntry
        /\ spent' = [gen |-> NextTree, deps |-> IF Kind = "install" THEN NextLayer ELSE spent.deps]
    BY <1>1, <1>2, <1>5, Captures1
  <2>3. /\ spent'.gen = spent.gen + 1
        /\ spent'.deps = IF Kind = "install" THEN spent.deps + 1 ELSE spent.deps
    BY <2>1, <2>2
  <2>4. row'.gen = row.gen /\ row'.deps = row.deps
    BY <1>5, DoingRow
  <2>5. \A i \in DOMAIN journal :
          /\ C(i).gen <= spent.gen /\ C(i).deps <= spent.deps
          /\ C(i).next # NoEntry => C(i).next <= spent.gen /\ C(i).gen < C(i).next
          /\ C(i).layer # NoEntry => C(i).layer <= spent.deps /\ C(i).deps < C(i).layer
    BY <1>2 DEF Numbered
  <2>6. spent.gen < Len(journal) /\ spent.deps < Len(journal) /\ row.gen <= spent.gen /\ row.deps <= spent.deps
    BY <1>1, <1>2, <1>5 DEF Numbered
  <2>7. ASSUME NEW i \in DOMAIN journal'
        PROVE  /\ C(i)'.gen <= spent'.gen /\ C(i)'.deps <= spent'.deps
               /\ C(i)'.next # NoEntry => C(i)'.gen < C(i)'.next /\ C(i)'.next <= spent'.gen
               /\ C(i)'.layer # NoEntry => C(i)'.deps < C(i)'.layer /\ C(i)'.layer <= spent'.deps
    <3>0. i \in DOMAIN journal
      BY <1>3, <2>7
    <3>1. CASE i = job.entry
      <4>1. C(i)' = journal'[job.entry].cap /\ C(i) = C(job.entry)
        BY <3>1 DEF C
      <4>2. /\ C(i)'.next = spent.gen + 1
            /\ C(i)'.layer = NoEntry \/ (C(i)'.layer = spent.deps + 1 /\ spent'.deps = spent.deps + 1)
        BY <2>1, <2>2, <2>3, <4>1
      <4>3. PICK c : c = C(i)'
        OBVIOUS
      <4>4. PICK g, d : g = spent'.gen /\ d = spent'.deps
        OBVIOUS
      <4>5. c.gen \in Nat /\ c.deps \in Nat /\ c.gen <= spent.gen /\ c.deps <= spent.deps
        BY <1>3, <1>4, <2>5, <3>0, <4>3
      <4>6. g = spent.gen + 1 /\ (d = spent.deps \/ d = spent.deps + 1)
        BY <2>3, <4>4
      <4>7. c.next = spent.gen + 1 /\ (c.layer = NoEntry \/ (c.layer = spent.deps + 1 /\ d = spent.deps + 1))
        BY <4>2, <4>3, <4>4
      <4>8. /\ c.gen <= g /\ c.deps <= d /\ c.gen < c.next /\ c.next <= g
            /\ c.layer # NoEntry => c.deps < c.layer /\ c.layer <= d
        BY <1>a, <4>5, <4>6, <4>7, SMTT(30)
      <4> QED
        BY <4>3, <4>4, <4>8
    <3>2. CASE i # job.entry
      <4>1. C(i)' = C(i) /\ spent.gen <= spent'.gen /\ spent.deps <= spent'.deps
        BY <1>3, <1>a, <2>3, <3>0, <3>2
      <4>2. PICK c : c = C(i)
        OBVIOUS
      <4>3. PICK g, d : g = spent'.gen /\ d = spent'.deps
        OBVIOUS
      <4>4. /\ c.gen \in Nat /\ c.deps \in Nat /\ c.next \in Nat /\ c.layer \in Nat
            /\ c.gen <= spent.gen /\ c.deps <= spent.deps
            /\ c.next # NoEntry => c.next <= spent.gen /\ c.gen < c.next
            /\ c.layer # NoEntry => c.layer <= spent.deps /\ c.deps < c.layer
        BY <1>4, <2>5, <3>0, <4>2
      <4>5. g \in Nat /\ d \in Nat /\ spent.gen <= g /\ spent.deps <= d
        BY <1>a, <2>3, <4>1, <4>3
      <4>6. /\ c.gen <= g /\ c.deps <= d
            /\ c.next # NoEntry => c.gen < c.next /\ c.next <= g
            /\ c.layer # NoEntry => c.deps < c.layer /\ c.layer <= d
        BY <1>a, <4>4, <4>5, SMTT(30)
      <4> QED
        BY <4>1, <4>2, <4>3, <4>6
    <3> QED
      BY <3>1, <3>2
  <2>8. Numbered'
    <3>1. row'.gen <= spent'.gen /\ row'.deps <= spent'.deps /\ spent'.gen <= Len(journal') /\ spent'.deps <= Len(journal')
      BY <1>3, <1>a, <2>3, <2>4, <2>6
    <3>2. "reserve" \notin Left' /\ "reserveLayer" \notin Left'
      <4>1. "reserveLayer" \notin Left
        <5>1. job.mode = "apply" /\ OnStaging(Kind)
          BY <1>1, <1>2, <1>5, Where
        <5> QED
          BY <1>2, <5>1 DEF Shape, Suffix, Plan, Whole, OnStaging
      <4> QED
        BY <1>1, <1>5, <4>1
    <3> QED
      BY <2>7, <3>1, <3>2 DEF Numbered
  <2>9. ASSUME NEW i \in DOMAIN journal', NEW j \in DOMAIN journal', i # j
        PROVE  /\ C(i)'.next # NoEntry => C(i)'.next # C(j)'.next
               /\ C(i)'.layer # NoEntry => C(i)'.layer # C(j)'.layer
    <3>0. i \in DOMAIN journal /\ j \in DOMAIN journal
      BY <1>3, <2>9
    <3>1. CASE i = job.entry
      <4>1. C(i)' = journal'[job.entry].cap /\ C(i) = C(job.entry)
        BY <3>1 DEF C
      <4>2. /\ C(i)'.next = spent.gen + 1
            /\ C(i)'.layer = NoEntry \/ C(i)'.layer = spent.deps + 1
        BY <2>1, <2>2, <4>1
      <4>3. /\ C(j)' = C(j) /\ C(j).next \in Nat /\ C(j).layer \in Nat
            /\ C(j).next = NoEntry \/ C(j).next <= spent.gen
            /\ C(j).layer = NoEntry \/ C(j).layer <= spent.deps
        BY <1>3, <1>4, <2>5, <2>9, <3>0, <3>1
      <4> QED
        BY <1>a, <2>1, <4>2, <4>3
    <3>2. CASE j = job.entry
      <4>1. C(j)' = journal'[job.entry].cap /\ C(j) = C(job.entry)
        BY <3>2 DEF C
      <4>2. /\ C(j)'.next = spent.gen + 1
            /\ C(j)'.layer = NoEntry \/ C(j)'.layer = spent.deps + 1
        BY <2>1, <2>2, <4>1
      <4>3. /\ C(i)' = C(i) /\ C(i).next \in Nat /\ C(i).layer \in Nat
            /\ C(i).next = NoEntry \/ C(i).next <= spent.gen
            /\ C(i).layer = NoEntry \/ C(i).layer <= spent.deps
        BY <1>3, <1>4, <2>5, <2>9, <3>0, <3>2
      <4> QED
        BY <1>a, <2>1, <4>2, <4>3
    <3>3. CASE i # job.entry /\ j # job.entry
      BY <1>2, <1>3, <2>9, <3>0, <3>3 DEF Distinct
    <3> QED
      BY <3>1, <3>2, <3>3
  <2> QED
    BY <2>8, <2>9 DEF Distinct
<1>6. CASE s = "reserveLayer"
  <2>1. NextLayer = spent.deps + 1 /\ NextLayer <= Len(journal) /\ NextLayer # NoEntry
    BY <1>1, <1>2, <1>6, Fresh, Numbers
  <2>2. journal'[job.entry].cap.layer = NextLayer /\ spent' = [spent EXCEPT !.deps = NextLayer] /\ journal'[job.entry].cap.next = C(job.entry).next
    BY <1>1, <1>2, <1>6, Captures1 DEF C, CapStays, Cap
  <2>3. spent'.gen = spent.gen /\ spent'.deps = spent.deps + 1
    BY <1>2, <2>1, <2>2 DEF Typed, SpentType
  <2>4. row'.gen = row.gen /\ row'.deps = row.deps
    BY <1>6, DoingRow
  <2>5. \A i \in DOMAIN journal :
          /\ C(i).gen <= spent.gen /\ C(i).deps <= spent.deps
          /\ C(i).next # NoEntry => C(i).next <= spent.gen /\ C(i).gen < C(i).next
          /\ C(i).layer # NoEntry => C(i).layer <= spent.deps /\ C(i).deps < C(i).layer
    BY <1>2 DEF Numbered
  <2>6. spent.gen <= Len(journal) /\ spent.deps < Len(journal) /\ row.gen <= spent.gen /\ row.deps <= spent.deps
    BY <1>1, <1>2, <1>6 DEF Numbered
  <2>7. ASSUME NEW i \in DOMAIN journal'
        PROVE  /\ C(i)'.gen <= spent'.gen /\ C(i)'.deps <= spent'.deps
               /\ C(i)'.next # NoEntry => C(i)'.gen < C(i)'.next /\ C(i)'.next <= spent'.gen
               /\ C(i)'.layer # NoEntry => C(i)'.deps < C(i)'.layer /\ C(i)'.layer <= spent'.deps
    <3>0. i \in DOMAIN journal
      BY <1>3, <2>7
    <3>1. CASE i = job.entry
      <4>1. C(i)' = journal'[job.entry].cap /\ C(i) = C(job.entry)
        BY <3>1 DEF C
      <4>2. C(i)'.layer = spent.deps + 1 /\ C(i)'.next = C(i).next
        BY <2>1, <2>2, <4>1
      <4>3. /\ C(i)'.gen = C(i).gen /\ C(i)'.deps = C(i).deps /\ C(i).deps \in Nat
            /\ C(i).gen <= spent.gen /\ C(i).deps <= spent.deps
            /\ C(i).next # NoEntry => C(i).gen < C(i).next /\ C(i).next <= spent.gen
        BY <1>3, <1>4, <2>5, <3>0
      <4> QED
        BY <1>a, <2>3, <4>2, <4>3
    <3>2. CASE i # job.entry
      <4>1. C(i)' = C(i) /\ spent.gen <= spent'.gen /\ spent.deps <= spent'.deps
        BY <1>3, <1>a, <2>3, <3>0, <3>2
      <4>2. PICK c : c = C(i)
        OBVIOUS
      <4>3. PICK g, d : g = spent'.gen /\ d = spent'.deps
        OBVIOUS
      <4>4. /\ c.gen \in Nat /\ c.deps \in Nat /\ c.next \in Nat /\ c.layer \in Nat
            /\ c.gen <= spent.gen /\ c.deps <= spent.deps
            /\ c.next # NoEntry => c.next <= spent.gen /\ c.gen < c.next
            /\ c.layer # NoEntry => c.layer <= spent.deps /\ c.deps < c.layer
        BY <1>4, <2>5, <3>0, <4>2
      <4>5. g \in Nat /\ d \in Nat /\ spent.gen <= g /\ spent.deps <= d
        BY <1>a, <2>3, <4>1, <4>3
      <4>6. /\ c.gen <= g /\ c.deps <= d
            /\ c.next # NoEntry => c.gen < c.next /\ c.next <= g
            /\ c.layer # NoEntry => c.deps < c.layer /\ c.layer <= d
        BY <1>a, <4>4, <4>5, SMTT(30)
      <4> QED
        BY <4>1, <4>2, <4>3, <4>6
    <3> QED
      BY <3>1, <3>2
  <2>8. Numbered'
    <3>1. row'.gen <= spent'.gen /\ row'.deps <= spent'.deps /\ spent'.gen <= Len(journal') /\ spent'.deps <= Len(journal')
      BY <1>3, <1>a, <2>3, <2>4, <2>6
    <3>2. "reserve" \notin Left' /\ "reserveLayer" \notin Left'
      <4>1. "reserve" \notin Left
        <5>1. job.mode = "apply" /\ Kind \in {"clean", "reset", "renew"}
          BY <1>1, <1>2, <1>6, Where
        <5> QED
          BY <1>2, <5>1 DEF Shape, Suffix, Plan, Whole
      <4> QED
        BY <1>1, <1>6, <4>1
    <3> QED
      BY <2>7, <3>1, <3>2 DEF Numbered
  <2>9. ASSUME NEW i \in DOMAIN journal', NEW j \in DOMAIN journal', i # j
        PROVE  /\ C(i)'.next # NoEntry => C(i)'.next # C(j)'.next
               /\ C(i)'.layer # NoEntry => C(i)'.layer # C(j)'.layer
    <3>0. i \in DOMAIN journal /\ j \in DOMAIN journal
      BY <1>3, <2>9
    <3>1. \A n \in DOMAIN journal : C(n)'.next = C(n).next
      BY <1>3, <2>2 DEF C
    <3>2. C(i)'.next # NoEntry => C(i)'.next # C(j)'.next
      BY <1>2, <2>9, <3>0, <3>1 DEF Distinct
    <3>3. CASE i = job.entry
      <4>1. C(i)' = journal'[job.entry].cap /\ C(i) = C(job.entry)
        BY <3>3 DEF C
      <4> QED
        BY <1>3, <1>4, <1>a, <2>1, <2>2, <2>5, <2>9, <3>0, <3>2, <3>3, <4>1
    <3>4. CASE j = job.entry
      <4>1. C(j)' = journal'[job.entry].cap /\ C(j) = C(job.entry)
        BY <3>4 DEF C
      <4> QED
        BY <1>3, <1>4, <1>a, <2>1, <2>2, <2>5, <2>9, <3>0, <3>2, <3>4, <4>1
    <3>5. CASE i # job.entry /\ j # job.entry
      BY <1>2, <1>3, <2>9, <3>0, <3>5 DEF Distinct
    <3> QED
      BY <3>3, <3>4, <3>5
  <2> QED
    BY <2>8, <2>9 DEF Distinct
<1>7. CASE s \notin {"reserve", "reserveLayer"}
  <2>1. spent' = spent
    BY <1>1, <1>7, EffectFrame
  <2>2. \A i \in DOMAIN journal : C(i)'.next = C(i).next /\ C(i)'.layer = C(i).layer
    BY <1>1, <1>3, <1>7 DEF CapStays, C, Cap
  <2>3. row'.gen <= spent.gen /\ row'.deps <= spent.deps
    <3>1. CASE s = "publish"
      <4>1. row'.gen = Cap.next /\ row'.deps = IF Kind = "install" THEN Cap.layer ELSE Cap.deps
        BY <3>1, DoingRow
      <4>2. job.mode = "apply" /\ OnStaging(Kind) /\ "reserve" \notin Left
        BY <1>1, <1>2, <3>1, Where DEF AtHead, Rank
      <4>3. Cap.next # NoEntry /\ (Kind = "install" => Cap.layer # NoEntry)
        BY <1>1, <1>2, <4>2 DEF Reserved, Captured1, C, Cap, Kind
      <4> QED
        BY <1>1, <1>2, <4>1, <4>3 DEF Numbered, C, Cap
    <3>2. CASE s = "publishBack"
      <4>1. row'.gen = Cap.gen /\ row'.deps = Cap.deps
        BY <3>2, DoingRow
      <4> QED
        BY <1>1, <1>2, <4>1 DEF Numbered, C, Cap
    <3>3. CASE s = "point"
      <4>1. row'.gen = row.gen /\ row'.deps = Cap.layer
        BY <3>3, DoingRow
      <4>2. job.mode = "apply" /\ Kind \in {"clean", "reset", "renew"} /\ "reserveLayer" \notin Left
        BY <1>1, <1>2, <3>3, Where DEF AtHead, Rank
      <4>3. Cap.layer # NoEntry
        BY <1>2, <4>2 DEF Reserved
      <4> QED
        BY <1>1, <1>2, <4>1, <4>3 DEF Numbered, C, Cap
    <3>4. CASE s = "pointBack"
      <4>1. row'.gen = row.gen /\ row'.deps = Cap.deps
        BY <3>4, DoingRow
      <4> QED
        BY <1>1, <1>2, <4>1 DEF Numbered, C, Cap
    <3>5. CASE s \notin {"publish", "publishBack", "point", "pointBack"}
      <4>1. row'.gen = row.gen /\ row'.deps = row.deps
        BY <3>5, DoingRow
      <4> QED
        BY <1>2, <4>1 DEF Numbered
    <3> QED
      BY <3>1, <3>2, <3>3, <3>4, <3>5
  <2>4. /\ "reserve" \in Left' => "reserve" \in Left
        /\ "reserveLayer" \in Left' => "reserveLayer" \in Left
    BY <1>1
  <2>5. Numbered'
    BY <1>2, <1>3, <2>1, <2>2, <2>3, <2>4 DEF Numbered
  <2>6. Distinct'
    BY <1>2, <1>3, <2>2 DEF Distinct
  <2> QED
    BY <2>5, <2>6
<1> QED
  BY <1>5, <1>6, <1>7

LEMMA TreeSet ==
    ASSUME trees \in TreeType, NEW g, NEW e \in SUBSET Edits, NEW q \in {"none", "partial", "whole"}
    PROVE  [trees EXCEPT ![g] = [state |-> q, edits |-> e]] \in TreeType
BY DEF TreeType

LEMMA LayerSet ==
    ASSUME layers \in LayerType, NEW g, NEW q \in {"none", "partial", "whole"}
    PROVE  [layers EXCEPT ![g] = q] \in LayerType
BY DEF LayerType

\* The programs' container has a generation and settings.
LEMMA WebSet ==
    ASSUME web \in WebType, NEW m \in {"running", "paused", "down"}, NEW g \in Gens, NEW q \in {"old", "new"}
    PROVE  /\ [web EXCEPT !.mode = m] \in WebType
           /\ [mode |-> m, gen |-> g, config |-> q] \in WebType
BY DEF WebType

LEMMA NoTreeIs == NoTree = [state |-> "none", edits |-> {}]
BY DEF NoTree

LEMMA DoingTyped ==
    ASSUME RoomChangesAssumption, Basic, NEW s, Doing(s)
    PROVE  Typed'
<1>1. /\ AtHead(s) /\ Effect(s) /\ EntriesStay /\ s \in Names /\ job.entry \in DOMAIN journal
      /\ job'.mode = job.mode /\ job'.entry = job.entry /\ s \in Left
  BY DoingKeeps DEF AtHead
<1>2. Typed /\ Numbered /\ Shape /\ Working /\ Reserved /\ Captured1
  BY DEF Basic
<1>3. /\ Cap.gen \in Gens /\ Cap.deps \in Gens /\ Cap.next \in Gens \cup {NoEntry} /\ Cap.layer \in Gens \cup {NoEntry}
      /\ row.gen \in Gens /\ row.config \in {"old", "new"} /\ Cap.dump \in {"no", "none", "empty", "half", "whole"}
  BY <1>1, <1>2, Entry DEF C, Cap, Typed, RowType
<1>4. row' \in RowType
  BY DoingRow
<1>5. spent' \in SpentType
  <2>1. CASE s = "reserve"
    <3>1. NextTree \in Gens /\ NextLayer \in Gens /\ spent.deps \in Gens
      BY <1>1, <1>2, <2>1, Fresh, Length
    <3>2. spent' = [gen |-> NextTree, deps |-> IF Kind = "install" THEN NextLayer ELSE spent.deps]
      BY <1>1, <1>2, <2>1, Captures1
    <3> QED
      BY <3>1, <3>2 DEF SpentType
  <2>2. CASE s = "reserveLayer"
    <3>1. NextLayer \in Gens /\ spent \in SpentType
      BY <1>1, <1>2, <2>2, Fresh DEF Typed
    <3>2. spent' = [spent EXCEPT !.deps = NextLayer]
      BY <1>1, <1>2, <2>2, Captures1
    <3> QED
      BY <3>1, <3>2 DEF SpentType
  <2>3. CASE s \notin {"reserve", "reserveLayer"}
    BY <1>1, <1>2, <2>3, EffectFrame DEF Typed
  <2> QED
    BY <2>1, <2>2, <2>3
<1>6. trees' \in TreeType
  <2>0. trees \in TreeType
    BY <1>2 DEF Typed
  <2>1. CASE s = "copy"
    <3>1. trees' = [trees EXCEPT ![Cap.next] = [state |-> "whole", edits |-> trees[Cap.gen].edits]]
      BY <1>1, <2>1, EffectIs DEF Copy
    <3>2. trees[Cap.gen].edits \in SUBSET Edits
      BY <1>3, <2>0 DEF TreeType
    <3> QED
      BY <2>0, <3>1, <3>2, TreeSet
  <2>2. CASE s \in Discards
    <3>1. trees' = [trees EXCEPT ![Cap.next] = [state |-> "none", edits |-> {}]]
      BY <1>1, <2>2, EffectIs, NoTreeIs DEF Discard
    <3> QED
      BY <2>0, <3>1, TreeSet
  <2>3. CASE s \notin {"copy"} \cup Discards
    BY <1>1, <2>0, <2>3, EffectFrame
  <2> QED
    BY <2>1, <2>2, <2>3
<1>7. layers' \in LayerType
  <2>0. layers \in LayerType
    BY <1>2 DEF Typed
  <2>1. CASE s = "layer"
    <3>1. layers' = [layers EXCEPT ![Cap.layer] = "whole"]
      BY <1>1, <2>1, EffectIs DEF Layer
    <3> QED
      BY <2>0, <3>1, LayerSet
  <2>2. CASE s \in Discards
    <3>1. layers' = layers \/ layers' = [layers EXCEPT ![Cap.layer] = "none"]
      BY <1>1, <2>2, EffectIs DEF Discard
    <3> QED
      BY <2>0, <3>1, LayerSet
  <2>3. CASE s \notin {"layer"} \cup Discards
    BY <1>1, <2>0, <2>3, EffectFrame
  <2> QED
    BY <2>1, <2>2, <2>3
<1>8. web' \in WebType
  <2>0. web \in WebType
    BY <1>2 DEF Typed
  <2>1. CASE s \in {"pause", "hold", "resume"}
    <3>1. web' = [web EXCEPT !.mode = "paused"] \/ web' = [web EXCEPT !.mode = "running"] \/ web' = web
      BY <1>1, <2>1, EffectIs DEF Suspended, Nothing
    <3> QED
      BY <1>3, <2>0, <3>1, WebSet
  <2>2. CASE s = "switch"
    <3>1. web' = [mode |-> "running", gen |-> Cap.next, config |-> row.config]
      BY <1>1, <2>2, EffectIs DEF Switch
    <3>2. job.mode = "apply" /\ OnStaging(Kind) /\ "reserve" \notin Left
      BY <1>1, <1>2, <2>2, Where DEF AtHead, Rank
    <3>3. Cap.next \in Gens
      BY <1>2, <1>3, <3>2 DEF Reserved
    <3> QED
      BY <1>3, <2>0, <3>1, <3>3, WebSet
  <2>3. CASE s \in {"recreate", "switchBack"}
    <3>1. \/ web' = [mode |-> "running", gen |-> row.gen, config |-> row.config]
          \/ web' = [mode |-> "running", gen |-> Cap.gen, config |-> row.config]
          \/ web' = web
      BY <1>1, <2>3, EffectIs DEF Mounted, Nothing
    <3> QED
      BY <1>3, <2>0, <3>1, WebSet
  <2>4. CASE s \notin WebChanges
    BY <1>1, <2>0, <2>4, EffectFrame
  <2> QED
    BY <2>1, <2>2, <2>3, <2>4 DEF WebChanges
<1>9. data' \in {"none", "empty", "half", "whole"}
  <2>0. data \in {"none", "empty", "half", "whole"}
    BY <1>2 DEF Typed
  <2>1. CASE s \in DataSteps
    BY <1>1, <1>3, <2>0, <2>1, DataIs DEF DataSteps
  <2>2. CASE s \notin DataSteps
    BY <1>1, <2>0, <2>2, EffectFrame
  <2> QED
    BY <2>1, <2>2
<1>10. snapshots' \subseteq DOMAIN journal' /\ receipts' \subseteq DOMAIN journal'
  <2>0. snapshots \subseteq DOMAIN journal /\ receipts \subseteq DOMAIN journal /\ DOMAIN journal' = DOMAIN journal
    BY <1>1, <1>2 DEF Typed, EntriesStay
  <2>1. CASE s \in KeepSteps
    BY <1>1, <2>0, <2>1, KeepIs DEF KeepSteps
  <2>2. CASE s \notin KeepSteps
    BY <1>1, <2>0, <2>2, EffectFrame
  <2> QED
    BY <2>1, <2>2
<1>11. /\ journal' \in Seq(Entries) /\ Len(journal') <= MaxEntries
       /\ job'.entry \in DOMAIN journal' /\ job'.mode # "idle"
  BY <1>1, <1>2 DEF EntriesStay, Typed, AtHead
<1>12. job' \in JobType /\ seen' \subseteq Edits /\ crashes' \in 0 .. MaxCrashes
  BY <1>2 DEF Doing, Typed
<1> QED
  BY <1>4, <1>5, <1>6, <1>7, <1>8, <1>9, <1>10, <1>11, <1>12 DEF Typed

LEMMA DoingCaptured ==
    ASSUME RoomChangesAssumption, Basic, NEW s, Doing(s)
    PROVE  Captured1' /\ Reserved'
<1>1. /\ AtHead(s) /\ Effect(s) /\ EntriesStay /\ CapStays(s) /\ s \in Names /\ job.entry \in DOMAIN journal
      /\ Kind' = Kind /\ Cap' = journal'[job.entry].cap /\ job'.mode = job.mode /\ job'.entry = job.entry
      /\ Left' = Left \ {s} /\ s \in Left
  BY DoingKeeps DEF AtHead
<1>2. Typed /\ Numbered /\ Shape /\ Working /\ Reserved /\ Captured1
  BY DEF Basic
<1>3. /\ DOMAIN journal' = DOMAIN journal
      /\ \A i \in DOMAIN journal : journal'[i].kind = journal[i].kind /\ (i # job.entry => C(i)' = C(i))
  BY <1>1 DEF EntriesStay, C
<1>4. s = "reserve" => /\ Cap'.next # NoEntry
                       /\ (Kind = "install" <=> Cap'.layer # NoEntry)
                       /\ job.mode = "apply" /\ OnStaging(Kind)
  <2>1. s = "reserve" => /\ Cap'.next = NextTree /\ NextTree \in Gens /\ NextLayer \in Gens
                         /\ Cap'.layer = IF Kind = "install" THEN NextLayer ELSE NoEntry
    BY <1>1, <1>2, Captures1, Fresh
  <2> QED
    BY <1>1, <1>2, <2>1, Numbers, Where
<1>5. s = "reserveLayer" => Cap'.layer # NoEntry /\ job.mode = "apply" /\ Kind \in {"clean", "reset", "renew"}
  <2>1. s = "reserveLayer" => Cap'.layer = NextLayer /\ NextLayer \in Gens
    BY <1>1, <1>2, Captures1, Fresh
  <2> QED
    BY <1>1, <1>2, <2>1, Numbers, Where
<1>6. /\ s # "reserve" => Cap'.next = Cap.next
      /\ s \notin {"reserve", "reserveLayer"} => Cap'.layer = Cap.layer
      /\ s # "switch" => Cap'.switched = Cap.switched
  BY <1>1 DEF CapStays
<1>7. s = "switch" => Cap.next # NoEntry
  <2>1. s = "switch" => job.mode = "apply" /\ OnStaging(Kind) /\ "reserve" \notin Left
    BY <1>1, <1>2, Where DEF AtHead, Rank
  <2> QED
    BY <1>2, <2>1 DEF Reserved
<1>8. /\ ~OnStaging(Kind) => Cap.next = NoEntry
      /\ Kind = "install" => (Cap.next = NoEntry <=> Cap.layer = NoEntry)
      /\ Kind = "normalize" => Cap.layer = NoEntry
      /\ Cap.switched => Cap.next # NoEntry
  BY <1>1, <1>2 DEF Captured1, C, Cap, Kind
<1>9. Captured1'
  <2> SUFFICES ASSUME NEW i \in DOMAIN journal
               PROVE  /\ ~OnStaging(journal'[i].kind) => C(i)'.next = NoEntry
                      /\ journal'[i].kind = "install" => (C(i)'.next = NoEntry <=> C(i)'.layer = NoEntry)
                      /\ journal'[i].kind = "normalize" => C(i)'.layer = NoEntry
                      /\ C(i)'.switched => C(i)'.next # NoEntry
    BY <1>3 DEF Captured1, OnStaging
  <2>1. CASE i = job.entry
    <3>1. C(i)' = Cap' /\ journal'[i].kind = Kind
      BY <1>1, <1>3, <2>1 DEF C, Cap, Kind
    <3>2. CASE s = "reserve"
      BY <1>4, <1>6, <1>8, <3>1, <3>2 DEF OnStaging
    <3>3. CASE s = "reserveLayer"
      BY <1>5, <1>6, <1>8, <3>1, <3>3 DEF OnStaging
    <3>4. CASE s \notin {"reserve", "reserveLayer"}
      BY <1>6, <1>7, <1>8, <3>1, <3>4
    <3> QED
      BY <3>2, <3>3, <3>4
  <2>2. CASE i # job.entry
    BY <1>2, <1>3, <2>2 DEF Captured1
  <2> QED
    BY <2>1, <2>2
<1>10. Reserved'
  <2>1. ASSUME job.mode = "apply", OnStaging(Kind), "reserve" \notin Left'
        PROVE  Cap'.next # NoEntry
    <3>1. CASE s = "reserve"
      BY <1>4, <3>1
    <3>2. CASE s # "reserve"
      BY <1>1, <1>2, <1>6, <2>1, <3>2 DEF Reserved
    <3> QED
      BY <3>1, <3>2
  <2>2. ASSUME job.mode = "apply", Kind \in {"clean", "reset", "renew"}, "reserveLayer" \notin Left'
        PROVE  Cap'.layer # NoEntry
    <3>1. CASE s \in {"reserve", "reserveLayer"}
      BY <1>4, <1>5, <2>2, <3>1 DEF OnStaging
    <3>2. CASE s \notin {"reserve", "reserveLayer"}
      BY <1>1, <1>2, <1>6, <2>2, <3>2 DEF Reserved
    <3> QED
      BY <3>1, <3>2
  <2>3. ASSUME job.mode \in {"rollback", "undo"}, Left' \cap {"publishBack", "forget", "discard"} # {}
        PROVE  Cap'.next # NoEntry
    BY <1>1, <1>2, <1>4, <1>6, <2>3 DEF Reserved
  <2> QED
    BY <1>1, <2>1, <2>2, <2>3 DEF Reserved, OnStaging
<1> QED
  BY <1>9, <1>10

LEMMA DoingBasic ==
    ASSUME RoomChangesAssumption, Basic, NEW s, Doing(s)
    PROVE  Basic'
BY DoingTyped, DoingShape, DoingWorking, DoingNumbered, DoingCaptured DEF Basic

----------------------------------------------------------------------------
(* So does a step that fails.                                               *)

LEMMA FailedKeeps ==
    ASSUME RoomChangesAssumption, Basic, NEW s, Failed(s)
    PROVE  /\ AtHead(s) /\ EntriesStay /\ CapStays(s) /\ s \in Names /\ s \in Left
           /\ row' \in RowType /\ row'.gen = row.gen /\ row'.deps = row.deps /\ row'.config = row.config
           /\ row' = row \/ (s \in {"recheck", "compare"} /\ job.mode = "apply" /\ row'.rev = row.rev + 1)
           /\ spent' = spent
           /\ job' # Idle => /\ Kind' = Kind /\ Cap' = journal'[job.entry].cap /\ job'.entry = job.entry
                             /\ "reserve" \notin Left' /\ "reserveLayer" \notin Left'
                             /\ job'.mode = IF job.mode = "apply" THEN "catch" ELSE job.mode
                             /\ job'.mode # "catch" => Left' = Left \ {s}
                             /\ Left' \subseteq Left \/ job'.mode = "catch"
           /\ job.mode = "apply" => Left' = Elems(CatchSteps(Kind, s))
<1>1. AtHead(s) /\ s \in Names /\ s \in Left /\ job.entry \in DOMAIN journal
  BY DEF Failed, AtHead
<1>2. EntriesStay /\ CapStays(s)
  BY Captures2 DEF Basic
<1>3. /\ row' \in RowType /\ row'.gen = row.gen /\ row'.deps = row.deps /\ row'.config = row.config
      /\ row' = row \/ (s \in {"recheck", "compare"} /\ job.mode = "apply" /\ row'.rev = row.rev + 1)
      /\ spent' = spent
  <2>0. row \in RowType
    BY DEF Basic, Typed
  <2>1. CASE s \in {"recheck", "compare"} /\ trees[Cap.gen].edits # Cap.src
    <3>1. row' = [row EXCEPT !.rev = row.rev + 1] /\ spent' = spent
      BY <2>1 DEF Failed
    <3>2. job.mode = "apply"
      <4>1. s \in {"recheck", "compare"}
        BY <2>1
      <4>2. Shape /\ Working
        BY DEF Basic
      <4>3. CASE job.mode = "catch"
        BY <1>1, <4>1, <4>2, <4>3 DEF Shape
      <4>4. CASE job.mode \in {"rollback", "undo"}
        <5>1. PICK p \in Back(Kind) : s \in p
          BY <1>1, <4>2, <4>4 DEF Shape, Suffix
        <5>2. Kind \in Kinds /\ Undoable(Kind)
          BY <1>1, <4>2, <4>4 DEF AtHead, Working
        <5> QED
          BY <4>1, <5>1, <5>2, KindsAre DEF Back, Undoable
      <4> QED
        BY <1>1, <4>3, <4>4 DEF AtHead
    <3> QED
      BY <2>0, <2>1, <3>1, <3>2 DEF RowType
  <2>2. CASE ~(s \in {"recheck", "compare"} /\ trees[Cap.gen].edits # Cap.src)
    <3>1. Residue(s)
      BY <2>2 DEF Failed
    <3> QED
      BY <1>1, <2>0, <3>1, ResidueFrame
  <2> QED
    BY <2>1, <2>2
<1>4. job.mode = "apply" => Left' = Elems(CatchSteps(Kind, s)) /\ job'.mode = "catch" /\ job'.entry = job.entry
                            /\ "reserve" \notin Left' /\ "reserveLayer" \notin Left'
  <2>1. CASE job.mode = "apply"
    <3>1. job'.todo = CatchSteps(Kind, s) /\ job'.mode = "catch" /\ job'.entry = job.entry
      <4>1. s # "forget"
        BY <1>1, <2>1, Where DEF Basic
      <4> QED
        BY <2>1, <4>1 DEF Failed, Stopped
    <3>2. Left' = Elems(CatchSteps(Kind, s))
      BY <3>1 DEF Left
    <3> QED
      BY <3>1, <3>2, CatchList
  <2> QED
    BY <2>1
<1>5. job.mode # "apply" /\ job' # Idle => job'.mode = job.mode /\ job'.entry = job.entry /\ Left' = Left \ {s}
  BY DEF Failed, Stopped
<1>6. job.mode # "apply" => "reserve" \notin Left /\ "reserveLayer" \notin Left
  <2>2. Shape /\ Working
    BY DEF Basic
  <2>3. CASE job.mode = "catch"
    BY <2>2, <2>3 DEF Shape
  <2>4. CASE job.mode \in {"rollback", "undo"}
    <3>1. PICK p \in Back(Kind) : Left \subseteq p
      BY <2>2, <2>4 DEF Shape, Suffix
    <3>2. Kind \in Kinds /\ Undoable(Kind)
      BY <1>1, <2>2, <2>4 DEF AtHead, Working
    <3> QED
      BY <3>1, <3>2, KindsAre DEF Back, Undoable
  <2> QED
    BY <1>1, <2>3, <2>4 DEF AtHead
<1>7. job' # Idle => Kind' = Kind /\ Cap' = journal'[job.entry].cap
  BY <1>1, <1>2, <1>4, <1>5 DEF Kind, Cap, EntriesStay
<1> QED
  BY <1>1, <1>2, <1>3, <1>4, <1>5, <1>6, <1>7

LEMMA FailedShape ==
    ASSUME RoomChangesAssumption, Basic, NEW s, Failed(s)
    PROVE  Shape' /\ Working'
<1>1. /\ AtHead(s) /\ EntriesStay /\ s \in Left /\ job.entry \in DOMAIN journal
  BY FailedKeeps DEF AtHead
<1>2. Ordered(job'.todo) /\ Shape /\ Working
  BY DEF Failed, Basic
<1>3. CASE job' = Idle
  <2>1. Left' = {} /\ job'.mode = "idle"
    BY <1>3 DEF Idle, Left, Elems
  <2> QED
    BY <1>2, <2>1 DEF Shape, Working
<1>4. CASE job' # Idle /\ job.mode \in {"apply", "catch"}
  <2>1. job'.mode = "catch" /\ Kind' = Kind /\ job'.entry = job.entry
    BY <1>1, <1>4, FailedKeeps
  <2>2. Left' \subseteq IF Kind = "run" THEN {"resume", "unsnapshot", "revoke"} ELSE {"resume"}
    <3>1. CASE job.mode = "apply"
      BY <3>1, FailedKeeps, CatchList
    <3>2. CASE job.mode = "catch"
      <4>1. Left' \subseteq Left
        BY <1>4, <3>2 DEF Failed, Stopped
      <4> QED
        BY <1>2, <3>2, <4>1 DEF Shape
    <3> QED
      BY <1>4, <3>1, <3>2
  <2>3. Shape'
    BY <1>2, <2>1, <2>2 DEF Shape
  <2>4. journal'[job'.entry].status = journal[job.entry].status /\ Len(journal') = Len(journal)
    BY <1>1, <2>1 DEF EntriesStay
  <2>5. Working'
    BY <1>1, <1>2, <1>4, <2>1, <2>4 DEF Working, AtHead
  <2> QED
    BY <2>3, <2>5
<1>5. CASE job' # Idle /\ job.mode \in {"rollback", "undo"}
  <2>1. s = "forget" /\ job'.mode = job.mode /\ job'.entry = job.entry /\ Kind' = Kind /\ Left' = Left \ {s}
    BY <1>1, <1>5, FailedKeeps DEF Failed, Stopped
  <2>2. PICK p \in Back(Kind) : Suffix(p)
    BY <1>2, <1>5 DEF Shape
  <2>3. Kind \in Kinds /\ Undoable(Kind)
    BY <1>1, <1>2, <1>5 DEF AtHead, Working
  <2>4. OnStaging(Kind)
    BY <1>1, <1>2, <2>1, Where
  <2>5. p = {"fingerprint", "switchBack", "publishBack", "forget"}
    BY <1>1, <2>1, <2>2, <2>4 DEF Back, OnStaging, Suffix
  <2>6. Left = {"forget"}
    <3>1. \A t \in Left : t = "forget" \/ Rank["forget"] < Rank[t]
      BY <1>1, <2>1 DEF AtHead
    <3>2. Left \subseteq p
      BY <2>2 DEF Suffix
    <3>3. Rank["fingerprint"] = 1 /\ Rank["switchBack"] = 2 /\ Rank["publishBack"] = 3 /\ Rank["forget"] = 4
      BY DEF Rank
    <3>4. \A t \in Left : t = "forget"
      BY <2>5, <3>1, <3>2, <3>3
    <3> QED
      BY <1>1, <2>1, <3>4
  <2>7. Left' = {}
    BY <2>1, <2>6
  <2>8. p \in (Back(Kind))'
    BY <2>1, <2>2, <2>4 DEF Back, OnStaging
  <2>9. Suffix(p)'
    BY <2>7 DEF Suffix
  <2>10. Shape'
    BY <1>2, <1>5, <2>1, <2>8, <2>9 DEF Shape
  <2>11. journal'[job'.entry].status = journal[job.entry].status /\ Len(journal') = Len(journal)
    BY <1>1, <2>1 DEF EntriesStay
  <2>12. Working'
    BY <1>1, <1>2, <1>5, <2>1, <2>11 DEF Working, AtHead
  <2> QED
    BY <2>10, <2>12
<1> QED
  BY <1>1, <1>3, <1>4, <1>5 DEF AtHead

LEMMA FailedTyped ==
    ASSUME RoomChangesAssumption, Basic, NEW s, Failed(s)
    PROVE  Typed'
<1>1. /\ AtHead(s) /\ EntriesStay /\ s \in Names /\ job.entry \in DOMAIN journal /\ s \in Left
      /\ row' \in RowType /\ spent' = spent
  BY FailedKeeps DEF AtHead
<1>2. Typed /\ Numbered /\ Shape /\ Working /\ Reserved /\ Captured1
  BY DEF Basic
<1>3. /\ Cap.next \in Gens \cup {NoEntry} /\ row.gen \in Gens /\ row.config \in {"old", "new"}
  BY <1>1, <1>2, Entry DEF C, Cap, Typed, RowType
<1>4. \/ UNCHANGED <<trees, layers, web, data, snapshots, receipts>>
      \/ Residue(s)
  BY DEF Failed
<1>5. trees' \in TreeType
  <2>0. trees \in TreeType
    BY <1>2 DEF Typed
  <2>1. CASE trees' = trees
    BY <2>0, <2>1
  <2>2. CASE Residue(s)
    <3>1. \/ trees' = [trees EXCEPT ![Cap.next] = [state |-> "partial", edits |-> {}]]
          \/ trees' = [trees EXCEPT ![Cap.next] = [state |-> "none", edits |-> {}]]
          \/ trees' = trees
      BY <1>1, <2>2, ResidueIs, ResidueFrame, NoTreeIs
    <3>2. {} \in SUBSET Edits /\ "none" \in {"none", "partial", "whole"} /\ "partial" \in {"none", "partial", "whole"}
      OBVIOUS
    <3>3. /\ [trees EXCEPT ![Cap.next] = [state |-> "partial", edits |-> {}]] \in TreeType
          /\ [trees EXCEPT ![Cap.next] = [state |-> "none", edits |-> {}]] \in TreeType
      BY <2>0, <3>2, TreeSet
    <3> QED
      BY <2>0, <3>1, <3>3
  <2> QED
    BY <1>4, <2>1, <2>2
<1>6. layers' \in LayerType
  <2>0. layers \in LayerType
    BY <1>2 DEF Typed
  <2>1. layers' = layers \/ layers' = [layers EXCEPT ![Cap.layer] = "partial"]
    BY <1>1, <1>4, ResidueIs, ResidueFrame
  <2> QED
    BY <2>0, <2>1, LayerSet
<1>7. web' \in WebType
  <2>0. web \in WebType
    BY <1>2 DEF Typed
  <2>1. CASE s = "publishBack"
    <3>1. job.mode \in {"rollback", "undo"}
      BY <1>1, <1>2, <2>1, Where
    <3>2. Cap.next \in Gens
      BY <1>1, <1>2, <1>3, <2>1, <3>1 DEF Reserved
    <3>3. \/ web' = [mode |-> "running", gen |-> Cap.next, config |-> row.config]
          \/ web' = [web EXCEPT !.mode = "down"]
          \/ web' = web
      BY <1>4, <2>1, ResidueIs
    <3> QED
      BY <1>3, <2>0, <3>2, <3>3, WebSet
  <2>2. CASE s # "publishBack"
    <3>1. \/ web' = [mode |-> "running", gen |-> row.gen, config |-> row.config]
          \/ web' = [web EXCEPT !.mode = "down"]
          \/ web' = web
      BY <1>1, <1>4, <2>2, ResidueIs, ResidueFrame
    <3> QED
      BY <1>3, <2>0, <3>1, WebSet
  <2> QED
    BY <2>1, <2>2
<1>8. data' \in {"none", "empty", "half", "whole"}
  <2>0. data \in {"none", "empty", "half", "whole"}
    BY <1>2 DEF Typed
  <2>1. CASE s \in DataSteps
    BY <1>4, <2>0, <2>1, ResidueIs
  <2>2. CASE s \notin DataSteps
    BY <1>1, <1>4, <2>0, <2>2, ResidueFrame DEF DataSteps
  <2> QED
    BY <2>1, <2>2
<1>9. snapshots' \subseteq DOMAIN journal' /\ receipts' \subseteq DOMAIN journal'
  <2>0. snapshots \subseteq DOMAIN journal /\ receipts \subseteq DOMAIN journal /\ DOMAIN journal' = DOMAIN journal
    BY <1>1, <1>2 DEF Typed, EntriesStay
  <2>1. snapshots' = snapshots \/ snapshots' = snapshots \cup {job.entry}
    BY <1>1, <1>4, ResidueIs, ResidueFrame
  <2>2. receipts' = receipts \/ receipts' = receipts \cup {job.entry}
    <3>1. s # "revoke"
      BY DEF Failed
    <3> QED
      BY <1>1, <1>4, <3>1, ResidueIs, ResidueFrame
  <2> QED
    BY <1>1, <2>0, <2>1, <2>2
<1>10. /\ journal' \in Seq(Entries) /\ Len(journal') <= MaxEntries
       /\ job'.mode = "idle" => job' = Idle
       /\ job'.mode # "idle" => job'.entry \in DOMAIN journal'
  <2>1. journal' \in Seq(Entries) /\ Len(journal') <= MaxEntries /\ DOMAIN journal' = DOMAIN journal
    BY <1>1, <1>2 DEF EntriesStay, Typed
  <2>2. job' # Idle => job'.mode # "idle" /\ job'.entry = job.entry
    BY <1>1, FailedKeeps DEF AtHead
  <2>3. Idle.mode = "idle"
    BY DEF Idle
  <2> QED
    BY <1>1, <2>1, <2>2, <2>3
<1>11. job' \in JobType /\ seen' \subseteq Edits /\ crashes' \in 0 .. MaxCrashes
  BY <1>2 DEF Failed, Typed
<1> QED
  BY <1>1, <1>2, <1>5, <1>6, <1>7, <1>8, <1>9, <1>10, <1>11 DEF Typed

LEMMA FailedBasic ==
    ASSUME RoomChangesAssumption, Basic, NEW s, Failed(s)
    PROVE  Basic'
<1>1. /\ AtHead(s) /\ EntriesStay /\ CapStays(s) /\ s \in Left /\ job.entry \in DOMAIN journal
      /\ row'.gen = row.gen /\ row'.deps = row.deps /\ spent' = spent
  BY FailedKeeps DEF AtHead
<1>2. Typed /\ Numbered /\ Distinct /\ Shape /\ Working /\ Reserved /\ Captured1
  BY DEF Basic
<1>a. s \notin {"reserve", "reserveLayer"} \/ job.mode = "apply"
  BY <1>1, <1>2, Where
<1>3. \A i \in DOMAIN journal :
        /\ C(i)'.gen = C(i).gen /\ C(i)'.deps = C(i).deps
        /\ C(i)'.next = C(i).next /\ C(i)'.layer = C(i).layer
        /\ journal'[i].kind = journal[i].kind
        /\ i # job.entry \/ s # "switch" => C(i)'.switched = C(i).switched
  <2>1. s \in {"reserve", "reserveLayer"} => journal' = journal
    BY <1>1, ResidueFrame DEF Failed, AtHead
  <2> QED
    BY <1>1, <2>1 DEF EntriesStay, CapStays, C, Cap
<1>4. DOMAIN journal' = DOMAIN journal /\ Len(journal') = Len(journal)
  BY <1>1 DEF EntriesStay
<1>5. "reserve" \notin Left' /\ "reserveLayer" \notin Left'
  <2>1. CASE job' = Idle
    BY <2>1 DEF Idle, Left, Elems
  <2> QED
    BY <2>1, FailedKeeps
<1>6. Numbered'
  BY <1>1, <1>2, <1>3, <1>4, <1>5 DEF Numbered
<1>7. Distinct'
  BY <1>2, <1>3, <1>4 DEF Distinct
<1>8. s = "switch" => Cap.next # NoEntry
  <2>1. s = "switch" => job.mode = "apply" /\ OnStaging(Kind) /\ "reserve" \notin Left
    BY <1>1, <1>2, Where DEF AtHead, Rank
  <2> QED
    BY <1>2, <2>1 DEF Reserved
<1>9. Captured1'
  <2>1. \A i \in DOMAIN journal : C(i)'.switched => C(i)'.next # NoEntry
    BY <1>2, <1>3, <1>8 DEF Captured1, C, Cap
  <2> QED
    BY <1>2, <1>3, <1>4, <2>1 DEF Captured1, OnStaging
<1>10. Reserved'
  <2>1. CASE job'.mode \notin {"apply", "rollback", "undo"}
    BY <2>1 DEF Reserved
  <2>2. CASE job'.mode \in {"apply", "rollback", "undo"}
    <3>1. job' # Idle
      BY <2>2 DEF Idle
    <3>2. job.mode \in {"rollback", "undo"} /\ job'.mode = job.mode /\ Left' \subseteq Left /\ job'.entry = job.entry
      BY <1>1, <2>2, <3>1, FailedKeeps DEF AtHead
    <3>3. Cap'.next = Cap.next
      BY <1>1, <1>3, <3>2 DEF C, Cap
    <3> QED
      BY <1>2, <3>2, <3>3 DEF Reserved
  <2> QED
    BY <2>1, <2>2
<1> QED
  BY <1>6, <1>7, <1>9, <1>10, FailedTyped, FailedShape DEF Basic

----------------------------------------------------------------------------
(* The beginning and the end of a change.                                   *)

\* The status of an entry changes and nothing else in the journal.
Marked(e, q) ==
    /\ journal' \in Seq(Entries) /\ DOMAIN journal' = DOMAIN journal /\ Len(journal') = Len(journal)
    /\ journal'[e].status = q
    /\ \A i \in DOMAIN journal :
          /\ journal'[i].cap = C(i) /\ journal'[i].kind = journal[i].kind
          /\ i # e => journal'[i].status = journal[i].status

LEMMA MarkIs ==
    ASSUME Typed, NEW e \in DOMAIN journal, NEW q \in Statuses,
           journal' = [journal EXCEPT ![e].status = q]
    PROVE  Marked(e, q)
<1>1. journal' = [journal EXCEPT ![e] = [journal[e] EXCEPT !.status = q]]
  OBVIOUS
<1>2. journal[e] \in Entries /\ journal \in Seq(Entries)
  BY Entry DEF Typed
<1>3. [journal[e] EXCEPT !.status = q] \in Entries
  BY <1>2 DEF Entries
<1>4. journal' \in Seq(Entries) /\ DOMAIN journal' = DOMAIN journal /\ Len(journal') = Len(journal)
  BY <1>1, <1>2, <1>3
<1>5. journal'[e] = [journal[e] EXCEPT !.status = q]
  BY <1>1, <1>2
<1>6. journal'[e].cap = C(e) /\ journal'[e].kind = journal[e].kind /\ journal'[e].status = q
  BY <1>2, <1>5 DEF Entries, C
<1>7. \A i \in DOMAIN journal : i # e => journal'[i] = journal[i]
  BY <1>1, <1>2
<1>8. \A i \in DOMAIN journal : /\ journal'[i].cap = C(i) /\ journal'[i].kind = journal[i].kind
                                /\ i # e => journal'[i].status = journal[i].status
  BY <1>6, <1>7 DEF C
<1> QED
  BY <1>4, <1>6, <1>8 DEF Marked

\* The kinds and the captures of the entries stay.
CapsStay ==
    /\ DOMAIN journal' = DOMAIN journal /\ Len(journal') = Len(journal)
    /\ \A i \in DOMAIN journal : journal'[i].cap = C(i) /\ journal'[i].kind = journal[i].kind

\* A new entry captures no number that was reserved for it.
Grown ==
    /\ journal' \in Seq(Entries) /\ Len(journal') = Len(journal) + 1
    /\ \A i \in DOMAIN journal : journal'[i].cap = C(i) /\ journal'[i].kind = journal[i].kind
    /\ LET c == journal'[Len(journal) + 1].cap IN
          /\ c.next = NoEntry /\ c.layer = NoEntry /\ c.switched = FALSE
          /\ c.gen <= spent.gen /\ c.deps <= spent.deps

LEMMA StayNumbers ==
    ASSUME Basic, CapsStay, row'.gen = row.gen, row'.deps = row.deps, spent' = spent,
           "reserve" \notin Left', "reserveLayer" \notin Left'
    PROVE  Numbered' /\ Distinct' /\ Captured1'
<1>1. \A i \in DOMAIN journal : C(i)' = C(i)
  BY DEF CapsStay, C
<1>2. DOMAIN journal' = DOMAIN journal /\ Len(journal') = Len(journal)
      /\ \A i \in DOMAIN journal : journal'[i].kind = journal[i].kind
  BY DEF CapsStay
<1>3. Numbered'
  BY <1>1, <1>2 DEF Basic, Numbered
<1>4. Distinct'
  BY <1>1, <1>2 DEF Basic, Distinct
<1>5. Captured1'
  BY <1>1, <1>2 DEF Basic, Captured1, OnStaging
<1> QED
  BY <1>3, <1>4, <1>5

LEMMA GrownNumbers ==
    ASSUME RoomChangesAssumption, Basic, Grown, row'.gen = row.gen, row'.deps = row.deps, spent' = spent
    PROVE  Numbered' /\ Distinct' /\ Captured1'
<1>0. PICK n \in Nat : n = Len(journal) + 1
  BY Length DEF Basic
<1>1. \A i \in DOMAIN journal : C(i)' = C(i) /\ journal'[i].kind = journal[i].kind
  BY DEF Grown, C
<1>2. /\ Len(journal) \in Nat /\ DOMAIN journal = 1 .. Len(journal)
      /\ spent.gen \in Nat /\ spent.deps \in Nat
  BY Length DEF Basic
<1>3. /\ DOMAIN journal' = DOMAIN journal \cup {n} /\ n \notin DOMAIN journal /\ Len(journal') = n
      /\ n > Len(journal) /\ n \in Nat
  <2>1. journal' \in Seq(Entries) /\ Len(journal') = n
    BY <1>0 DEF Grown
  <2>2. DOMAIN journal' = 1 .. n
    BY <2>1
  <2> QED
    BY <1>0, <1>2, <2>1, <2>2
<1>4. /\ C(n)'.next = NoEntry /\ C(n)'.layer = NoEntry /\ C(n)'.switched = FALSE
      /\ C(n)'.gen <= spent.gen /\ C(n)'.deps <= spent.deps
  <2>1. C(n)' = journal'[n].cap
    BY DEF C
  <2> QED
    BY <1>0, <2>1 DEF Grown
<1>5. Numbered'
  <2>0. Numbered
    BY DEF Basic
  <2>1. /\ row'.gen <= spent'.gen /\ row'.deps <= spent'.deps
    BY <2>0 DEF Numbered
  <2>2. /\ spent'.gen < Len(journal') /\ spent'.deps < Len(journal')
    BY <1>2, <1>3, <2>0 DEF Numbered
  <2>3. \A i \in DOMAIN journal' :
          /\ C(i)'.gen <= spent'.gen /\ C(i)'.deps <= spent'.deps
          /\ C(i)'.next # NoEntry => C(i)'.gen < C(i)'.next /\ C(i)'.next <= spent'.gen
          /\ C(i)'.layer # NoEntry => C(i)'.deps < C(i)'.layer /\ C(i)'.layer <= spent'.deps
    <3> TAKE i \in DOMAIN journal'
    <3>1. CASE i = n
      BY <1>4, <3>1
    <3>2. CASE i \in DOMAIN journal
      BY <1>1, <2>0, <3>2 DEF Numbered
    <3> QED
      BY <1>3, <3>1, <3>2
  <2>4. spent'.gen <= Len(journal') /\ spent'.deps <= Len(journal')
    BY <1>2, <1>3, <2>2
  <2> QED
    BY <2>1, <2>2, <2>3, <2>4 DEF Numbered
<1>6. Distinct'
  <2>1. ASSUME NEW i \in DOMAIN journal', NEW j \in DOMAIN journal', i # j
        PROVE  /\ C(i)'.next # NoEntry => C(i)'.next # C(j)'.next
               /\ C(i)'.layer # NoEntry => C(i)'.layer # C(j)'.layer
    <3>1. CASE i = n \/ j = n
      BY <1>4, <3>1
    <3>2. CASE i # n /\ j # n
      BY <1>1, <1>3, <2>1, <3>2 DEF Basic, Distinct
    <3> QED
      BY <3>1, <3>2
  <2> QED
    BY <2>1 DEF Distinct
<1>7. Captured1'
  <2>1. ASSUME NEW i \in DOMAIN journal'
        PROVE  /\ ~OnStaging(journal'[i].kind) => C(i)'.next = NoEntry
               /\ journal'[i].kind = "install" => (C(i)'.next = NoEntry <=> C(i)'.layer = NoEntry)
               /\ journal'[i].kind = "normalize" => C(i)'.layer = NoEntry
               /\ C(i)'.switched => C(i)'.next # NoEntry
    <3>1. CASE i = n
      BY <1>4, <3>1
    <3>2. CASE i # n
      BY <1>1, <1>3, <2>1, <3>2 DEF Basic, Captured1
    <3> QED
      BY <3>1, <3>2
  <2> QED
    BY <2>1 DEF Captured1, OnStaging
<1> QED
  BY <1>5, <1>6, <1>7

NoneLeft == job'.todo = <<>>

LEMMA NoneLeftIs ==
    ASSUME NoneLeft
    PROVE  Left' = {} /\ Ordered(job'.todo)
BY DEF NoneLeft, Left, Elems, Ordered

LEMMA IdleIs == Idle.mode = "idle" /\ Idle.todo = <<>> /\ Idle.entry = 0 /\ Idle \in JobType
BY DEF Idle, JobType, Modes

\* The engine has nothing to do, or an apply that is over is verified.
LEMMA RestingShape ==
    ASSUME NoneLeft, job'.mode \in {"idle", "verify", "unrevoked"}
    PROVE  Shape' /\ Reserved'
BY NoneLeftIs DEF Shape, Reserved

\* Where the lists of an undo begin.
LEMMA BackBegins ==
    ASSUME RoomChangesAssumption, Typed, NEW e \in DOMAIN journal, journal[e].kind \in Kinds, Undoable(journal[e].kind),
           NEW m \in {"rollback", "undo"}, job' \in [mode : {m}, entry : {e}, todo : {UndoSteps(journal[e].kind, C(e))}],
           journal'[e].kind = journal[e].kind, journal'[e].cap = C(e), web' = web
    PROVE  /\ job' \in JobType /\ Shape' /\ Reserved' /\ Kind' = journal[e].kind /\ Cap' = C(e)
           /\ BackFor(journal[e].kind, C(e), Left')
           /\ "reserve" \notin Left' /\ "reserveLayer" \notin Left'
<1> DEFINE k == journal[e].kind
           c == C(e)
           q == UndoSteps(k, c)
<1>1. job'.mode = m /\ job'.entry = e /\ job'.todo = q
  OBVIOUS
<1>2. IsList(q, Elems(q)) /\ BackFor(k, c, Elems(q))
  BY BackList
<1>3. q \in Seq(Names) /\ Ordered(q)
  BY <1>2 DEF IsList
<1>4. e \in Nat
  BY DEF Typed
<1>5. job' \in JobType
  BY <1>1, <1>3, <1>4 DEF JobType, Modes
<1>6. Left' = Elems(q) /\ Kind' = k /\ Cap' = c
  BY <1>1 DEF Left, Kind, Cap
<1>7. BackFor(k, c, Left')
  BY <1>2, <1>6
<1> HIDE DEF q, c, k
<1>8. k \in Kinds /\ Undoable(k)
  BY DEF k
<1>9. (Back(Kind))' = Back(k)
  BY <1>6 DEF Back, Awake
<1>10. \E p \in Back(k) : Suffix(p)'
  <2>1. CASE k \in {"install", "normalize"} /\ Left' = {}
    <3>1. {"refuse"} \in Back(k) /\ Suffix({"refuse"})'
      BY <2>1 DEF Back, Suffix
    <3> QED
      BY <3>1
  <2>2. CASE k \in {"install", "normalize"} /\ Left' = {"discard"}
    <3>1. {"switchBack", "discard"} \in Back(k) /\ Suffix({"switchBack", "discard"})'
      BY <2>2 DEF Back, Suffix, Rank
    <3> QED
      BY <3>1
  <2>3. CASE Left' \in Back(k)
    BY <2>3 DEF Suffix
  <2>4. k \in {"install", "normalize"} => \/ Left' = {} \/ Left' = {"discard"} \/ Left' \in Back(k)
    BY <1>7 DEF BackFor, Back
  <2> QED
    BY <1>7, <2>1, <2>2, <2>3, <2>4 DEF BackFor
<1>11. Ordered(job'.todo)
  BY <1>1, <1>3
<1>12. Shape'
  BY <1>1, <1>6, <1>9, <1>10, <1>11 DEF Shape
<1>13. Reserved'
  <2>1. Left' \cap {"publishBack", "forget", "discard"} # {} => c.next # NoEntry
    <3>1. CASE k \in {"install", "normalize"}
      BY <1>7, <3>1 DEF BackFor
    <3>2. CASE k \notin {"install", "normalize"}
      <4>1. Left' \in Back(k)
        BY <1>7, <3>2 DEF BackFor
      <4> QED
        BY <1>8, <3>2, <4>1, KindsAre DEF Back, Undoable
    <3> QED
      BY <3>1, <3>2
  <2> QED
    BY <1>1, <1>6, <2>1 DEF Reserved
<1>14. "reserve" \notin Left' /\ "reserveLayer" \notin Left'
  <2>1. PICK p \in Back(k) : Left' \subseteq p
    BY <1>10 DEF Suffix
  <2> QED
    BY <1>8, <2>1, KindsAre DEF Back, Undoable
<1> QED
  BY <1>5, <1>6, <1>7, <1>12, <1>13, <1>14 DEF k, c

----------------------------------------------------------------------------
(* The other actions keep what is basic.                                    *)

Outside == <<trees, layers, web, data, snapshots, receipts, seen, crashes>>

LEMMA ExecuteIs ==
    ASSUME RoomChangesAssumption, Basic, NEW k \in Kinds, Execute(k)
    PROVE  /\ job = Idle /\ Grown /\ Admissible(k) /\ UNCHANGED <<row, spent>> /\ UNCHANGED Outside
           /\ Len(journal') <= MaxEntries /\ DOMAIN journal' = DOMAIN journal \cup {Len(journal) + 1}
           /\ job' \in JobType /\ job'.mode = "apply" /\ job'.entry = Len(journal) + 1
           /\ job'.entry \in DOMAIN journal' /\ job'.entry \notin DOMAIN journal
           /\ Left' = Plan(k) /\ Ordered(job'.todo) /\ Kind' = k
           /\ \A i \in DOMAIN journal : journal'[i] = journal[i]
           /\ journal'[job'.entry].status = "pending"
           /\ Cap' = [NoCapture EXCEPT !.gen = row.gen, !.deps = row.deps, !.rev = row.rev,
                                       !.dump = IF DumpsFirst(k) THEN data ELSE "no"]
           /\ Cap'.gen = row.gen /\ Cap'.deps = row.deps /\ Cap'.rev = row.rev
           /\ Cap'.next = NoEntry /\ Cap'.layer = NoEntry /\ Cap'.switched = FALSE /\ Cap'.src = {} /\ Cap'.out = {}
           /\ Cap'.dump = IF DumpsFirst(k) THEN data ELSE "no"
<1> DEFINE c == [NoCapture EXCEPT !.gen = row.gen, !.deps = row.deps, !.rev = row.rev,
                                  !.dump = IF DumpsFirst(k) THEN data ELSE "no"]
           E == [kind |-> k, status |-> "pending", cap |-> c]
<1>0. PICK n \in Nat : n = Len(journal) + 1
  BY Length DEF Basic
<1>1. /\ job = Idle /\ Len(journal) < MaxEntries /\ Admissible(k) /\ journal' = Append(journal, E)
      /\ job' = [mode |-> "apply", entry |-> n, todo |-> ApplySteps(k)]
      /\ UNCHANGED <<row, spent>> /\ UNCHANGED Outside
  BY <1>0 DEF Execute, Outside
<1>2. /\ row.gen \in Gens /\ row.deps \in Gens /\ row.rev \in Nat /\ data \in {"none", "empty", "half", "whole"}
      /\ row.gen <= spent.gen /\ row.deps <= spent.deps
      /\ journal \in Seq(Entries) /\ Len(journal) \in Nat /\ DOMAIN journal = 1 .. Len(journal)
  BY Length DEF Basic, Typed, Numbered
<1>3. NoCapture \in Captures
  BY Numbers DEF NoCapture, Captures
<1>4. /\ c \in Captures /\ c.gen = row.gen /\ c.deps = row.deps /\ c.rev = row.rev
      /\ c.dump = IF DumpsFirst(k) THEN data ELSE "no"
  <2> DEFINE d == IF DumpsFirst(k) THEN data ELSE "no"
  <2>1. d \in {"no", "none", "empty", "half", "whole"}
    BY <1>2
  <2>2. c = [NoCapture EXCEPT !.gen = row.gen, !.deps = row.deps, !.rev = row.rev, !.dump = d]
    OBVIOUS
  <2> HIDE DEF d
  <2>3. c \in Captures /\ c.gen = row.gen /\ c.deps = row.deps /\ c.rev = row.rev /\ c.dump = d
    BY <1>2, <1>3, <2>1, <2>2 DEF Captures
  <2> QED
    BY <2>3 DEF d
<1>5. c.next = NoEntry /\ c.layer = NoEntry /\ c.switched = FALSE /\ c.src = {} /\ c.out = {}
  BY DEF NoCapture
<1> HIDE DEF c
<1>6. E \in Entries /\ E.kind = k /\ E.status = "pending" /\ E.cap = c
  BY <1>4 DEF Entries, Statuses
<1> HIDE DEF E
<1>7. /\ journal' \in Seq(Entries) /\ Len(journal') = n /\ journal'[n] = E
      /\ \A i \in DOMAIN journal : journal'[i] = journal[i]
  BY <1>0, <1>1, <1>2, <1>6
<1>8. /\ DOMAIN journal' = DOMAIN journal \cup {n} /\ n \notin DOMAIN journal /\ n \in DOMAIN journal' /\ n <= MaxEntries
  BY <1>0, <1>1, <1>2, <1>7, Numbers
<1>9. Grown
  BY <1>0, <1>2, <1>4, <1>5, <1>6, <1>7 DEF Grown, C
<1>10. job'.mode = "apply" /\ job'.entry = n /\ job'.todo = ApplySteps(k)
  BY <1>1
<1>11. Kind' = k /\ Cap' = c
  BY <1>6, <1>7, <1>10 DEF Kind, Cap
<1>12. IsList(ApplySteps(k), Plan(k))
  BY <1>1, ApplyList DEF Admissible
<1>13. Left' = Plan(k) /\ Ordered(job'.todo) /\ job'.todo \in Seq(Names)
  BY <1>10, <1>12 DEF IsList, Left
<1>14. job' \in JobType
  BY <1>1, <1>10, <1>13 DEF JobType, Modes
<1>15. Cap' = [NoCapture EXCEPT !.gen = row.gen, !.deps = row.deps, !.rev = row.rev,
                                !.dump = IF DumpsFirst(k) THEN data ELSE "no"]
  BY <1>11 DEF c
<1> QED
  BY <1>0, <1>1, <1>4, <1>5, <1>6, <1>7, <1>8, <1>9, <1>10, <1>11, <1>13, <1>14, <1>15

LEMMA ExecuteBasic ==
    ASSUME RoomChangesAssumption, Basic, NEW k \in Kinds, Execute(k)
    PROVE  Basic'
<1>1. /\ Grown /\ UNCHANGED <<row, spent>> /\ UNCHANGED Outside
      /\ Len(journal') <= MaxEntries /\ DOMAIN journal' = DOMAIN journal \cup {Len(journal) + 1}
      /\ job' \in JobType /\ job'.mode = "apply" /\ job'.entry \in DOMAIN journal'
      /\ Left' = Plan(k) /\ Ordered(job'.todo) /\ Kind' = k /\ journal'[job'.entry].status = "pending"
  BY ExecuteIs
<1>2. Typed'
  BY <1>1 DEF Basic, Typed, Grown, Outside
<1>3. (Plan(k))' = Plan(k)
  BY <1>1 DEF Plan, Awake, Outside
<1>4. Shape'
  <2>1. Suffix(Plan(Kind))'
    BY <1>1, <1>3 DEF Suffix
  <2> QED
    BY <1>1, <2>1 DEF Shape
<1>5. Working'
  BY <1>1 DEF Working
<1>6. Numbered' /\ Distinct' /\ Captured1'
  BY <1>1, GrownNumbers
<1>7. Reserved'
  <2>1. /\ OnStaging(k) => "reserve" \in Plan(k)
        /\ k \in {"clean", "reset", "renew"} => "reserveLayer" \in Plan(k)
    BY DEF OnStaging, Plan, Whole, Web
  <2> QED
    BY <1>1, <2>1 DEF Reserved, OnStaging
<1> QED
  BY <1>2, <1>4, <1>5, <1>6, <1>7 DEF Basic

LEMMA NoMore ==
    ASSUME Typed, job.todo = <<>>
    PROVE  Left = {}
BY DEF Left, Elems

\* apply returned.
LEMMA AppliedIs ==
    ASSUME RoomChangesAssumption, Basic, Applied
    PROVE  /\ Marked(job.entry, "applied") /\ UNCHANGED <<row, spent>> /\ UNCHANGED Outside
           /\ job.mode = "apply" /\ Left = {} /\ job.entry \in DOMAIN journal
           /\ job' \in JobType /\ job'.mode = "verify" /\ job'.entry = job.entry /\ NoneLeft
<1>1. /\ job.mode = "apply" /\ job.todo = <<>> /\ journal' = [journal EXCEPT ![job.entry].status = "applied"]
      /\ job' = [job EXCEPT !.mode = "verify"] /\ UNCHANGED <<row, spent>> /\ UNCHANGED Outside
  BY DEF Applied, Outside, Status
<1>2. job.entry \in DOMAIN journal /\ job \in JobType /\ Typed
  BY <1>1 DEF Basic, Typed
<1>3. "applied" \in Statuses
  BY DEF Statuses
<1>4. Marked(job.entry, "applied")
  BY <1>1, <1>2, <1>3, MarkIs
<1>5. job' \in JobType /\ job'.mode = "verify" /\ job'.entry = job.entry /\ NoneLeft
  BY <1>1, <1>2 DEF JobType, Modes, NoneLeft
<1> QED
  BY <1>1, <1>2, <1>4, <1>5, NoMore

\* A verification, a rollback or a change without one ends the job.
Ends(q) ==
    /\ Marked(job.entry, q) /\ UNCHANGED Outside /\ UNCHANGED spent
    /\ row' = [row EXCEPT !.rev = IF job.mode = "verify" /\ Kind = "clean" THEN row.rev + 1 ELSE row.rev]
    /\ job' = Idle /\ NoneLeft /\ job.entry \in DOMAIN journal /\ Left = {}
    /\ \/ job.mode = "verify" /\ q \in {"verified", "applied"}
       \/ job.mode = "rollback" /\ q = "rolled-back"
       \/ job.mode = "catch" /\ q = "failed" /\ ~MayRollback(Kind, Cap)
       \/ job.mode = "unrevoked" /\ q = "unrevoked"

\* A rollback begins.
Returns(q) ==
    /\ Marked(job.entry, q) /\ UNCHANGED Outside /\ UNCHANGED <<row, spent>>
    /\ job.entry \in DOMAIN journal /\ Left = {}
    /\ \/ job.mode = "catch" /\ q = "failed" /\ MayRollback(Kind, Cap)
       \/ job.mode = "verify" /\ q = "applied" /\ Kind = "domain"
    /\ Kind \in Kinds /\ Undoable(Kind)
    /\ job' \in [mode : {"rollback"}, entry : {job.entry}, todo : {UndoSteps(Kind, Cap)}]

LEMMA SameRow ==
    ASSUME Typed
    PROVE  row = [row EXCEPT !.rev = row.rev]
BY DEF Typed, RowType

LEMMA MarkSame ==
    ASSUME Typed, NEW e \in DOMAIN journal, journal' = journal
    PROVE  Marked(e, journal[e].status)
BY DEF Typed, Marked, C

LEMMA VerifiedIs ==
    ASSUME RoomChangesAssumption, Basic, Verified
    PROVE  Ends("verified") \/ Ends("applied") \/ Returns("applied")
<1>1. job.mode = "verify" /\ UNCHANGED <<spent, trees, layers, web, data, snapshots, receipts, seen, crashes>>
  BY DEF Verified
<1>2. /\ job.entry \in DOMAIN journal /\ job \in JobType /\ Typed /\ Kind \in Kinds /\ Left = {}
      /\ journal[job.entry].status = "applied" /\ Shape
  BY <1>1 DEF Basic, Typed, Working, Shape
<1>3. UNCHANGED Outside /\ UNCHANGED spent
  BY <1>1 DEF Outside
<1>4. PICK ok \in BOOLEAN :
          \/ ok /\ journal' = Status("verified") /\ job' = Idle /\ AfterWork
          \/ ~ok /\ Kind # "domain" /\ journal' = Status("applied") /\ job' = Idle /\ AfterWork
          \/ /\ ~ok /\ Kind = "domain" /\ UNCHANGED <<row, journal>>
             /\ job' = [job EXCEPT !.mode = "rollback", !.todo = UndoSteps(Kind, Cap)]
  BY DEF Verified
<1>5. AfterWork => row' = [row EXCEPT !.rev = IF job.mode = "verify" /\ Kind = "clean" THEN row.rev + 1 ELSE row.rev]
  BY <1>1 DEF AfterWork
<1>6. ASSUME NEW q \in {"verified", "applied"}, journal' = Status(q), job' = Idle, AfterWork
      PROVE  Ends(q)
  <2>1. q \in Statuses /\ journal' = [journal EXCEPT ![job.entry].status = q]
    BY <1>6 DEF Statuses, Status
  <2>2. Marked(job.entry, q)
    BY <1>2, <2>1, MarkIs
  <2> QED
    BY <1>1, <1>2, <1>3, <1>5, <1>6, <2>2, IdleIs DEF Ends, NoneLeft
<1>7. ASSUME Kind = "domain", UNCHANGED <<row, journal>>,
             job' = [job EXCEPT !.mode = "rollback", !.todo = UndoSteps(Kind, Cap)]
      PROVE  Returns("applied")
  <2>1. Marked(job.entry, "applied")
    BY <1>2, <1>7, MarkSame
  <2>2. job' \in [mode : {"rollback"}, entry : {job.entry}, todo : {UndoSteps(Kind, Cap)}]
    BY <1>2, <1>7 DEF JobType
  <2>3. Undoable(Kind)
    BY <1>7 DEF Undoable
  <2> QED
    BY <1>1, <1>2, <1>3, <1>7, <2>1, <2>2, <2>3 DEF Returns
<1> QED
  BY <1>4, <1>6, <1>7

LEMMA ApplyFailedIs ==
    ASSUME RoomChangesAssumption, Basic, ApplyFailed
    PROVE  Ends("failed") \/ Ends("unrevoked") \/ Returns("failed")
<1> DEFINE q == IF job.mode = "unrevoked" THEN "unrevoked" ELSE "failed"
<1>1. /\ job.mode \in {"catch", "unrevoked"} /\ job.todo = <<>> /\ journal' = [journal EXCEPT ![job.entry].status = q]
      /\ UNCHANGED <<row, spent>> /\ UNCHANGED Outside
      /\ job' = IF MayRollback(Kind, Cap)
                THEN [job EXCEPT !.mode = "rollback", !.todo = UndoSteps(Kind, Cap)]
                ELSE Idle
  BY DEF ApplyFailed, Outside, Status
<1>2. job.entry \in DOMAIN journal /\ job \in JobType /\ Typed /\ Kind \in Kinds /\ Left = {}
  BY <1>1, NoMore DEF Basic, Typed, Working
<1>3. q \in Statuses /\ (job.mode = "catch" => q = "failed") /\ (job.mode = "unrevoked" => q = "unrevoked")
  BY DEF Statuses
<1>7. job.mode = "unrevoked" => ~MayRollback(Kind, Cap)
  BY DEF Basic, Working, MayRollback, Undoable
<1> HIDE DEF q
<1>4. Marked(job.entry, q)
  BY <1>1, <1>2, <1>3, MarkIs
<1>5. CASE MayRollback(Kind, Cap)
  <2>1. job' \in [mode : {"rollback"}, entry : {job.entry}, todo : {UndoSteps(Kind, Cap)}]
    BY <1>1, <1>2, <1>5 DEF JobType
  <2>2. Undoable(Kind) /\ job.mode = "catch" /\ q = "failed"
    BY <1>1, <1>3, <1>5, <1>7 DEF MayRollback
  <2> QED
    BY <1>1, <1>2, <1>4, <1>5, <2>1, <2>2 DEF Returns
<1>6. CASE ~MayRollback(Kind, Cap)
  <2>1. row' = [row EXCEPT !.rev = IF job.mode = "verify" /\ Kind = "clean" THEN row.rev + 1 ELSE row.rev]
    BY <1>1, <1>2, SameRow
  <2>2. \/ job.mode = "catch" /\ q = "failed"
        \/ job.mode = "unrevoked" /\ q = "unrevoked"
    BY <1>1, <1>3
  <2>3. Ends(q)
    BY <1>1, <1>2, <1>4, <1>6, <2>1, <2>2, IdleIs DEF Ends, NoneLeft
  <2> QED
    BY <2>2, <2>3
<1> QED
  BY <1>5, <1>6

LEMMA RolledBackIs ==
    ASSUME RoomChangesAssumption, Basic, RolledBack
    PROVE  Ends("rolled-back")
<1>1. /\ job.mode = "rollback" /\ job.todo = <<>> /\ journal' = [journal EXCEPT ![job.entry].status = "rolled-back"]
      /\ UNCHANGED <<row, spent>> /\ UNCHANGED Outside /\ job' = Idle
  BY DEF RolledBack, Outside, Status
<1>2. job.entry \in DOMAIN journal /\ job \in JobType /\ Typed /\ Left = {}
  BY <1>1, NoMore DEF Basic, Typed, Working
<1>3. "rolled-back" \in Statuses
  BY DEF Statuses
<1>4. Marked(job.entry, "rolled-back")
  BY <1>1, <1>2, <1>3, MarkIs
<1>5. row' = [row EXCEPT !.rev = IF job.mode = "verify" /\ Kind = "clean" THEN row.rev + 1 ELSE row.rev]
  BY <1>1, <1>2, SameRow
<1> QED
  BY <1>1, <1>2, <1>4, <1>5, IdleIs DEF Ends, NoneLeft

LEMMA MarkedKeeps ==
    ASSUME Typed, NEW e \in DOMAIN journal, NEW q, Marked(e, q)
    PROVE  /\ CapsStay /\ journal' \in Seq(Entries)
           /\ \A i \in DOMAIN journal : C(i)' = C(i)
BY DEF Marked, CapsStay, C

LEMMA RevSet ==
    ASSUME row \in RowType, NEW n \in Nat, row' = [row EXCEPT !.rev = n]
    PROVE  row' \in RowType /\ row'.gen = row.gen /\ row'.deps = row.deps /\ row'.rev = n /\ row'.config = row.config
BY DEF RowType

LEMMA EndsKeeps ==
    ASSUME RoomChangesAssumption, Basic, NEW q, Ends(q)
    PROVE  /\ row' \in RowType /\ row'.gen = row.gen /\ row'.deps = row.deps /\ row'.config = row.config
           /\ row'.rev = IF job.mode = "verify" /\ Kind = "clean" THEN row.rev + 1 ELSE row.rev
<1>1. row \in RowType /\ row.rev \in Nat
  BY Length DEF Basic, Typed
<1>2. PICK n \in Nat : n = IF job.mode = "verify" /\ Kind = "clean" THEN row.rev + 1 ELSE row.rev
  BY <1>1
<1>3. row' = [row EXCEPT !.rev = n]
  BY <1>2 DEF Ends
<1> QED
  BY <1>1, <1>2, <1>3, RevSet

LEMMA AppliedBasic ==
    ASSUME RoomChangesAssumption, Basic, Applied
    PROVE  Basic'
<1>1. /\ Marked(job.entry, "applied") /\ UNCHANGED <<row, spent>> /\ UNCHANGED Outside
      /\ job.mode = "apply" /\ Left = {} /\ job.entry \in DOMAIN journal
      /\ job' \in JobType /\ job'.mode = "verify" /\ job'.entry = job.entry /\ NoneLeft
  BY AppliedIs
<1>2. CapsStay /\ journal' \in Seq(Entries)
  BY <1>1, MarkedKeeps DEF Basic
<1>3. Typed'
  BY <1>1, <1>2 DEF Basic, Typed, Marked, Outside
<1>4. Shape' /\ Reserved'
  BY <1>1, RestingShape
<1>5. Numbered' /\ Distinct' /\ Captured1'
  BY <1>1, <1>2, NoneLeftIs, StayNumbers
<1>6. Working'
  BY <1>1 DEF Basic, Working, Marked, Kind
<1> QED
  BY <1>3, <1>4, <1>5, <1>6 DEF Basic

LEMMA UnrevokedBasic ==
    ASSUME RoomChangesAssumption, Basic, Unrevoked
    PROVE  Basic' /\ CapsStay
<1>1. /\ UNCHANGED <<row, spent, trees, layers, web, data, journal, snapshots, seen, crashes>>
      /\ receipts' \subseteq receipts /\ job.entry \in DOMAIN journal /\ job.mode = "catch" /\ Kind = "run"
      /\ job' \in JobType /\ job'.mode = "unrevoked" /\ job'.entry = job.entry /\ NoneLeft
  BY DEF Unrevoked, NoneLeft
<1>2. CapsStay
  BY <1>1 DEF CapsStay, C
<1>3. Typed'
  BY <1>1 DEF Basic, Typed
<1>4. Shape' /\ Reserved'
  BY <1>1, RestingShape
<1>5. Numbered' /\ Distinct' /\ Captured1'
  BY <1>1, <1>2, NoneLeftIs, StayNumbers
<1>6. Working'
  BY <1>1 DEF Basic, Working, Kind
<1> QED
  BY <1>2, <1>3, <1>4, <1>5, <1>6 DEF Basic

LEMMA EndsBasic ==
    ASSUME RoomChangesAssumption, Basic, NEW q, Ends(q)
    PROVE  Basic'
<1>1. /\ Marked(job.entry, q) /\ UNCHANGED Outside /\ UNCHANGED spent
      /\ job' = Idle /\ NoneLeft /\ job.entry \in DOMAIN journal
  BY DEF Ends
<1>2. CapsStay /\ journal' \in Seq(Entries)
  BY <1>1, MarkedKeeps DEF Basic
<1>a. row' \in RowType /\ row'.gen = row.gen /\ row'.deps = row.deps
  BY EndsKeeps
<1>3. Typed'
  BY <1>1, <1>2, <1>a, IdleIs DEF Basic, Typed, Marked, Outside
<1>4. Shape' /\ Reserved'
  BY <1>1, IdleIs, RestingShape
<1>5. Numbered' /\ Distinct' /\ Captured1'
  BY <1>1, <1>2, <1>a, NoneLeftIs, StayNumbers
<1>6. Working'
  BY <1>1, IdleIs DEF Working
<1> QED
  BY <1>3, <1>4, <1>5, <1>6 DEF Basic

LEMMA ReturnsKeeps ==
    ASSUME RoomChangesAssumption, Basic, NEW q, Returns(q)
    PROVE  /\ job' \in JobType /\ Shape' /\ Reserved' /\ Kind' = Kind /\ Cap' = Cap
           /\ job'.mode = "rollback" /\ job'.entry = job.entry
           /\ BackFor(Kind, Cap, Left')
           /\ "reserve" \notin Left' /\ "reserveLayer" \notin Left'
<1>1. /\ Marked(job.entry, q) /\ web' = web /\ job.entry \in DOMAIN journal /\ Kind \in Kinds /\ Undoable(Kind)
      /\ job' \in [mode : {"rollback"}, entry : {job.entry}, todo : {UndoSteps(Kind, Cap)}]
  BY DEF Returns, Outside
<1>2. PICK e \in DOMAIN journal : e = job.entry
  BY <1>1
<1>3. journal'[e].kind = journal[e].kind /\ journal'[e].cap = C(e) /\ C(e) = Cap /\ Kind = journal[e].kind
  BY <1>1, <1>2 DEF Marked, C, Cap, Kind
<1>4. job' \in [mode : {"rollback"}, entry : {e}, todo : {UndoSteps(journal[e].kind, C(e))}]
  BY <1>1, <1>2, <1>3
<1>5. job'.mode = "rollback" /\ job'.entry = job.entry
  BY <1>1
<1>6. /\ job' \in JobType /\ Shape' /\ Reserved' /\ Kind' = journal[e].kind /\ Cap' = C(e)
      /\ BackFor(journal[e].kind, C(e), Left')
      /\ "reserve" \notin Left' /\ "reserveLayer" \notin Left'
  BY <1>1, <1>3, <1>4, BackBegins DEF Basic
<1> QED
  BY <1>3, <1>5, <1>6

LEMMA ReturnsBasic ==
    ASSUME RoomChangesAssumption, Basic, NEW q, Returns(q)
    PROVE  Basic'
<1>1. /\ Marked(job.entry, q) /\ UNCHANGED Outside /\ UNCHANGED <<row, spent>>
      /\ job.entry \in DOMAIN journal /\ Kind \in Kinds /\ Undoable(Kind)
      /\ q = "failed" \/ (q = "applied" /\ Kind = "domain")
  BY DEF Returns
<1>2. CapsStay /\ journal' \in Seq(Entries)
  BY <1>1, MarkedKeeps DEF Basic
<1>3. /\ job' \in JobType /\ Shape' /\ Reserved' /\ Kind' = Kind
      /\ job'.mode = "rollback" /\ job'.entry = job.entry
      /\ "reserve" \notin Left' /\ "reserveLayer" \notin Left'
  BY ReturnsKeeps
<1>4. Typed'
  BY <1>1, <1>2, <1>3 DEF Basic, Typed, Marked, Outside
<1>5. Numbered' /\ Distinct' /\ Captured1'
  BY <1>1, <1>2, <1>3, StayNumbers
<1>6. Working'
  BY <1>1, <1>3 DEF Working, Marked
<1> QED
  BY <1>3, <1>4, <1>5, <1>6 DEF Basic

LEMMA UndoIs ==
    ASSUME RoomChangesAssumption, Basic, NEW e \in 1 .. MaxEntries, Undo(e)
    PROVE  /\ job = Idle /\ e \in DOMAIN journal /\ journal' = journal /\ UNCHANGED <<row, spent>> /\ UNCHANGED Outside
           /\ journal[e].kind \in Kinds /\ Undoable(journal[e].kind) /\ journal[e].status \in {"verified", "applied"}
           /\ job' \in JobType /\ job'.mode = "undo" /\ job'.entry = e /\ Len(journal') < MaxEntries
           /\ Shape' /\ Reserved' /\ Kind' = journal[e].kind /\ Cap' = C(e)
           /\ BackFor(journal[e].kind, C(e), Left')
           /\ "reserve" \notin Left' /\ "reserveLayer" \notin Left'
<1>1. /\ job = Idle /\ e \in 1 .. Len(journal) /\ journal' = journal /\ Len(journal) < MaxEntries
      /\ Undoable(journal[e].kind) /\ journal[e].status \in {"verified", "applied"} /\ journal[e].kind # "undo"
      /\ job' = [mode |-> "undo", entry |-> e, todo |-> UndoSteps(journal[e].kind, C(e))]
      /\ UNCHANGED <<row, spent>> /\ UNCHANGED Outside
  BY DEF Undo, Outside, C
<1>2. e \in DOMAIN journal /\ Typed
  BY <1>1, Length DEF Basic
<1>3. journal[e].kind \in Kinds
  BY <1>1, <1>2, Entry
<1>4. job' \in [mode : {"undo"}, entry : {e}, todo : {UndoSteps(journal[e].kind, C(e))}]
  BY <1>1
<1>5. journal'[e].kind = journal[e].kind /\ journal'[e].cap = C(e) /\ web' = web
  BY <1>1 DEF C, Outside
<1>6. /\ job' \in JobType /\ Shape' /\ Reserved' /\ Kind' = journal[e].kind /\ Cap' = C(e)
      /\ BackFor(journal[e].kind, C(e), Left')
      /\ "reserve" \notin Left' /\ "reserveLayer" \notin Left'
  BY <1>1, <1>2, <1>3, <1>4, <1>5, BackBegins
<1>7. job'.mode = "undo" /\ job'.entry = e
  BY <1>1
<1> QED
  BY <1>1, <1>2, <1>3, <1>6, <1>7

LEMMA UndoBasic ==
    ASSUME RoomChangesAssumption, Basic, NEW e \in 1 .. MaxEntries, Undo(e)
    PROVE  Basic'
<1>1. /\ e \in DOMAIN journal /\ journal' = journal /\ UNCHANGED <<row, spent>> /\ UNCHANGED Outside
      /\ journal[e].kind \in Kinds /\ Undoable(journal[e].kind) /\ journal[e].status \in {"verified", "applied"}
      /\ job' \in JobType /\ job'.mode = "undo" /\ job'.entry = e /\ Len(journal') < MaxEntries
      /\ Shape' /\ Reserved' /\ Kind' = journal[e].kind
      /\ "reserve" \notin Left' /\ "reserveLayer" \notin Left'
  BY UndoIs
<1>2. CapsStay
  BY <1>1 DEF CapsStay, C
<1>3. Typed'
  BY <1>1 DEF Basic, Typed, Outside
<1>4. Numbered' /\ Distinct' /\ Captured1'
  BY <1>1, <1>2, StayNumbers
<1>5. Working'
  BY <1>1 DEF Working
<1> QED
  BY <1>1, <1>3, <1>4, <1>5 DEF Basic

LEMMA UndoneIs ==
    ASSUME RoomChangesAssumption, Basic, Undone
    PROVE  /\ job.mode = "undo" /\ Left = {} /\ job' = Idle /\ NoneLeft /\ job.entry \in DOMAIN journal
           /\ Grown /\ UNCHANGED Outside /\ UNCHANGED spent
           /\ Len(journal') <= MaxEntries
           /\ DOMAIN journal' = DOMAIN journal \cup {Len(journal) + 1} /\ Len(journal) + 1 \notin DOMAIN journal
           /\ row' \in RowType /\ row'.gen = row.gen /\ row'.deps = row.deps /\ row'.config = row.config
           /\ row'.rev = IF Kind = "clean" THEN row.rev + 1 ELSE row.rev
           /\ journal'[job.entry].status = "undone"
           /\ \A i \in DOMAIN journal : i # job.entry => journal'[i] = journal[i]
           /\ LET E == journal'[Len(journal) + 1] IN
                 E.kind = "undo" /\ E.status \in {"verified", "applied"} /\ E.cap = NoCapture
<1>0. PICK n \in Nat : n = Len(journal) + 1
  BY Length DEF Basic
<1>1. PICK s \in {"verified", "applied"} :
         journal' = Append([journal EXCEPT ![job.entry].status = "undone"], [kind |-> "undo", status |-> s, cap |-> NoCapture])
  BY DEF Undone, Status
<1>2. /\ job.mode = "undo" /\ job.todo = <<>> /\ job' = Idle /\ AfterWork
      /\ UNCHANGED Outside /\ UNCHANGED spent
  BY DEF Undone, Outside
<1>3. /\ job.entry \in DOMAIN journal /\ Left = {} /\ journal \in Seq(Entries) /\ DOMAIN journal = 1 .. Len(journal)
      /\ Len(journal) \in Nat
  BY <1>2, NoMore, Length DEF Basic, Typed
<1>4. PICK J : J = [journal EXCEPT ![job.entry].status = "undone"]
  OBVIOUS
<1>5. J = [journal EXCEPT ![job.entry] = [journal[job.entry] EXCEPT !.status = "undone"]]
  BY <1>4
<1>6. /\ journal[job.entry] \in Entries
      /\ [journal[job.entry] EXCEPT !.status = "undone"] \in Entries
  <2>1. journal[job.entry] \in Entries
    BY <1>3
  <2> QED
    BY <2>1 DEF Entries, Statuses
<1>7. J \in Seq(Entries) /\ DOMAIN J = DOMAIN journal /\ Len(J) = Len(journal)
  BY <1>3, <1>5, <1>6
<1>8. J[job.entry] = [journal[job.entry] EXCEPT !.status = "undone"]
      /\ \A i \in DOMAIN journal : i # job.entry => J[i] = journal[i]
  BY <1>3, <1>5
<1>9. J[job.entry].status = "undone" /\ J[job.entry].cap = journal[job.entry].cap /\ J[job.entry].kind = journal[job.entry].kind
  BY <1>6, <1>8 DEF Entries
<1>10. PICK E : E = [kind |-> "undo", status |-> s, cap |-> NoCapture]
  OBVIOUS
<1>11. E \in Entries /\ E.kind = "undo" /\ E.status = s /\ E.cap = NoCapture
  <2>1. NoCapture \in Captures
    BY Numbers DEF NoCapture, Captures
  <2> QED
    BY <1>10, <2>1 DEF Entries, Statuses
<1>12. journal' = Append(J, E)
  BY <1>1, <1>4, <1>10
<1>13. /\ journal' \in Seq(Entries) /\ Len(journal') = n /\ journal'[n] = E /\ DOMAIN journal' = 1 .. n
       /\ \A i \in DOMAIN journal : journal'[i] = J[i]
  <2>1. journal' \in Seq(Entries) /\ Len(journal') = n /\ journal'[n] = E
    BY <1>0, <1>3, <1>7, <1>11, <1>12
  <2>2. \A i \in DOMAIN journal : journal'[i] = J[i]
    BY <1>3, <1>7, <1>11, <1>12
  <2>3. DOMAIN journal' = 1 .. n
    BY <2>1
  <2> QED
    BY <2>1, <2>2, <2>3
<1>14. DOMAIN journal' = DOMAIN journal \cup {n} /\ n \notin DOMAIN journal
  BY <1>0, <1>3, <1>13
<1>15. NoCapture.next = NoEntry /\ NoCapture.layer = NoEntry /\ NoCapture.switched = FALSE
       /\ NoCapture.gen = 0 /\ NoCapture.deps = 0
  BY DEF NoCapture
<1>16. 0 <= spent.gen /\ 0 <= spent.deps
  BY Length DEF Basic
<1>17. \A i \in DOMAIN journal : journal'[i].cap = C(i) /\ journal'[i].kind = journal[i].kind
  <2> TAKE i \in DOMAIN journal
  <2>1. CASE i = job.entry
    BY <1>9, <1>13, <2>1 DEF C
  <2>2. CASE i # job.entry
    BY <1>8, <1>13, <2>2 DEF C
  <2> QED
    BY <2>1, <2>2
<1>18. Grown
  BY <1>0, <1>11, <1>13, <1>15, <1>16, <1>17 DEF Grown
<1>19. row' \in RowType /\ row'.gen = row.gen /\ row'.deps = row.deps /\ row'.config = row.config
       /\ row'.rev = IF Kind = "clean" THEN row.rev + 1 ELSE row.rev
  <2>1. row \in RowType /\ row.rev \in Nat
    BY Length DEF Basic, Typed
  <2>2. PICK r \in Nat : r = IF Kind = "clean" THEN row.rev + 1 ELSE row.rev
    BY <2>1
  <2>3. row' = [row EXCEPT !.rev = r]
    BY <1>2, <2>2 DEF AfterWork
  <2> QED
    BY <2>1, <2>2, <2>3, RevSet
<1>20. NoneLeft
  BY <1>2, IdleIs DEF NoneLeft
<1>21. Len(journal') <= MaxEntries
  <2>1. Len(journal) < MaxEntries
    BY <1>2 DEF Basic, Working
  <2> QED
    BY <1>0, <1>3, <1>13, <2>1, Numbers
<1> QED
  BY <1>0, <1>2, <1>3, <1>8, <1>9, <1>11, <1>13, <1>14, <1>18, <1>19, <1>20, <1>21

LEMMA UndoneBasic ==
    ASSUME RoomChangesAssumption, Basic, Undone
    PROVE  Basic'
<1>1. /\ job' = Idle /\ NoneLeft /\ Grown /\ UNCHANGED Outside /\ UNCHANGED spent
      /\ Len(journal') <= MaxEntries /\ DOMAIN journal' = DOMAIN journal \cup {Len(journal) + 1}
      /\ row' \in RowType /\ row'.gen = row.gen /\ row'.deps = row.deps
  BY UndoneIs
<1>2. Typed'
  BY <1>1, IdleIs DEF Basic, Typed, Grown, Outside
<1>3. Shape' /\ Reserved'
  BY <1>1, IdleIs, RestingShape
<1>4. Numbered' /\ Distinct' /\ Captured1'
  BY <1>1, GrownNumbers
<1>5. Working'
  BY <1>1, IdleIs DEF Working
<1> QED
  BY <1>2, <1>3, <1>4, <1>5 DEF Basic

\* Actions around the engine leave the journal and the numbers alone.
Aside == UNCHANGED <<row, spent, journal, snapshots, receipts, layers, crashes, job>>

LEMMA AsideKeeps ==
    ASSUME RoomChangesAssumption, Basic, Aside,
           trees' \in TreeType, web' \in WebType, data' \in {"none", "empty", "half", "whole"}, seen' \subseteq Edits,
           job.mode = "idle" \/ (Awake' <=> Awake)
    PROVE  Basic' /\ Left' = Left /\ Kind' = Kind /\ Cap' = Cap /\ \A i \in DOMAIN journal : C(i)' = C(i)
<1>1. UNCHANGED <<row, spent, journal, snapshots, receipts, layers, crashes, job>>
  BY DEF Aside
<1>2. Left' = Left /\ Kind' = Kind /\ Cap' = Cap /\ \A i : C(i)' = C(i)
  BY <1>1 DEF Left, Kind, Cap, C
<1>3. Typed'
  BY <1>1 DEF Basic, Typed
<1>4. Shape'
  <2>1. CASE job.mode = "idle"
    <3>1. job' = Idle
      BY <1>1, <2>1 DEF Basic, Typed
    <3>2. NoneLeft
      BY <3>1, IdleIs DEF NoneLeft
    <3> QED
      BY <3>1, <3>2, IdleIs, RestingShape
  <2>2. CASE Awake' <=> Awake
    <3>1. \A k : (Plan(k))' = Plan(k) /\ (Back(k))' = Back(k)
      BY <2>2 DEF Plan, Back
    <3>2. \A p : Suffix(p) => Suffix(p)'
      BY <1>2 DEF Suffix
    <3>3. Shape /\ job' = job
      BY <1>1 DEF Basic
    <3>4. job.mode = "apply" => Suffix(Plan(Kind))'
      <4>1. job.mode = "apply" => Suffix(Plan(Kind))
        BY <3>3 DEF Shape
      <4> QED
        BY <1>2, <3>1, <4>1 DEF Suffix
    <3>5. job.mode \in {"rollback", "undo"} => \E p \in (Back(Kind))' : Suffix(p)'
      <4>1. job.mode \in {"rollback", "undo"} => \E p \in Back(Kind) : Suffix(p)
        BY <3>3 DEF Shape
      <4>2. (Back(Kind))' = Back(Kind)
        BY <1>2, <3>1
      <4> QED
        BY <3>2, <4>1, <4>2
    <3> QED
      BY <1>1, <1>2, <3>3, <3>4, <3>5 DEF Shape
  <2> QED
    BY <2>1, <2>2
<1>5. Working'
  BY <1>1, <1>2 DEF Basic, Working
<1>6. Numbered'
  BY <1>1, <1>2 DEF Basic, Numbered
<1>7. Distinct'
  BY <1>1, <1>2 DEF Basic, Distinct
<1>8. Captured1'
  BY <1>1, <1>2 DEF Basic, Captured1, OnStaging
<1>9. Reserved'
  BY <1>1, <1>2 DEF Basic, Reserved, OnStaging
<1> QED
  BY <1>2, <1>3, <1>4, <1>5, <1>6, <1>7, <1>8, <1>9 DEF Basic

LEMMA WriteIs ==
    ASSUME RoomChangesAssumption, Basic, NEW e \in Edits, Write(e)
    PROVE  /\ Basic' /\ Aside /\ web' = web /\ data' = data /\ web.mode = "running"
           /\ EditsInUndo \/ job.mode # "undo"
           /\ Left' = Left /\ Kind' = Kind /\ Cap' = Cap /\ \A i \in DOMAIN journal : C(i)' = C(i)
           /\ \A g \in Gens : /\ trees'[g].state = trees[g].state
                              /\ trees'[g].edits = IF g = web.gen THEN trees[g].edits \cup {e} ELSE trees[g].edits
                              /\ e \notin trees[g].edits
           /\ seen' = IF web.gen = row.gen THEN seen \cup {e} ELSE seen
<1>1. /\ web.mode = "running" /\ (\A g \in Gens : e \notin trees[g].edits) /\ (EditsInUndo \/ job.mode # "undo")
      /\ trees' = [trees EXCEPT ![web.gen].edits = @ \cup {e}]
      /\ seen' = IF web.gen = row.gen THEN seen \cup {e} ELSE seen
      /\ UNCHANGED <<row, spent, layers, web, data, journal, snapshots, receipts, job, crashes>>
  BY DEF Write
<1>2. trees \in TreeType /\ web.gen \in Gens /\ web \in WebType /\ seen \subseteq Edits
  BY DEF Basic, Typed, WebType
<1>3. trees' = [trees EXCEPT ![web.gen] = [trees[web.gen] EXCEPT !.edits = trees[web.gen].edits \cup {e}]]
  BY <1>1
<1>4. [trees[web.gen] EXCEPT !.edits = trees[web.gen].edits \cup {e}]
         \in [state : {"none", "partial", "whole"}, edits : SUBSET Edits]
  BY <1>2 DEF TreeType
<1>5. trees' \in TreeType
  BY <1>2, <1>3, <1>4 DEF TreeType
<1>6. \A g \in Gens : trees[g] \in [state : {"none", "partial", "whole"}, edits : SUBSET Edits]
  BY <1>2 DEF TreeType
<1>7. ASSUME NEW g \in Gens
      PROVE  /\ trees'[g].state = trees[g].state
             /\ trees'[g].edits = IF g = web.gen THEN trees[g].edits \cup {e} ELSE trees[g].edits
             /\ e \notin trees[g].edits
  <2>1. CASE g = web.gen
    <3>1. trees'[g] = [trees[g] EXCEPT !.edits = trees[g].edits \cup {e}]
      BY <1>2, <1>3, <2>1 DEF TreeType
    <3> QED
      BY <1>1, <1>6, <2>1, <3>1
  <2>2. CASE g # web.gen
    <3>1. trees'[g] = trees[g]
      BY <1>2, <1>3, <2>2 DEF TreeType
    <3> QED
      BY <1>1, <2>2, <3>1
  <2> QED
    BY <2>1, <2>2
<1>8. seen' \subseteq Edits
  BY <1>1, <1>2
<1>9. Aside /\ (Awake' <=> Awake) /\ web' \in WebType /\ data' \in {"none", "empty", "half", "whole"}
  BY <1>1, <1>2 DEF Aside, Awake, Basic, Typed
<1>10. Basic' /\ Left' = Left /\ Kind' = Kind /\ Cap' = Cap /\ \A i \in DOMAIN journal : C(i)' = C(i)
  BY <1>5, <1>8, <1>9, AsideKeeps
<1> QED
  BY <1>1, <1>7, <1>9, <1>10

LEMMA RoomSleepsIs ==
    ASSUME RoomChangesAssumption, Basic, RoomSleeps
    PROVE  /\ Basic' /\ Aside /\ job = Idle /\ UNCHANGED <<trees, data, seen>>
           /\ web' = [web EXCEPT !.mode = "down"] /\ web'.mode = "down"
           /\ Left' = Left /\ Kind' = Kind /\ Cap' = Cap /\ \A i \in DOMAIN journal : C(i)' = C(i)
<1>1. /\ job = Idle /\ web' = [web EXCEPT !.mode = "down"]
      /\ UNCHANGED <<row, spent, trees, layers, data, journal, snapshots, receipts, job, seen, crashes>>
  BY DEF RoomSleeps
<1>2. web' \in WebType /\ web'.mode = "down"
  BY <1>1 DEF Basic, Typed, WebType
<1>3. Aside /\ job.mode = "idle"
  BY <1>1, IdleIs DEF Aside
<1>4. trees' \in TreeType /\ data' \in {"none", "empty", "half", "whole"} /\ seen' \subseteq Edits
  BY <1>1 DEF Basic, Typed
<1>5. Basic' /\ Left' = Left /\ Kind' = Kind /\ Cap' = Cap /\ \A i \in DOMAIN journal : C(i)' = C(i)
  BY <1>2, <1>3, <1>4, AsideKeeps
<1> QED
  BY <1>1, <1>2, <1>3, <1>5

LEMMA RoomStartsIs ==
    ASSUME RoomChangesAssumption, Basic, RoomStarts
    PROVE  /\ Basic' /\ Aside /\ job = Idle /\ UNCHANGED <<trees, seen>>
           /\ web' = [mode |-> "running", gen |-> row.gen, config |-> row.config]
           /\ data' = data \/ data = "none"
           /\ Left' = Left /\ Kind' = Kind /\ Cap' = Cap /\ \A i \in DOMAIN journal : C(i)' = C(i)
<1>1. /\ job = Idle /\ web' = [mode |-> "running", gen |-> row.gen, config |-> row.config]
      /\ data' = IF row.service # "none" /\ data = "none" THEN "empty" ELSE data
      /\ UNCHANGED <<row, spent, trees, layers, journal, snapshots, receipts, job, seen, crashes>>
  BY DEF RoomStarts
<1>2. row.gen \in Gens /\ row.config \in {"old", "new"}
  BY DEF Basic, Typed, RowType
<1>3. web' \in WebType
  BY <1>1, <1>2 DEF WebType
<1>4. Aside /\ job.mode = "idle"
  BY <1>1, IdleIs DEF Aside
<1>5. trees' \in TreeType /\ data' \in {"none", "empty", "half", "whole"} /\ seen' \subseteq Edits
  BY <1>1 DEF Basic, Typed
<1>6. Basic' /\ Left' = Left /\ Kind' = Kind /\ Cap' = Cap /\ \A i \in DOMAIN journal : C(i)' = C(i)
  BY <1>3, <1>4, <1>5, AsideKeeps
<1> QED
  BY <1>1, <1>4, <1>6

\* The process dies: what was pending has failed, unless its snapshot is stuck.
LEMMA RestartIs ==
    ASSUME RoomChangesAssumption, Basic, Restart
    PROVE  /\ job' = Idle /\ NoneLeft /\ web'.mode = "down" /\ web' \in WebType
           /\ UNCHANGED <<row, spent, trees, layers, data, seen>>
           /\ CapsStay /\ journal' \in Seq(Entries) /\ crashes' \in 0 .. MaxCrashes
           /\ \A i \in DOMAIN journal : C(i)' = C(i)
           /\ receipts' = receipts \ Pending
           /\ snapshots' \subseteq snapshots
           /\ \A i \in DOMAIN journal :
                 \/ journal'[i].status = journal[i].status /\ (i \in Pending => i \in snapshots)
                 \/ i \in Pending /\ journal'[i].status = "failed" /\ i \notin snapshots'
<1>1. PICK stuck \in SUBSET (Pending \cap snapshots) :
         /\ snapshots' = snapshots \ (Pending \ stuck)
         /\ journal' = [i \in DOMAIN journal |->
               IF i \in Pending \ stuck THEN [journal[i] EXCEPT !.status = "failed"] ELSE journal[i]]
  BY DEF Restart
<1>2. /\ crashes < MaxCrashes /\ crashes' = crashes + 1 /\ job' = Idle /\ web' = [web EXCEPT !.mode = "down"]
      /\ receipts' = receipts \ Pending /\ UNCHANGED <<row, spent, trees, layers, data, seen>>
  BY DEF Restart
<1>3. /\ journal \in Seq(Entries) /\ DOMAIN journal = 1 .. Len(journal) /\ Len(journal) \in Nat
      /\ web \in WebType /\ crashes \in 0 .. MaxCrashes
  BY Length DEF Basic, Typed
<1>4. \A i \in DOMAIN journal :
         /\ journal[i] \in Entries
         /\ [journal[i] EXCEPT !.status = "failed"] \in Entries
         /\ [journal[i] EXCEPT !.status = "failed"].kind = journal[i].kind
         /\ [journal[i] EXCEPT !.status = "failed"].cap = journal[i].cap
         /\ [journal[i] EXCEPT !.status = "failed"].status = "failed"
  <2> TAKE i \in DOMAIN journal
  <2>1. journal[i] \in Entries
    BY <1>3
  <2> QED
    BY <2>1 DEF Entries, Statuses
<1>5. journal' \in [1 .. Len(journal) -> Entries]
  BY <1>1, <1>3, <1>4
<1>6. journal' \in Seq(Entries) /\ Len(journal') = Len(journal) /\ DOMAIN journal' = DOMAIN journal
  BY <1>3, <1>5
<1>7. \A i \in DOMAIN journal : journal'[i].cap = C(i) /\ journal'[i].kind = journal[i].kind
  BY <1>1, <1>4 DEF C
<1>8. \A i \in DOMAIN journal :
         \/ journal'[i].status = journal[i].status /\ (i \in Pending => i \in snapshots)
         \/ i \in Pending /\ journal'[i].status = "failed" /\ i \notin snapshots'
  BY <1>1, <1>4
<1>9. web' \in WebType /\ web'.mode = "down"
  BY <1>2, <1>3 DEF WebType
<1>10. crashes' \in 0 .. MaxCrashes
  BY <1>2, <1>3 DEF RoomChangesAssumption
<1>11. CapsStay /\ \A i \in DOMAIN journal : C(i)' = C(i)
  BY <1>6, <1>7 DEF CapsStay, C
<1> QED
  BY <1>1, <1>2, <1>6, <1>8, <1>9, <1>10, <1>11, IdleIs DEF NoneLeft

LEMMA RestartBasic ==
    ASSUME RoomChangesAssumption, Basic, Restart
    PROVE  Basic'
<1>1. /\ job' = Idle /\ NoneLeft /\ web' \in WebType
      /\ UNCHANGED <<row, spent, trees, layers, data, seen>>
      /\ CapsStay /\ journal' \in Seq(Entries) /\ crashes' \in 0 .. MaxCrashes
      /\ receipts' \subseteq receipts /\ snapshots' \subseteq snapshots
  BY RestartIs
<1>2. Typed'
  BY <1>1, IdleIs DEF Basic, Typed, CapsStay
<1>3. Shape' /\ Reserved'
  BY <1>1, IdleIs, RestingShape
<1>4. Numbered' /\ Distinct' /\ Captured1'
  BY <1>1, NoneLeftIs, StayNumbers
<1>5. Working'
  BY <1>1, IdleIs DEF Working
<1> QED
  BY <1>2, <1>3, <1>4, <1>5 DEF Basic

LEMMA StutterBasic ==
    ASSUME RoomChangesAssumption, Basic, UNCHANGED vars
    PROVE  Basic' /\ Left' = Left /\ Kind' = Kind /\ Cap' = Cap /\ \A i \in DOMAIN journal : C(i)' = C(i)
<1>1. Aside /\ (Awake' <=> Awake) /\ trees' \in TreeType /\ web' \in WebType /\ data' \in {"none", "empty", "half", "whole"}
      /\ seen' \subseteq Edits
  BY DEF vars, Aside, Awake, Basic, Typed
<1> QED
  BY <1>1, AsideKeeps

LEMMA InitBasic ==
    ASSUME RoomChangesAssumption, Init
    PROVE  Basic
<1>1. /\ row = [gen |-> 0, deps |-> 0, rev |-> 0, service |-> "old", domain |-> "old", config |-> "old"]
      /\ spent = [gen |-> 0, deps |-> 0]
      /\ trees = [g \in Gens |-> IF g = 0 THEN [state |-> "whole", edits |-> {}] ELSE NoTree]
      /\ layers = [g \in Gens |-> IF g = 0 THEN "whole" ELSE "none"]
      /\ web \in [mode : {"running", "down"}, gen : {0}, config : {"old"}]
      /\ data = "whole" /\ journal = <<>> /\ snapshots = {} /\ receipts = {}
      /\ job = Idle /\ seen = {} /\ crashes = 0
  BY DEF Init
<1>2. 0 \in Gens /\ MaxEntries \in Nat /\ MaxCrashes \in Nat
  BY Numbers DEF RoomChangesAssumption
<1>3. row \in RowType /\ spent \in SpentType /\ layers \in LayerType
  BY <1>1, <1>2 DEF RowType, SpentType, LayerType
<1>4. trees \in TreeType
  BY <1>1, NoTreeIs DEF TreeType
<1>5. web \in WebType
  BY <1>1, <1>2 DEF WebType
<1>6. journal \in Seq(Entries) /\ Len(journal) = 0 /\ DOMAIN journal = {}
  BY <1>1
<1>7. Typed
  BY <1>1, <1>2, <1>3, <1>4, <1>5, <1>6, IdleIs DEF Typed
<1>8. Left = {} /\ Ordered(job.todo)
  BY <1>1, IdleIs DEF Left, Elems, Ordered
<1>9. Shape /\ Working /\ Reserved
  BY <1>1, <1>8, IdleIs DEF Shape, Working, Reserved
<1>10. Numbered /\ Distinct /\ Captured1
  BY <1>1, <1>6, <1>8 DEF Numbered, Distinct, Captured1
<1> QED
  BY <1>7, <1>9, <1>10 DEF Basic

----------------------------------------------------------------------------
(* The data of the service.                                                 *)

\* The dumps of the entries stay.
SameDumps ==
    /\ DOMAIN journal \subseteq DOMAIN journal'
    /\ \A i \in DOMAIN journal : journal'[i].cap.dump = C(i).dump /\ journal'[i].kind = journal[i].kind

LEMMA CoveredStays ==
    ASSUME SameDumps, Covered
    PROVE  Covered'
BY DEF SameDumps, Covered, C

LEMMA DumpsStay ==
    ASSUME Dumps, SameDumps, DOMAIN journal' = DOMAIN journal, data' = data \/ Covered
    PROVE  /\ Covered' \/ (data' = "whole" /\ \A i \in DOMAIN journal' : C(i)'.dump = "no")
           /\ \A i \in DOMAIN journal' : DumpsFirst(journal'[i].kind) => Dumped(i)'
<1>1. \A i \in DOMAIN journal : C(i)'.dump = C(i).dump
  BY DEF SameDumps, C
<1>2. \A i \in DOMAIN journal' : DumpsFirst(journal'[i].kind) => Dumped(i)'
  BY <1>1 DEF Dumps, SameDumps, Dumped, DumpsFirst
<1>3. CASE Covered
  BY <1>2, <1>3, CoveredStays
<1>4. CASE ~Covered
  BY <1>1, <1>2, <1>4 DEF Dumps
<1> QED
  BY <1>3, <1>4

\* A step that touches the data has a dump behind it.
LEMMA DataHasDump ==
    ASSUME RoomChangesAssumption, Basic, Dumps, NEW s \in DataSteps, AtHead(s)
    PROVE  Covered
<1>1. Kind \in {"remove", "version", "load", "reset", "wipe"} /\ job.entry \in DOMAIN journal
      /\ job.mode \in {"apply", "catch", "rollback", "undo"} /\ s \in Left
  BY Where DEF Basic, AtHead
<1>2. Cap.dump # "no"
  <2>1. CASE DumpsFirst(Kind)
    BY <1>1, <2>1 DEF Dumps, Dumped, C, Cap, Kind
  <2>2. CASE Kind = "version" /\ job.mode = "apply"
    <3>1. "dump" \notin Left
      BY <1>1 DEF AtHead, Rank, DataSteps
    <3>2. "dump" \in Left <=> Cap.dump = "no"
      BY <2>2 DEF Dumps
    <3> QED
      BY <3>1, <3>2
  <2>3. CASE Kind = "version" /\ job.mode \in {"rollback", "undo"}
    BY <2>3 DEF Dumps
  <2>4. job.mode # "catch"
    BY <1>1 DEF Basic, Shape, DataSteps
  <2> QED
    BY <1>1, <2>1, <2>2, <2>3, <2>4 DEF DumpsFirst
<1> QED
  BY <1>1, <1>2 DEF Dumps, C, Cap

LEMMA DoingDumps ==
    ASSUME RoomChangesAssumption, Basic, Dumps, NEW s, Doing(s)
    PROVE  Dumps'
<1>1. /\ AtHead(s) /\ Effect(s) /\ EntriesStay /\ CapStays(s) /\ s \in Names /\ job.entry \in DOMAIN journal
      /\ Kind' = Kind /\ Cap' = journal'[job.entry].cap /\ job'.mode = job.mode /\ job'.entry = job.entry
      /\ Left' = Left \ {s} /\ s \in Left
  BY DoingKeeps DEF AtHead
<1>2. /\ DOMAIN journal' = DOMAIN journal
      /\ \A i \in DOMAIN journal : /\ journal'[i].kind = journal[i].kind /\ journal'[i].status = journal[i].status
                                   /\ i # job.entry => journal'[i].cap = C(i)
  BY <1>1 DEF EntriesStay
<1>3. CASE s = "dump"
  <2>1. Cap'.dump = data /\ data # "no" /\ data' = data
    BY <1>1, <1>3, Captures1, EffectFrame DEF Basic, Typed, DataSteps
  <2>2. job.mode = "apply" /\ Kind = "version"
    BY <1>1, <1>3, Where DEF Basic
  <2>3. Cap.dump = "no"
    BY <1>1, <1>3, <2>2 DEF Dumps
  <2>4. Covered'
    <3>1. CASE Covered
      <4>1. PICK i \in DOMAIN journal : C(i).dump = "whole"
        BY <3>1 DEF Covered
      <4>2. i # job.entry
        BY <2>3, <4>1 DEF C, Cap
      <4>3. C(i)' = C(i)
        BY <1>2, <4>2 DEF C
      <4> QED
        BY <1>2, <4>1, <4>3 DEF Covered
    <3>2. CASE ~Covered
      <4>1. data = "whole"
        BY <3>2 DEF Dumps
      <4>2. journal'[job.entry].cap.dump = "whole"
        BY <1>1, <2>1, <4>1
      <4> QED
        BY <1>1, <1>2, <4>2 DEF Covered, C
    <3> QED
      BY <3>1, <3>2
  <2>5. \A i \in DOMAIN journal : Dumped(i) => Dumped(i)'
    <3> TAKE i \in DOMAIN journal
    <3>1. CASE i = job.entry
      BY <1>1, <2>1, <3>1 DEF Dumped, C
    <3>2. CASE i # job.entry
      BY <1>2, <3>2 DEF Dumped, C
    <3> QED
      BY <3>1, <3>2
  <2>6. \A i \in DOMAIN journal' : DumpsFirst(journal'[i].kind) => Dumped(i)'
    BY <1>2, <2>5 DEF Dumps, DumpsFirst
  <2>7. \A i \in DOMAIN journal' :
          journal'[i].kind = "version" /\ journal'[i].status \in {"applied", "verified"} => Dumped(i)'
    BY <1>2, <2>5 DEF Dumps
  <2>8. "dump" \notin Left' /\ Cap'.dump # "no"
    BY <1>1, <1>3, <2>1
  <2> QED
    BY <1>1, <2>2, <2>4, <2>6, <2>7, <2>8 DEF Dumps
<1>4. CASE s # "dump"
  <2>1. Cap'.dump = Cap.dump
    BY <1>1, <1>4 DEF CapStays
  <2>2. \A i \in DOMAIN journal : journal'[i].cap.dump = C(i).dump
    BY <1>1, <1>2, <2>1 DEF C, Cap
  <2>3. SameDumps
    BY <1>2, <2>2 DEF SameDumps
  <2>4. data' = data \/ Covered
    BY <1>1, DataHasDump, EffectFrame
  <2>5. /\ Covered' \/ (data' = "whole" /\ \A i \in DOMAIN journal' : C(i)'.dump = "no")
        /\ \A i \in DOMAIN journal' : DumpsFirst(journal'[i].kind) => Dumped(i)'
    BY <1>2, <2>3, <2>4, DumpsStay
  <2>6. \A i \in DOMAIN journal' :
          journal'[i].kind = "version" /\ journal'[i].status \in {"applied", "verified"} => Dumped(i)'
    BY <1>2, <2>2 DEF Dumps, Dumped, C
  <2>7. "dump" \in Left' <=> "dump" \in Left
    BY <1>1, <1>4
  <2>8. /\ job'.mode = "apply" /\ Kind' = "version" => ("dump" \in Left' <=> Cap'.dump = "no")
        /\ job'.mode \in {"rollback", "undo"} /\ Kind' = "version" => Cap'.dump # "no"
    BY <1>1, <2>1, <2>7 DEF Dumps
  <2> QED
    BY <2>5, <2>6, <2>8 DEF Dumps
<1> QED
  BY <1>3, <1>4

LEMMA FailedDumps ==
    ASSUME RoomChangesAssumption, Basic, Dumps, NEW s, Failed(s)
    PROVE  Dumps'
<1>1. AtHead(s) /\ EntriesStay /\ CapStays(s) /\ s \in Names /\ job.entry \in DOMAIN journal
  BY FailedKeeps DEF AtHead
<1>2. /\ DOMAIN journal' = DOMAIN journal
      /\ \A i \in DOMAIN journal : /\ journal'[i].kind = journal[i].kind /\ journal'[i].status = journal[i].status
                                   /\ i # job.entry => journal'[i].cap = C(i)
  BY <1>1 DEF EntriesStay
<1>3. journal'[job.entry].cap.dump = Cap.dump
  <2>1. s = "dump" => journal' = journal
    BY ResidueFrame DEF Failed, AtHead
  <2> QED
    BY <1>1, <2>1 DEF CapStays, Cap
<1>4. \A i \in DOMAIN journal : journal'[i].cap.dump = C(i).dump
  BY <1>1, <1>2, <1>3 DEF C, Cap
<1>5. SameDumps
  BY <1>2, <1>4 DEF SameDumps
<1>6. data' = data \/ Covered
  BY <1>1, DataHasDump, ResidueFrame DEF Failed, DataSteps
<1>7. /\ Covered' \/ (data' = "whole" /\ \A i \in DOMAIN journal' : C(i)'.dump = "no")
      /\ \A i \in DOMAIN journal' : DumpsFirst(journal'[i].kind) => Dumped(i)'
  BY <1>2, <1>5, <1>6, DumpsStay
<1>8. \A i \in DOMAIN journal' :
        journal'[i].kind = "version" /\ journal'[i].status \in {"applied", "verified"} => Dumped(i)'
  BY <1>2, <1>4 DEF Dumps, Dumped, C
<1>9. /\ job'.mode # "apply"
      /\ job'.mode \in {"rollback", "undo"} /\ Kind' = "version" => Cap'.dump # "no"
  <2>1. CASE job' = Idle
    BY <2>1, IdleIs
  <2>2. CASE job' # Idle
    <3>1. /\ Kind' = Kind /\ Cap' = journal'[job.entry].cap
          /\ job'.mode = IF job.mode = "apply" THEN "catch" ELSE job.mode
      BY <2>2, FailedKeeps
    <3> QED
      BY <1>3, <3>1 DEF Dumps
  <2> QED
    BY <2>1, <2>2
<1> QED
  BY <1>7, <1>8, <1>9 DEF Dumps

LEMMA ExecuteDumps ==
    ASSUME RoomChangesAssumption, Basic, Dumps, NEW k \in Kinds, Execute(k)
    PROVE  Dumps'
<1>1. /\ data' = data /\ DOMAIN journal' = DOMAIN journal \cup {job'.entry} /\ job'.entry \notin DOMAIN journal
      /\ job'.mode = "apply" /\ Left' = Plan(k) /\ Kind' = k
      /\ (\A i \in DOMAIN journal : journal'[i] = journal[i])
      /\ journal'[job'.entry].status = "pending"
      /\ Cap'.dump = IF DumpsFirst(k) THEN data ELSE "no"
  BY ExecuteIs DEF Outside
<1>2. PICK n : n = job'.entry
  OBVIOUS
<1>3. C(n)' = Cap' /\ journal'[n].kind = k /\ journal'[n].status = "pending" /\ data # "no"
  BY <1>1, <1>2 DEF C, Cap, Kind, Basic, Typed
<1>4. \A i \in DOMAIN journal : C(i)' = C(i) /\ journal'[i].kind = journal[i].kind /\ journal'[i].status = journal[i].status
  BY <1>1 DEF C
<1>5. DOMAIN journal' = DOMAIN journal \cup {n}
  BY <1>1, <1>2
<1>6. Covered' \/ (data' = "whole" /\ \A i \in DOMAIN journal' : C(i)'.dump = "no")
  <2>1. CASE Covered
    BY <1>4, <1>5, <2>1 DEF Covered
  <2>2. CASE ~Covered /\ DumpsFirst(k)
    <3>1. C(n)'.dump = "whole"
      BY <1>1, <1>3, <2>2 DEF Dumps
    <3> QED
      BY <1>5, <3>1 DEF Covered
  <2>3. CASE ~Covered /\ ~DumpsFirst(k)
    BY <1>1, <1>3, <1>4, <1>5, <2>3 DEF Dumps
  <2> QED
    BY <2>1, <2>2, <2>3
<1>7. \A i \in DOMAIN journal' : DumpsFirst(journal'[i].kind) => Dumped(i)'
  <2> TAKE i \in DOMAIN journal'
  <2>1. CASE i = n
    BY <1>1, <1>3, <2>1 DEF Dumped
  <2>2. CASE i # n
    BY <1>4, <1>5, <2>2 DEF Dumps, Dumped
  <2> QED
    BY <2>1, <2>2
<1>8. \A i \in DOMAIN journal' :
        journal'[i].kind = "version" /\ journal'[i].status \in {"applied", "verified"} => Dumped(i)'
  BY <1>3, <1>4, <1>5 DEF Dumps, Dumped
<1>9. k = "version" => "dump" \in Left' /\ Cap'.dump = "no"
  BY <1>1 DEF Plan, Whole, Web, DumpsFirst
<1> QED
  BY <1>1, <1>6, <1>7, <1>8, <1>9 DEF Dumps

\* The status of an entry changes.
LEMMA MarkedDumps ==
    ASSUME Dumps, NEW e \in DOMAIN journal, NEW q, Marked(e, q), data' = data,
           journal[e].kind = "version" /\ q \in {"applied", "verified"} => Dumped(e)
    PROVE  /\ Covered' \/ (data' = "whole" /\ \A i \in DOMAIN journal' : C(i)'.dump = "no")
           /\ \A i \in DOMAIN journal' : DumpsFirst(journal'[i].kind) => Dumped(i)'
           /\ \A i \in DOMAIN journal' :
                journal'[i].kind = "version" /\ journal'[i].status \in {"applied", "verified"} => Dumped(i)'
<1>1. SameDumps /\ DOMAIN journal' = DOMAIN journal
  BY DEF Marked, SameDumps
<1>2. /\ Covered' \/ (data' = "whole" /\ \A i \in DOMAIN journal' : C(i)'.dump = "no")
      /\ \A i \in DOMAIN journal' : DumpsFirst(journal'[i].kind) => Dumped(i)'
  BY <1>1, DumpsStay
<1>3. \A i \in DOMAIN journal' :
        journal'[i].kind = "version" /\ journal'[i].status \in {"applied", "verified"} => Dumped(i)'
  <2> TAKE i \in DOMAIN journal'
  <2>1. CASE i = e
    BY <1>1, <2>1 DEF Marked, Dumped, C
  <2>2. CASE i # e
    BY <1>1, <2>2 DEF Marked, Dumps, Dumped, C
  <2> QED
    BY <2>1, <2>2
<1> QED
  BY <1>2, <1>3

LEMMA AppliedDumps ==
    ASSUME RoomChangesAssumption, Basic, Dumps, Applied
    PROVE  Dumps'
<1>1. /\ Marked(job.entry, "applied") /\ data' = data /\ job.mode = "apply" /\ Left = {} /\ job.entry \in DOMAIN journal
      /\ job'.mode = "verify"
  BY AppliedIs DEF Outside
<1>2. Kind = "version" => Cap.dump # "no"
  BY <1>1 DEF Dumps
<1>3. journal[job.entry].kind = "version" => Dumped(job.entry)
  BY <1>2 DEF Kind, Cap, C, Dumped
<1> QED
  BY <1>1, <1>3, MarkedDumps DEF Dumps

LEMMA UnrevokedDumps ==
    ASSUME Dumps, Unrevoked
    PROVE  Dumps'
<1>1. journal' = journal /\ data' = data /\ job'.mode = "unrevoked"
  BY DEF Unrevoked
<1>2. \A i : C(i)' = C(i)
  BY <1>1 DEF C
<1> QED
  BY <1>1, <1>2 DEF Dumps, Covered, Dumped, DumpsFirst

LEMMA EndsDumps ==
    ASSUME RoomChangesAssumption, Basic, Dumps, NEW q, Ends(q)
    PROVE  Dumps'
<1>1. /\ Marked(job.entry, q) /\ data' = data /\ job.entry \in DOMAIN journal /\ job' = Idle
      /\ q \in {"verified", "applied"} => job.mode = "verify"
  BY DEF Ends, Outside
<1>2. journal[job.entry].kind = "version" /\ q \in {"applied", "verified"} => Dumped(job.entry)
  BY <1>1 DEF Basic, Working, Dumps
<1> QED
  BY <1>1, <1>2, MarkedDumps, IdleIs DEF Dumps

LEMMA ReturnsDumps ==
    ASSUME RoomChangesAssumption, Basic, Dumps, NEW q, Returns(q)
    PROVE  Dumps'
<1>1. /\ Marked(job.entry, q) /\ data' = data /\ job.entry \in DOMAIN journal
      /\ Kind = "version" => q = "failed" /\ Cap.dump # "no"
  BY DEF Returns, Outside, MayRollback
<1>2. Kind' = Kind /\ Cap' = Cap /\ job'.mode = "rollback"
  BY ReturnsKeeps
<1> QED
  BY <1>1, <1>2, MarkedDumps DEF Dumps, Kind

LEMMA UndoDumps ==
    ASSUME RoomChangesAssumption, Basic, Dumps, NEW e \in 1 .. MaxEntries, Undo(e)
    PROVE  Dumps'
<1>1. /\ e \in DOMAIN journal /\ journal' = journal /\ data' = data /\ journal[e].status \in {"verified", "applied"}
      /\ job'.mode = "undo" /\ Kind' = journal[e].kind /\ Cap' = C(e)
  BY UndoIs DEF Outside
<1>2. Kind' = "version" => Cap'.dump # "no"
  BY <1>1 DEF Dumps, Dumped
<1>3. \A i : C(i)' = C(i)
  BY <1>1 DEF C
<1> QED
  BY <1>1, <1>2, <1>3 DEF Dumps, Covered, Dumped, DumpsFirst

LEMMA UndoneDumps ==
    ASSUME RoomChangesAssumption, Basic, Dumps, Undone
    PROVE  Dumps'
<1>0. PICK n : n = Len(journal) + 1
  OBVIOUS
<1>1. /\ data' = data /\ DOMAIN journal' = DOMAIN journal \cup {n} /\ job' = Idle
      /\ (\A i \in DOMAIN journal : i # job.entry => journal'[i] = journal[i])
      /\ (\A i \in DOMAIN journal : journal'[i].cap = C(i) /\ journal'[i].kind = journal[i].kind)
      /\ journal'[job.entry].status = "undone" /\ job.entry \in DOMAIN journal
      /\ journal'[n].kind = "undo" /\ journal'[n].cap = NoCapture
  BY <1>0, UndoneIs DEF Outside, Grown
<1>2. C(n)'.dump = "no" /\ \A i \in DOMAIN journal : C(i)' = C(i)
  BY <1>1 DEF C, NoCapture
<1>3. Covered' \/ (data' = "whole" /\ \A i \in DOMAIN journal' : C(i)'.dump = "no")
  BY <1>1, <1>2 DEF Dumps, Covered
<1>4. \A i \in DOMAIN journal' : DumpsFirst(journal'[i].kind) => Dumped(i)'
  BY <1>1, <1>2 DEF Dumps, Dumped, DumpsFirst
<1>5. \A i \in DOMAIN journal' :
        journal'[i].kind = "version" /\ journal'[i].status \in {"applied", "verified"} => Dumped(i)'
  <2> TAKE i \in DOMAIN journal'
  <2>1. CASE i = n
    BY <1>1, <2>1
  <2>2. CASE i = job.entry
    BY <1>1, <2>2
  <2>3. CASE i \in DOMAIN journal /\ i # job.entry
    BY <1>1, <1>2, <2>3 DEF Dumps, Dumped
  <2> QED
    BY <1>1, <2>1, <2>2, <2>3
<1> QED
  BY <1>1, <1>3, <1>4, <1>5, IdleIs DEF Dumps

LEMMA AsideDumps ==
    ASSUME Dumps, Aside, data' = data \/ data = "none"
    PROVE  Dumps'
<1>1. journal' = journal /\ job' = job
  BY DEF Aside
<1>2. Left' = Left /\ Kind' = Kind /\ Cap' = Cap /\ \A i : C(i)' = C(i)
  BY <1>1 DEF Left, Kind, Cap, C
<1> QED
  BY <1>1, <1>2 DEF Dumps, Covered, Dumped, DumpsFirst

LEMMA RestartDumps ==
    ASSUME RoomChangesAssumption, Basic, Dumps, Restart
    PROVE  Dumps'
<1>1. /\ job' = Idle /\ data' = data /\ CapsStay
      /\ \A i \in DOMAIN journal : C(i)' = C(i)
      /\ \A i \in DOMAIN journal : journal'[i].status = journal[i].status \/ journal'[i].status = "failed"
  BY RestartIs
<1>2. Covered' \/ (data' = "whole" /\ \A i \in DOMAIN journal' : C(i)'.dump = "no")
  BY <1>1 DEF Dumps, Covered, CapsStay
<1>3. \A i \in DOMAIN journal' : DumpsFirst(journal'[i].kind) => Dumped(i)'
  BY <1>1 DEF Dumps, Dumped, DumpsFirst, CapsStay
<1>4. \A i \in DOMAIN journal' :
        journal'[i].kind = "version" /\ journal'[i].status \in {"applied", "verified"} => Dumped(i)'
  BY <1>1 DEF Dumps, Dumped, CapsStay
<1> QED
  BY <1>1, <1>2, <1>3, <1>4, IdleIs DEF Dumps

----------------------------------------------------------------------------
(* Installs and snapshots.                                                  *)

\* Only a run has them, so a job that is rolled back or undone has none.
LEMMA OnlyRuns ==
    ASSUME Basic, Earned, job.mode \in {"rollback", "undo"}
    PROVE  job.entry \notin receipts \cup snapshots
BY DEF Basic, Working, Earned, Undoable, Kind

LEMMA DoingEarned ==
    ASSUME RoomChangesAssumption, Basic, Earned, NEW s, Doing(s)
    PROVE  Earned'
<1>1. /\ AtHead(s) /\ Effect(s) /\ EntriesStay /\ s \in Names /\ job.entry \in DOMAIN journal
      /\ job'.mode = job.mode /\ job'.entry = job.entry /\ Left' = Left \ {s} /\ s \in Left
  BY DoingKeeps DEF AtHead
<1>2. /\ receipts \cup snapshots \subseteq DOMAIN journal
      /\ \A i \in DOMAIN journal : journal'[i].kind = journal[i].kind /\ journal'[i].status = journal[i].status
  BY <1>1 DEF EntriesStay, Basic, Typed
<1>3. CASE s \notin KeepSteps
  <2>1. receipts' = receipts /\ snapshots' = snapshots
    BY <1>1, <1>3, EffectFrame
  <2>2. ReceiptsAreEarned'
    BY <1>1, <1>2, <2>1 DEF Earned, ReceiptsAreEarned
  <2>3. \A e \in receipts' \cup snapshots' : journal'[e].kind = "run"
    BY <1>2, <2>1 DEF Earned
  <2> QED
    BY <1>1, <1>3, <2>1, <2>2, <2>3 DEF Earned, KeepSteps
<1>4. CASE s \in KeepSteps
  <2>1. job.mode \in {"apply", "catch"} /\ Kind = "run"
    BY <1>1, <1>4, Where DEF Basic
  <2>2. \A e \in receipts' \cup snapshots' : e = job.entry \/ e \in receipts \cup snapshots
    BY <1>1, <1>4, KeepIs DEF KeepSteps
  <2>3. \A e \in receipts' \cup snapshots' : journal'[e].kind = "run"
    BY <1>1, <1>2, <2>1, <2>2 DEF Earned, Kind
  <2>4. /\ \A e \in receipts' : e = job.entry \/ e \in receipts
        /\ \A e \in snapshots' : e = job.entry \/ e \in snapshots
    BY <1>1, <1>4, KeepIs DEF KeepSteps
  <2>5. ReceiptsAreEarned'
    BY <1>1, <1>2, <2>4 DEF Earned, ReceiptsAreEarned
  <2>6. CASE s = "snapshot"
    <3>1. receipts' = receipts /\ job.mode = "apply"
      BY <1>1, <2>6, KeepIs, Where DEF Basic
    <3>2. "unsnapshot" \in Left
      <4>1. Suffix(Plan("run"))
        BY <2>1, <3>1 DEF Basic, Shape
      <4>2. "unsnapshot" \in Plan("run")
        BY DEF Plan, Whole, Web
      <4>3. Rank["snapshot"] <= Rank["unsnapshot"]
        BY DEF Rank
      <4> QED
        BY <1>1, <2>6, <4>1, <4>2, <4>3 DEF Suffix
    <3> QED
      BY <1>1, <2>3, <2>5, <2>6, <3>1, <3>2 DEF Earned
  <2>7. CASE s = "unsnapshot"
    <3>1. receipts' = receipts /\ job.entry \notin snapshots'
      BY <1>1, <2>7, KeepIs
    <3> QED
      BY <1>1, <2>3, <2>5, <2>7, <3>1 DEF Earned
  <2>8. CASE s = "install"
    <3>1. snapshots' = snapshots /\ job.mode = "apply"
      BY <1>1, <2>8, KeepIs, Where DEF Basic
    <3> QED
      BY <1>1, <2>3, <2>5, <2>8, <3>1 DEF Earned
  <2>9. CASE s = "revoke"
    <3>1. snapshots' = snapshots /\ job.entry \notin receipts' /\ job.mode = "catch"
      BY <1>1, <2>9, KeepIs, Where DEF Basic
    <3> QED
      BY <1>1, <2>3, <2>5, <2>9, <3>1 DEF Earned
  <2> QED
    BY <1>4, <2>6, <2>7, <2>8, <2>9 DEF KeepSteps
<1> QED
  BY <1>3, <1>4

LEMMA FailedEarned ==
    ASSUME RoomChangesAssumption, Basic, Earned, NEW s, Failed(s)
    PROVE  Earned'
<1>1. AtHead(s) /\ EntriesStay /\ s \in Names /\ job.entry \in DOMAIN journal /\ s \in Left /\ s # "revoke"
      /\ job.mode \in {"apply", "catch", "rollback", "undo"}
  BY FailedKeeps DEF AtHead, Failed
<1>2. /\ receipts \cup snapshots \subseteq DOMAIN journal
      /\ \A i \in DOMAIN journal : journal'[i].kind = journal[i].kind /\ journal'[i].status = journal[i].status
  BY <1>1 DEF EntriesStay, Basic, Typed
<1>3. /\ receipts' = receipts \/ (s = "install" /\ receipts' = receipts \cup {job.entry})
      /\ snapshots' = snapshots \/ (s = "snapshot" /\ snapshots' = snapshots \cup {job.entry})
  BY <1>1, ResidueIs, ResidueFrame DEF Failed
<1>4. s \in {"install", "snapshot"} => job.mode = "apply" /\ Kind = "run"
  BY <1>1, Where DEF Basic, KeepSteps
<1>5. \A e \in receipts' \cup snapshots' : journal'[e].kind = "run"
  <2>1. \A e \in receipts' \cup snapshots' : e \in receipts \cup snapshots \/ (e = job.entry /\ Kind = "run")
    BY <1>3, <1>4
  <2> QED
    BY <1>1, <1>2, <2>1 DEF Earned, Kind
<1>6. CASE job.mode \in {"apply", "catch"}
  <2>1. job'.mode = "catch" /\ job'.entry = job.entry
    <3>1. s # "forget"
      BY <1>1, <1>6, Where DEF Basic
    <3> QED
      BY <1>6, <3>1 DEF Failed, Stopped
  <2>2. ReceiptsAreEarned'
    BY <1>1, <1>2, <1>3, <2>1 DEF Earned, ReceiptsAreEarned
  <2>3. job.entry \in receipts' => "revoke" \in Left'
    <3>1. CASE job.mode = "apply"
      <4>1. Left' = Elems(CatchSteps(Kind, s))
        BY <3>1, FailedKeeps
      <4>2. job.entry \in receipts' => Kind = "run"
        BY <1>1, <1>2, <1>5 DEF Kind
      <4> QED
        BY <4>1, <4>2, CatchList
    <3>2. CASE job.mode = "catch"
      <4>1. Left' = Left \ {s}
        BY <3>2 DEF Failed, Stopped
      <4>2. receipts' = receipts
        BY <1>3, <1>4, <3>2
      <4> QED
        BY <1>1, <3>2, <4>1, <4>2 DEF Earned
    <3> QED
      BY <1>6, <3>1, <3>2
  <2> QED
    BY <1>5, <2>1, <2>2, <2>3 DEF Earned
<1>7. CASE job.mode \in {"rollback", "undo"}
  <2>1. receipts' = receipts /\ snapshots' = snapshots
    BY <1>3, <1>4, <1>7
  <2>2. job.entry \notin receipts \cup snapshots
    BY <1>7, OnlyRuns
  <2>3. ReceiptsAreEarned'
    BY <1>2, <2>1, <2>2 DEF Earned, ReceiptsAreEarned
  <2>4. job'.mode \in {"idle", "rollback", "undo"}
    BY <1>7, IdleIs DEF Failed, Stopped
  <2> QED
    BY <1>5, <2>3, <2>4 DEF Earned
<1> QED
  BY <1>1, <1>6, <1>7

LEMMA ExecuteEarned ==
    ASSUME RoomChangesAssumption, Basic, Earned, NEW k \in Kinds, Execute(k)
    PROVE  Earned'
<1>1. /\ job = Idle /\ receipts' = receipts /\ snapshots' = snapshots
      /\ job'.entry \notin DOMAIN journal /\ job'.mode = "apply" /\ (\A i \in DOMAIN journal : journal'[i] = journal[i])
  BY ExecuteIs DEF Outside
<1>2. receipts \cup snapshots \subseteq DOMAIN journal /\ job.entry \notin DOMAIN journal
  BY <1>1, IdleIs, Length DEF Basic, Typed
<1>3. \A e \in receipts \cup snapshots : journal'[e] = journal[e] /\ job.entry # e
  BY <1>1, <1>2
<1>4. ReceiptsAreEarned'
  BY <1>1, <1>3 DEF Earned, ReceiptsAreEarned
<1>5. \A e \in receipts' \cup snapshots' : journal'[e].kind = "run"
  BY <1>1, <1>3 DEF Earned
<1> QED
  BY <1>1, <1>2, <1>4, <1>5 DEF Earned

LEMMA AppliedEarned ==
    ASSUME RoomChangesAssumption, Basic, Earned, Applied
    PROVE  Earned'
<1>1. /\ Marked(job.entry, "applied") /\ receipts' = receipts /\ snapshots' = snapshots
      /\ job.mode = "apply" /\ Left = {} /\ job.entry \in DOMAIN journal
      /\ job'.mode = "verify" /\ job'.entry = job.entry
  BY AppliedIs DEF Outside
<1>2. receipts \cup snapshots \subseteq DOMAIN journal
  BY DEF Basic, Typed
<1>3. /\ (\A i \in DOMAIN journal : journal'[i].kind = journal[i].kind)
      /\ \A i \in DOMAIN journal : i # job.entry => journal'[i].status = journal[i].status
  BY <1>1 DEF Marked
<1>4. ReceiptsAreEarned'
  BY <1>1, <1>2, <1>3 DEF Earned, ReceiptsAreEarned
<1>5. \A e \in receipts' \cup snapshots' : journal'[e].kind = "run"
  BY <1>1, <1>2, <1>3 DEF Earned
<1>6. job.entry \notin snapshots
  BY <1>1 DEF Earned
<1> QED
  BY <1>1, <1>4, <1>5, <1>6 DEF Earned

LEMMA UnrevokedEarned ==
    ASSUME Basic, Earned, Unrevoked
    PROVE  Earned'
<1>1. /\ journal' = journal /\ snapshots' = snapshots /\ receipts' \subseteq receipts
      /\ job'.mode = "unrevoked" /\ job'.entry = job.entry
  BY DEF Unrevoked
<1>2. ReceiptsAreEarned'
  BY <1>1 DEF Earned, ReceiptsAreEarned
<1> QED
  BY <1>1, <1>2 DEF Earned

LEMMA EndsEarned ==
    ASSUME RoomChangesAssumption, Basic, Earned, NEW q, Ends(q)
    PROVE  Earned'
<1>1. /\ Marked(job.entry, q) /\ receipts' = receipts /\ snapshots' = snapshots
      /\ job' = Idle /\ job.entry \in DOMAIN journal /\ Left = {}
      /\ \/ job.mode = "verify" /\ q \in {"verified", "applied"}
         \/ job.mode = "rollback" /\ q = "rolled-back"
         \/ job.mode = "catch" /\ q = "failed"
         \/ job.mode = "unrevoked" /\ q = "unrevoked"
  BY DEF Ends, Outside
<1>2. receipts \cup snapshots \subseteq DOMAIN journal
  BY DEF Basic, Typed
<1>3. /\ (\A i \in DOMAIN journal : journal'[i].kind = journal[i].kind)
      /\ journal'[job.entry].status = q
      /\ \A i \in DOMAIN journal : i # job.entry => journal'[i].status = journal[i].status
  BY <1>1 DEF Marked
<1>4. /\ job.entry \in receipts => q \in {"verified", "applied", "unrevoked"}
      /\ job.entry \in snapshots => q \in {"failed", "unrevoked"}
  BY <1>1, OnlyRuns DEF Earned
<1>5. ReceiptsAreEarned'
  <2>1. ASSUME NEW e \in receipts'
        PROVE  journal'[e].status \in {"applied", "verified", "unrevoked"}
    <3>1. CASE e = job.entry
      BY <1>1, <1>3, <1>4, <2>1, <3>1
    <3>2. CASE e # job.entry
      BY <1>1, <1>2, <1>3, <2>1, <3>2 DEF Earned, ReceiptsAreEarned
    <3> QED
      BY <3>1, <3>2
  <2>2. ASSUME NEW e \in snapshots'
        PROVE  journal'[e].status \in {"pending", "failed", "unrevoked"}
    <3>1. CASE e = job.entry
      BY <1>1, <1>3, <1>4, <2>2, <3>1
    <3>2. CASE e # job.entry
      BY <1>1, <1>2, <1>3, <2>2, <3>2 DEF Earned, ReceiptsAreEarned
    <3> QED
      BY <3>1, <3>2
  <2> QED
    BY <2>1, <2>2 DEF ReceiptsAreEarned
<1>6. \A e \in receipts' \cup snapshots' : journal'[e].kind = "run"
  BY <1>1, <1>2, <1>3 DEF Earned
<1> QED
  BY <1>1, <1>5, <1>6, IdleIs DEF Earned

LEMMA ReturnsEarned ==
    ASSUME RoomChangesAssumption, Basic, Earned, NEW q, Returns(q)
    PROVE  Earned'
<1>1. /\ Marked(job.entry, q) /\ receipts' = receipts /\ snapshots' = snapshots
      /\ job.entry \in DOMAIN journal /\ job'.mode = "rollback" /\ job'.entry = job.entry
  BY ReturnsKeeps DEF Returns, Outside
<1>2. receipts \cup snapshots \subseteq DOMAIN journal
  BY DEF Basic, Typed
<1>3. /\ (\A i \in DOMAIN journal : journal'[i].kind = journal[i].kind)
      /\ \A i \in DOMAIN journal : i # job.entry => journal'[i].status = journal[i].status
  BY <1>1 DEF Marked
<1>4. ReceiptsAreEarned'
  BY <1>1, <1>2, <1>3 DEF Earned, ReceiptsAreEarned
<1>5. \A e \in receipts' \cup snapshots' : journal'[e].kind = "run"
  BY <1>1, <1>2, <1>3 DEF Earned
<1> QED
  BY <1>1, <1>4, <1>5 DEF Earned

LEMMA UndoEarned ==
    ASSUME RoomChangesAssumption, Basic, Earned, NEW e \in 1 .. MaxEntries, Undo(e)
    PROVE  Earned'
<1>1. /\ job = Idle /\ journal' = journal /\ receipts' = receipts /\ snapshots' = snapshots /\ job'.mode = "undo"
  BY UndoIs DEF Outside
<1>2. receipts \cup snapshots \subseteq DOMAIN journal /\ job.entry \notin DOMAIN journal
  BY <1>1, IdleIs, Length DEF Basic, Typed
<1>3. ReceiptsAreEarned'
  BY <1>1, <1>2 DEF Earned, ReceiptsAreEarned
<1> QED
  BY <1>1, <1>3 DEF Earned

LEMMA UndoneEarned ==
    ASSUME RoomChangesAssumption, Basic, Earned, Undone
    PROVE  Earned'
<1>1. /\ job.mode = "undo" /\ job' = Idle /\ receipts' = receipts /\ snapshots' = snapshots
      /\ (\A i \in DOMAIN journal : i # job.entry => journal'[i] = journal[i])
  BY UndoneIs DEF Outside
<1>2. receipts \cup snapshots \subseteq DOMAIN journal /\ job.entry \notin receipts \cup snapshots
  BY <1>1, OnlyRuns DEF Basic, Typed
<1>3. \A e \in receipts \cup snapshots : journal'[e] = journal[e] /\ e # job.entry
  BY <1>1, <1>2
<1>4. ReceiptsAreEarned'
  BY <1>1, <1>3 DEF Earned, ReceiptsAreEarned
<1>5. \A e \in receipts' \cup snapshots' : journal'[e].kind = "run"
  BY <1>1, <1>3 DEF Earned
<1> QED
  BY <1>1, <1>4, <1>5, IdleIs DEF Earned

LEMMA AsideEarned ==
    ASSUME Earned, Aside
    PROVE  Earned'
<1>1. journal' = journal /\ job' = job /\ receipts' = receipts /\ snapshots' = snapshots
  BY DEF Aside
<1>2. Left' = Left
  BY <1>1 DEF Left
<1> QED
  BY <1>1, <1>2 DEF Earned, ReceiptsAreEarned

LEMMA RestartEarned ==
    ASSUME RoomChangesAssumption, Basic, Earned, Restart
    PROVE  Earned'
<1>1. /\ job' = Idle /\ CapsStay /\ receipts' = receipts \ Pending /\ snapshots' \subseteq snapshots
      /\ \A i \in DOMAIN journal :
            \/ journal'[i].status = journal[i].status /\ (i \in Pending => i \in snapshots)
            \/ i \in Pending /\ journal'[i].status = "failed" /\ i \notin snapshots'
  BY RestartIs
<1>2. receipts \cup snapshots \subseteq DOMAIN journal /\ DOMAIN journal = 1 .. Len(journal)
  BY Length DEF Basic, Typed
<1>3. \A i \in DOMAIN journal : i \in Pending <=> journal[i].status = "pending"
  BY <1>2 DEF Pending
<1>4. job.entry \in receipts \cup snapshots =>
         \/ job.mode = "idle"
         \/ job.mode \in {"apply", "catch", "unrevoked"} /\ journal[job.entry].status = "pending"
         \/ job.mode = "verify" /\ journal[job.entry].status = "applied" /\ job.entry \notin snapshots
  BY OnlyRuns DEF Basic, Typed, JobType, Modes, Working, Earned
<1>5. job.mode = "idle" => job.entry \notin DOMAIN journal
  BY IdleIs, <1>2 DEF Basic, Typed
<1>6. ReceiptsAreEarned'
  <2>1. ASSUME NEW e \in receipts'
        PROVE  journal'[e].status \in {"applied", "verified", "unrevoked"}
    <3>1. e \in receipts /\ e \in DOMAIN journal /\ journal[e].status # "pending" /\ journal'[e].status = journal[e].status
      BY <1>1, <1>2, <1>3, <2>1
    <3>2. CASE job.entry = e
      BY <1>4, <1>5, <3>1, <3>2
    <3>3. CASE job.entry # e
      BY <3>1, <3>3 DEF Earned, ReceiptsAreEarned
    <3> QED
      BY <3>2, <3>3
  <2>2. ASSUME NEW e \in snapshots'
        PROVE  journal'[e].status \in {"pending", "failed", "unrevoked"}
    <3>1. e \in snapshots /\ e \in DOMAIN journal /\ journal'[e].status = journal[e].status
      BY <1>1, <1>2, <2>2
    <3>2. CASE job.entry = e
      BY <1>4, <1>5, <3>1, <3>2
    <3>3. CASE job.entry # e
      BY <3>1, <3>3 DEF Earned, ReceiptsAreEarned
    <3> QED
      BY <3>2, <3>3
  <2> QED
    BY <2>1, <2>2 DEF ReceiptsAreEarned
<1>7. \A e \in receipts' \cup snapshots' : journal'[e].kind = "run"
  BY <1>1, <1>2 DEF Earned, CapsStay
<1> QED
  BY <1>1, <1>6, <1>7, IdleIs DEF Earned

----------------------------------------------------------------------------
(* What the steps of a staged change did, and where its undo starts from.   *)

\* What the entries captured, after a step.
LEMMA CapsFollow ==
    ASSUME EntriesStay, NEW s, CapStays(s), job.entry \in DOMAIN journal
    PROVE  \A i \in DOMAIN journal :
              /\ C(i)'.gen = C(i).gen /\ C(i)'.deps = C(i).deps /\ C(i)'.rev = C(i).rev
              /\ i # job.entry => C(i)' = C(i)
              /\ s # "reserve" => C(i)'.next = C(i).next
              /\ s \notin {"reserve", "reserveLayer"} => C(i)'.layer = C(i).layer
              /\ s # "copy" => C(i)'.src = C(i).src /\ C(i)'.out = C(i).out
<1> TAKE i \in DOMAIN journal
<1>1. C(i)' = journal'[i].cap
  BY DEF C
<1>2. CASE i = job.entry
  BY <1>1, <1>2 DEF EntriesStay, CapStays, C, Cap
<1>3. CASE i # job.entry
  BY <1>1, <1>3 DEF EntriesStay
<1> QED
  BY <1>2, <1>3

\* What is left of the steps of a staged change.
LEMMA StagingLeft ==
    ASSUME Basic, job.mode = "apply", OnStaging(Kind)
    PROVE  /\ \A s \in Left : "publish" \in Left
           /\ "reserve" \in Left => "copy" \in Left
           /\ "copy" \in Left => "compare" \in Left
           /\ Awake /\ Left \cap {"reserve", "pause", "copy", "resume"} # {} => "hold" \in Left
           /\ "hold" \in Left => "compare" \in Left /\ Awake
           /\ Awake /\ "compare" \in Left => "switch" \in Left
           /\ "layer" \in Left => Kind = "install"
           /\ Kind = "install" /\ "reserve" \in Left => "layer" \in Left
           /\ Awake /\ "switch" \notin Left => Left \subseteq {"publish"}
<1>1. Left \subseteq Plan(Kind) /\ \A a \in Left, t \in Plan(Kind) : Rank[a] <= Rank[t] => t \in Left
  BY DEF Basic, Shape, Suffix
<1>2. /\ {"reserve", "copy", "compare", "publish"} \subseteq Plan(Kind)
      /\ Kind = "install" <=> "layer" \in Plan(Kind)
      /\ Awake => {"hold", "switch"} \subseteq Plan(Kind)
      /\ "hold" \in Plan(Kind) => Awake
      /\ Plan(Kind) \subseteq {"reserve", "pause", "copy", "resume", "recheck", "layer", "rewrite", "hold", "compare",
                               "switch", "publish"}
  BY DEF OnStaging, Plan, Whole, Web
<1>3. /\ \A s \in Left : "publish" \in Left
      /\ "reserve" \in Left => "copy" \in Left
      /\ "copy" \in Left => "compare" \in Left
  BY <1>1, <1>2 DEF Rank
<1>4. Awake /\ Left \cap {"reserve", "pause", "copy", "resume"} # {} => "hold" \in Left
  BY <1>1, <1>2 DEF Rank
<1>5. /\ "hold" \in Left => "compare" \in Left /\ Awake
      /\ Awake /\ "compare" \in Left => "switch" \in Left
  BY <1>1, <1>2 DEF Rank
<1>6. /\ "layer" \in Left => Kind = "install"
      /\ Kind = "install" /\ "reserve" \in Left => "layer" \in Left
  BY <1>1, <1>2 DEF Rank
<1>7. Awake /\ "switch" \notin Left => Left \subseteq {"publish"}
  BY <1>1, <1>2 DEF Rank
<1> QED
  BY <1>3, <1>4, <1>5, <1>6, <1>7

LEMMA CleanLeft ==
    ASSUME Basic, job.mode = "apply", Kind \in {"clean", "reset", "renew"}, "reserveLayer" \in Left
    PROVE  "layer" \in Left
<1>1. Suffix(Plan(Kind)) /\ "layer" \in Plan(Kind) /\ Rank["reserveLayer"] <= Rank["layer"]
  BY DEF Basic, Shape, Plan, Whole, Web, Rank
<1> QED
  BY <1>1 DEF Suffix

\* The number that a step uses was reserved.
LEMMA HasNumber ==
    ASSUME RoomChangesAssumption, Basic, NEW s, AtHead(s)
    PROVE  /\ s \in {"copy", "compare", "switch", "publish", "publishBack", "forget", "discard"} => Cap.next \in Gens
           /\ s = "layer" => Cap.layer \in Gens
           /\ Cap.gen \in Gens /\ Cap.deps \in Gens
           /\ Cap.next \in Gens => Cap.gen < Cap.next /\ Cap.gen # Cap.next /\ Cap.next <= spent.gen
           /\ Cap.layer \in Gens => Cap.deps < Cap.layer /\ Cap.deps # Cap.layer /\ Cap.layer <= spent.deps
           /\ Cap.next \in Gens \cup {NoEntry} /\ Cap.layer \in Gens \cup {NoEntry} /\ Cap = C(job.entry)
<1>1. job.entry \in DOMAIN journal /\ s \in Left /\ Cap = C(job.entry)
      /\ \A t \in Left : t = s \/ Rank[s] < Rank[t]
  BY DEF AtHead, C, Cap
<1>2. /\ Cap.gen \in Gens /\ Cap.deps \in Gens /\ Cap.next \in Gens \cup {NoEntry} /\ Cap.layer \in Gens \cup {NoEntry}
  BY <1>1, Entry DEF Basic
<1>3. /\ Cap.next # NoEntry => Cap.gen < Cap.next /\ Cap.next <= spent.gen
      /\ Cap.layer # NoEntry => Cap.deps < Cap.layer /\ Cap.layer <= spent.deps
  BY <1>1 DEF Basic, Numbered
<1>4. s \in {"copy", "compare", "switch", "publish", "layer"} => "reserve" \notin Left
  BY <1>1 DEF Rank
<1>5. s = "layer" => "reserveLayer" \notin Left
  BY <1>1 DEF Rank
<1>6. s \in {"copy", "compare", "switch", "publish"} => Cap.next # NoEntry
  BY <1>4, Where DEF Basic, Reserved
<1>7. s \in {"publishBack", "forget", "discard"} => Cap.next # NoEntry
  BY <1>1, Where DEF Basic, Reserved
<1>8. s = "layer" => Cap.layer # NoEntry
  <2>1. CASE s = "layer" /\ Kind = "install"
    <3>1. Cap.next # NoEntry
      BY <1>4, <2>1, Where DEF Basic, Reserved, OnStaging
    <3> QED
      BY <1>1, <2>1, <3>1 DEF Basic, Captured1, Kind
  <2>2. CASE s = "layer" /\ Kind # "install"
    BY <1>5, <2>2, Where DEF Basic, Reserved
  <2> QED
    BY <2>1, <2>2
<1>9. \A g \in Gens : g \in Nat /\ g # NoEntry
  BY Numbers
<1> QED
  BY <1>1, <1>2, <1>3, <1>6, <1>7, <1>8, <1>9

LEMMA DoingBase ==
    ASSUME RoomChangesAssumption, Basic, Bases, NEW s, Doing(s)
    PROVE  AtBase'
<1>1. /\ AtHead(s) /\ s \in Left /\ EntriesStay /\ Kind' = Kind /\ job'.mode = job.mode /\ Left' = Left \ {s}
      /\ Cap'.gen = Cap.gen /\ Cap'.deps = Cap.deps /\ job.entry \in DOMAIN journal
  BY DoingKeeps DEF EntriesStay, AtHead, C, Cap
<1>2. CASE s \notin {"publish", "publishBack", "point", "pointBack"}
  <2>1. row'.gen = row.gen /\ row'.deps = row.deps
    BY <1>2, DoingRow
  <2> QED
    BY <1>1, <2>1 DEF Bases, AtBase, OnStaging
<1>3. CASE s = "publish"
  BY <1>1, <1>3, Where DEF AtBase, Basic
<1>4. CASE s \in {"point", "pointBack"}
  BY <1>1, <1>4, Where DEF AtBase, OnStaging, Basic
<1>5. CASE s = "publishBack"
  <2>1. job.mode \in {"rollback", "undo"} /\ OnStaging(Kind)
    BY <1>1, <1>5, Where DEF Basic
  <2>2. row.gen = Cap.next
    BY <1>1, <1>5, <2>1 DEF Bases, UndoSide, Staged
  <2>3. row.gen # Cap.gen
    BY <1>1, <1>5, <2>2, HasNumber
  <2>4. job.mode # "rollback"
    BY <2>1, <2>3 DEF Bases, AtBase
  <2> QED
    BY <1>1, <2>1, <2>4 DEF AtBase
<1> QED
  BY <1>2, <1>3, <1>4, <1>5

LEMMA DoingNewest ==
    ASSUME RoomChangesAssumption, Basic, Bases, NEW s, Doing(s)
    PROVE  Newest'
<1>1. /\ AtHead(s) /\ Effect(s) /\ s \in Left /\ EntriesStay /\ CapStays(s) /\ Kind' = Kind /\ job'.mode = job.mode
      /\ Left' = Left \ {s} /\ Cap' = journal'[job.entry].cap /\ DOMAIN journal' = DOMAIN journal
      /\ job.entry \in DOMAIN journal
  BY DoingKeeps DEF EntriesStay, AtHead
<1>2. \A i \in DOMAIN journal : C(i)'.deps = C(i).deps
  BY <1>1, CapsFollow
<1>3. SUFFICES ASSUME job.mode = "apply", "layer" \in Left', Cap'.layer # NoEntry
               PROVE  row'.deps < Cap'.layer /\ \A i \in DOMAIN journal : C(i)'.deps < Cap'.layer
  BY <1>1 DEF Newest
<1>4. s \notin {"publish", "publishBack", "point", "pointBack"}
  <2>1. Rank[s] < Rank["layer"]
    BY <1>1, <1>3 DEF AtHead
  <2>2. s \notin {"publish", "point"}
    BY <2>1 DEF Rank
  <2> QED
    BY <1>1, <1>3, <2>2, Where DEF Basic
<1>5. row'.deps = row.deps
  BY <1>4, DoingRow
<1>6. /\ \A i \in DOMAIN journal : C(i).deps <= spent.deps /\ C(i).deps \in Nat
      /\ row.deps <= spent.deps /\ row.deps \in Nat /\ spent.deps \in Nat
  BY Entry, Length, Numbers DEF Basic, Numbered
<1>7. CASE s \in {"reserve", "reserveLayer"}
  <2>1. Cap'.layer = spent.deps + 1
    BY <1>1, <1>3, <1>7, Captures1, Fresh DEF Basic
  <2> QED
    BY <1>2, <1>5, <1>6, <2>1
<1>8. CASE s \notin {"reserve", "reserveLayer"}
  <2>1. Cap'.layer = Cap.layer /\ "layer" \in Left
    BY <1>1, <1>3, <1>8 DEF CapStays
  <2> QED
    BY <1>2, <1>3, <1>5, <2>1 DEF Bases, Newest
<1> QED
  BY <1>7, <1>8

LEMMA DoingCopied ==
    ASSUME RoomChangesAssumption, Basic, Bases, NEW s, Doing(s)
    PROVE  Copied'
<1>1. /\ AtHead(s) /\ Effect(s) /\ s \in Left /\ EntriesStay /\ CapStays(s) /\ Kind' = Kind /\ job'.mode = job.mode
      /\ Left' = Left \ {s} /\ Cap' = journal'[job.entry].cap /\ s \in Names /\ (Awake' <=> Awake)
      /\ Cap'.gen = Cap.gen
  BY DoingKeeps DEF EntriesStay, AtHead, C, Cap
<1>2. SUFFICES ASSUME job.mode = "apply", OnStaging(Kind)
               PROVE  /\ "copy" \notin Left' => /\ trees'[Cap'.next].state = "whole"
                                                /\ Cap'.src \subseteq trees'[Cap'.next].edits /\ Cap'.out = Cap'.src
                      /\ "hold" \notin Left' => web'.mode # "running" \/ web'.gen = Cap'.next
                      /\ "compare" \notin Left' /\ "publish" \in Left' => trees'[Cap'.gen].edits = Cap'.src
  BY <1>1 DEF Copied, OnStaging
<1>3. s \notin {"forget", "discard", "switchBack", "recreate"} /\ (s \in Web => Awake)
  BY <1>1, <1>2, Where DEF Basic, OnStaging
<1>4. /\ s # "copy" => trees' = trees
      /\ s \notin WebChanges => web' = web
  BY <1>1, <1>3, EffectFrame DEF Discards
<1>5. ASSUME "copy" \notin Left'
      PROVE  /\ trees'[Cap'.next].state = "whole"
             /\ Cap'.src \subseteq trees'[Cap'.next].edits /\ Cap'.out = Cap'.src
  <2>1. CASE s = "copy"
    <3>1. /\ trees' = [trees EXCEPT ![Cap.next] = [state |-> "whole", edits |-> trees[Cap.gen].edits]]
          /\ Cap'.src = trees[Cap.gen].edits /\ Cap'.out = trees[Cap.gen].edits /\ Cap'.next = Cap.next
      BY <1>1, <2>1, EffectIs, Captures1 DEF Copy, CapStays, Basic
    <3>2. Cap.next \in Gens /\ DOMAIN trees = Gens
      BY <1>1, <2>1, HasNumber DEF Basic, Typed, TreeType
    <3> QED
      BY <3>1, <3>2
  <2>2. CASE s # "copy"
    <3>1. "copy" \notin Left /\ s # "reserve"
      BY <1>1, <1>2, <1>5, <2>2, StagingLeft
    <3>2. Cap'.next = Cap.next /\ Cap'.src = Cap.src /\ Cap'.out = Cap.out /\ trees' = trees
      BY <1>1, <1>4, <2>2, <3>1 DEF CapStays
    <3> QED
      BY <1>2, <3>1, <3>2 DEF Bases, Copied
  <2> QED
    BY <2>1, <2>2
<1>6. ASSUME "hold" \notin Left'
      PROVE  web'.mode # "running" \/ web'.gen = Cap'.next
  <2>1. CASE s = "hold"
    <3>1. web' = [web EXCEPT !.mode = "paused"]
      BY <1>1, <2>1, EffectIs DEF Suspended
    <3> QED
      BY <3>1 DEF Basic, Typed, WebType
  <2>2. CASE s = "switch"
    BY <1>1, <2>2, EffectIs DEF Switch, CapStays
  <2>3. CASE s \notin {"hold", "switch"}
    <3>1. "hold" \notin Left
      BY <1>1, <1>6, <2>3
    <3>2. s \notin {"pause", "resume"}
      BY <1>1, <1>2, <1>3, <3>1, StagingLeft DEF Web
    <3>3. web' = web
      BY <1>3, <1>4, <2>3, <3>2 DEF WebChanges
    <3>4. CASE s = "reserve"
      <4>1. ~Awake
        BY <1>1, <1>2, <3>1, <3>4, StagingLeft
      <4> QED
        BY <3>3, <4>1 DEF Awake
    <3>5. CASE s # "reserve"
      BY <1>1, <1>2, <3>1, <3>3, <3>5 DEF Bases, Copied, CapStays
    <3> QED
      BY <3>4, <3>5
  <2> QED
    BY <2>1, <2>2, <2>3
<1>7. ASSUME "compare" \notin Left', "publish" \in Left'
      PROVE  trees'[Cap'.gen].edits = Cap'.src
  <2>1. CASE s = "compare"
    <3>1. trees[Cap.gen].edits = Cap.src /\ trees' = trees
      BY <1>1, <1>4, <2>1, EffectIs DEF Compare
    <3> QED
      BY <1>1, <2>1, <3>1 DEF CapStays
  <2>2. CASE s # "compare"
    <3>1. "compare" \notin Left /\ "publish" \in Left /\ s # "copy"
      BY <1>1, <1>2, <1>7, <2>2, StagingLeft
    <3> QED
      BY <1>1, <1>2, <1>4, <3>1 DEF Bases, Copied, CapStays
  <2> QED
    BY <2>1, <2>2
<1> QED
  BY <1>5, <1>6, <1>7

LEMMA DoingLayered ==
    ASSUME RoomChangesAssumption, Basic, Bases, NEW s, Doing(s)
    PROVE  Layered'
<1>1. /\ AtHead(s) /\ Effect(s) /\ s \in Left /\ CapStays(s) /\ Kind' = Kind /\ job'.mode = job.mode
      /\ Left' = Left \ {s} /\ Cap' = journal'[job.entry].cap /\ s \in Names
  BY DoingKeeps
<1>2. SUFFICES ASSUME job.mode = "apply", Kind \in {"install", "clean", "reset", "renew"}, "layer" \notin Left'
               PROVE  Cap'.layer # NoEntry /\ layers'[Cap'.layer] = "whole"
  BY <1>1 DEF Layered
<1>3. CASE s = "layer"
  <2>1. layers' = [layers EXCEPT ![Cap.layer] = "whole"] /\ Cap'.layer = Cap.layer
    BY <1>1, <1>3, EffectIs DEF Layer, CapStays
  <2>2. Cap.layer \in Gens /\ DOMAIN layers = Gens /\ NoEntry \notin Gens
    BY <1>1, <1>3, HasNumber, Numbers DEF Basic, Typed, LayerType
  <2> QED
    BY <2>1, <2>2
<1>4. CASE s # "layer"
  <2>1. "layer" \notin Left
    BY <1>1, <1>2, <1>4
  <2>2. s \notin {"reserve", "reserveLayer"}
    <3>1. s # "reserveLayer"
      BY <1>1, <1>2, <2>1, Where, CleanLeft DEF Basic
    <3>2. s # "reserve"
      BY <1>1, <1>2, <2>1, Where, StagingLeft DEF Basic, OnStaging
    <3> QED
      BY <3>1, <3>2
  <2>3. s \notin Discards
    BY <1>1, <1>2, Where DEF Basic, Discards
  <2>4. layers' = layers /\ Cap'.layer = Cap.layer
    BY <1>1, <1>4, <2>2, <2>3, EffectFrame DEF CapStays
  <2> QED
    BY <1>2, <2>1, <2>4 DEF Bases, Layered
<1> QED
  BY <1>3, <1>4

LEMMA DoingSwitched ==
    ASSUME RoomChangesAssumption, Basic, Bases, NEW s, Doing(s)
    PROVE  Switched'
<1>1. /\ AtHead(s) /\ Effect(s) /\ s \in Left /\ CapStays(s) /\ Kind' = Kind /\ job'.mode = job.mode
      /\ Left' = Left \ {s} /\ Cap' = journal'[job.entry].cap /\ s \in Names /\ (Awake' <=> Awake)
  BY DoingKeeps
<1>2. SUFFICES ASSUME job.mode = "apply", OnStaging(Kind), "switch" \notin Left', Awake
               PROVE  web'.gen = Cap'.next /\ Cap'.switched
  BY <1>1 DEF Switched, OnStaging, Awake
<1>3. CASE s = "switch"
  <2>1. web'.gen = Cap.next /\ Cap'.next = Cap.next
    BY <1>1, <1>3, EffectIs DEF Switch, CapStays
  <2>2. Typed /\ Numbered
    BY DEF Basic
  <2>3. Cap'.switched = TRUE
    BY <1>1, <1>3, <2>2, Captures1
  <2> QED
    BY <2>1, <2>3
<1>4. CASE s # "switch"
  <2>1. "switch" \notin Left /\ s = "publish"
    BY <1>1, <1>2, <1>4, StagingLeft
  <2>2. web' = web /\ journal' = journal
    BY <1>1, <2>1, EffectFrame DEF WebChanges, CaptureSteps
  <2>3. Cap' = Cap
    BY <1>1, <2>2 DEF Cap
  <2> QED
    BY <1>2, <2>1, <2>2, <2>3 DEF Bases, Switched, Awake
<1> QED
  BY <1>3, <1>4

\* The steps of the undo of a staged change.
LEMMA StagedBack ==
    ASSUME Basic, job.mode \in {"rollback", "undo"}, OnStaging(Kind), NEW s \in Left
    PROVE  s \in {"refuse", "switchBack", "discard", "fingerprint", "publishBack", "forget"}
<1>1. PICK p \in Back(Kind) : Suffix(p)
  BY DEF Basic, Shape
<1> QED
  BY <1>1 DEF Back, OnStaging, Suffix

LEMMA DoingUndoSide ==
    ASSUME RoomChangesAssumption, Basic, Bases, NEW s, Doing(s)
    PROVE  UndoSide' /\ GoesBack'
<1>1. /\ AtHead(s) /\ Effect(s) /\ s \in Left /\ CapStays(s) /\ Kind' = Kind /\ job'.mode = job.mode
      /\ Left' = Left \ {s} /\ s \in Names /\ (Awake' <=> Awake)
  BY DoingKeeps
<1>2. SUFFICES ASSUME job.mode \in {"rollback", "undo"}, OnStaging(Kind)
               PROVE  UndoSide' /\ GoesBack'
  BY <1>1 DEF UndoSide, GoesBack, OnStaging
<1>3. s \in {"refuse", "switchBack", "discard", "fingerprint", "publishBack", "forget"}
  BY <1>1, <1>2, StagedBack
<1>4. journal' = journal
  BY <1>1, <1>3, EffectFrame DEF CaptureSteps
<1>5. Cap' = Cap
  BY <1>4 DEF Cap, Doing
<1>6. CASE s = "publishBack"
  <2>1. row'.gen = Cap.gen /\ row'.deps = Cap.deps
    BY <1>6, DoingRow
  <2> QED
    BY <1>1, <1>5, <1>6, <2>1 DEF UndoSide, GoesBack, Untouched
<1>7. CASE s # "publishBack"
  <2>1. row' = row
    BY <1>1, <1>3, <1>7, EffectFrame DEF RowSteps
  <2>2. UndoSide'
    BY <1>1, <1>2, <1>5, <1>7, <2>1 DEF Bases, UndoSide, Untouched, Staged, OnStaging
  <2>3. CASE s = "switchBack"
    <3>1. IF Awake THEN web' = [mode |-> "running", gen |-> Cap.gen, config |-> row.config] ELSE web' = web
      BY <1>1, <2>3, EffectIs DEF Mounted, Nothing
    <3>2. web'.mode = "down" \/ web'.gen = Cap'.gen
      BY <1>5, <3>1 DEF Awake
    <3> QED
      BY <2>2, <3>2 DEF GoesBack
  <2>4. CASE s # "switchBack"
    <3>1. web' = web
      BY <1>1, <1>3, <2>4, EffectFrame DEF WebChanges
    <3> QED
      BY <1>1, <1>2, <1>5, <2>2, <2>4, <3>1 DEF Bases, GoesBack
  <2> QED
    BY <2>3, <2>4
<1> QED
  BY <1>6, <1>7

LEMMA DoingBases ==
    ASSUME RoomChangesAssumption, Basic, Bases, NEW s, Doing(s)
    PROVE  Bases'
BY DoingBase, DoingNewest, DoingCopied, DoingLayered, DoingSwitched, DoingUndoSide DEF Bases

LEMMA FailedBases ==
    ASSUME RoomChangesAssumption, Basic, Bases, NEW s, Failed(s)
    PROVE  Bases'
<1>1. /\ AtHead(s) /\ EntriesStay /\ s \in Left /\ s \in Names /\ row'.gen = row.gen /\ row'.deps = row.deps
      /\ job.entry \in DOMAIN journal
  BY FailedKeeps DEF AtHead
<1>2. CASE job' = Idle
  BY <1>2, IdleIs DEF Bases, AtBase, Newest, Copied, Layered, Switched, UndoSide, GoesBack
<1>3. CASE job' # Idle
  <2>1. /\ Kind' = Kind /\ job'.mode = IF job.mode = "apply" THEN "catch" ELSE job.mode
        /\ job.mode \in {"apply", "catch", "rollback", "undo"}
        /\ Cap'.gen = Cap.gen /\ Cap'.deps = Cap.deps
    BY <1>1, <1>3, FailedKeeps DEF AtHead, EntriesStay, C, Cap
  <2>2. AtBase'
    <3>1. CASE job.mode = "apply"
      BY <1>1, <2>1, <3>1, StagingLeft DEF Bases, AtBase, OnStaging
    <3>2. CASE job.mode # "apply"
      BY <1>1, <2>1, <3>2 DEF Bases, AtBase, OnStaging
    <3> QED
      BY <3>1, <3>2
  <2>3. CASE job.mode \in {"apply", "catch"}
    BY <2>1, <2>2, <2>3 DEF Bases, Newest, Copied, Layered, Switched, UndoSide, GoesBack
  <2>4. CASE job.mode \in {"rollback", "undo"}
    <3>1. s = "forget" /\ Left' = Left \ {s} /\ job'.mode = job.mode /\ job'.entry = job.entry
      BY <1>3, <2>4 DEF Failed, Stopped
    <3>2. row' = row /\ journal' = journal /\ web' = web
      BY <3>1, ResidueFrame, FailedKeeps, <1>1 DEF Failed
    <3>3. Cap' = Cap
      BY <3>1, <3>2 DEF Cap
    <3>4. UndoSide' /\ GoesBack'
      BY <2>1, <3>1, <3>2, <3>3 DEF Bases, UndoSide, GoesBack, Untouched, Staged, OnStaging
    <3> QED
      BY <2>2, <2>4, <3>1, <3>4 DEF Bases, Newest, Copied, Layered, Switched
  <2> QED
    BY <2>1, <2>3, <2>4
<1> QED
  BY <1>2, <1>3

LEMMA RestingBases ==
    ASSUME job'.mode \in {"idle", "verify", "unrevoked"}
    PROVE  Bases'
BY DEF Bases, AtBase, Newest, Copied, Layered, Switched, UndoSide, GoesBack

LEMMA ExecuteBases ==
    ASSUME RoomChangesAssumption, Basic, Bases, NEW k \in Kinds, Execute(k)
    PROVE  Bases'
<1>1. /\ row' = row /\ web' = web /\ job'.mode = "apply" /\ Left' = Plan(k) /\ Kind' = k
      /\ Cap'.gen = row.gen /\ Cap'.deps = row.deps /\ Cap'.layer = NoEntry
  BY ExecuteIs DEF Outside
<1>2. /\ OnStaging(k) => "copy" \in Plan(k) /\ "compare" \in Plan(k)
      /\ k \in {"install", "clean", "reset", "renew"} => "layer" \in Plan(k)
      /\ OnStaging(k) /\ ("hold" \notin Plan(k) \/ "switch" \notin Plan(k)) => ~Awake
  BY DEF OnStaging, Plan, Whole, Web
<1>3. AtBase' /\ Newest'
  BY <1>1 DEF AtBase, Newest
<1>4. Copied'
  BY <1>1, <1>2 DEF Copied, OnStaging, Awake
<1>5. Layered' /\ Switched'
  BY <1>1, <1>2 DEF Layered, Switched, OnStaging, Awake
<1> QED
  BY <1>1, <1>3, <1>4, <1>5 DEF Bases, UndoSide, GoesBack

LEMMA ReturnsBases ==
    ASSUME RoomChangesAssumption, Basic, Bases, NEW q, Returns(q)
    PROVE  Bases'
<1>1. /\ row' = row /\ Kind' = Kind /\ Cap' = Cap /\ job'.mode = "rollback" /\ BackFor(Kind, Cap, Left')
  BY ReturnsKeeps DEF Returns
<1>2. OnStaging(Kind) => job.mode = "catch"
  BY DEF Returns, OnStaging
<1>3. AtBase'
  BY <1>1, <1>2 DEF Bases, AtBase, OnStaging
<1>4. UndoSide'
  BY <1>1 DEF UndoSide, OnStaging, BackFor, Staged, Untouched, LaterWork
<1> QED
  BY <1>1, <1>3, <1>4 DEF Bases, Newest, Copied, Layered, Switched, GoesBack

LEMMA UndoBases ==
    ASSUME RoomChangesAssumption, Basic, Bases, NEW e \in 1 .. MaxEntries, Undo(e)
    PROVE  Bases'
<1>1. /\ row' = row /\ Kind' = journal[e].kind /\ Cap' = C(e) /\ job'.mode = "undo"
      /\ BackFor(journal[e].kind, C(e), Left')
  BY UndoIs
<1>2. UndoSide' /\ GoesBack'
  BY <1>1 DEF UndoSide, GoesBack, OnStaging, BackFor, Staged, Untouched, LaterWork
<1> QED
  BY <1>1, <1>2 DEF Bases, AtBase, Newest, Copied, Layered, Switched

LEMMA WriteBases ==
    ASSUME RoomChangesAssumption, Basic, Bases, NEW e \in Edits, Write(e)
    PROVE  Bases'
<1>1. /\ Aside /\ web' = web /\ web.mode = "running" /\ Left' = Left /\ Kind' = Kind /\ Cap' = Cap
      /\ \A g \in Gens : /\ trees'[g].state = trees[g].state
                         /\ trees'[g].edits = IF g = web.gen THEN trees[g].edits \cup {e} ELSE trees[g].edits
      /\ \A i \in DOMAIN journal : C(i)' = C(i)
  BY WriteIs
<1>2. row' = row /\ job' = job /\ layers' = layers /\ journal' = journal
  BY <1>1 DEF Aside
<1>3. AtBase' /\ Newest' /\ Layered' /\ Switched' /\ UndoSide' /\ GoesBack'
  BY <1>1, <1>2 DEF Bases, AtBase, Newest, Layered, Switched, UndoSide, GoesBack, Untouched, Staged, OnStaging
<1>4. Copied'
  <2>1. SUFFICES ASSUME job.mode = "apply", OnStaging(Kind)
                 PROVE  /\ "copy" \notin Left => /\ trees'[Cap.next].state = "whole"
                                                 /\ Cap.src \subseteq trees'[Cap.next].edits /\ Cap.out = Cap.src
                        /\ "hold" \notin Left => web.mode # "running" \/ web.gen = Cap.next
                        /\ "compare" \notin Left /\ "publish" \in Left => trees'[Cap.gen].edits = Cap.src
    BY <1>1, <1>2 DEF Copied, OnStaging
  <2>2. job.entry \in DOMAIN journal /\ Cap = C(job.entry)
    BY <2>1 DEF Basic, Typed, C, Cap
  <2>3. /\ Cap.gen \in Gens /\ Cap.next \in Gens \cup {NoEntry} /\ \A g \in Gens : g \in Nat
        /\ Cap.next # NoEntry => Cap.gen < Cap.next
    BY <2>2, Entry, Numbers DEF Basic, Numbered
  <2>4. "copy" \notin Left => Cap.next \in Gens /\ Cap.gen # Cap.next
    <3>1. "copy" \notin Left => "reserve" \notin Left
      BY <2>1, StagingLeft
    <3>2. "reserve" \notin Left => Cap.next # NoEntry
      BY <2>1 DEF Basic, Reserved
    <3> QED
      BY <2>3, <3>1, <3>2
  <2>5. "copy" \notin Left => /\ trees[Cap.next].state = "whole"
                              /\ Cap.src \subseteq trees[Cap.next].edits /\ Cap.out = Cap.src
    BY <2>1 DEF Bases, Copied
  <2>6. "copy" \notin Left => /\ trees'[Cap.next].state = "whole"
                              /\ Cap.src \subseteq trees'[Cap.next].edits /\ Cap.out = Cap.src
    BY <1>1, <2>4, <2>5
  <2>7. "compare" \notin Left => "copy" \notin Left /\ "hold" \notin Left
    BY <2>1, StagingLeft
  <2>8. "hold" \notin Left => web.mode # "running" \/ web.gen = Cap.next
    BY <2>1 DEF Bases, Copied
  <2>9. "compare" \notin Left /\ "publish" \in Left => trees'[Cap.gen].edits = Cap.src
    <3>1. "compare" \notin Left => trees'[Cap.gen].edits = trees[Cap.gen].edits
      BY <1>1, <2>3, <2>4, <2>7, <2>8
    <3> QED
      BY <2>1, <3>1 DEF Bases, Copied
  <2> QED
    BY <2>6, <2>8, <2>9
<1> QED
  BY <1>3, <1>4 DEF Bases

LEMMA StutterBases ==
    ASSUME RoomChangesAssumption, Basic, Bases, UNCHANGED vars
    PROVE  Bases'
<1>1. /\ UNCHANGED <<row, trees, layers, web, journal, job>>
      /\ Left' = Left /\ Kind' = Kind /\ Cap' = Cap /\ \A i \in DOMAIN journal : C(i)' = C(i)
  BY StutterBasic DEF vars
<1> QED
  BY <1>1 DEF Bases, AtBase, Newest, Copied, Layered, Switched, UndoSide, GoesBack, Untouched, Staged, OnStaging

----------------------------------------------------------------------------
(* The workspaces that the row and its history name.                        *)

\* A step that fails captures no number.
LEMMA FailedCaps ==
    ASSUME RoomChangesAssumption, Basic, NEW s, Failed(s)
    PROVE  /\ DOMAIN journal' = DOMAIN journal
           /\ \A i \in DOMAIN journal :
                 /\ C(i)'.gen = C(i).gen /\ C(i)'.deps = C(i).deps /\ C(i)'.rev = C(i).rev
                 /\ C(i)'.next = C(i).next /\ C(i)'.layer = C(i).layer
                 /\ C(i)'.src = C(i).src /\ C(i)'.out = C(i).out
<1>1. AtHead(s) /\ EntriesStay /\ CapStays(s) /\ s \in Names /\ job.entry \in DOMAIN journal
  BY FailedKeeps DEF AtHead
<1>2. CASE s = "switch"
  BY <1>1, <1>2, CapsFollow DEF EntriesStay
<1>3. CASE s # "switch"
  <2>1. journal' = journal
    BY <1>1, <1>3, ResidueFrame DEF Failed
  <2> QED
    BY <2>1 DEF C
<1> QED
  BY <1>2, <1>3

\* The row still names its generation, and what came before it is left alone.
LEMMA TreesKept ==
    ASSUME RoomChangesAssumption, Basic, Trees, row'.gen = row.gen, row'.rev \in {row.rev, row.rev + 1},
           DOMAIN journal' = DOMAIN journal,
           \A i \in DOMAIN journal : C(i)'.gen = C(i).gen /\ C(i)'.rev = C(i).rev /\ C(i)'.next = C(i).next,
           \A i \in DOMAIN journal : C(i).next = row.gen => C(i)'.out = C(i).out,
           \A g \in Gens : g <= row.gen => trees'[g].state = trees[g].state /\ trees[g].edits \subseteq trees'[g].edits
    PROVE  Trees'
<1>1. /\ row.gen \in Gens /\ row.rev \in Nat /\ (\A g \in Gens : g \in Nat) /\ NoEntry \notin Gens
      /\ \A i \in DOMAIN journal : C(i).gen \in Gens /\ C(i).rev \in Nat /\ (C(i).next # NoEntry => C(i).gen < C(i).next)
  BY Length, Numbers, Entry DEF Basic, Numbered
<1>2. TreeIsWhole'
  BY <1>1 DEF Trees, TreeIsWhole
<1>3. Dated'
  BY <1>1 DEF Trees, Dated
<1>4. ParentTrees'
  <2>1. SUFFICES ASSUME NEW i \in DOMAIN journal, row.gen = C(i).next, row'.rev = C(i).rev + 1
                 PROVE  trees'[C(i).gen].state = "whole" /\ C(i)'.out \subseteq trees'[C(i).gen].edits
    BY DEF ParentTrees, IsLatest
  <2>2. C(i).rev < row.rev
    BY <1>1, <2>1 DEF Trees, Dated
  <2>3. IsLatest(i)
    BY <1>1, <2>1, <2>2 DEF IsLatest
  <2>4. trees[C(i).gen].state = "whole" /\ C(i).out \subseteq trees[C(i).gen].edits
    BY <2>3 DEF Trees, ParentTrees
  <2>5. C(i).gen <= row.gen /\ C(i)'.out = C(i).out
    BY <1>1, <2>1
  <2> QED
    BY <1>1, <2>4, <2>5
<1> QED
  BY <1>2, <1>3, <1>4 DEF Trees

\* Steps on a staged generation that the row does not name.
LEMMA Beyond ==
    ASSUME RoomChangesAssumption, Basic, Bases, NEW s \in {"copy", "forget", "discard"}, AtHead(s)
    PROVE  row.gen < Cap.next /\ Cap.next \in Gens
<1>1. Cap.next \in Gens /\ Cap.gen < Cap.next /\ s \in Left
  BY HasNumber DEF AtHead
<1>2. CASE s = "copy"
  <2>1. job.mode = "apply" /\ OnStaging(Kind) /\ "publish" \in Left
    BY <1>1, <1>2, Where, StagingLeft DEF Basic
  <2> QED
    BY <1>1, <2>1 DEF Bases, AtBase
<1>3. CASE s \in {"forget", "discard"}
  <2>1. job.mode \in {"rollback", "undo"} /\ OnStaging(Kind)
    BY <1>3, Where DEF Basic
  <2>2. s = "forget" => "publishBack" \notin Left
    BY DEF AtHead, Rank
  <2>3. row.gen = Cap.gen
    BY <1>1, <1>3, <2>1, <2>2 DEF Bases, UndoSide, Untouched
  <2> QED
    BY <1>1, <2>3
<1> QED
  BY <1>2, <1>3

LEMMA ElsewhereTrees ==
    ASSUME RoomChangesAssumption, Basic, NEW h \in Gens, row.gen < h, NEW t, trees' = [trees EXCEPT ![h] = t]
    PROVE  \A g \in Gens : g <= row.gen => trees'[g].state = trees[g].state /\ trees[g].edits \subseteq trees'[g].edits
<1>1. DOMAIN trees = Gens /\ row.gen \in Nat /\ h \in Nat /\ \A g \in Gens : g \in Nat
  BY Length, Numbers DEF Basic, Typed, TreeType
<1> QED
  BY <1>1

LEMMA DoingTrees ==
    ASSUME RoomChangesAssumption, Basic, Bases, Trees, NEW s, Doing(s)
    PROVE  Trees'
<1>1. /\ AtHead(s) /\ Effect(s) /\ s \in Left /\ EntriesStay /\ CapStays(s) /\ s \in Names
      /\ job.entry \in DOMAIN journal /\ DOMAIN journal' = DOMAIN journal
  BY DoingKeeps DEF EntriesStay, AtHead
<1>2. \A i \in DOMAIN journal :
              /\ C(i)'.gen = C(i).gen /\ C(i)'.deps = C(i).deps /\ C(i)'.rev = C(i).rev
              /\ i # job.entry => C(i)' = C(i)
              /\ s # "reserve" => C(i)'.next = C(i).next
              /\ s # "copy" => C(i)'.src = C(i).src /\ C(i)'.out = C(i).out
  BY <1>1, CapsFollow
<1>3. /\ row.gen \in Gens /\ row.rev \in Nat /\ (\A g \in Gens : g \in Nat) /\ NoEntry \notin Gens /\ spent.gen \in Nat
      /\ \A i \in DOMAIN journal : C(i).gen \in Gens /\ C(i).rev \in Nat /\ (C(i).next # NoEntry => C(i).gen < C(i).next)
      /\ Cap = C(job.entry)
  BY Length, Numbers, Entry DEF Basic, Numbered, C, Cap
<1>4. CASE s \in {"copy", "forget", "discard"}
  <2>1. row.gen < Cap.next /\ Cap.next \in Gens
    BY <1>1, <1>4, Beyond
  <2>2. PICK t : trees' = [trees EXCEPT ![Cap.next] = t]
    BY <1>1, <1>4, EffectIs DEF Copy, Discard, Discards
  <2>3. \A g \in Gens : g <= row.gen => trees'[g].state = trees[g].state /\ trees[g].edits \subseteq trees'[g].edits
    BY <2>1, <2>2, ElsewhereTrees
  <2>4. row'.gen = row.gen /\ row'.rev = row.rev
    BY <1>4, DoingRow
  <2>5. \A i \in DOMAIN journal : C(i).next = row.gen => C(i)'.out = C(i).out
    BY <1>2, <1>3, <2>1
  <2> QED
    BY <1>1, <1>2, <1>4, <2>3, <2>4, <2>5, TreesKept
<1>5. CASE s = "publish"
  <2>1. /\ row.gen = Cap.gen /\ row.rev = Cap.rev /\ row'.gen = Cap.next /\ row'.rev = row.rev + 1
    BY <1>5, DoingRow
  <2>2. trees' = trees /\ Cap.next \in Gens
    BY <1>1, <1>5, EffectFrame, HasNumber DEF Discards
  <2>3. job.mode = "apply" /\ OnStaging(Kind)
    BY <1>1, <1>5, Where DEF Basic
  <2>4. "copy" \notin Left /\ "compare" \notin Left
    BY <1>1, <1>5 DEF AtHead, Rank
  <2>5. trees[Cap.next].state = "whole" /\ Cap.out = Cap.src /\ trees[Cap.gen].edits = Cap.src
    BY <1>1, <1>5, <2>3, <2>4 DEF Bases, Copied
  <2>6. \A i \in DOMAIN journal : C(i).next = Cap.next => i = job.entry
    BY <1>1, <1>3, <2>2 DEF Basic, Distinct
  <2>7. TreeIsWhole'
    BY <2>1, <2>2, <2>5 DEF TreeIsWhole
  <2>8. Dated'
    BY <1>1, <1>2, <1>3, <1>5, <2>1, <2>6 DEF Trees, Dated
  <2>9. ParentTrees'
    <3>1. SUFFICES ASSUME NEW i \in DOMAIN journal, C(i)'.next = row'.gen
                   PROVE  trees[C(i)'.gen].state = "whole" /\ C(i)'.out \subseteq trees[C(i)'.gen].edits
      BY <1>1, <2>2 DEF ParentTrees, IsLatest
    <3>2. i = job.entry
      BY <1>2, <1>5, <2>1, <2>6, <3>1
    <3>3. C(i)'.gen = Cap.gen /\ C(i)'.out = Cap.out
      BY <1>2, <1>3, <1>5, <3>2
    <3>4. trees[Cap.gen].state = "whole"
      BY <2>1 DEF Trees, TreeIsWhole
    <3> QED
      BY <2>5, <3>3, <3>4
  <2> QED
    BY <2>7, <2>8, <2>9 DEF Trees
<1>6. CASE s = "publishBack"
  <2>1. /\ row.gen = Cap.next /\ row.rev = Cap.rev + 1 /\ row'.gen = Cap.gen /\ row'.rev = row.rev + 1
    BY <1>6, DoingRow
  <2>2. trees' = trees /\ journal' = journal
    BY <1>1, <1>6, EffectFrame DEF Discards, CaptureSteps
  <2>3. IsLatest(job.entry)
    BY <1>3, <2>1 DEF IsLatest
  <2>4. TreeIsWhole'
    BY <1>1, <1>3, <2>1, <2>2, <2>3 DEF Trees, ParentTrees, TreeIsWhole
  <2>5. \A i \in DOMAIN journal : C(i).next = Cap.gen => C(i).rev < Cap.rev
    BY <1>1, <1>3 DEF Trees, Dated
  <2>6. Cap.rev \in Nat
    BY <1>1, <1>3
  <2>7. Dated'
    <3>1. \A i \in DOMAIN journal : C(i).next = Cap.gen => C(i).rev < row'.rev
      BY <1>3, <2>1, <2>5, <2>6
    <3> QED
      BY <1>1, <1>2, <1>6, <2>1, <3>1 DEF Trees, Dated
  <2>8. ParentTrees'
    <3>1. \A i \in DOMAIN journal : C(i).next = Cap.gen => row'.rev # C(i).rev + 1
      BY <1>3, <2>1, <2>5, <2>6
    <3> QED
      BY <1>1, <1>2, <1>6, <2>1, <3>1 DEF ParentTrees, IsLatest
  <2> QED
    BY <2>4, <2>7, <2>8 DEF Trees
<1>7. CASE s = "reserve"
  <2>1. row'.gen = row.gen /\ row'.rev = row.rev /\ trees' = trees
    BY <1>1, <1>7, DoingRow, EffectFrame DEF Discards
  <2>3. row.gen <= spent.gen /\ \A i \in DOMAIN journal : C(i).gen <= spent.gen
    BY DEF Basic, Numbered
  <2>4. PICK n \in DOMAIN journal : n = job.entry
    BY <1>1
  <2>5. C(n)'.next = spent.gen + 1
    <3>1. Typed /\ Numbered
      BY DEF Basic
    <3>2. journal'[n].cap.next = spent.gen + 1
      BY <1>1, <1>7, <2>4, <3>1, Captures1, Fresh
    <3> QED
      BY <3>2 DEF C
  <2>6. \A i \in DOMAIN journal : i # n => C(i)' = C(i)
    BY <1>2, <2>4
  <2>7. C(n)'.next # row.gen /\ \A i \in DOMAIN journal : C(i)'.gen # C(n)'.next
    BY <1>2, <1>3, <2>3, <2>5
  <2>8. TreeIsWhole'
    BY <2>1 DEF Trees, TreeIsWhole
  <2>9. Dated'
    BY <1>1, <1>2, <2>1, <2>6, <2>7 DEF Trees, Dated
  <2>10. ParentTrees'
    BY <1>1, <2>1, <2>6, <2>7 DEF Trees, ParentTrees, IsLatest
  <2> QED
    BY <2>8, <2>9, <2>10 DEF Trees
<1>8. CASE s \notin {"copy", "forget", "discard", "publish", "publishBack", "reserve"}
  <2>1. row'.gen = row.gen /\ row'.rev = row.rev /\ trees' = trees
    BY <1>1, <1>8, DoingRow, EffectFrame DEF Discards
  <2> QED
    BY <1>1, <1>2, <1>8, <2>1, TreesKept
<1> QED
  BY <1>4, <1>5, <1>6, <1>7, <1>8

LEMMA FailedTrees ==
    ASSUME RoomChangesAssumption, Basic, Bases, Trees, NEW s, Failed(s)
    PROVE  Trees'
<1>1. /\ AtHead(s) /\ s \in Names /\ row'.gen = row.gen
      /\ row' = row \/ row'.rev = row.rev + 1
  BY FailedKeeps
<1>2. /\ DOMAIN journal' = DOMAIN journal
      /\ \A i \in DOMAIN journal :
            C(i)'.gen = C(i).gen /\ C(i)'.rev = C(i).rev /\ C(i)'.next = C(i).next /\ C(i)'.out = C(i).out
  BY FailedCaps
<1>3. \A g \in Gens : g <= row.gen => trees'[g].state = trees[g].state /\ trees[g].edits \subseteq trees'[g].edits
  <2>1. CASE trees' = trees
    BY <2>1
  <2>2. CASE trees' # trees
    <3>1. Residue(s)
      BY <2>2 DEF Failed
    <3>2. s \in {"copy", "forget", "discard"}
      BY <1>1, <2>2, <3>1, ResidueFrame DEF Discards
    <3>3. row.gen < Cap.next /\ Cap.next \in Gens
      BY <1>1, <3>2, Beyond
    <3>4. PICK t : trees' = [trees EXCEPT ![Cap.next] = t]
      BY <2>2, <3>1, <3>2, ResidueIs DEF Discards
    <3> QED
      BY <3>3, <3>4, ElsewhereTrees
  <2> QED
    BY <2>1, <2>2
<1>4. row'.rev \in {row.rev, row.rev + 1}
  BY <1>1
<1> QED
  BY <1>1, <1>2, <1>3, <1>4, TreesKept

\* The journal keeps what it captured, the row its generation.
LEMMA TreesStay ==
    ASSUME RoomChangesAssumption, Basic, Trees, CapsStay, row'.gen = row.gen, row'.rev \in {row.rev, row.rev + 1},
           trees' = trees
    PROVE  Trees'
<1>1. DOMAIN journal' = DOMAIN journal /\ \A i \in DOMAIN journal : C(i)' = C(i)
  BY DEF CapsStay, C
<1> QED
  BY <1>1, TreesKept

\* A new entry starts from the row, or from nothing that was published.
LEMMA GrownTrees ==
    ASSUME RoomChangesAssumption, Basic, Trees, Grown, row'.gen = row.gen, row'.rev \in {row.rev, row.rev + 1},
           trees' = trees,
           LET c == journal'[Len(journal) + 1].cap IN c.gen = 0 \/ (c.gen = row.gen /\ c.rev = row.rev)
    PROVE  Trees'
<1>0. PICK n \in Nat : n = Len(journal) + 1
  BY Length DEF Basic
<1>1. /\ \A i \in DOMAIN journal : C(i)' = C(i)
      /\ DOMAIN journal' = DOMAIN journal \cup {n}
      /\ C(n)'.next = NoEntry /\ (C(n)'.gen = 0 \/ (C(n)'.gen = row.gen /\ C(n)'.rev = row.rev))
  <2>1. \A i \in DOMAIN journal : C(i)' = C(i)
    BY DEF Grown, C
  <2>2. journal' \in Seq(Entries) /\ Len(journal') = n /\ DOMAIN journal = 1 .. Len(journal) /\ Len(journal) \in Nat
    BY <1>0, Length DEF Grown, Basic
  <2>3. DOMAIN journal' = DOMAIN journal \cup {n}
    BY <1>0, <2>2
  <2>4. C(n)' = journal'[Len(journal) + 1].cap
    BY <1>0 DEF C
  <2> QED
    BY <2>1, <2>3, <2>4 DEF Grown
<1>2. /\ row.gen \in Gens /\ row.rev \in Nat /\ (\A g \in Gens : g \in Nat) /\ NoEntry \notin Gens
      /\ \A i \in DOMAIN journal : C(i).gen \in Gens /\ C(i).rev \in Nat /\ (C(i).next # NoEntry => C(i).gen < C(i).next)
  BY Length, Numbers, Entry DEF Basic, Numbered
<1>3. TreeIsWhole'
  BY DEF Trees, TreeIsWhole
<1>4. \A i \in DOMAIN journal : C(i).next # NoEntry /\ row.gen = C(i).next => C(i).rev < row.rev /\ C(i).next # 0
  BY <1>2 DEF Trees, Dated
<1>5. Dated'
  <2>1. \A i \in DOMAIN journal' : C(i)'.next # NoEntry /\ row'.gen = C(i)'.next => C(i)'.rev < row'.rev
    BY <1>1, <1>2, <1>4
  <2>2. ASSUME NEW i \in DOMAIN journal', NEW j \in DOMAIN journal', C(i)'.next # NoEntry, C(j)'.gen = C(i)'.next
        PROVE  C(i)'.rev < C(j)'.rev
    <3>1. i \in DOMAIN journal /\ C(i)' = C(i)
      BY <1>1, <2>2
    <3>2. CASE j \in DOMAIN journal
      BY <1>1, <2>2, <3>1, <3>2 DEF Trees, Dated
    <3>3. CASE j = n
      <4>1. C(i).next # 0
        BY <1>2, <2>2, <3>1
      <4>2. C(n)'.gen = row.gen /\ C(n)'.rev = row.rev
        BY <1>1, <2>2, <3>1, <3>3, <4>1
      <4> QED
        BY <1>4, <2>2, <3>1, <3>3, <4>2
    <3> QED
      BY <1>1, <3>2, <3>3
  <2> QED
    BY <2>1, <2>2 DEF Dated
<1>6. ParentTrees'
  <2>1. SUFFICES ASSUME NEW i \in DOMAIN journal', row'.gen = C(i)'.next, row'.rev = C(i)'.rev + 1
                 PROVE  trees[C(i)'.gen].state = "whole" /\ C(i)'.out \subseteq trees[C(i)'.gen].edits
    BY DEF ParentTrees, IsLatest
  <2>2. i \in DOMAIN journal /\ C(i)' = C(i)
    BY <1>1, <1>2, <2>1
  <2>3. C(i).rev < row.rev
    BY <1>2, <1>4, <2>1, <2>2
  <2>4. IsLatest(i)
    BY <1>2, <2>1, <2>2, <2>3 DEF IsLatest
  <2> QED
    BY <2>2, <2>4 DEF Trees, ParentTrees
<1> QED
  BY <1>3, <1>5, <1>6 DEF Trees

LEMMA ExecuteTrees ==
    ASSUME RoomChangesAssumption, Basic, Trees, NEW k \in Kinds, Execute(k)
    PROVE  Trees'
<1>1. /\ Grown /\ row' = row /\ trees' = trees /\ Cap'.gen = row.gen /\ Cap'.rev = row.rev
      /\ job'.entry = Len(journal) + 1
  BY ExecuteIs DEF Outside
<1>2. journal'[Len(journal) + 1].cap = Cap'
  BY <1>1 DEF Cap
<1> QED
  BY <1>1, <1>2, GrownTrees

LEMMA UndoneTrees ==
    ASSUME RoomChangesAssumption, Basic, Trees, Undone
    PROVE  Trees'
<1>1. /\ Grown /\ row'.gen = row.gen /\ row'.rev \in {row.rev, row.rev + 1} /\ trees' = trees
      /\ journal'[Len(journal) + 1].cap = NoCapture
  BY UndoneIs DEF Outside
<1>2. NoCapture.gen = 0
  BY DEF NoCapture
<1> QED
  BY <1>1, <1>2, GrownTrees

LEMMA MarkedTrees ==
    ASSUME RoomChangesAssumption, Basic, Trees
    PROVE  /\ Applied => Trees'
           /\ \A q : Ends(q) => Trees'
           /\ \A q : Returns(q) => Trees'
<1>1. Applied => Trees'
  <2> SUFFICES ASSUME Applied PROVE Trees'
    OBVIOUS
  <2>1. Marked(job.entry, "applied") /\ row' = row /\ trees' = trees /\ job.entry \in DOMAIN journal
    BY AppliedIs DEF Outside
  <2>2. CapsStay
    BY <2>1 DEF Marked, CapsStay
  <2> QED
    BY <2>1, <2>2, TreesStay
<1>2. ASSUME NEW q, Ends(q)
      PROVE  Trees'
  <2>1. CapsStay /\ trees' = trees
    BY <1>2 DEF Ends, Marked, CapsStay, Outside
  <2>2. row'.gen = row.gen /\ row'.rev \in {row.rev, row.rev + 1}
    BY <1>2, EndsKeeps
  <2> QED
    BY <2>1, <2>2, TreesStay
<1>3. ASSUME NEW q, Returns(q)
      PROVE  Trees'
  <2>1. CapsStay /\ trees' = trees /\ row' = row
    BY <1>3 DEF Returns, Marked, CapsStay, Outside
  <2> QED
    BY <2>1, TreesStay
<1> QED
  BY <1>1, <1>2, <1>3

LEMMA AroundTrees ==
    ASSUME RoomChangesAssumption, Basic, Trees
    PROVE  /\ \A e \in 1 .. MaxEntries : Undo(e) => Trees'
           /\ \A e \in Edits : Write(e) => Trees'
           /\ RoomSleeps \/ RoomStarts \/ Restart \/ UNCHANGED vars => Trees'
<1>1. ASSUME NEW e \in 1 .. MaxEntries, Undo(e)
      PROVE  Trees'
  <2>1. journal' = journal /\ row' = row /\ trees' = trees
    BY <1>1, UndoIs DEF Outside
  <2>2. CapsStay
    BY <2>1 DEF CapsStay, C
  <2> QED
    BY <2>1, <2>2, TreesStay
<1>2. ASSUME NEW e \in Edits, Write(e)
      PROVE  Trees'
  <2>1. /\ Aside /\ \A i \in DOMAIN journal : C(i)' = C(i)
        /\ \A g \in Gens : /\ trees'[g].state = trees[g].state
                           /\ trees'[g].edits = IF g = web.gen THEN trees[g].edits \cup {e} ELSE trees[g].edits
    BY <1>2, WriteIs
  <2>2. journal' = journal /\ row' = row
    BY <2>1 DEF Aside
  <2>3. \A g \in Gens : trees'[g].state = trees[g].state /\ trees[g].edits \subseteq trees'[g].edits
    BY <2>1
  <2> QED
    BY <2>1, <2>2, <2>3, TreesKept
<1>3. ASSUME RoomSleeps \/ RoomStarts \/ Restart \/ UNCHANGED vars
      PROVE  Trees'
  <2>1. CapsStay /\ row' = row /\ trees' = trees
    <3>1. CASE RoomSleeps \/ RoomStarts \/ UNCHANGED vars
      <4>1. journal' = journal /\ row' = row /\ trees' = trees
        BY <3>1 DEF RoomSleeps, RoomStarts, vars
      <4> QED
        BY <4>1 DEF CapsStay, C
    <3>2. CASE Restart
      BY <3>2, RestartIs
    <3> QED
      BY <1>3, <3>1, <3>2
  <2> QED
    BY <2>1, TreesStay
<1> QED
  BY <1>1, <1>2, <1>3

----------------------------------------------------------------------------
(* The dependency volumes that the row and its history name.                *)

LEMMA LayersKept ==
    ASSUME RoomChangesAssumption, Basic, Trees, Layers, row'.gen = row.gen, row'.deps = row.deps,
           row'.rev \in {row.rev, row.rev + 1}, DOMAIN journal' = DOMAIN journal,
           \A i \in DOMAIN journal : /\ C(i)'.deps = C(i).deps /\ C(i)'.rev = C(i).rev /\ C(i)'.next = C(i).next
                                     /\ C(i)'.layer = C(i).layer /\ journal'[i].kind = journal[i].kind,
           \A g \in Gens : g <= row.deps /\ layers[g] = "whole" => layers'[g] = "whole",
           \A i \in DOMAIN journal :
              "install" \notin Kinds /\ layers[C(i).deps] = "whole" => layers'[C(i).deps] = "whole"
    PROVE  Layers'
<1>1. /\ row.gen \in Gens /\ row.deps \in Gens /\ row.rev \in Nat /\ 0 \in Gens /\ NoEntry \notin Gens
      /\ \A g \in Gens : g \in Nat
      /\ \A i \in DOMAIN journal : /\ C(i).deps \in Gens /\ C(i).rev \in Nat
                                   /\ C(i).layer # NoEntry => C(i).deps < C(i).layer
  BY Length, Numbers, Entry DEF Basic, Numbered
<1>2. LayerIsWhole'
  BY <1>1 DEF Layers, LayerIsWhole
<1>3. LayersStay'
  <2>1. "install" \notin Kinds => layers'[0] = "whole"
    BY <1>1 DEF Layers, LayersStay
  <2> QED
    BY <2>1 DEF Layers, LayersStay
<1>4. ParentLayers'
  <2>1. SUFFICES ASSUME NEW i \in DOMAIN journal, row.gen = C(i).next, row'.rev = C(i).rev + 1,
                        journal[i].kind = "install", row.deps = C(i).layer
                 PROVE  layers'[C(i).deps] = "whole"
    BY DEF ParentLayers, IsLatest
  <2>2. C(i).rev < row.rev
    BY <1>1, <2>1 DEF Trees, Dated
  <2>3. IsLatest(i)
    BY <1>1, <2>1, <2>2 DEF IsLatest
  <2>4. layers[C(i).deps] = "whole"
    BY <2>1, <2>3 DEF Layers, ParentLayers
  <2>5. C(i).deps <= row.deps
    BY <1>1, <2>1
  <2> QED
    BY <1>1, <2>4, <2>5
<1> QED
  BY <1>2, <1>3, <1>4 DEF Layers

LEMMA DoingLayers ==
    ASSUME RoomChangesAssumption, ChangesApart, Basic, Bases, Trees, Layers, Firsts, NEW s, Doing(s)
    PROVE  Layers'
<1>1. /\ AtHead(s) /\ Effect(s) /\ s \in Left /\ EntriesStay /\ CapStays(s) /\ s \in Names
      /\ job.entry \in DOMAIN journal /\ DOMAIN journal' = DOMAIN journal /\ Kind \in Kinds
      /\ \A i \in DOMAIN journal : journal'[i].kind = journal[i].kind
  BY DoingKeeps DEF EntriesStay, AtHead
<1>2. \A i \in DOMAIN journal :
              /\ C(i)'.gen = C(i).gen /\ C(i)'.deps = C(i).deps /\ C(i)'.rev = C(i).rev
              /\ i # job.entry => C(i)' = C(i)
              /\ s # "reserve" => C(i)'.next = C(i).next
              /\ s \notin {"reserve", "reserveLayer"} => C(i)'.layer = C(i).layer
  BY <1>1, CapsFollow
<1>3. /\ row.gen \in Gens /\ row.deps \in Gens /\ row.rev \in Nat /\ (\A g \in Gens : g \in Nat) /\ NoEntry \notin Gens
      /\ spent.deps \in Nat
      /\ \A i \in DOMAIN journal : C(i).gen \in Gens /\ C(i).deps \in Gens /\ C(i).rev \in Nat
                                   /\ journal[i].kind \in Kinds \cup {"undo"}
      /\ Cap = C(job.entry) /\ DOMAIN layers = Gens
  BY Length, Numbers, Entry DEF Basic, C, Cap, Typed, LayerType
<1>4. CASE s \in {"publish", "publishBack"}
  <2>1. layers' = layers /\ journal' = journal
    BY <1>1, <1>4, EffectFrame DEF Discards, CaptureSteps
  <2>2. OnStaging(Kind)
    BY <1>1, <1>4, Where DEF Basic
  <2>3. LayersStay'
    BY <1>1, <1>2, <2>1 DEF Layers, LayersStay
  <2>4. CASE s = "publish"
    <3>1. /\ row.gen = Cap.gen /\ row.deps = Cap.deps /\ row'.gen = Cap.next
          /\ row'.deps = IF Kind = "install" THEN Cap.layer ELSE Cap.deps
      BY <2>4, DoingRow
    <3>2. job.mode = "apply" /\ "layer" \notin Left /\ Cap.next \in Gens
      BY <1>1, <2>4, Where, HasNumber DEF Basic, AtHead, Rank
    <3>3. Kind = "install" => layers[Cap.layer] = "whole"
      BY <3>2 DEF Bases, Layered
    <3>4. LayerIsWhole'
      BY <2>1, <3>1, <3>3 DEF Layers, LayerIsWhole
    <3>5. \A i \in DOMAIN journal : C(i).next = Cap.next => i = job.entry
      BY <1>1, <1>3, <3>2 DEF Basic, Distinct
    <3>6. ParentLayers'
      <4>1. SUFFICES ASSUME NEW i \in DOMAIN journal, C(i)'.next = row'.gen
                     PROVE  layers[C(i)'.deps] = "whole"
        BY <1>1, <2>1 DEF ParentLayers, IsLatest
      <4>2. i = job.entry
        BY <1>2, <2>4, <3>1, <3>5, <4>1
      <4>3. C(i)'.deps = row.deps
        BY <1>2, <1>3, <3>1, <4>2
      <4> QED
        BY <4>3 DEF Layers, LayerIsWhole
    <3> QED
      BY <2>3, <3>4, <3>6 DEF Layers
  <2>5. CASE s = "publishBack"
    <3>1. /\ row.gen = Cap.next /\ row.rev = Cap.rev + 1 /\ row'.gen = Cap.gen /\ row'.deps = Cap.deps
          /\ row'.rev = row.rev + 1 /\ row.deps = IF Kind = "install" THEN Cap.layer ELSE Cap.deps
      BY <2>5, DoingRow
    <3>2. IsLatest(job.entry)
      BY <1>3, <3>1 DEF IsLatest
    <3>3. LayerIsWhole'
      <4>1. Kind = "install" => layers[Cap.deps] = "whole"
        BY <1>1, <1>3, <3>1, <3>2 DEF Layers, ParentLayers, Kind
      <4>2. Kind # "install" => layers[Cap.deps] = "whole"
        BY <3>1 DEF Layers, LayerIsWhole
      <4> QED
        BY <2>1, <3>1, <4>1, <4>2 DEF LayerIsWhole
    <3>4. \A i \in DOMAIN journal : C(i).next = Cap.gen => C(i).rev < Cap.rev
      BY <1>1, <1>3 DEF Trees, Dated
    <3>5. \A i \in DOMAIN journal : C(i).next = Cap.gen => row'.rev # C(i).rev + 1
      BY <1>1, <1>3, <3>1, <3>4
    <3>6. ParentLayers'
      BY <1>1, <1>2, <2>5, <3>1, <3>5 DEF ParentLayers, IsLatest
    <3> QED
      BY <2>3, <3>3, <3>6 DEF Layers
  <2> QED
    BY <1>4, <2>4, <2>5
<1>5. CASE s = "point"
  <2>1. row'.deps = Cap.layer /\ layers' = layers /\ journal' = journal
    BY <1>1, <1>5, DoingRow, EffectFrame DEF Discards, CaptureSteps
  <2>2. job.mode = "apply" /\ Kind \in {"clean", "reset", "renew"} /\ "layer" \notin Left
    BY <1>1, <1>5, Where DEF Basic, AtHead, Rank
  <2>3. Cap.layer # NoEntry /\ layers[Cap.layer] = "whole"
    BY <2>2 DEF Bases, Layered
  <2>4. LayersStay' /\ LayerIsWhole'
    BY <1>1, <1>2, <2>1, <2>3 DEF Layers, LayersStay, LayerIsWhole
  <2>5. \A i \in DOMAIN journal : C(i).layer = Cap.layer => i = job.entry
    BY <1>1, <1>3, <2>3 DEF Basic, Distinct
  <2>6. \A i \in DOMAIN journal : C(i).layer = Cap.layer => journal[i].kind # "install"
    BY <2>2, <2>5 DEF Kind
  <2>7. ParentLayers'
    BY <1>1, <1>2, <1>5, <2>1, <2>6 DEF ParentLayers
  <2> QED
    BY <2>4, <2>7 DEF Layers
<1>6. CASE s = "pointBack"
  <2>1. row'.deps = Cap.deps /\ layers' = layers /\ journal' = journal
    BY <1>1, <1>6, DoingRow, EffectFrame DEF Discards, CaptureSteps
  <2>2. job.mode \in {"rollback", "undo"} /\ Kind = "clean"
    BY <1>1, <1>6, Where DEF Basic
  <2>3. CASE "install" \notin Kinds
    <3>1. LayersStay' /\ LayerIsWhole'
      BY <1>1, <1>2, <1>3, <2>1, <2>3 DEF Layers, LayersStay, LayerIsWhole
    <3>2. ParentLayers'
      BY <1>1, <1>3, <2>3 DEF ParentLayers
    <3> QED
      BY <3>1, <3>2 DEF Layers
  <2>4. CASE "install" \in Kinds
    <3>1. MaxEntries <= 2
      BY <1>1, <2>2, <2>4 DEF ChangesApart
    <3>2. DOMAIN journal = 1 .. Len(journal) /\ Len(journal) \in Nat /\ Len(journal) <= 2
      BY <3>1, Length, Numbers DEF Basic
    <3>3. job.mode = "undo" => Len(journal) < 2
      BY <1>1, <3>1, <3>2, Numbers DEF Basic, Working
    <3>4. layers[Cap.deps] = "whole"
      <4>1. CASE job.mode = "rollback"
        BY <2>2, <4>1 DEF Firsts, Forward
      <4>2. CASE job.mode = "undo"
        <5>1. job.entry = 1
          BY <1>1, <3>2, <3>3, <4>2
        <5> QED
          BY <1>1, <1>3, <5>1 DEF Firsts
      <4> QED
        BY <2>2, <4>1, <4>2
    <3>5. LayerIsWhole'
      BY <2>1, <3>4 DEF LayerIsWhole
    <3>6. ParentLayers'
      <4>1. SUFFICES ASSUME NEW i \in DOMAIN journal, journal[i].kind = "install", Cap.deps = C(i).layer
                     PROVE  layers[C(i).deps] = "whole"
        BY <2>1, <1>1, <1>2, <1>6 DEF ParentLayers, IsLatest
      <4>2. C(i).layer # NoEntry /\ C(i).deps < C(i).layer
        BY <1>1, <1>3, <4>1 DEF Basic, Numbered
      <4>3. i # job.entry
        BY <2>2, <4>1 DEF Kind
      <4>4. job.entry # 1
        BY <1>1, <1>3, <4>1, <4>2 DEF Firsts
      <4>5. i = 1
        BY <1>1, <3>2, <4>3, <4>4
      <4> QED
        BY <4>1, <4>5 DEF Firsts
    <3> QED
      BY <2>4, <3>5, <3>6 DEF Layers, LayersStay
  <2> QED
    BY <2>3, <2>4
<1>7. CASE s \in {"reserve", "reserveLayer"}
  <2>1. row'.gen = row.gen /\ row'.deps = row.deps /\ row'.rev = row.rev /\ layers' = layers
    BY <1>1, <1>7, DoingRow, EffectFrame DEF Discards
  <2>2. PICK n \in DOMAIN journal : n = job.entry
    BY <1>1
  <2>3. C(n)'.layer = NoEntry \/ C(n)'.layer = spent.deps + 1
    <3>1. Typed /\ Numbered
      BY DEF Basic
    <3>2. journal'[n].cap.layer = NoEntry \/ journal'[n].cap.layer = spent.deps + 1
      BY <1>1, <1>7, <2>2, <3>1, Captures1, Fresh
    <3> QED
      BY <3>2 DEF C
  <2>4. row.deps <= spent.deps
    BY DEF Basic, Numbered
  <2>5. C(n)'.layer # row.deps
    BY <1>3, <2>3, <2>4
  <2>6. \A i \in DOMAIN journal : i # n => C(i)' = C(i)
    BY <1>2, <2>2
  <2>7. LayersStay' /\ LayerIsWhole'
    BY <1>1, <1>2, <2>1 DEF Layers, LayersStay, LayerIsWhole
  <2>8. ParentLayers'
    BY <1>1, <2>1, <2>5, <2>6 DEF Layers, ParentLayers, IsLatest
  <2> QED
    BY <2>7, <2>8 DEF Layers
<1>8. CASE s \in {"layer", "forget", "discard"}
  <2>1. row'.gen = row.gen /\ row'.deps = row.deps /\ row'.rev = row.rev
    BY <1>8, DoingRow
  <2>2. /\ \A g \in Gens : g <= row.deps /\ layers[g] = "whole" => layers'[g] = "whole"
        /\ \A i \in DOMAIN journal :
              "install" \notin Kinds /\ layers[C(i).deps] = "whole" => layers'[C(i).deps] = "whole"
    <3>1. CASE s = "layer"
      <4>1. layers' = [layers EXCEPT ![Cap.layer] = "whole"]
        BY <1>1, <3>1, EffectIs DEF Layer
      <4> QED
        BY <1>3, <4>1
    <3>2. CASE s \in {"forget", "discard"}
      <4>1. layers' = IF Cap.layer = NoEntry THEN layers ELSE [layers EXCEPT ![Cap.layer] = "none"]
        BY <1>1, <3>2, EffectIs DEF Discard, Discards
      <4>2. CASE Cap.layer = NoEntry
        BY <4>1, <4>2
      <4>3. CASE Cap.layer # NoEntry
        <5>1. job.mode \in {"rollback", "undo"} /\ OnStaging(Kind)
          BY <1>1, <3>2, Where DEF Basic
        <5>2. Kind # "normalize"
          BY <1>1, <1>3, <4>3 DEF Basic, Captured1, Kind
        <5>3. Kind = "install" /\ "install" \in Kinds
          BY <1>1, <5>1, <5>2 DEF OnStaging
        <5>4. s = "forget" => "publishBack" \notin Left
          BY <1>1 DEF AtHead, Rank
        <5>5. row.deps = Cap.deps
          BY <1>1, <3>2, <5>1, <5>3, <5>4 DEF Bases, UndoSide, Untouched
        <5>6. row.deps < Cap.layer /\ Cap.layer \in Gens
          BY <1>1, <4>3, <5>5, HasNumber
        <5> QED
          BY <1>3, <4>1, <4>3, <5>3, <5>6
      <4> QED
        BY <4>2, <4>3
    <3> QED
      BY <1>8, <3>1, <3>2
  <2> QED
    BY <1>1, <1>2, <1>8, <2>1, <2>2, LayersKept
<1>9. CASE s \notin {"publish", "publishBack", "point", "pointBack", "reserve", "reserveLayer", "layer", "forget", "discard"}
  <2>1. row'.gen = row.gen /\ row'.deps = row.deps /\ row'.rev = row.rev /\ layers' = layers
    BY <1>1, <1>9, DoingRow, EffectFrame DEF Discards
  <2> QED
    BY <1>1, <1>2, <1>9, <2>1, LayersKept
<1> QED
  BY <1>4, <1>5, <1>6, <1>7, <1>8, <1>9

LEMMA FailedLayers ==
    ASSUME RoomChangesAssumption, Basic, Bases, Trees, Layers, NEW s, Failed(s)
    PROVE  Layers'
<1>1. /\ AtHead(s) /\ s \in Names /\ row'.gen = row.gen /\ row'.deps = row.deps /\ s \in Left
      /\ row'.rev \in {row.rev, row.rev + 1} /\ \A i \in DOMAIN journal : journal'[i].kind = journal[i].kind
  <2>1. AtHead(s) /\ s \in Names /\ row'.gen = row.gen /\ row'.deps = row.deps /\ s \in Left /\ EntriesStay
        /\ (row' = row \/ row'.rev = row.rev + 1)
    BY FailedKeeps
  <2> QED
    BY <2>1 DEF EntriesStay
<1>2. /\ DOMAIN journal' = DOMAIN journal
      /\ \A i \in DOMAIN journal :
            C(i)'.deps = C(i).deps /\ C(i)'.rev = C(i).rev /\ C(i)'.next = C(i).next /\ C(i)'.layer = C(i).layer
  BY FailedCaps
<1>3. /\ \A g \in Gens : g <= row.deps /\ layers[g] = "whole" => layers'[g] = "whole"
      /\ \A i \in DOMAIN journal :
            "install" \notin Kinds /\ layers[C(i).deps] = "whole" => layers'[C(i).deps] = "whole"
  <2>1. CASE layers' = layers
    BY <2>1
  <2>2. CASE layers' # layers
    <3>1. Residue(s)
      BY <2>2 DEF Failed
    <3>2. s = "layer"
      BY <1>1, <2>2, <3>1, ResidueFrame
    <3>3. layers' = [layers EXCEPT ![Cap.layer] = "partial"]
      BY <3>1, <3>2, ResidueIs
    <3>4. Cap.layer \in Gens /\ NoEntry \notin Gens /\ job.mode = "apply"
      BY <1>1, <3>2, HasNumber, Where, Numbers DEF Basic
    <3>5. row.deps < Cap.layer /\ \A i \in DOMAIN journal : C(i).deps < Cap.layer
      BY <1>1, <3>2, <3>4 DEF Bases, Newest
    <3>6. /\ DOMAIN layers = Gens /\ row.deps \in Nat /\ (\A g \in Gens : g \in Nat)
          /\ \A i \in DOMAIN journal : C(i).deps \in Gens
      BY Length, Numbers, Entry DEF Basic, Typed, LayerType
    <3> QED
      BY <3>3, <3>4, <3>5, <3>6
  <2> QED
    BY <2>1, <2>2
<1> QED
  BY <1>1, <1>2, <1>3, LayersKept

LEMMA LayersSame ==
    ASSUME RoomChangesAssumption, Basic, Trees, Layers, CapsStay, row'.gen = row.gen, row'.deps = row.deps,
           row'.rev \in {row.rev, row.rev + 1}, layers' = layers
    PROVE  Layers'
<1>1. /\ DOMAIN journal' = DOMAIN journal
      /\ \A i \in DOMAIN journal : C(i)' = C(i) /\ journal'[i].kind = journal[i].kind
  BY DEF CapsStay, C
<1> QED
  BY <1>1, LayersKept

LEMMA GrownLayers ==
    ASSUME RoomChangesAssumption, Basic, Trees, Layers, Grown, row'.gen = row.gen, row'.deps = row.deps,
           row'.rev \in {row.rev, row.rev + 1}, layers' = layers,
           LET c == journal'[Len(journal) + 1].cap IN c.deps \in {0, row.deps}
    PROVE  Layers'
<1>0. PICK n \in Nat : n = Len(journal) + 1
  BY Length DEF Basic
<1>1. /\ \A i \in DOMAIN journal : C(i)' = C(i) /\ journal'[i].kind = journal[i].kind
      /\ DOMAIN journal' = DOMAIN journal \cup {n}
      /\ C(n)'.next = NoEntry /\ C(n)'.deps \in {0, row.deps}
  <2>1. \A i \in DOMAIN journal : C(i)' = C(i) /\ journal'[i].kind = journal[i].kind
    BY DEF Grown, C
  <2>2. journal' \in Seq(Entries) /\ Len(journal') = n /\ DOMAIN journal = 1 .. Len(journal) /\ Len(journal) \in Nat
    BY <1>0, Length DEF Grown, Basic
  <2>3. DOMAIN journal' = DOMAIN journal \cup {n}
    BY <1>0, <2>2
  <2>4. C(n)' = journal'[Len(journal) + 1].cap
    BY <1>0 DEF C
  <2> QED
    BY <2>1, <2>3, <2>4 DEF Grown
<1>2. /\ row.gen \in Gens /\ row.rev \in Nat /\ NoEntry \notin Gens /\ \A i \in DOMAIN journal : C(i).rev \in Nat
  BY Length, Numbers, Entry DEF Basic
<1>3. LayerIsWhole'
  BY DEF Layers, LayerIsWhole
<1>4. LayersStay'
  BY <1>1 DEF Layers, LayersStay, LayerIsWhole
<1>5. ParentLayers'
  <2>1. SUFFICES ASSUME NEW i \in DOMAIN journal', row'.gen = C(i)'.next, row'.rev = C(i)'.rev + 1,
                        journal'[i].kind = "install", row'.deps = C(i)'.layer
                 PROVE  layers[C(i)'.deps] = "whole"
    BY DEF ParentLayers, IsLatest
  <2>2. i \in DOMAIN journal /\ C(i)' = C(i)
    BY <1>1, <1>2, <2>1
  <2>3. C(i).rev < row.rev
    BY <1>2, <2>1, <2>2 DEF Trees, Dated
  <2>4. IsLatest(i)
    BY <1>2, <2>1, <2>2, <2>3 DEF IsLatest
  <2> QED
    BY <1>1, <2>1, <2>2, <2>4 DEF Layers, ParentLayers
<1> QED
  BY <1>3, <1>4, <1>5 DEF Layers

LEMMA ExecuteLayers ==
    ASSUME RoomChangesAssumption, Basic, Trees, Layers, NEW k \in Kinds, Execute(k)
    PROVE  Layers'
<1>1. /\ Grown /\ row' = row /\ layers' = layers /\ Cap'.deps = row.deps /\ job'.entry = Len(journal) + 1
  BY ExecuteIs DEF Outside
<1>2. journal'[Len(journal) + 1].cap = Cap'
  BY <1>1 DEF Cap
<1> QED
  BY <1>1, <1>2, GrownLayers

LEMMA UndoneLayers ==
    ASSUME RoomChangesAssumption, Basic, Trees, Layers, Undone
    PROVE  Layers'
<1>1. /\ Grown /\ row'.gen = row.gen /\ row'.deps = row.deps /\ row'.rev \in {row.rev, row.rev + 1}
      /\ layers' = layers /\ journal'[Len(journal) + 1].cap = NoCapture
  BY UndoneIs DEF Outside
<1>2. NoCapture.deps = 0
  BY DEF NoCapture
<1> QED
  BY <1>1, <1>2, GrownLayers

LEMMA MarkedLayers ==
    ASSUME RoomChangesAssumption, Basic, Trees, Layers
    PROVE  /\ Applied => Layers'
           /\ \A q : Ends(q) => Layers'
           /\ \A q : Returns(q) => Layers'
<1>1. Applied => Layers'
  <2> SUFFICES ASSUME Applied PROVE Layers'
    OBVIOUS
  <2>1. CapsStay /\ row' = row /\ layers' = layers
    BY AppliedIs DEF Outside, Marked, CapsStay
  <2> QED
    BY <2>1, LayersSame
<1>2. ASSUME NEW q, Ends(q)
      PROVE  Layers'
  <2>1. CapsStay /\ layers' = layers
    BY <1>2 DEF Ends, Marked, CapsStay, Outside
  <2>2. row'.gen = row.gen /\ row'.deps = row.deps /\ row'.rev \in {row.rev, row.rev + 1}
    BY <1>2, EndsKeeps
  <2> QED
    BY <2>1, <2>2, LayersSame
<1>3. ASSUME NEW q, Returns(q)
      PROVE  Layers'
  <2>1. CapsStay /\ layers' = layers /\ row' = row
    BY <1>3 DEF Returns, Marked, CapsStay, Outside
  <2> QED
    BY <2>1, LayersSame
<1> QED
  BY <1>1, <1>2, <1>3

LEMMA AroundLayers ==
    ASSUME RoomChangesAssumption, Basic, Trees, Layers
    PROVE  /\ \A e \in 1 .. MaxEntries : Undo(e) => Layers'
           /\ \A e \in Edits : Write(e) => Layers'
           /\ RoomSleeps \/ RoomStarts \/ Restart \/ UNCHANGED vars => Layers'
<1>1. ASSUME journal' = journal, row' = row, layers' = layers
      PROVE  Layers'
  <2>1. CapsStay
    BY <1>1 DEF CapsStay, C
  <2> QED
    BY <1>1, <2>1, LayersSame
<1>2. ASSUME NEW e \in 1 .. MaxEntries, Undo(e)
      PROVE  Layers'
  BY <1>1, <1>2 DEF Undo
<1>3. ASSUME NEW e \in Edits, Write(e)
      PROVE  Layers'
  BY <1>1, <1>3 DEF Write
<1>4. ASSUME RoomSleeps \/ RoomStarts \/ UNCHANGED vars
      PROVE  Layers'
  BY <1>1, <1>4 DEF RoomSleeps, RoomStarts, vars
<1>5. ASSUME Restart
      PROVE  Layers'
  <2>1. CapsStay /\ row' = row /\ layers' = layers
    BY <1>5, RestartIs
  <2> QED
    BY <2>1, LayersSame
<1> QED
  BY <1>2, <1>3, <1>4, <1>5

----------------------------------------------------------------------------
(* The layer of before all changes, and the one a clean install came from.  *)

LEMMA FirstsKept ==
    ASSUME RoomChangesAssumption, Basic, Firsts, DOMAIN journal' = DOMAIN journal,
           \A i \in DOMAIN journal : C(i)'.deps = C(i).deps,
           Forward' => Forward /\ Cap'.deps = Cap.deps,
           layers[0] = "whole" => layers'[0] = "whole",
           Forward /\ layers[Cap.deps] = "whole" => layers'[Cap.deps] = "whole"
    PROVE  Firsts'
<1>1. layers'[0] = "whole"
  BY DEF Firsts
<1>2. \A i \in DOMAIN journal' : i = 1 => C(i)'.deps = 0
  BY DEF Firsts
<1>3. Forward' => layers'[Cap'.deps] = "whole"
  BY DEF Firsts
<1> QED
  BY <1>1, <1>2, <1>3 DEF Firsts

LEMMA DoingFirsts ==
    ASSUME RoomChangesAssumption, Basic, Firsts, NEW s, Doing(s)
    PROVE  Firsts'
<1>1. /\ AtHead(s) /\ Effect(s) /\ EntriesStay /\ CapStays(s) /\ s \in Names /\ Kind' = Kind
      /\ Cap' = journal'[job.entry].cap /\ job'.mode = job.mode /\ job.entry \in DOMAIN journal
      /\ DOMAIN journal' = DOMAIN journal
  BY DoingKeeps DEF EntriesStay, AtHead
<1>2. \A i \in DOMAIN journal : C(i)'.deps = C(i).deps
  BY <1>1, CapsFollow
<1>3. Cap'.deps = Cap.deps
  BY <1>1 DEF EntriesStay, C, Cap
<1>4. /\ DOMAIN layers = Gens /\ Cap.deps \in Gens /\ Cap.deps \in Nat /\ 0 \in Gens
      /\ Cap.layer \in Gens => Cap.deps < Cap.layer
      /\ Cap.layer \in Gens \cup {NoEntry} /\ \A g \in Gens : g \in Nat
  BY <1>1, HasNumber, Numbers DEF Basic, Typed, LayerType
<1>5. /\ layers[0] = "whole" => layers'[0] = "whole"
      /\ Forward /\ layers[Cap.deps] = "whole" => layers'[Cap.deps] = "whole"
  <2>1. CASE s \notin {"layer"} \cup Discards
    BY <1>1, <2>1, EffectFrame
  <2>2. CASE s = "layer"
    <3>1. layers' = [layers EXCEPT ![Cap.layer] = "whole"]
      BY <1>1, <2>2, EffectIs DEF Layer
    <3> QED
      BY <1>4, <3>1
  <2>3. CASE s \in Discards
    <3>1. layers' = IF Cap.layer = NoEntry THEN layers ELSE [layers EXCEPT ![Cap.layer] = "none"]
      BY <1>1, <2>3, EffectIs DEF Discard
    <3>2. Cap.layer = NoEntry \/ (Cap.layer # 0 /\ Cap.layer # Cap.deps)
      BY <1>4
    <3> QED
      BY <1>4, <3>1, <3>2
  <2> QED
    BY <2>1, <2>2, <2>3
<1>6. Forward' => Forward
  BY <1>1 DEF Forward
<1> QED
  BY <1>1, <1>2, <1>3, <1>5, <1>6, FirstsKept

LEMMA FailedFirsts ==
    ASSUME RoomChangesAssumption, Basic, Firsts, NEW s, Failed(s)
    PROVE  Firsts'
<1>1. /\ AtHead(s) /\ s \in Names /\ EntriesStay /\ job.entry \in DOMAIN journal
      /\ job' # Idle => /\ Kind' = Kind /\ Cap' = journal'[job.entry].cap
                        /\ job'.mode = IF job.mode = "apply" THEN "catch" ELSE job.mode
  BY FailedKeeps DEF AtHead
<1>2. DOMAIN journal' = DOMAIN journal /\ \A i \in DOMAIN journal : C(i)'.deps = C(i).deps
  BY FailedCaps
<1>3. Forward' => Forward /\ Cap'.deps = Cap.deps
  <2>1. Forward' => job' # Idle
    BY IdleIs DEF Forward
  <2>2. Forward' => Forward
    BY <1>1, <2>1 DEF Forward
  <2>3. job' # Idle => Cap'.deps = Cap.deps
    BY <1>1 DEF EntriesStay, C, Cap
  <2> QED
    BY <2>1, <2>2, <2>3
<1>4. /\ layers[0] = "whole" => layers'[0] = "whole"
      /\ Forward /\ layers[Cap.deps] = "whole" => layers'[Cap.deps] = "whole"
  <2>1. CASE layers' = layers
    BY <2>1
  <2>2. CASE layers' # layers
    <3>1. Residue(s)
      BY <2>2 DEF Failed
    <3>2. s = "layer"
      BY <1>1, <2>2, <3>1, ResidueFrame
    <3>3. layers' = [layers EXCEPT ![Cap.layer] = "partial"]
      BY <3>1, <3>2, ResidueIs
    <3>4. /\ DOMAIN layers = Gens /\ Cap.deps \in Gens /\ 0 \in Gens /\ Cap.layer \in Gens
          /\ Cap.deps < Cap.layer /\ \A g \in Gens : g \in Nat
      BY <1>1, <3>2, HasNumber, Numbers DEF Basic, Typed, LayerType
    <3> QED
      BY <3>3, <3>4
  <2> QED
    BY <2>1, <2>2
<1> QED
  BY <1>2, <1>3, <1>4, FirstsKept

LEMMA GrownFirsts ==
    ASSUME RoomChangesAssumption, Basic, Firsts, Grown, layers' = layers,
           LET c == journal'[Len(journal) + 1].cap IN c.deps \in {0, row.deps},
           Forward' => layers[Cap'.deps] = "whole"
    PROVE  Firsts'
<1>1. /\ Len(journal) \in Nat /\ DOMAIN journal = 1 .. Len(journal)
      /\ DOMAIN journal' = 1 .. (Len(journal) + 1)
  BY Length DEF Basic, Grown
<1>2. Len(journal) = 0 => row.deps = 0
  BY <1>1, Length DEF Basic, Numbered
<1>3. \A i \in DOMAIN journal' : i = 1 => C(i)'.deps = 0
  <2>1. SUFFICES ASSUME 1 \in DOMAIN journal'
                 PROVE  journal'[1].cap.deps = 0
    BY DEF C
  <2>2. CASE Len(journal) = 0
    BY <1>2, <2>2
  <2>3. CASE Len(journal) # 0
    <3>1. 1 \in DOMAIN journal
      BY <1>1, <2>3
    <3>2. journal'[1].cap = C(1)
      BY <3>1 DEF Grown
    <3> QED
      BY <3>1, <3>2 DEF Firsts
  <2> QED
    BY <2>2, <2>3
<1> QED
  BY <1>3 DEF Firsts

LEMMA ExecuteFirsts ==
    ASSUME RoomChangesAssumption, Basic, Layers, Firsts, NEW k \in Kinds, Execute(k)
    PROVE  Firsts'
<1>1. /\ Grown /\ layers' = layers /\ Cap'.deps = row.deps /\ job'.entry = Len(journal) + 1
  BY ExecuteIs DEF Outside
<1>2. journal'[Len(journal) + 1].cap = Cap'
  BY <1>1 DEF Cap
<1>3. layers[Cap'.deps] = "whole"
  BY <1>1 DEF Layers, LayerIsWhole
<1> QED
  BY <1>1, <1>2, <1>3, GrownFirsts

LEMMA UndoneFirsts ==
    ASSUME RoomChangesAssumption, Basic, Firsts, Undone
    PROVE  Firsts'
<1>1. /\ Grown /\ layers' = layers /\ journal'[Len(journal) + 1].cap = NoCapture /\ job' = Idle
  BY UndoneIs DEF Outside
<1>2. NoCapture.deps = 0 /\ ~Forward'
  BY <1>1, IdleIs DEF NoCapture, Forward
<1> QED
  BY <1>1, <1>2, GrownFirsts

LEMMA FirstsStay ==
    ASSUME RoomChangesAssumption, Basic, Firsts, CapsStay, layers' = layers,
           Forward' => Forward /\ job'.entry = job.entry /\ job.entry \in DOMAIN journal
    PROVE  Firsts'
<1>1. DOMAIN journal' = DOMAIN journal /\ \A i \in DOMAIN journal : C(i)'.deps = C(i).deps
  BY DEF CapsStay, C
<1>2. Forward' => Forward /\ Cap'.deps = Cap.deps
  BY <1>1 DEF C, Cap
<1> QED
  BY <1>1, <1>2, FirstsKept

LEMMA RestingFirsts ==
    ASSUME RoomChangesAssumption, Basic, Firsts
    PROVE  /\ Applied => Firsts'
           /\ \A q : Ends(q) => Firsts'
           /\ \A q : Returns(q) => Firsts'
           /\ \A e \in 1 .. MaxEntries : Undo(e) => Firsts'
           /\ \A e \in Edits : Write(e) => Firsts'
           /\ RoomSleeps \/ RoomStarts \/ Restart \/ UNCHANGED vars => Firsts'
<1>1. Applied => Firsts'
  <2> SUFFICES ASSUME Applied PROVE Firsts'
    OBVIOUS
  <2>1. CapsStay /\ layers' = layers /\ job'.mode = "verify"
    BY AppliedIs DEF Outside, Marked, CapsStay
  <2> QED
    BY <2>1, FirstsStay DEF Forward
<1>2. ASSUME NEW q, Ends(q)
      PROVE  Firsts'
  <2>1. CapsStay /\ layers' = layers /\ job'.mode = "idle"
    BY <1>2, IdleIs DEF Ends, Marked, CapsStay, Outside
  <2> QED
    BY <2>1, FirstsStay DEF Forward
<1>3. ASSUME NEW q, Returns(q)
      PROVE  Firsts'
  <2>1. CapsStay /\ layers' = layers /\ job.entry \in DOMAIN journal
        /\ (job.mode = "catch" \/ Kind = "domain")
    BY <1>3 DEF Returns, Marked, CapsStay, Outside
  <2>2. job'.entry = job.entry /\ Kind' = Kind
    BY <1>3, ReturnsKeeps
  <2> QED
    BY <2>1, <2>2, FirstsStay DEF Forward
<1>4. ASSUME NEW e \in 1 .. MaxEntries, Undo(e)
      PROVE  Firsts'
  <2>1. journal' = journal /\ layers' = layers /\ job'.mode = "undo"
    BY <1>4, UndoIs DEF Outside
  <2>2. CapsStay
    BY <2>1 DEF CapsStay, C
  <2> QED
    BY <2>1, <2>2, FirstsStay DEF Forward
<1>5. ASSUME UNCHANGED <<journal, layers, job>>
      PROVE  Firsts'
  BY <1>5 DEF Firsts, Forward, C, Cap, Kind
<1>6. ASSUME NEW e \in Edits, Write(e)
      PROVE  Firsts'
  BY <1>5, <1>6 DEF Write
<1>7. ASSUME RoomSleeps \/ RoomStarts \/ UNCHANGED vars
      PROVE  Firsts'
  BY <1>5, <1>7 DEF RoomSleeps, RoomStarts, vars
<1>8. ASSUME Restart
      PROVE  Firsts'
  <2>1. CapsStay /\ layers' = layers /\ job'.mode = "idle"
    BY <1>8, RestartIs, IdleIs
  <2> QED
    BY <2>1, FirstsStay DEF Forward
<1> QED
  BY <1>1, <1>2, <1>3, <1>4, <1>6, <1>7, <1>8

----------------------------------------------------------------------------
(* What the container of the Room runs.                                     *)

LEMMA DoingWeb ==
    ASSUME RoomChangesAssumption, Basic, NEW s, Doing(s)
    PROVE  /\ web.mode = "down" => web'.mode = "down"
           /\ s = "switch" => web'.gen = Cap.next /\ web'.config = row.config
           /\ s = "recreate" => web'.gen = row.gen /\ web'.config = row.config
           /\ s = "switchBack" => web'.mode = "down" \/ (web'.gen = Cap.gen /\ web'.config = row.config)
           /\ s \notin {"switch", "recreate", "switchBack"} => web'.gen = web.gen /\ web'.config = web.config
<1>1. AtHead(s) /\ Effect(s) /\ s \in Names /\ (Awake' <=> Awake) /\ web \in WebType
  BY DoingKeeps DEF Basic, Typed
<1>2. web.mode = "down" => web'.mode = "down"
  BY <1>1 DEF Awake
<1>3. s = "switch" => web'.gen = Cap.next /\ web'.config = row.config
  BY <1>1, EffectIs DEF Switch
<1>4. s = "recreate" => web'.gen = row.gen /\ web'.config = row.config
  BY <1>1, EffectIs DEF Mounted
<1>5. s = "switchBack" => web'.mode = "down" \/ (web'.gen = Cap.gen /\ web'.config = row.config)
  BY <1>1, EffectIs DEF Mounted, Nothing, Awake
<1>6. s \in {"pause", "hold", "resume"} => web' = web \/ \E m : web' = [web EXCEPT !.mode = m]
  BY <1>1, EffectIs DEF Suspended, Nothing
<1>7. s \notin WebChanges => web' = web
  BY <1>1, EffectFrame
<1>8. s \notin {"switch", "recreate", "switchBack"} => web'.gen = web.gen /\ web'.config = web.config
  BY <1>1, <1>6, <1>7 DEF WebChanges, WebType
<1> QED
  BY <1>2, <1>3, <1>4, <1>5, <1>8

LEMMA FailedWeb ==
    ASSUME RoomChangesAssumption, Basic, NEW s, Failed(s)
    PROVE  \/ web' = web \/ web'.mode = "down"
           \/ s = "resume" /\ web'.gen = row.gen /\ web'.config = row.config
           \/ s = "publishBack" /\ web'.gen = Cap.next /\ web'.config = row.config
<1>1. s \in Names /\ web \in WebType
  BY FailedKeeps DEF Basic, Typed
<1>2. CASE web' # web
  <2>1. Residue(s)
    BY <1>2 DEF Failed
  <2>2. s \in {"switch", "recreate", "switchBack", "resume", "publishBack"}
    BY <1>1, <1>2, <2>1, ResidueFrame
  <2>3. CASE s \in {"switch", "recreate", "switchBack"}
    <3>1. web' = [web EXCEPT !.mode = "down"]
      BY <1>2, <2>1, <2>3, ResidueIs
    <3> QED
      BY <1>1, <3>1 DEF WebType
  <2>4. CASE s = "resume"
    <3>1. web' = [mode |-> "running", gen |-> row.gen, config |-> row.config]
      BY <1>2, <2>1, <2>4, ResidueIs
    <3> QED
      BY <2>4, <3>1
  <2>5. CASE s = "publishBack"
    <3>1. \/ web' = [mode |-> "running", gen |-> Cap.next, config |-> row.config]
          \/ web' = [web EXCEPT !.mode = "down"]
      BY <2>1, <2>5, ResidueIs
    <3> QED
      BY <1>1, <2>5, <3>1 DEF WebType
  <2> QED
    BY <2>2, <2>3, <2>4, <2>5
<1> QED
  BY <1>2

\* An undo that still has a row to publish has a container to switch, or did.
LEMMA BothBack ==
    ASSUME Basic, job.mode \in {"rollback", "undo"}, OnStaging(Kind), NEW s, AtHead(s)
    PROVE  /\ "publishBack" \in Left /\ s # "publishBack" /\ "switchBack" \notin Left => FALSE
           /\ s = "switchBack" => "publishBack" \in Left \/ "discard" \in Left
<1>1. PICK p \in Back(Kind) : Suffix(p)
  BY DEF Basic, Shape
<1>2. s \in Left /\ \A t \in Left : t = s \/ Rank[s] < Rank[t]
  BY DEF AtHead
<1>3. p \in {{"refuse"}, {"switchBack", "discard"}, {"fingerprint", "switchBack", "publishBack", "forget"}}
  BY <1>1 DEF Back, OnStaging
<1>4. s = "switchBack" => "publishBack" \in Left \/ "discard" \in Left
  BY <1>1, <1>2, <1>3 DEF Suffix, Rank
<1>5. "publishBack" \in Left /\ s # "publishBack" => "switchBack" \in Left
  <2> SUFFICES ASSUME "publishBack" \in Left, s # "publishBack"
               PROVE  "switchBack" \in Left
    OBVIOUS
  <2>1. p = {"fingerprint", "switchBack", "publishBack", "forget"} /\ s \in p
    BY <1>1, <1>2, <1>3 DEF Suffix
  <2>2. s \in {"fingerprint", "switchBack"}
    BY <1>2, <2>1 DEF Rank
  <2>3. Rank[s] <= Rank["switchBack"]
    BY <2>2 DEF Rank
  <2> QED
    BY <1>1, <1>2, <2>1, <2>3 DEF Suffix
<1> QED
  BY <1>4, <1>5

\* A rollback never has a row to publish.
LEMMA NeverPublished ==
    ASSUME RoomChangesAssumption, Basic, Bases, job.mode = "rollback", OnStaging(Kind)
    PROVE  "publishBack" \notin Left
<1> SUFFICES ASSUME "publishBack" \in Left
             PROVE  FALSE
  OBVIOUS
<1>1. row.gen = Cap.next /\ row.gen = Cap.gen
  BY DEF Bases, UndoSide, Staged, AtBase
<1>2. Cap.next # NoEntry
  BY DEF Basic, Reserved
<1>3. job.entry \in DOMAIN journal /\ Cap = C(job.entry)
  BY DEF Basic, Typed, C, Cap
<1>4. Cap.gen < Cap.next /\ Cap.gen \in Nat
  BY <1>2, <1>3, Entry, Numbers DEF Basic, Numbered
<1> QED
  BY <1>1, <1>4

LEMMA DoingRunsRow ==
    ASSUME RoomChangesAssumption, Basic, Bases, Runs, NEW s, Doing(s)
    PROVE  RunsItsRow'
<1>1. /\ AtHead(s) /\ s \in Left /\ EntriesStay /\ CapStays(s) /\ Kind' = Kind /\ Cap' = journal'[job.entry].cap
      /\ job'.mode = job.mode /\ job'.entry = job.entry /\ Left' = Left \ {s}
  BY DoingKeeps
<1>2. Others => Others'
  BY <1>1 DEF Others, EntriesStay
<1>3. CASE s = "publish"
  <2>1. job.mode = "apply" /\ OnStaging(Kind) /\ "switch" \notin Left
    BY <1>1, <1>3, Where DEF Basic, AtHead, Rank
  <2>2. web.mode = "down" \/ web.gen = Cap.next
    BY <2>1 DEF Bases, Switched
  <2>3. row'.gen = Cap.next /\ web'.gen = web.gen /\ (web.mode = "down" => web'.mode = "down")
    BY <1>3, DoingRow, DoingWeb
  <2> QED
    BY <2>2, <2>3 DEF RunsItsRow
<1>4. CASE s = "publishBack"
  <2>1. job.mode \in {"rollback", "undo"} /\ OnStaging(Kind) /\ "switchBack" \notin Left
    BY <1>1, <1>4, Where DEF Basic, AtHead, Rank
  <2>2. job.mode = "undo"
    BY <1>1, <1>4, <2>1, NeverPublished
  <2>3. web.mode = "down" \/ web.gen = Cap.gen
    BY <1>1, <1>4, <2>1, <2>2 DEF Bases, GoesBack
  <2>4. row'.gen = Cap.gen /\ web'.gen = web.gen /\ (web.mode = "down" => web'.mode = "down")
    BY <1>4, DoingRow, DoingWeb
  <2> QED
    BY <2>3, <2>4 DEF RunsItsRow
<1>5. CASE s \notin {"publish", "publishBack"}
  <2>1. row'.gen = row.gen
    BY <1>5, DoingRow
  <2>2. CASE s = "switch"
    <3>1. job.mode = "apply" /\ OnStaging(Kind) /\ "publish" \in Left
      BY <1>1, <2>2, Where, StagingLeft DEF Basic
    <3> QED
      BY <1>1, <2>2, <3>1 DEF RunsItsRow, OnStaging
  <2>3. CASE s = "recreate"
    BY <2>1, <2>3, DoingWeb DEF RunsItsRow
  <2>4. CASE s = "switchBack"
    <3>1. job.mode \in {"rollback", "undo"} /\ OnStaging(Kind)
      BY <1>1, <2>4, Where DEF Basic
    <3>2. CASE "publishBack" \in Left
      <4>1. job.mode = "undo"
        BY <3>1, <3>2, NeverPublished
      <4> QED
        BY <1>1, <2>4, <3>1, <3>2, <4>1 DEF RunsItsRow, OnStaging
    <3>3. CASE "publishBack" \notin Left
      <4>1. "discard" \in Left
        BY <1>1, <2>4, <3>1, <3>3, BothBack
      <4>2. row.gen = Cap.gen
        BY <3>1, <4>1 DEF Bases, UndoSide, Untouched
      <4> QED
        BY <2>1, <2>4, <4>2, DoingWeb DEF RunsItsRow
    <3> QED
      BY <3>2, <3>3
  <2>5. CASE s \notin {"switch", "recreate", "switchBack"}
    <3>1. web'.gen = web.gen /\ (web.mode = "down" => web'.mode = "down")
      BY <2>5, DoingWeb
    <3>2. Cap'.switched = Cap.switched
      BY <1>1, <2>5 DEF CapStays
    <3> QED
      BY <1>1, <1>2, <1>5, <2>1, <2>5, <3>1, <3>2 DEF Runs, RunsItsRow, OnStaging
  <2> QED
    BY <2>2, <2>3, <2>4, <2>5
<1> QED
  BY <1>3, <1>4, <1>5

\* The steps of other settings.
LEMMA ConfigLeft ==
    ASSUME Basic, Kind = "config", NEW s, AtHead(s)
    PROVE  /\ job.mode = "catch" \/ s \in {"set", "setBack", "recreate"}
           /\ s \in {"set", "setBack"} /\ Awake => "recreate" \in Left
<1>1. s \in Left /\ job.mode \in {"apply", "catch", "rollback", "undo"}
  BY DEF AtHead
<1>2. CASE job.mode = "apply"
  <2>1. Suffix(Plan(Kind))
    BY <1>2 DEF Basic, Shape
  <2> QED
    BY <1>1, <2>1 DEF Suffix, Plan, Whole, Web, Rank
<1>3. CASE job.mode = "catch"
  <2>1. s = "resume"
    BY <1>1, <1>3 DEF Basic, Shape
  <2> QED
    BY <1>3, <2>1
<1>4. CASE job.mode \in {"rollback", "undo"}
  <2>1. PICK p \in Back(Kind) : Suffix(p)
    BY <1>4 DEF Basic, Shape
  <2>2. p = {t \in {"setBack", "recreate"} : Awake \/ t \notin Web}
    BY <2>1 DEF Back
  <2> QED
    BY <1>1, <2>1, <2>2 DEF Suffix, Web, Rank
<1> QED
  BY <1>1, <1>2, <1>3, <1>4

LEMMA DoingSettings ==
    ASSUME RoomChangesAssumption, Basic, Bases, Runs, NEW s, Doing(s)
    PROVE  HasItsSettings' /\ Recreated'
<1>1. /\ AtHead(s) /\ s \in Left /\ EntriesStay /\ Kind' = Kind /\ job.entry \in DOMAIN journal
      /\ job'.mode = job.mode /\ job'.entry = job.entry /\ Left' = Left \ {s} /\ (Awake' <=> Awake)
  BY DoingKeeps DEF AtHead
<1>2. Others => Others'
  BY <1>1 DEF Others, EntriesStay
<1>3. CASE s \in {"set", "setBack"}
  <2>1. Kind = "config" /\ (s = "set" => job.mode = "apply") /\ (s = "setBack" => job.mode \in {"rollback", "undo"})
    BY <1>1, <1>3, Where DEF Basic
  <2>2. CASE Awake
    <3>1. "recreate" \in Left'
      BY <1>1, <1>3, <2>1, <2>2, ConfigLeft
    <3>2. Recreated'
      BY <3>1 DEF Recreated
    <3>3. CASE job.mode \in {"apply", "rollback"}
      BY <1>1, <2>1, <3>1, <3>2, <3>3 DEF HasItsSettings
    <3>4. CASE job.mode = "undo"
      <4>1. row'.config = "old"
        BY <1>3, <2>1, <3>4, DoingRow
      <4>2. journal'[job.entry].kind = "config" /\ journal'[job.entry].status \in {"verified", "applied"}
        BY <1>1, <2>1, <3>4 DEF EntriesStay, Basic, Working, Kind
      <4>3. HalfUndone'
        BY <1>1, <4>1, <4>2 DEF HalfUndone, EntriesStay
      <4> QED
        BY <3>2, <4>3 DEF HasItsSettings
    <3> QED
      BY <1>3, <2>1, <3>3, <3>4
  <2>3. CASE ~Awake
    <3>1. web'.mode = "down"
      BY <1>1, <2>3 DEF Awake
    <3> QED
      BY <3>1 DEF HasItsSettings, Recreated
  <2> QED
    BY <2>2, <2>3
<1>4. CASE s \notin {"set", "setBack"}
  <2>1. row'.config = row.config
    BY <1>4, DoingRow
  <2>2. HalfUndone => HalfUndone'
    BY <1>1, <2>1 DEF HalfUndone, EntriesStay
  <2>3. CASE s \in {"switch", "recreate", "switchBack"}
    <3>1. web'.mode = "down" \/ web'.config = row.config
      BY <2>3, DoingWeb
    <3> QED
      BY <2>1, <3>1 DEF HasItsSettings, Recreated
  <2>4. CASE s \notin {"switch", "recreate", "switchBack"}
    <3>1. web'.config = web.config /\ (web.mode = "down" => web'.mode = "down")
      BY <2>4, DoingWeb
    <3>2. HasItsSettings'
      BY <1>1, <1>2, <2>1, <2>2, <2>4, <3>1 DEF Runs, HasItsSettings
    <3>3. Recreated'
      BY <1>1, <2>1, <2>4, <3>1 DEF Runs, Recreated
    <3> QED
      BY <3>2, <3>3
  <2> QED
    BY <2>3, <2>4
<1> QED
  BY <1>3, <1>4

LEMMA DoingRuns ==
    ASSUME RoomChangesAssumption, Basic, Bases, Runs, NEW s, Doing(s)
    PROVE  Runs'
BY DoingRunsRow, DoingSettings DEF Runs

LEMMA FailedRuns ==
    ASSUME RoomChangesAssumption, Basic, Bases, Runs, NEW s, Failed(s)
    PROVE  Runs'
<1>1. /\ AtHead(s) /\ s \in Left /\ EntriesStay /\ CapStays(s) /\ job.entry \in DOMAIN journal
      /\ row'.gen = row.gen /\ row'.config = row.config /\ job.mode \in {"apply", "catch", "rollback", "undo"}
  BY FailedKeeps DEF AtHead
<1>2. \/ web' = web \/ web'.mode = "down"
      \/ s = "resume" /\ web'.gen = row.gen /\ web'.config = row.config
      \/ s = "publishBack" /\ web'.gen = Cap.next /\ web'.config = row.config
  BY FailedWeb
<1>3. HalfUndone => HalfUndone'
  BY <1>1 DEF HalfUndone, EntriesStay
<1>4. CASE web' # web
  <2>1. web'.mode = "down" \/ (web'.gen = row.gen /\ web'.config = row.config)
    <3>1. CASE s = "publishBack"
      <4>1. job.mode \in {"rollback", "undo"} /\ OnStaging(Kind)
        BY <1>1, <3>1, Where DEF Basic
      <4>2. row.gen = Cap.next
        BY <1>1, <3>1, <4>1 DEF Bases, UndoSide, Staged
      <4> QED
        BY <1>2, <1>4, <4>2
    <3>2. CASE s # "publishBack"
      BY <1>2, <1>4, <3>2
    <3> QED
      BY <3>1, <3>2
  <2> QED
    BY <1>1, <2>1 DEF Runs, RunsItsRow, HasItsSettings, Recreated
<1>5. CASE web' = web /\ job.mode = "apply"
  <2>1. job'.mode = "catch" /\ job'.entry = job.entry /\ Kind' = Kind /\ Cap' = journal'[job.entry].cap
    <3>1. job' # Idle
      BY <1>1, <1>5, Where, IdleIs DEF Failed, Stopped, Basic
    <3> QED
      BY <1>5, <3>1, FailedKeeps
  <2>2. Others => Others'
    BY <1>1, <2>1 DEF Others, EntriesStay
  <2>3. ASSUME OnStaging(Kind), "switch" \notin Left
        PROVE  web'.mode = "down" \/ Cap'.switched
    <3>1. Cap'.switched = Cap.switched
      BY <1>1, <2>1, <2>3 DEF CapStays
    <3> QED
      BY <1>5, <2>3, <3>1 DEF Bases, Switched
  <2>4. RunsItsRow'
    BY <1>1, <1>5, <2>1, <2>2, <2>3 DEF Runs, RunsItsRow, OnStaging
  <2>5. HasItsSettings'
    BY <1>1, <1>3, <1>5, <2>1, <2>2 DEF Runs, HasItsSettings
  <2> QED
    BY <2>1, <2>4, <2>5 DEF Runs, Recreated
<1>6. CASE web' = web /\ job.mode # "apply" /\ job' # Idle
  <2>1. /\ job'.mode = job.mode /\ job'.entry = job.entry /\ Kind' = Kind /\ Cap' = journal'[job.entry].cap
        /\ Left' = Left \ {s} /\ (job.mode = "catch" \/ s = "forget")
    BY <1>1, <1>6, FailedKeeps DEF Failed, Stopped
  <2>2. Others => Others'
    BY <1>1, <2>1 DEF Others, EntriesStay
  <2>3. s # "switch" /\ (s = "forget" => OnStaging(Kind))
    BY <1>1, <1>6, Where DEF Basic
  <2>4. Cap'.switched = Cap.switched
    BY <1>1, <2>1, <2>3 DEF CapStays
  <2>5. job.mode = "catch" \/ s \notin {"switchBack", "publishBack", "recreate"}
    BY <2>1
  <2>6. RunsItsRow'
    BY <1>1, <1>6, <2>1, <2>2, <2>4, <2>5 DEF Runs, RunsItsRow, OnStaging
  <2>7. HasItsSettings'
    BY <1>1, <1>3, <1>6, <2>1, <2>2, <2>5 DEF Runs, HasItsSettings
  <2>8. Recreated'
    BY <1>1, <1>6, <2>1, <2>3 DEF Recreated, OnStaging
  <2> QED
    BY <2>6, <2>7, <2>8 DEF Runs
<1>7. CASE web' = web /\ job.mode # "apply" /\ job' = Idle
  <2>1. /\ job'.mode = "idle" /\ job'.entry = 0 /\ 0 \notin DOMAIN journal /\ DOMAIN journal' = DOMAIN journal
        /\ \A i \in DOMAIN journal : journal'[i].status = journal[i].status
    BY <1>1, <1>7, IdleIs, Length DEF EntriesStay, Basic
  <2>2. Others => Others'
    BY <2>1 DEF Others
  <2>3. s # "forget" /\ job.mode \in {"rollback", "undo"}
    <3>1. CASE job.mode = "catch" \/ s = "forget"
      <4>1. job'.mode = job.mode
        BY <1>7, <3>1, Where, <1>1 DEF Failed, Stopped, Basic
      <4> QED
        BY <1>1, <2>1, <4>1
    <3> QED
      BY <1>1, <1>7, <3>1
  <2>4. CASE job.mode = "rollback" /\ journal[job.entry].status = "failed"
    <3>1. Others'
      BY <1>1, <2>1, <2>4 DEF Others
    <3> QED
      BY <2>1, <3>1 DEF Runs, RunsItsRow, HasItsSettings, Recreated
  <2>5. CASE ~(job.mode = "rollback" /\ journal[job.entry].status = "failed")
    <3>1. \/ job.mode = "rollback" /\ Kind = "domain"
          \/ job.mode = "undo"
      BY <2>3, <2>5 DEF Basic, Working
    <3>2. CASE s # "publishBack" \/ ~OnStaging(Kind)
      <4>1. ~(job.mode = "undo" /\ OnStaging(Kind) /\ "switchBack" \notin Left /\ "publishBack" \in Left)
        BY <1>1, <2>3, <3>2, BothBack
      <4>2. RunsItsRow'
        BY <1>1, <1>7, <2>1, <2>2, <3>1, <4>1 DEF Runs, RunsItsRow, OnStaging
      <4>3. HasItsSettings'
        BY <1>1, <1>3, <1>7, <2>1, <2>2, <3>1 DEF Runs, HasItsSettings
      <4> QED
        BY <2>1, <4>2, <4>3 DEF Runs, Recreated
    <3>3. CASE s = "publishBack"
      <4>1. web'.mode = "down" \/ (web'.gen = Cap.next /\ web'.config = row.config)
        <5>1. Residue(s)
          BY <3>3 DEF Failed
        <5>2. \/ web' = [mode |-> "running", gen |-> Cap.next, config |-> row.config]
              \/ web' = [web EXCEPT !.mode = "down"]
          BY <3>3, <5>1, ResidueIs
        <5> QED
          BY <5>2 DEF Basic, Typed, WebType
      <4>2. OnStaging(Kind) /\ row.gen = Cap.next
        BY <1>1, <2>3, <3>3, Where DEF Basic, Bases, UndoSide, Staged
      <4> QED
        BY <1>1, <2>1, <4>1, <4>2 DEF Runs, RunsItsRow, HasItsSettings, Recreated
    <3> QED
      BY <3>2, <3>3
  <2> QED
    BY <2>4, <2>5
<1> QED
  BY <1>4, <1>5, <1>6, <1>7

\* Nothing is under way.
Quiet ==
    /\ web.mode = "down" \/ web.gen = row.gen \/ Others
    /\ web.mode = "down" \/ web.config = row.config \/ HalfUndone \/ Others

LEMMA QuietIs ==
    ASSUME Runs, job.mode \in {"idle", "verify"} \/ Left = {}, job.mode # "catch"
    PROVE  Quiet
BY DEF Runs, RunsItsRow, HasItsSettings, Quiet

LEMMA QuietRuns ==
    ASSUME Quiet', job'.mode \in {"idle", "verify", "unrevoked"}
    PROVE  Runs'
BY DEF Runs, RunsItsRow, HasItsSettings, Recreated, Quiet

LEMMA ExecuteRuns ==
    ASSUME RoomChangesAssumption, Basic, Runs, NEW k \in Kinds, Execute(k)
    PROVE  Runs'
<1>1. /\ job = Idle /\ row' = row /\ web' = web /\ (\A i \in DOMAIN journal : journal'[i] = journal[i])
      /\ DOMAIN journal \subseteq DOMAIN journal' /\ job'.entry \notin DOMAIN journal
      /\ job'.mode = "apply" /\ Left' = Plan(k) /\ Kind' = k
  BY ExecuteIs DEF Outside
<1>2. Quiet
  BY <1>1, IdleIs, QuietIs
<1>3. (Others => Others') /\ (HalfUndone => HalfUndone')
  BY <1>1 DEF Others, HalfUndone
<1>4. k = "config" /\ "recreate" \notin Plan(k) => ~Awake
  BY DEF Plan, Whole, Web
<1>5. Recreated'
  BY <1>1, <1>4 DEF Recreated, Awake
<1> QED
  BY <1>1, <1>2, <1>3, <1>5 DEF Quiet, Runs, RunsItsRow, HasItsSettings

LEMMA MarkedQuiet ==
    ASSUME RoomChangesAssumption, Basic, Quiet, NEW q, Marked(job.entry, q), job.entry \in DOMAIN journal,
           job'.entry = job.entry \/ job' = Idle,
           web' = web, row'.gen = row.gen, row'.config = row.config,
           journal[job.entry].status \in {"verified", "applied"} /\ Kind = "config" => q \in {"verified", "applied"}
    PROVE  Quiet'
<1>1. /\ DOMAIN journal' = DOMAIN journal /\ (\A i \in DOMAIN journal : journal'[i].kind = journal[i].kind)
      /\ (\A i \in DOMAIN journal : i # job.entry => journal'[i].status = journal[i].status)
      /\ journal'[job.entry].status = q /\ 0 \notin DOMAIN journal
  BY Length DEF Marked, Basic
<1>2. Others => Others'
  BY <1>1, IdleIs DEF Others
<1>3. HalfUndone => HalfUndone'
  <2>1. SUFFICES ASSUME NEW i \in DOMAIN journal, journal[i].kind = "config", journal[i].status \in {"verified", "applied"}
                 PROVE  journal'[i].kind = "config" /\ journal'[i].status \in {"verified", "applied"}
    BY <1>1 DEF HalfUndone
  <2>2. CASE i = job.entry
    BY <1>1, <2>1, <2>2 DEF Kind
  <2>3. CASE i # job.entry
    BY <1>1, <2>1, <2>3
  <2> QED
    BY <2>2, <2>3
<1> QED
  BY <1>2, <1>3 DEF Quiet

LEMMA AppliedRuns ==
    ASSUME RoomChangesAssumption, Basic, Runs, Applied
    PROVE  Runs'
<1>1. /\ Marked(job.entry, "applied") /\ row' = row /\ web' = web /\ job.mode = "apply" /\ Left = {}
      /\ job.entry \in DOMAIN journal /\ job'.mode = "verify" /\ job'.entry = job.entry
  BY AppliedIs DEF Outside
<1>2. Quiet
  BY <1>1, QuietIs
<1>3. Quiet'
  BY <1>1, <1>2, MarkedQuiet
<1> QED
  BY <1>1, <1>3, QuietRuns

LEMMA UnrevokedRuns ==
    ASSUME RoomChangesAssumption, Basic, Runs, Unrevoked
    PROVE  Runs'
<1>1. /\ job.mode = "catch" /\ Kind = "run" /\ row' = row /\ web' = web /\ journal' = journal
      /\ job'.mode = "unrevoked" /\ job'.entry = job.entry
  BY DEF Unrevoked
<1>2. Quiet
  BY <1>1 DEF Runs, RunsItsRow, HasItsSettings, Quiet, OnStaging
<1>3. (Others' <=> Others) /\ (HalfUndone' <=> HalfUndone)
  BY <1>1 DEF Others, HalfUndone
<1>4. Quiet'
  BY <1>1, <1>2, <1>3 DEF Quiet
<1> QED
  BY <1>1, <1>4, QuietRuns

LEMMA EndsRuns ==
    ASSUME RoomChangesAssumption, Basic, Runs, NEW q, Ends(q)
    PROVE  Runs'
<1>1. /\ Marked(job.entry, q) /\ web' = web /\ job' = Idle /\ job.entry \in DOMAIN journal /\ Left = {}
      /\ \/ job.mode = "verify" /\ q \in {"verified", "applied"}
         \/ job.mode = "rollback" /\ q = "rolled-back"
         \/ job.mode = "catch" /\ q = "failed" /\ ~MayRollback(Kind, Cap)
         \/ job.mode = "unrevoked" /\ q = "unrevoked"
  BY DEF Ends, Outside
<1>2. row'.gen = row.gen /\ row'.config = row.config
  BY EndsKeeps
<1>3. Quiet
  <2>1. CASE job.mode = "catch"
    <3>1. Kind # "config" /\ ~OnStaging(Kind)
      BY <1>1, <2>1 DEF MayRollback, Undoable, OnStaging
    <3> QED
      BY <2>1, <3>1 DEF Runs, RunsItsRow, HasItsSettings, Quiet
  <2>2. CASE job.mode # "catch"
    BY <1>1, <2>2, QuietIs
  <2> QED
    BY <2>1, <2>2
<1>4. journal[job.entry].status \in {"verified", "applied"} /\ Kind = "config" => q \in {"verified", "applied"}
  BY <1>1 DEF Basic, Working
<1>5. Quiet'
  BY <1>1, <1>2, <1>3, <1>4, MarkedQuiet
<1> QED
  BY <1>1, <1>5, QuietRuns, IdleIs

LEMMA ReturnsRuns ==
    ASSUME RoomChangesAssumption, Basic, Bases, Runs, NEW q, Returns(q)
    PROVE  Runs'
<1>1. /\ Marked(job.entry, q) /\ web' = web /\ row' = row /\ job.entry \in DOMAIN journal /\ Left = {}
      /\ \/ job.mode = "catch" /\ q = "failed"
         \/ job.mode = "verify" /\ q = "applied" /\ Kind = "domain"
  BY DEF Returns, Outside
<1>2. /\ Kind' = Kind /\ Cap' = Cap /\ job'.mode = "rollback" /\ job'.entry = job.entry /\ BackFor(Kind, Cap, Left')
  BY ReturnsKeeps
<1>3. journal[job.entry].status \in {"verified", "applied"} /\ Kind = "config" => q \in {"verified", "applied"}
  BY <1>1 DEF Basic, Working
<1>4. ASSUME OnStaging(Kind), Cap.switched, job.mode = "catch"
      PROVE  "switchBack" \in Left'
  <2>1. row.gen = Cap.gen /\ row.deps = Cap.deps
    BY <1>4 DEF Bases, AtBase
  <2>2. Cap = C(job.entry)
    BY DEF C, Cap
  <2>3. Cap.next # NoEntry /\ Cap.gen < Cap.next /\ Cap.gen \in Nat
    BY <1>1, <1>4, <2>2, Entry, Numbers DEF Basic, Captured1, Numbered
  <2>4. Untouched(Kind, Cap) /\ ~Staged(Kind, Cap)
    BY <2>1, <2>3 DEF Untouched, Staged
  <2> QED
    BY <1>2, <1>4, <2>3, <2>4 DEF BackFor, OnStaging
<1>5. Kind = "config" => "recreate" \in Left' \/ ~Awake
  <2>1. Kind = "config" => Left' = {s \in {"setBack", "recreate"} : Awake \/ s \notin Web}
    BY <1>2 DEF BackFor, Back
  <2> QED
    BY <2>1 DEF Web
<1>6. CASE Quiet
  <2>1. Quiet'
    BY <1>1, <1>2, <1>3, <1>6, MarkedQuiet
  <2>2. RunsItsRow' /\ HasItsSettings'
    BY <2>1 DEF Quiet, RunsItsRow, HasItsSettings
  <2>3. Recreated'
    BY <1>1, <1>2, <1>5 DEF Recreated, Awake
  <2> QED
    BY <2>2, <2>3 DEF Runs
<1>7. CASE job.mode = "catch"
  <2>1. Others => Others'
    BY <1>1, <1>2 DEF Others, Marked
  <2>2. HalfUndone => HalfUndone'
    <3>1. SUFFICES ASSUME NEW i \in DOMAIN journal, journal[i].kind = "config", journal[i].status \in {"verified", "applied"}
                   PROVE  journal'[i].kind = "config" /\ journal'[i].status \in {"verified", "applied"}
      BY <1>1 DEF HalfUndone, Marked
    <3>2. i # job.entry
      BY <1>7, <3>1 DEF Basic, Working
    <3> QED
      BY <1>1, <3>1, <3>2 DEF Marked
  <2>3. RunsItsRow'
    BY <1>1, <1>2, <1>4, <1>7, <2>1 DEF Runs, RunsItsRow, OnStaging
  <2>4. HasItsSettings'
    BY <1>1, <1>2, <1>5, <1>7, <2>1, <2>2 DEF Runs, HasItsSettings, Awake
  <2>5. Recreated'
    BY <1>1, <1>2, <1>5 DEF Recreated, Awake
  <2> QED
    BY <2>3, <2>4, <2>5 DEF Runs
<1> QED
  BY <1>1, <1>6, <1>7, QuietIs

LEMMA UndoRuns ==
    ASSUME RoomChangesAssumption, Basic, Runs, NEW e \in 1 .. MaxEntries, Undo(e)
    PROVE  Runs'
<1>1. /\ job = Idle /\ row' = row /\ web' = web /\ journal' = journal /\ e \in DOMAIN journal
      /\ journal[e].status \in {"verified", "applied"} /\ job'.entry = e /\ job'.mode = "undo"
      /\ Kind' = journal[e].kind /\ BackFor(journal[e].kind, C(e), Left')
  BY UndoIs DEF Outside
<1>2. Quiet
  BY <1>1, IdleIs, QuietIs
<1>3. Others => Others'
  BY <1>1 DEF Others
<1>4. HalfUndone' <=> HalfUndone
  BY <1>1 DEF HalfUndone
<1>5. Kind' = "config" => "recreate" \in Left' \/ ~Awake
  <2>1. Kind' = "config" => Left' = {s \in {"setBack", "recreate"} : Awake \/ s \notin Web}
    BY <1>1 DEF BackFor, Back
  <2> QED
    BY <2>1 DEF Web
<1>6. Recreated'
  BY <1>1, <1>5 DEF Recreated, Awake
<1> QED
  BY <1>1, <1>2, <1>3, <1>4, <1>6 DEF Quiet, Runs, RunsItsRow, HasItsSettings

LEMMA UndoneRuns ==
    ASSUME RoomChangesAssumption, Basic, Runs, Undone
    PROVE  Runs'
<1>1. /\ job.mode = "undo" /\ Left = {} /\ job' = Idle /\ web' = web /\ row'.gen = row.gen /\ row'.config = row.config
      /\ job.entry \in DOMAIN journal /\ DOMAIN journal \subseteq DOMAIN journal'
      /\ (\A i \in DOMAIN journal : i # job.entry => journal'[i] = journal[i])
  BY UndoneIs DEF Outside
<1>2. Quiet /\ 0 \notin DOMAIN journal
  BY <1>1, QuietIs, Length DEF Basic
<1>3. Others => Others'
  BY <1>1, <1>2, IdleIs DEF Others
<1>4. HalfUndone => HalfUndone' \/ web.mode = "down" \/ web.config = row.config
  <2>1. SUFFICES ASSUME NEW i \in DOMAIN journal, row.config = "old", journal[i].kind = "config",
                        journal[i].status \in {"verified", "applied"}
                 PROVE  HalfUndone' \/ web.mode = "down" \/ web.config = row.config
    BY DEF HalfUndone
  <2>2. CASE i = job.entry
    BY <1>1, <2>1, <2>2 DEF Runs, Recreated, Kind
  <2>3. CASE i # job.entry
    BY <1>1, <2>1, <2>3 DEF HalfUndone
  <2> QED
    BY <2>2, <2>3
<1>5. Quiet'
  BY <1>1, <1>2, <1>3, <1>4 DEF Quiet
<1> QED
  BY <1>1, <1>5, QuietRuns, IdleIs

LEMMA AroundRuns ==
    ASSUME RoomChangesAssumption, Basic, Runs
    PROVE  /\ \A e \in Edits : Write(e) => Runs'
           /\ RoomSleeps \/ RoomStarts \/ Restart \/ UNCHANGED vars => Runs'
<1>1. ASSUME UNCHANGED <<row, web, journal, job>>
      PROVE  Runs'
  <2>1. Left' = Left /\ Kind' = Kind /\ Cap' = Cap /\ (Others' <=> Others) /\ (HalfUndone' <=> HalfUndone)
    BY <1>1 DEF Left, Kind, Cap, Others, HalfUndone
  <2> QED
    BY <1>1, <2>1 DEF Runs, RunsItsRow, HasItsSettings, Recreated, OnStaging
<1>2. ASSUME NEW e \in Edits, Write(e)
      PROVE  Runs'
  BY <1>1, <1>2 DEF Write
<1>3. ASSUME RoomSleeps
      PROVE  Runs'
  <2>1. web'.mode = "down"
    BY <1>3, RoomSleepsIs
  <2> QED
    BY <2>1 DEF Runs, RunsItsRow, HasItsSettings, Recreated
<1>4. ASSUME RoomStarts
      PROVE  Runs'
  <2>1. web'.gen = row.gen /\ web'.config = row.config /\ row' = row
    BY <1>4 DEF RoomStarts
  <2> QED
    BY <2>1 DEF Runs, RunsItsRow, HasItsSettings, Recreated
<1>5. ASSUME Restart
      PROVE  Runs'
  <2>1. web'.mode = "down"
    BY <1>5, RestartIs
  <2> QED
    BY <2>1 DEF Runs, RunsItsRow, HasItsSettings, Recreated
<1>6. ASSUME UNCHANGED vars
      PROVE  Runs'
  BY <1>1, <1>6 DEF vars
<1> QED
  BY <1>2, <1>3, <1>4, <1>5, <1>6

----------------------------------------------------------------------------
(* No write is lost, when the programs do not write while an undo runs.     *)

EditsKept == Fingerprinted /\ NoEditLost

LEMMA DoingEdits ==
    ASSUME RoomChangesAssumption, Basic, Bases, Trees, EditsKept, NEW s, Doing(s)
    PROVE  EditsKept'
<1>1. /\ AtHead(s) /\ Effect(s) /\ s \in Left /\ Kind' = Kind /\ job'.mode = job.mode
      /\ Left' = Left \ {s} /\ s \in Names /\ job.entry \in DOMAIN journal /\ Cap = C(job.entry)
  BY DoingKeeps DEF AtHead, C, Cap
<1>2. seen' = seen /\ Unchanged(s)
  BY DEF Doing
<1>3. Fingerprinted /\ seen \subseteq trees[row.gen].edits
  BY DEF EditsKept, NoEditLost
<1>4. Fingerprinted'
  <2>1. SUFFICES ASSUME job.mode = "undo", OnStaging(Kind), "publishBack" \in Left', "fingerprint" \notin Left'
                 PROVE  trees'[Cap'.next].edits = Cap'.out
    BY <1>1 DEF Fingerprinted, OnStaging
  <2>2. s \in {"refuse", "switchBack", "discard", "fingerprint", "publishBack", "forget"}
    BY <1>1, <2>1, StagedBack
  <2>3. "publishBack" \in Left /\ s \notin {"publishBack", "forget", "discard"}
    BY <1>1, <2>1 DEF AtHead, Rank
  <2>4. journal' = journal /\ trees' = trees
    BY <1>1, <2>2, <2>3, EffectFrame DEF CaptureSteps, Discards
  <2>5. Cap' = Cap
    BY <2>4 DEF Cap, Doing
  <2>6. trees[Cap.next].edits = Cap.out
    BY <1>1, <1>2, <1>3, <2>1, <2>3 DEF Fingerprinted, Unchanged
  <2> QED
    BY <2>4, <2>5, <2>6
<1>5. NoEditLost'
  <2>1. CASE s \in {"copy", "forget", "discard"}
    <3>1. row.gen < Cap.next /\ Cap.next \in Gens
      BY <1>1, <2>1, Beyond
    <3>2. PICK t : trees' = [trees EXCEPT ![Cap.next] = t]
      BY <1>1, <2>1, EffectIs DEF Copy, Discard, Discards
    <3>3. \A g \in Gens : g <= row.gen => trees[g].edits \subseteq trees'[g].edits
      BY <3>1, <3>2, ElsewhereTrees
    <3>4. row'.gen = row.gen /\ row.gen \in Gens /\ row.gen <= row.gen
      BY <2>1, DoingRow, Length DEF Basic
    <3> QED
      BY <1>2, <1>3, <3>3, <3>4 DEF NoEditLost
  <2>2. CASE s = "publish"
    <3>1. row.gen = Cap.gen /\ row'.gen = Cap.next
      BY <2>2, DoingRow
    <3>2. trees' = trees
      BY <1>1, <2>2, EffectFrame DEF Discards
    <3>3. job.mode = "apply" /\ OnStaging(Kind)
      BY <1>1, <2>2, Where DEF Basic
    <3>4. "copy" \notin Left /\ "compare" \notin Left
      BY <1>1, <2>2 DEF AtHead, Rank
    <3>5. Cap.src \subseteq trees[Cap.next].edits /\ trees[Cap.gen].edits = Cap.src
      BY <1>1, <2>2, <3>3, <3>4 DEF Bases, Copied
    <3> QED
      BY <1>2, <1>3, <3>1, <3>2, <3>5 DEF NoEditLost
  <2>3. CASE s = "publishBack"
    <3>1. row.gen = Cap.next /\ row.rev = Cap.rev + 1 /\ row'.gen = Cap.gen
      BY <2>3, DoingRow
    <3>2. trees' = trees
      BY <1>1, <2>3, EffectFrame DEF Discards
    <3>3. job.mode \in {"rollback", "undo"} /\ OnStaging(Kind)
      BY <1>1, <2>3, Where DEF Basic
    <3>4. job.mode = "undo"
      BY <1>1, <2>3, <3>3, NeverPublished
    <3>5. "fingerprint" \notin Left
      BY <1>1, <2>3 DEF AtHead, Rank
    <3>6. trees[Cap.next].edits = Cap.out
      BY <1>1, <1>3, <2>3, <3>3, <3>4, <3>5 DEF Fingerprinted
    <3>7. IsLatest(job.entry)
      BY <1>1, <3>1 DEF IsLatest
    <3>8. Cap.out \subseteq trees[Cap.gen].edits
      BY <1>1, <3>7 DEF Trees, ParentTrees
    <3> QED
      BY <1>2, <1>3, <3>1, <3>2, <3>6, <3>8 DEF NoEditLost
  <2>4. CASE s \notin {"copy", "forget", "discard", "publish", "publishBack"}
    <3>1. row'.gen = row.gen /\ trees' = trees
      BY <1>1, <2>4, DoingRow, EffectFrame DEF Discards
    <3> QED
      BY <1>2, <1>3, <3>1 DEF NoEditLost
  <2> QED
    BY <2>1, <2>2, <2>3, <2>4
<1> QED
  BY <1>4, <1>5 DEF EditsKept

\* A step that fails touches no workspace that the row names.
LEMMA FailedElsewhere ==
    ASSUME RoomChangesAssumption, Basic, Bases, NEW s, Failed(s)
    PROVE  trees[row.gen].edits \subseteq trees'[row.gen].edits
<1>1. AtHead(s) /\ s \in Names
  BY FailedKeeps
<1>2. CASE trees' = trees
  BY <1>2
<1>3. CASE trees' # trees
  <2>1. Residue(s)
    BY <1>3 DEF Failed
  <2>2. s \in {"copy", "forget", "discard"}
    BY <1>1, <1>3, <2>1, ResidueFrame DEF Discards
  <2>3. row.gen < Cap.next /\ Cap.next \in Gens
    BY <1>1, <2>2, Beyond
  <2>4. PICK t : trees' = [trees EXCEPT ![Cap.next] = t]
    BY <1>3, <2>1, <2>2, ResidueIs DEF Discards
  <2>5. row.gen \in Gens /\ row.gen <= row.gen
    BY Length DEF Basic
  <2> QED
    BY <2>3, <2>4, <2>5, ElsewhereTrees
<1> QED
  BY <1>2, <1>3

LEMMA FailedEdits ==
    ASSUME RoomChangesAssumption, Basic, Bases, EditsKept, NEW s, Failed(s)
    PROVE  EditsKept'
<1>1. AtHead(s) /\ row'.gen = row.gen /\ seen' = seen
  BY FailedKeeps DEF Failed
<1>2. NoEditLost'
  BY <1>1, FailedElsewhere DEF EditsKept, NoEditLost
<1>3. Fingerprinted'
  <2>1. SUFFICES ASSUME job'.mode = "undo", "publishBack" \in Left'
                 PROVE  FALSE
    BY DEF Fingerprinted
  <2>2. s = "forget" /\ Left' = Left \ {s}
    BY <2>1, IdleIs DEF Failed, Stopped, AtHead
  <2> QED
    BY <1>1, <2>1, <2>2 DEF AtHead, Rank
<1> QED
  BY <1>2, <1>3 DEF EditsKept

\* Nothing moves the row or a workspace.
LEMMA RestingEdits ==
    ASSUME EditsKept, row'.gen = row.gen, trees' = trees, seen' = seen, job'.mode # "undo"
    PROVE  EditsKept'
BY DEF EditsKept, Fingerprinted, NoEditLost

LEMMA UndoEdits ==
    ASSUME RoomChangesAssumption, Basic, EditsKept, NEW e \in 1 .. MaxEntries, Undo(e)
    PROVE  EditsKept'
<1>1. /\ row' = row /\ trees' = trees /\ seen' = seen /\ Kind' = journal[e].kind
      /\ BackFor(journal[e].kind, C(e), Left')
  BY UndoIs DEF Outside
<1>2. OnStaging(Kind)' /\ "publishBack" \in Left' => "fingerprint" \in Left'
  BY <1>1 DEF BackFor, OnStaging
<1> QED
  BY <1>1, <1>2 DEF EditsKept, Fingerprinted, NoEditLost

LEMMA WriteEdits ==
    ASSUME RoomChangesAssumption, ~EditsInUndo, Basic, EditsKept, NEW e \in Edits, Write(e)
    PROVE  EditsKept'
<1>1. /\ Aside /\ web' = web /\ job.mode # "undo"
      /\ \A g \in Gens : trees'[g].edits = IF g = web.gen THEN trees[g].edits \cup {e} ELSE trees[g].edits
      /\ seen' = IF web.gen = row.gen THEN seen \cup {e} ELSE seen
  BY WriteIs
<1>2. row' = row /\ job' = job /\ row.gen \in Gens
  BY <1>1, Length DEF Aside, Basic
<1>3. Fingerprinted'
  BY <1>1, <1>2 DEF Fingerprinted
<1>4. NoEditLost'
  BY <1>1, <1>2 DEF EditsKept, NoEditLost
<1> QED
  BY <1>3, <1>4 DEF EditsKept

LEMMA AroundEdits ==
    ASSUME RoomChangesAssumption, Basic, EditsKept, RoomSleeps \/ RoomStarts \/ Restart \/ UNCHANGED vars
    PROVE  EditsKept'
<1>1. CASE RoomSleeps \/ RoomStarts \/ Restart
  <2>1. row' = row /\ trees' = trees /\ seen' = seen /\ job'.mode = "idle"
    BY <1>1, RoomSleepsIs, RoomStartsIs, RestartIs, IdleIs DEF Aside
  <2> QED
    BY <2>1, RestingEdits
<1>2. CASE UNCHANGED vars
  <2>1. /\ row' = row /\ trees' = trees /\ seen' = seen /\ job' = job
        /\ Left' = Left /\ Kind' = Kind /\ Cap' = Cap
    BY <1>2, StutterBasic DEF vars
  <2> QED
    BY <2>1 DEF EditsKept, Fingerprinted, NoEditLost, OnStaging
<1> QED
  BY <1>1, <1>2

----------------------------------------------------------------------------
(* The initial states and every step.                                       *)

LEMMA InitIs ==
    ASSUME RoomChangesAssumption, Init
    PROVE  /\ row.gen = 0 /\ row.deps = 0 /\ row.config = "old" /\ 0 \in Gens
           /\ trees[0].state = "whole" /\ layers[0] = "whole"
           /\ web.gen = 0 /\ web.config = "old" /\ data = "whole"
           /\ DOMAIN journal = {} /\ snapshots = {} /\ receipts = {} /\ seen = {}
           /\ job.mode = "idle"
<1>1. 0 \in Gens
  BY Numbers
<1>2. trees[0].state = "whole" /\ layers[0] = "whole"
  BY <1>1 DEF Init
<1>3. DOMAIN journal = {}
  BY DEF Init
<1> QED
  BY <1>1, <1>2, <1>3 DEF Init, Idle

LEMMA InitHolds ==
    ASSUME RoomChangesAssumption, Init
    PROVE  IInv
<1>1. Basic
  BY InitBasic
<1>2. Dumps /\ Earned
  BY InitIs DEF Dumps, Covered, Earned, ReceiptsAreEarned
<1>3. Bases
  BY InitIs DEF Bases, AtBase, Newest, Copied, Layered, Switched, UndoSide, GoesBack
<1>4. Trees
  BY InitIs DEF Trees, ParentTrees, Dated, TreeIsWhole
<1>5. Layers
  BY InitIs DEF Layers, LayersStay, ParentLayers, LayerIsWhole
<1>8. Firsts
  BY InitIs DEF Firsts, Forward
<1>6. Runs
  BY InitIs DEF Runs, RunsItsRow, HasItsSettings, Recreated
<1>7. Fingerprinted /\ NoEditLost
  BY InitIs DEF Fingerprinted, NoEditLost
<1> QED
  BY <1>1, <1>2, <1>3, <1>4, <1>5, <1>6, <1>7, <1>8 DEF IInv

\* What an action must keep, for the two parts that need an assumption.
Core == Basic /\ Dumps /\ Earned /\ Bases /\ Trees /\ Runs
Given == (ChangesApart => Layers /\ Firsts) /\ (~EditsInUndo => EditsKept)

LEMMA IInvIs == IInv <=> Core /\ Given
BY DEF IInv, Core, Given, EditsKept

LEMMA DoingHolds ==
    ASSUME RoomChangesAssumption, Core, Given, NEW s, Doing(s)
    PROVE  Core' /\ Given'
<1>1. Core'
  BY DoingBasic, DoingDumps, DoingEarned, DoingBases, DoingTrees, DoingRuns DEF Core
<1>2. Given'
  BY DoingLayers, DoingFirsts, DoingEdits DEF Core, Given, ChangesApart
<1> QED
  BY <1>1, <1>2

LEMMA FailedHolds ==
    ASSUME RoomChangesAssumption, Core, Given, NEW s, Failed(s)
    PROVE  Core' /\ Given'
<1>1. Core'
  BY FailedBasic, FailedDumps, FailedEarned, FailedBases, FailedTrees, FailedRuns DEF Core
<1>2. Given'
  BY FailedLayers, FailedFirsts, FailedEdits DEF Core, Given, ChangesApart
<1> QED
  BY <1>1, <1>2

LEMMA ExecuteHolds ==
    ASSUME RoomChangesAssumption, Core, Given, NEW k \in Kinds, Execute(k)
    PROVE  Core' /\ Given'
<1>1. Core'
  BY ExecuteBasic, ExecuteDumps, ExecuteEarned, ExecuteBases, ExecuteTrees, ExecuteRuns DEF Core
<1>2. EditsKept => EditsKept'
  <2>1. row' = row /\ trees' = trees /\ seen' = seen /\ job'.mode = "apply"
    BY ExecuteIs DEF Core, Outside
  <2> QED
    BY <2>1, RestingEdits
<1>3. Given'
  BY <1>2, ExecuteLayers, ExecuteFirsts DEF Core, Given, ChangesApart
<1> QED
  BY <1>1, <1>3

LEMMA UndoHolds ==
    ASSUME RoomChangesAssumption, Core, Given, NEW e \in 1 .. MaxEntries, Undo(e)
    PROVE  Core' /\ Given'
<1>1. Core'
  BY UndoBasic, UndoDumps, UndoEarned, UndoBases, AroundTrees, UndoRuns DEF Core
<1>2. Given'
  BY UndoEdits, AroundLayers, RestingFirsts DEF Core, Given, ChangesApart
<1> QED
  BY <1>1, <1>2

LEMMA WriteHolds ==
    ASSUME RoomChangesAssumption, Core, Given, NEW e \in Edits, Write(e)
    PROVE  Core' /\ Given'
<1>1. Basic' /\ Aside /\ data' = data
  BY WriteIs DEF Core
<1>2. Core'
  BY <1>1, AsideDumps, AsideEarned, WriteBases, AroundTrees, AroundRuns DEF Core
<1>3. Given'
  BY WriteEdits, AroundLayers, RestingFirsts DEF Core, Given, ChangesApart
<1> QED
  BY <1>2, <1>3

LEMMA AppliedHolds ==
    ASSUME RoomChangesAssumption, Core, Given, Applied
    PROVE  Core' /\ Given'
<1>1. job'.mode = "verify" /\ row' = row /\ trees' = trees /\ seen' = seen
  BY AppliedIs DEF Core, Outside
<1>2. Core'
  BY <1>1, AppliedBasic, AppliedDumps, AppliedEarned, RestingBases, MarkedTrees, AppliedRuns DEF Core
<1>3. Given'
  BY <1>1, RestingEdits, MarkedLayers, RestingFirsts DEF Core, Given, ChangesApart
<1> QED
  BY <1>2, <1>3

LEMMA UnrevokedHolds ==
    ASSUME RoomChangesAssumption, Core, Given, Unrevoked
    PROVE  Core' /\ Given'
<1>1. job'.mode = "unrevoked" /\ UNCHANGED <<row, trees, layers, journal, seen>> /\ CapsStay
  BY UnrevokedBasic DEF Core, Unrevoked
<1>2. Trees'
  BY <1>1, TreesStay DEF Core
<1>3. Core'
  BY <1>1, <1>2, UnrevokedBasic, UnrevokedDumps, UnrevokedEarned, RestingBases, UnrevokedRuns DEF Core
<1>4. Layers => Layers'
  BY <1>1, LayersSame DEF Core
<1>5. Firsts => Firsts'
  BY <1>1, FirstsStay DEF Core, Forward
<1>6. Given'
  BY <1>1, <1>4, <1>5, RestingEdits DEF Given, ChangesApart
<1> QED
  BY <1>3, <1>6

LEMMA EndsHolds ==
    ASSUME RoomChangesAssumption, Core, Given, NEW q, Ends(q)
    PROVE  Core' /\ Given'
<1>1. job'.mode = "idle" /\ row'.gen = row.gen /\ trees' = trees /\ seen' = seen
  BY EndsKeeps, IdleIs DEF Core, Ends, Outside
<1>2. Core'
  BY <1>1, EndsBasic, EndsDumps, EndsEarned, RestingBases, MarkedTrees, EndsRuns DEF Core
<1>3. Given'
  BY <1>1, RestingEdits, MarkedLayers, RestingFirsts DEF Core, Given, ChangesApart
<1> QED
  BY <1>2, <1>3

LEMMA ReturnsHolds ==
    ASSUME RoomChangesAssumption, Core, Given, NEW q, Returns(q)
    PROVE  Core' /\ Given'
<1>1. job'.mode = "rollback" /\ row' = row /\ trees' = trees /\ seen' = seen
  BY ReturnsKeeps DEF Core, Returns, Outside
<1>2. Core'
  BY ReturnsBasic, ReturnsDumps, ReturnsEarned, ReturnsBases, MarkedTrees, ReturnsRuns DEF Core
<1>3. Given'
  BY <1>1, RestingEdits, MarkedLayers, RestingFirsts DEF Core, Given, ChangesApart
<1> QED
  BY <1>2, <1>3

LEMMA UndoneHolds ==
    ASSUME RoomChangesAssumption, Core, Given, Undone
    PROVE  Core' /\ Given'
<1>1. job'.mode = "idle" /\ row'.gen = row.gen /\ trees' = trees /\ seen' = seen
  BY UndoneIs, IdleIs DEF Core, Outside
<1>2. Core'
  BY <1>1, UndoneBasic, UndoneDumps, UndoneEarned, RestingBases, UndoneTrees, UndoneRuns DEF Core
<1>3. Given'
  BY <1>1, RestingEdits, UndoneLayers, UndoneFirsts DEF Core, Given, ChangesApart
<1> QED
  BY <1>2, <1>3

LEMMA AroundHolds ==
    ASSUME RoomChangesAssumption, Core, Given, RoomSleeps \/ RoomStarts \/ Restart
    PROVE  Core' /\ Given'
<1>1. Basic' /\ job'.mode = "idle"
  BY RoomSleepsIs, RoomStartsIs, RestartBasic, RestartIs, IdleIs DEF Core, Aside
<1>2. Dumps' /\ Earned'
  <2>1. CASE RoomSleeps \/ RoomStarts
    <3>1. Aside /\ (data' = data \/ data = "none")
      BY <2>1, RoomSleepsIs, RoomStartsIs DEF Core
    <3> QED
      BY <3>1, AsideDumps, AsideEarned DEF Core
  <2>2. CASE Restart
    BY <2>2, RestartDumps, RestartEarned DEF Core
  <2> QED
    BY <2>1, <2>2
<1>3. Core'
  BY <1>1, <1>2, RestingBases, AroundTrees, AroundRuns DEF Core
<1>4. Given'
  BY AroundEdits, AroundLayers, RestingFirsts DEF Core, Given, ChangesApart
<1> QED
  BY <1>3, <1>4

LEMMA StutterHolds ==
    ASSUME RoomChangesAssumption, Core, Given, UNCHANGED vars
    PROVE  Core' /\ Given'
<1>1. Dumps' /\ Earned'
  <2>1. Aside /\ data' = data
    BY DEF vars, Aside
  <2> QED
    BY <2>1, AsideDumps, AsideEarned DEF Core
<1>2. Core'
  BY <1>1, StutterBasic, StutterBases, AroundTrees, AroundRuns DEF Core
<1>3. Given'
  BY AroundEdits, AroundLayers, RestingFirsts DEF Core, Given, ChangesApart
<1> QED
  BY <1>2, <1>3

LEMMA NextHolds ==
    ASSUME RoomChangesAssumption, IInv, [Next]_vars
    PROVE  IInv'
<1>1. Core /\ Given /\ Basic /\ Typed /\ Shape /\ Working
  BY IInvIs DEF Core, Basic
<1>2. SUFFICES Core' /\ Given'
  BY DEF IInv, Core, Given, EditsKept
<1>3. ASSUME NEW k \in Kinds, Execute(k) PROVE Core' /\ Given'
  BY <1>1, <1>3, ExecuteHolds
<1>4. ASSUME NEW e \in 1 .. MaxEntries, Undo(e) PROVE Core' /\ Given'
  BY <1>1, <1>4, UndoHolds
<1>5. ASSUME NEW e \in Edits, Write(e) PROVE Core' /\ Given'
  BY <1>1, <1>5, WriteHolds
<1>6. CASE StepDone
  <2>1. PICK s \in Names : Doing(s)
    BY <1>1, <1>6, StepIs
  <2> QED
    BY <1>1, <2>1, DoingHolds
<1>7. CASE StepFails
  <2>1. ASSUME NEW s \in Names, Failed(s) PROVE Core' /\ Given'
    BY <1>1, <2>1, FailedHolds
  <2>2. CASE Unrevoked
    BY <1>1, <2>2, UnrevokedHolds
  <2> QED
    BY <1>1, <1>7, <2>1, <2>2, FailIs
<1>8. CASE Applied
  BY <1>1, <1>8, AppliedHolds
<1>9. CASE Verified
  BY <1>1, <1>9, VerifiedIs, EndsHolds, ReturnsHolds
<1>10. CASE ApplyFailed
  BY <1>1, <1>10, ApplyFailedIs, EndsHolds, ReturnsHolds
<1>11. CASE RolledBack
  BY <1>1, <1>11, RolledBackIs, EndsHolds
<1>12. CASE Undone
  BY <1>1, <1>12, UndoneHolds
<1>13. CASE RoomSleeps \/ RoomStarts \/ Restart
  BY <1>1, <1>13, AroundHolds
<1>14. CASE UNCHANGED vars
  BY <1>1, <1>14, StutterHolds
<1> QED
  BY <1>3, <1>4, <1>5, <1>6, <1>7, <1>8, <1>9, <1>10, <1>11, <1>12, <1>13, <1>14 DEF Next

----------------------------------------------------------------------------
(* The theorems.                                                            *)

\* The inductive invariant holds in every state: the engine's list of steps
\* and the status of its entry fit, numbers are reserved once, and the volumes,
\* the container and the journal are what the steps that were done made them.
THEOREM Inductive == ASSUME RoomChangesAssumption PROVE Spec => []IInv
<1>1. Init => IInv
  BY InitHolds
<1>2. IInv /\ [Next]_vars => IInv'
  BY NextHolds
<1> QED
  BY <1>1, <1>2, PTL DEF Spec

LEMMA TypedIs == ASSUME Typed PROVE TypeOK
<1>1. \A i \in DOMAIN journal :
         /\ journal[i].status \in {"pending", "applied", "verified", "failed", "unrevoked", "rolled-back", "undone"}
         /\ journal[i].kind \in Kinds \cup {"undo"} /\ journal[i].cap \in Captures
  BY Entry DEF Statuses, C
<1>2. /\ job.mode \in {"idle", "apply", "catch", "unrevoked", "verify", "rollback", "undo"}
      /\ job # Idle => job.entry \in DOMAIN journal
  BY DEF Typed, JobType, Modes
<1>3. snapshots \cup receipts \subseteq DOMAIN journal
  BY DEF Typed
<1> QED
  BY <1>1, <1>2, <1>3 DEF Typed, TypeOK, RowType, SpentType, TreeType, LayerType, WebType

\* Every variable of the change engine has its type: no step names a volume, an
\* entry of the journal or a captured value that is none.
THEOREM TypeCorrect == ASSUME RoomChangesAssumption PROVE Spec => []TypeOK
<1>1. IInv => TypeOK
  BY TypedIs DEF IInv, Basic
<1> QED
  BY <1>1, Inductive, PTL

\* The Room's row names a whole workspace, whichever change ran, whichever step
\* failed and wherever the process died: a copy is published once it is whole,
\* and what the row names is never discarded.
THEOREM WorkspaceIsWhole == ASSUME RoomChangesAssumption PROVE Spec => []TreeIsWhole
<1>1. IInv => TreeIsWhole
  BY DEF IInv, Trees
<1> QED
  BY <1>1, Inductive, PTL

\* The data of a service is in its volume or in a dump that the journal names:
\* nothing drops or overwrites a volume before its dump was captured.
THEOREM DataSurvives == ASSUME RoomChangesAssumption PROVE Spec => []DataIsCovered
<1>1. IInv => DataIsCovered
  BY DEF IInv, Dumps, Covered, C, DataIsCovered
<1> QED
  BY <1>1, Inductive, PTL

\* The receipt of a tracked install belongs to a run that is under way or
\* succeeded, or to one whose journal entry says that its receipts could not be
\* revoked; the handlers of a failed run and the restart revoke all others. A build
\* snapshot belongs to a change that is under way or did not succeed.
THEOREM ReceiptsHold == ASSUME RoomChangesAssumption PROVE Spec => []ReceiptsAreEarned
<1>1. IInv => ReceiptsAreEarned
  BY DEF IInv, Earned
<1> QED
  BY <1>1, Inductive, PTL

\* While no change is recorded as failed, a running Room runs on the generation
\* and with the settings of its row, also after a rollback and after an undo.
THEOREM RunsItsGeneration == ASSUME RoomChangesAssumption PROVE Spec => []RunsWhatIsPublished
<1>1. IInv => RunsWhatIsPublished
  <2>1. SUFFICES ASSUME Runs, job = Idle, web.mode = "running",
                        \A i \in DOMAIN journal :
                           journal[i].status \in {"verified", "applied", "rolled-back", "undone"}
                 PROVE  web.gen = row.gen /\ (web.config = row.config \/ HalfUndone)
    BY DEF IInv, RunsWhatIsPublished
  <2>2. ~Others /\ job.mode = "idle"
    BY <2>1, IdleIs DEF Others
  <2> QED
    BY <2>1, <2>2 DEF Runs, RunsItsRow, HasItsSettings
<1> QED
  BY <1>1, Inductive, PTL

\* Neither publishing a staged copy nor taking it back loses a write: the copy
\* is compared with its origin while nothing runs, and an undo compares it with
\* what was published.  A program that writes during an undo comes after that
\* comparison, so the theorem is about Rooms whose programs do not.
THEOREM EditsSurvive == ASSUME RoomChangesAssumption, ~EditsInUndo PROVE Spec => []NoEditLost
<1>1. IInv => NoEditLost
  BY DEF IInv
<1> QED
  BY <1>1, Inductive, PTL

\* The row names whole volumes only, in a Room whose dependencies are not both
\* installed and cleanly installed: the undo of an install removes a layer
\* that a later clean install's undo may point the row at.
THEOREM PublishedHolds == ASSUME RoomChangesAssumption, ChangesApart PROVE Spec => []PublishedIsWhole
<1>1. IInv => PublishedIsWhole
  BY DEF IInv, Trees, Layers, TreeIsWhole, LayerIsWhole, PublishedIsWhole
<1> QED
  BY <1>1, Inductive, PTL

\* All that a run checks of the change engine, for any journal, any edits and
\* any number of crashes.
THEOREM EveryChangeHolds ==
    ASSUME RoomChangesAssumption, ChangesApart, ~EditsInUndo
    PROVE  Spec => []ChangesHold
BY PublishedHolds, EditsSurvive, DataSurvives, RunsItsGeneration, ReceiptsHold, PTL DEF ChangesHold
=============================================================================
